--------------------------- MODULE ChainScanProofs ---------------------------
(***************************************************************************)
(* IndexComplete for any bids, auctions, window, batches, failures and     *)
(* crashes.  The index is complete up to the cursor and, while a batch     *)
(* runs, up to the block it has read: the window's move may skip blocks,   *)
(* but only those before the OPEN of every auction it keeps.               *)
(***************************************************************************)
EXTENDS ChainScan, TLAPS

Running == scan.at \in {"batch", "ended"}

ScanTyped ==
    /\ blocks \in Seq(Block)
    /\ first \in Nat /\ last \in Nat
    /\ rows \in [Bids -> {"none", "bid", "revealed"}]
    /\ scan \in [at : {"sleeps", "asked", "batch", "ended"}, tip : Nat, done : Nat]
    /\ replaced \in BOOLEAN

\* Bids follow their OPEN, reveals their bid.
ChainOrder ==
    \A h \in 1..Height, b \in Bids :
        /\ BidAt(b, h) => OpenOf[b] < h
        /\ RevealAt(b, h) => \E i \in 1..(h - 1) : BidAt(b, i)

\* The heights of a pass.
Heights ==
    /\ last <= Height
    /\ scan.tip <= Height
    /\ Running => last <= scan.done /\ scan.done <= scan.tip
    /\ scan.at = "batch" => scan.done < scan.tip /\ scan.done < last + Batch

\* Of the auctions that are kept, every bid and reveal up to n.
Has(n) ==
    \A b \in Bids, h \in 1..n :
        first <= OpenOf[b] => /\ BidAt(b, h) => rows[b] # "none"
                              /\ RevealAt(b, h) => rows[b] = "revealed"

\* No bid and no reveal that was not mined.
Mined ==
    \A b \in Bids :
        /\ rows[b] # "none" => \E h \in 1..Height : BidAt(b, h)
        /\ rows[b] = "revealed" => \E h \in 1..Height : RevealAt(b, h)

Complete == Has(last) /\ (Running => Has(scan.done)) /\ Mined

ScanInv == ScanTyped /\ ChainOrder /\ Heights /\ (replaced \/ Complete)

-----------------------------------------------------------------------------
LEMMA ScanInitHolds == ScanInit => ScanInv
<1> SUFFICES ASSUME ScanInit PROVE ScanInv
  OBVIOUS
<1>1. blocks \in Seq(Block) /\ Height = 0
  BY DEF ScanInit, Height
<1>2. ScanTyped
  BY <1>1 DEF ScanInit, ScanTyped, Waiting
<1>. QED
  BY <1>1, <1>2 DEF ScanInit, ScanInv, ChainOrder, Heights, Complete, Has, Mined, Running, Waiting

LEMMA InvImplies == ScanInv => IndexComplete
BY DEF ScanInv, Complete, Has, Mined, IndexComplete, Before, ScanTyped, Heights, Height

-----------------------------------------------------------------------------
(* The chain.                                                              *)

LEMMA MineKeeps == ASSUME ScanInv, MineBlock PROVE ScanInv'
<1>1. PICK block \in Minable(Height + 1) : blocks' = Append(blocks, block)
  BY DEF MineBlock
<1>2. block \in Block
  BY <1>1 DEF Minable, Block
<1>3. /\ Height \in Nat /\ Height' = Height + 1
      /\ blocks' \in Seq(Block)
      /\ \A i \in 1..Height : blocks'[i] = blocks[i]
      /\ blocks'[Height + 1] = block
  BY <1>1, <1>2 DEF ScanInv, ScanTyped, Height
<1>4. /\ \A i \in 1..Height, b \in Bids :
            (BidAt(b, i) <=> BidAt(b, i)') /\ (RevealAt(b, i) <=> RevealAt(b, i)')
  BY <1>3 DEF BidAt, RevealAt
<1>5. ScanTyped'
  BY <1>3 DEF ScanInv, ScanTyped, MineBlock, cursor
<1>6. ChainOrder'
  <2> SUFFICES ASSUME NEW h \in 1..Height', NEW b \in Bids
               PROVE  /\ BidAt(b, h)' => OpenOf[b] < h
                      /\ RevealAt(b, h)' => \E i \in 1..(h - 1) : BidAt(b, i)'
    BY <1>3 DEF ChainOrder
  <2>1. CASE h \in 1..Height
    BY <2>1, <1>3, <1>4 DEF ScanInv, ChainOrder
  <2>2. CASE h = Height + 1
    <3>1. BidAt(b, h)' => OpenOf[b] < h
      BY <2>2, <1>1, <1>3 DEF BidAt, Minable
    <3>2. RevealAt(b, h)' => \E i \in 1..Height : BidAt(b, i)
      BY <2>2, <1>1, <1>3 DEF RevealAt, Minable
    <3> QED
      BY <3>1, <3>2, <2>2, <1>3, <1>4
  <2> QED
    BY <2>1, <2>2, <1>3
<1>7. Heights'
  BY <1>3 DEF ScanInv, ScanTyped, Heights, MineBlock, cursor, Running
<1>8. ASSUME Complete PROVE Complete'
  BY <1>3, <1>4, <1>8 DEF ScanInv, ScanTyped, Heights, Complete, Has, Mined, MineBlock, cursor, Running
<1>. QED
  BY <1>5, <1>6, <1>7, <1>8 DEF ScanInv, MineBlock

LEMMA ReplaceKeeps == ASSUME ScanInv, ReplaceLast PROVE ScanInv'
<1>1. Bare \in Block
  BY DEF Bare, Block
<1>2. PICK n \in Nat \ {0} : n = Height /\ blocks \in Seq(Block)
  BY DEF ReplaceLast, ScanInv, ScanTyped, Height
<1> DEFINE shorter == [blocks EXCEPT ![n] = Bare]
<1>3. /\ shorter \in Seq(Block) /\ Len(shorter) = n
      /\ \A i \in 1..(n - 1) : shorter[i] = blocks[i]
      /\ shorter[n] = Bare
  BY <1>1, <1>2 DEF Height
<1>4. blocks' = Append(shorter, Bare)
  BY <1>2 DEF ReplaceLast
<1> HIDE DEF shorter
<1>5. /\ Height' = n + 1
      /\ blocks' \in Seq(Block)
      /\ \A i \in 1..(n - 1) : blocks'[i] = blocks[i]
      /\ blocks'[n] = Bare /\ blocks'[n + 1] = Bare
  BY <1>1, <1>2, <1>3, <1>4 DEF Height
<1>6. \A i \in 1..(n - 1), b \in Bids :
          (BidAt(b, i) <=> BidAt(b, i)') /\ (RevealAt(b, i) <=> RevealAt(b, i)')
  BY <1>5 DEF BidAt, RevealAt
<1>7. \A b \in Bids : /\ ~BidAt(b, n)' /\ ~BidAt(b, n + 1)'
                      /\ ~RevealAt(b, n)' /\ ~RevealAt(b, n + 1)'
  BY <1>5 DEF BidAt, RevealAt, Bare
<1>8. ScanTyped'
  BY <1>5 DEF ScanInv, ScanTyped, ReplaceLast, cursor
<1>9. ChainOrder'
  <2> SUFFICES ASSUME NEW h \in 1..Height', NEW b \in Bids
               PROVE  /\ BidAt(b, h)' => OpenOf[b] < h
                      /\ RevealAt(b, h)' => \E i \in 1..(h - 1) : BidAt(b, i)'
    BY DEF ChainOrder
  <2>1. CASE h \in 1..(n - 1)
    BY <2>1, <1>2, <1>6 DEF ScanInv, ChainOrder
  <2>2. CASE h \in {n, n + 1}
    BY <2>2, <1>7
  <2> QED
    BY <2>1, <2>2, <1>2, <1>5
<1>10. Heights'
  BY <1>2, <1>5 DEF ScanInv, ScanTyped, Heights, ReplaceLast, cursor, Running
<1>11. ASSUME Complete, ~Scanned(Height) PROVE Complete'
  <2>1. last < n /\ scan.done < n
    BY <1>2, <1>11 DEF Scanned, Larger, ScanInv, ScanTyped
  <2>2. Has(last)'
    BY <1>2, <1>6, <1>11, <2>1 DEF Complete, Has, ReplaceLast, cursor, ScanInv, ScanTyped
  <2>3. Running' => Has(scan.done)'
    BY <1>2, <1>6, <1>11, <2>1 DEF Complete, Has, ReplaceLast, cursor, ScanInv, ScanTyped, Running
  <2>4. Mined'
    <3> SUFFICES ASSUME NEW b \in Bids
                 PROVE  /\ rows[b] # "none" => \E h \in 1..Height' : BidAt(b, h)'
                        /\ rows[b] = "revealed" => \E h \in 1..Height' : RevealAt(b, h)'
      BY DEF Mined, ReplaceLast
    <3>1. ASSUME rows[b] # "none" PROVE \E h \in 1..(n - 1) : BidAt(b, h)
      BY <3>1, <1>2, <1>11 DEF Complete, Mined, Scanned
    <3>2. ASSUME rows[b] = "revealed" PROVE \E h \in 1..(n - 1) : RevealAt(b, h)
      BY <3>2, <1>2, <1>11 DEF Complete, Mined, Scanned
    <3> QED
      BY <3>1, <3>2, <1>2, <1>5, <1>6
  <2> QED
    BY <2>2, <2>3, <2>4 DEF Complete
<1>. QED
  BY <1>8, <1>9, <1>10, <1>11 DEF ScanInv, ReplaceLast

-----------------------------------------------------------------------------
(* The loop.                                                               *)

\* The chain rests.
LEMMA ChainRests ==
  ASSUME ScanInv, UNCHANGED <<blocks, replaced>>
  PROVE  /\ ChainOrder' /\ Height' = Height /\ Height \in Nat
         /\ \A h, b : (BidAt(b, h) <=> BidAt(b, h)') /\ (RevealAt(b, h) <=> RevealAt(b, h)')
<1>1. /\ Height' = Height /\ Height \in Nat
      /\ \A h, b : (BidAt(b, h) <=> BidAt(b, h)') /\ (RevealAt(b, h) <=> RevealAt(b, h)')
  BY DEF ScanInv, ScanTyped, Height, BidAt, RevealAt
<1>. QED
  BY <1>1 DEF ScanInv, ChainOrder

LEMMA AskKeeps == ASSUME ScanInv, AskTip PROVE ScanInv'
<1>1. UNCHANGED <<blocks, replaced>>
  BY DEF AskTip
<1>2. ScanTyped' /\ Heights'
  BY <1>1, ChainRests DEF AskTip, ScanInv, ScanTyped, Heights, Running, cursor
<1>3. Complete => Complete'
  BY <1>1, ChainRests DEF AskTip, ScanInv, ScanTyped, Complete, Has, Mined, Running, cursor
<1>. QED
  BY <1>1, <1>2, <1>3, ChainRests DEF ScanInv

LEMMA AdvanceKeeps == ASSUME ScanInv, Advance PROVE ScanInv'
<1>1. UNCHANGED <<blocks, replaced>>
  BY DEF Advance
<1> DEFINE from == scan.tip - Retained + 1
<1>2. /\ scan.at = "asked" /\ scan.tip \in Nat /\ Retained \in Nat /\ first \in Nat /\ last \in Nat
      /\ from \in Int /\ from - 1 <= scan.tip
      /\ scan.tip <= Height /\ last <= Height /\ Height \in Nat
  BY <1>1, ScanAssumption, ChainRests DEF Advance, ScanInv, ScanTyped, Heights
<1>3. CASE first < from
  <2>1. /\ first' = from /\ last' = Larger(last, from - 1)
        /\ rows' = [b \in Bids |-> IF OpenOf[b] < from THEN "none" ELSE rows[b]]
    BY <1>3 DEF Advance, Aged
  <2>2. first' \in Nat /\ last' \in Nat /\ last' <= Height /\ first <= first'
        /\ (last' = last \/ last' = from - 1)
    BY <2>1, <1>2, <1>3 DEF Larger
  <2>3. scan' = IF last' >= scan.tip THEN Waiting ELSE [scan EXCEPT !.at = "batch", !.done = last']
    BY DEF Advance
  <2>4. ScanTyped'
    BY <1>1, <2>1, <2>2, <2>3 DEF ScanInv, ScanTyped, Waiting
  <2>5. Heights'
    BY <1>1, <1>2, <2>2, <2>3, ScanAssumption, ChainRests DEF ScanInv, ScanTyped, Heights, Waiting, Running
  <2>6. ASSUME Complete PROVE Has(last)' /\ Mined'
    <3>1. Has(last)'
      <4> SUFFICES ASSUME NEW b \in Bids, NEW h \in 1..(last'), first' <= OpenOf[b]
                   PROVE  /\ BidAt(b, h) => rows'[b] # "none"
                          /\ RevealAt(b, h) => rows'[b] = "revealed"
        BY <1>1, ChainRests DEF Has
      <4>1. rows'[b] = rows[b] /\ OpenOf[b] \in Nat
        BY <2>1, ScanAssumption, <1>2
      <4>2. CASE h <= last
        BY <4>1, <4>2, <2>2, <2>6, <1>2 DEF Complete, Has
      <4>3. CASE h <= from - 1
        <5>1. \A i \in 1..h : ~BidAt(b, i)
          BY <4>1, <4>3, <2>1, <2>2, <1>2 DEF ScanInv, ChainOrder
        <5>2. ~RevealAt(b, h)
          BY <5>1, <2>2, <1>2 DEF ScanInv, ChainOrder
        <5> QED
          BY <5>1, <5>2, <2>2
      <4> QED
        BY <4>2, <4>3, <2>2
    <3>2. Mined'
      BY <1>1, <2>1, <2>6, ChainRests DEF Complete, Mined
    <3> QED
      BY <3>1, <3>2
  <2>7. Complete => Complete'
    BY <2>2, <2>3, <2>6, <1>2 DEF Complete, Running, Waiting, Has, ScanInv, ScanTyped
  <2> QED
    BY <1>1, <2>4, <2>5, <2>7, ChainRests DEF ScanInv
<1>4. CASE ~(first < from)
  <2>1. first' = first /\ last' = last /\ rows' = rows
    BY <1>4 DEF Advance, ScanInv, ScanTyped
  <2>2. scan' = IF last >= scan.tip THEN Waiting ELSE [scan EXCEPT !.at = "batch", !.done = last]
    BY <2>1 DEF Advance
  <2>3. ScanTyped'
    BY <1>1, <2>1, <2>2 DEF ScanInv, ScanTyped, Waiting
  <2>4. Heights'
    BY <1>1, <1>2, <2>1, <2>2, ScanAssumption, ChainRests DEF ScanInv, ScanTyped, Heights, Waiting, Running
  <2>5. Complete => Complete'
    BY <1>1, <1>2, <2>1, <2>2, ChainRests DEF ScanInv, ScanTyped, Complete, Has, Mined, Waiting, Running
  <2> QED
    BY <1>1, <2>3, <2>4, <2>5, ChainRests DEF ScanInv
<1>. QED
  BY <1>3, <1>4

LEMMA ScanKeeps == ASSUME ScanInv, ScanBlock PROVE ScanInv'
<1>1. UNCHANGED <<blocks, replaced, first, last>>
  BY DEF ScanBlock, cursor
<1>2. /\ scan.at = "batch" /\ scan.done \in Nat /\ scan.tip \in Nat /\ last \in Nat
      /\ Height \in Nat /\ scan.done + 1 \in 1..Height /\ scan.done < scan.tip /\ last <= scan.done
      /\ scan.done < last + Batch /\ Batch \in Nat \ {0}
  BY ScanAssumption, <1>1, ChainRests DEF ScanBlock, ScanInv, ScanTyped, Heights, Running
<1>0. PICK n \in Nat : n = scan.done + 1
  BY <1>2
<1>3. /\ scan'.done = n /\ scan'.tip = scan.tip
      /\ scan'.at = IF n = EndOfBatch THEN "ended" ELSE "batch"
      /\ scan' \in [at : {"batch", "ended"}, tip : Nat, done : Nat]
  BY <1>0, <1>2 DEF ScanBlock, ScanInv, ScanTyped
<1>4. rows' = Indexed(blocks[n]) /\ rows' \in [Bids -> {"none", "bid", "revealed"}]
  BY <1>0 DEF ScanBlock, Indexed, ScanInv, ScanTyped
<1>5. \A b \in Bids :
         /\ RevealAt(b, n) /\ (rows[b] # "none" \/ BidAt(b, n)) => rows'[b] = "revealed"
         /\ BidAt(b, n) => rows'[b] # "none"
         /\ rows[b] # "none" => rows'[b] # "none"
         /\ rows[b] = "revealed" => rows'[b] = "revealed"
         /\ rows'[b] # "none" => rows[b] # "none" \/ BidAt(b, n)
         /\ rows'[b] = "revealed" => rows[b] = "revealed" \/ RevealAt(b, n)
  BY <1>4 DEF Indexed, BidAt, RevealAt, ScanInv, ScanTyped
<1>6. ScanTyped'
  BY <1>1, <1>3, <1>4 DEF ScanInv, ScanTyped
<1>7. Heights'
  BY <1>0, <1>1, <1>2, <1>3, ChainRests, ScanAssumption DEF ScanInv, Heights, Running, EndOfBatch, Smaller
<1>8. ASSUME Complete PROVE Complete'
  <2>1. Has(n)'
    <3> SUFFICES ASSUME NEW b \in Bids, NEW h \in 1..n, first <= OpenOf[b]
                 PROVE  /\ BidAt(b, h) => rows'[b] # "none"
                        /\ RevealAt(b, h) => rows'[b] = "revealed"
      BY <1>1, ChainRests DEF Has
    <3>1. CASE h \in 1..scan.done
      BY <3>1, <1>0, <1>2, <1>5, <1>8 DEF Complete, Has, Running
    <3>2. CASE h = n
      <4>1. ASSUME RevealAt(b, n) PROVE \E i \in 1..scan.done : BidAt(b, i)
        BY <4>1, <1>0, <1>2 DEF ScanInv, ChainOrder
      <4>2. RevealAt(b, n) => rows[b] # "none"
        BY <4>1, <1>2, <1>8 DEF Complete, Has, Running
      <4> QED
        BY <3>2, <4>2, <1>5
    <3> QED
      BY <3>1, <3>2, <1>0, <1>2
  <2>2. Has(last)'
    BY <2>1, <1>0, <1>1, <1>2 DEF Has
  <2>3. Mined'
    BY <1>0, <1>1, <1>2, <1>5, <1>8, ChainRests DEF Complete, Mined
  <2> QED
    BY <2>1, <2>2, <2>3, <1>3 DEF Complete
<1>. QED
  BY <1>1, <1>6, <1>7, <1>8, ChainRests DEF ScanInv

\* The batch, the app or the loop ends: the cursor moves to what was read, or rests.
LEMMA EndsKeep ==
  ASSUME ScanInv, ScanBlockFails \/ SaveCursor \/ SaveCursorFails \/ ScannerEnds
  PROVE  ScanInv'
<1>1. /\ UNCHANGED <<blocks, replaced, first, rows>>
      /\ last' = last \/ (scan.at = "ended" /\ last' = scan.done)
      /\ scan' = Waiting \/ (scan.at = "batch" /\ scan' = [scan EXCEPT !.at = "ended"])
  BY DEF ScanBlockFails, SaveCursor, SaveCursorFails, ScannerEnds, Reached, cursor
<1>2. scan.at = "batch" => last' = last
  BY <1>1
<1>3. ScanTyped'
  BY <1>1 DEF ScanInv, ScanTyped, Waiting
<1>4. Heights'
  BY <1>1, <1>2, ChainRests DEF ScanInv, ScanTyped, Heights, Waiting, Running
<1>5. Complete => Complete'
  BY <1>1, <1>2, ChainRests DEF ScanInv, ScanTyped, Complete, Has, Mined, Waiting, Running
<1>. QED
  BY <1>1, <1>3, <1>4, <1>5, ChainRests DEF ScanInv

\* Every step of the chain and of the scanner keeps the invariant.
LEMMA StepKeeps == ASSUME ScanInv, [ScanNext]_scanVars PROVE ScanInv'
<1>1. CASE UNCHANGED scanVars
  <2>1. UNCHANGED <<blocks, replaced, first, last, rows, scan>>
    BY <1>1 DEF scanVars, cursor
  <2>2. ScanTyped' /\ Heights' /\ (Complete => Complete')
    BY <2>1, ChainRests DEF ScanInv, ScanTyped, Heights, Complete, Has, Mined, Running
  <2> QED
    BY <2>1, <2>2, ChainRests DEF ScanInv
<1>. QED
  BY <1>1, MineKeeps, ReplaceKeeps, AskKeeps, AdvanceKeeps, ScanKeeps, EndsKeep DEF ScanNext

\* Within the bounds of the chain and of what may go wrong, nothing leaves its type.
LEMMA ScanTypesStart == ScanInit => ScanTypeOK
<1> SUFFICES ASSUME ScanInit PROVE ScanTypeOK
  OBVIOUS
<1>1. blocks \in Seq(Block) /\ Height = 0
  BY DEF ScanInit, Height
<1>2. scan \in [at : {"sleeps", "asked", "batch", "ended"}, tip : 0..LastHeight, done : 0..LastHeight]
  BY ScanAssumption DEF ScanInit, Waiting
<1>. QED
  <2>1. first = 0 /\ last = 0 /\ reorgs = 0 /\ crashes = 0 /\ replaced \in BOOLEAN
        /\ rows \in [Bids -> {"none", "bid", "revealed"}]
    BY DEF ScanInit
  <2>2. 0 \in 0..LastHeight /\ 0 \in 0..MaxReorgs /\ 0 \in 0..MaxCrashes /\ 0 <= LastHeight
    BY ScanAssumption
  <2>. QED
    BY <1>1, <1>2, <2>1, <2>2 DEF ScanTypeOK

LEMMA ScanTypesHold == ScanInv /\ ScanTypeOK /\ [ScanNext]_scanVars => ScanTypeOK'
<1> SUFFICES ASSUME ScanInv, ScanTypeOK, [ScanNext]_scanVars PROVE ScanTypeOK'
  OBVIOUS
<1>. USE ScanAssumption DEF ScanTypeOK
<1>1. ScanTyped' /\ Heights
  BY StepKeeps DEF ScanInv
<1>2. blocks' \in Seq(Block) /\ Height' \in Nat /\ Height \in Nat
  BY <1>1 DEF ScanTyped, Height
<1>3. CASE MineBlock
  <2>1. Height' = Height + 1
    BY <1>3 DEF MineBlock, Height
  <2>. QED
    BY <1>1, <1>2, <1>3, <2>1 DEF MineBlock, cursor
<1>4. CASE ReplaceLast
  <2>1. Height' = Height + 1
    BY <1>4 DEF ReplaceLast, Height, Bare, Block
  <2>. QED
    BY <1>1, <1>2, <1>4, <2>1 DEF ReplaceLast, cursor, ScanTyped
<1>5. CASE Advance
  <2> DEFINE from == scan.tip - Retained + 1
  <2>1. from \in Int /\ from <= LastHeight
    OBVIOUS
  <2>2. first' = (IF first < from THEN from ELSE first)
        /\ last' = (IF first < from THEN Larger(last, from - 1) ELSE last)
    BY <1>5 DEF Advance
  <2>3. scan' = Waiting \/ scan' = [scan EXCEPT !.at = "batch", !.done = last']
    BY <1>5 DEF Advance
  <2> HIDE DEF from
  <2>4. first' \in 0..LastHeight /\ last' \in 0..LastHeight
    BY <2>1, <2>2 DEF Larger
  <2>5. scan' \in [at : {"sleeps", "asked", "batch", "ended"}, tip : 0..LastHeight, done : 0..LastHeight]
    <3>1. Waiting \in [at : {"sleeps", "asked", "batch", "ended"}, tip : 0..LastHeight, done : 0..LastHeight]
      BY DEF Waiting
    <3>2. [scan EXCEPT !.at = "batch", !.done = last']
            \in [at : {"sleeps", "asked", "batch", "ended"}, tip : 0..LastHeight, done : 0..LastHeight]
      BY <2>4
    <3>. QED
      BY <2>3, <3>1, <3>2
  <2>. QED
    BY <1>1, <1>2, <1>5, <2>4, <2>5 DEF Advance, ScanTyped, Height
<1>6. CASE AskTip \/ ScanBlock \/ ScanBlockFails
  <2>1. scan' \in [at : {"sleeps", "asked", "batch", "ended"}, tip : 0..LastHeight, done : 0..LastHeight]
    <3>1. CASE AskTip \/ ScanBlockFails
      BY <1>2, <3>1 DEF AskTip, ScanBlockFails
    <3>2. CASE ScanBlock
      <4>1. scan.done + 1 \in 0..LastHeight
        BY <1>2, <3>2 DEF ScanBlock
      <4>. QED
        BY <3>2, <4>1 DEF ScanBlock
    <3>. QED
      BY <1>6, <3>1, <3>2
  <2>. QED
    BY <1>1, <1>2, <1>6, <2>1 DEF AskTip, ScanBlock, ScanBlockFails, cursor, ScanTyped, Height
<1>7. CASE SaveCursor \/ SaveCursorFails \/ ScannerEnds
  <2>1. scan' \in [at : {"sleeps", "asked", "batch", "ended"}, tip : 0..LastHeight, done : 0..LastHeight]
        /\ last' \in 0..LastHeight /\ first' = first
    BY <1>7 DEF SaveCursor, SaveCursorFails, ScannerEnds, cursor, Waiting, Reached
  <2>. QED
    BY <1>1, <1>2, <1>7, <2>1 DEF SaveCursor, SaveCursorFails, ScannerEnds, ScanTyped, Height
<1>8. CASE UNCHANGED scanVars
  BY <1>1, <1>2, <1>8 DEF scanVars, cursor, Height
<1>. QED
  BY <1>3, <1>4, <1>5, <1>6, <1>7, <1>8 DEF ScanNext

LEMMA ScanTypesKept == ScanSpec => []ScanTypeOK
<1>1. ScanInit => ScanInv /\ ScanTypeOK
  BY ScanInitHolds, ScanTypesStart
<1>2. ScanInv /\ ScanTypeOK /\ [ScanNext]_scanVars => (ScanInv /\ ScanTypeOK)'
  BY StepKeeps, ScanTypesHold
<1>. QED
  BY <1>1, <1>2, PTL DEF ScanSpec

(* The index of the auctions that are kept is complete up to the stored    *)
(* cursor, for any number of bids and blocks and whatever fails and when   *)
(* (run_chain_scanner and advance_scan_window, chain_scan.rs:71, 482).     *)
THEOREM IndexCompleteCorrect == ScanSpec => []IndexComplete
BY ScanInitHolds, StepKeeps, InvImplies, PTL DEF ScanSpec
=============================================================================
