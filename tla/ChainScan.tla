------------------------------ MODULE ChainScan ------------------------------
(***************************************************************************)
(* The chain scanner: it walks the node's blocks behind a stored cursor,   *)
(* indexes the bids and reveals of every name, and keeps the auctions of   *)
(* the last blocks only.                                                   *)
(*                                                                         *)
(* Code: src/src-tauri/src/commands/chain_scan.rs.                         *)
(*                                                                         *)
(* An auction is the height of its OPEN.  A block's rows and the end of    *)
(* its reading are one step: what happens between them happens before or   *)
(* after.  Not modelled: values and addresses; other networks, whose rows  *)
(* and cursor are their own; a block read as malformed; VACUUM.            *)
(***************************************************************************)
EXTENDS Integers, Sequences

CONSTANTS
    Bids,
    OpenOf,         \* the OPEN height of a bid's auction
    Auction,        \* blocks from an OPEN to the end of its reveals
    Retained,       \* RETAINED_BLOCKS
    Batch,          \* BATCH_SIZE
    LastHeight,     \* bound: blocks
    MaxReorgs,      \* bound: reorgs, of the last block
    MaxCrashes      \* bound: ends of the app

ASSUME ScanAssumption ==
    /\ OpenOf \in [Bids -> Nat]
    /\ Auction \in Nat /\ Retained \in Nat /\ Auction < Retained
    /\ Batch \in Nat \ {0}
    /\ LastHeight \in Nat /\ MaxReorgs \in Nat /\ MaxCrashes \in Nat

VARIABLES
    blocks,         \* the best chain: of each height, the bids and the reveals
    first, last,    \* chain_scan_cursor: first_height, last_height
    rows,           \* name_bid_outpoints: "none", "bid", "revealed"
    scan,           \* the loop: where, the tip it saw, the last block it scanned
    reorgs, crashes,
    replaced        \* a reorg replaced a block the scanner had been through (history)

cursor == <<first, last>>
scanVars == <<blocks, cursor, rows, scan, reorgs, crashes, replaced>>

Height == Len(blocks)
Waiting == [at |-> "sleeps", tip |-> 0, done |-> 0]

Larger(a, b) == IF a < b THEN b ELSE a
Smaller(a, b) == IF a < b THEN a ELSE b

Block == [bids : SUBSET Bids, reveals : SUBSET Bids]
Bare == [bids |-> {}, reveals |-> {}]

BidAt(b, h) == b \in blocks[h].bids
RevealAt(b, h) == b \in blocks[h].reveals

ScanTypeOK ==
    /\ blocks \in Seq(Block) /\ Height <= LastHeight
    /\ first \in 0..LastHeight /\ last \in 0..LastHeight
    /\ rows \in [Bids -> {"none", "bid", "revealed"}]
    /\ scan \in [at : {"sleeps", "asked", "batch", "ended"}, tip : 0..LastHeight, done : 0..LastHeight]
    /\ reorgs \in 0..MaxReorgs /\ crashes \in 0..MaxCrashes
    /\ replaced \in BOOLEAN

ScanInit ==
    /\ blocks = <<>>
    /\ first = 0
    /\ last = 0
    /\ rows = [b \in Bids |-> "none"]
    /\ scan = Waiting
    /\ reorgs = 0
    /\ crashes = 0
    /\ replaced = FALSE

-----------------------------------------------------------------------------
(* The chain.                                                              *)

\* Bids follow their OPEN; a reveal follows its bid.
Minable(h) ==
    LET bidden == {b \in Bids : \E i \in 1..(h - 1) : BidAt(b, i)}
        revealed == {b \in Bids : \E i \in 1..(h - 1) : RevealAt(b, i)}
        open == {b \in Bids : OpenOf[b] < h /\ h <= OpenOf[b] + Auction}
    IN  [bids : SUBSET (open \ bidden), reveals : SUBSET ((open \cap bidden) \ revealed)]

MineBlock ==
    /\ Height < LastHeight
    /\ \E block \in Minable(Height + 1) : blocks' = Append(blocks, block)
    /\ UNCHANGED <<cursor, rows, scan, reorgs, crashes, replaced>>

\* The scanner has been through the block: by its cursor, or by its rows.
Scanned(h) ==
    \/ h <= Larger(last, scan.done)
    \/ \E b \in Bids : BidAt(b, h) /\ rows[b] # "none"
    \/ \E b \in Bids : RevealAt(b, h) /\ rows[b] = "revealed"

\* Another last block and one more; what the old one held may be mined again.
ReplaceLast ==
    /\ reorgs < MaxReorgs
    /\ Height \in 1..(LastHeight - 1)
    /\ blocks' = Append([blocks EXCEPT ![Height] = Bare], Bare)
    /\ replaced' = (replaced \/ Scanned(Height))
    /\ reorgs' = reorgs + 1
    /\ UNCHANGED <<cursor, rows, scan, crashes>>

-----------------------------------------------------------------------------
(* The loop.                                                               *)

\* The node's tip, once it is synced and on the profile's network.
AskTip ==
    /\ scan.at = "sleeps"
    /\ scan' = [at |-> "asked", tip |-> Height, done |-> 0]
    /\ UNCHANGED <<blocks, cursor, rows, reorgs, crashes, replaced>>

\* Mutant of Aged: the auction that opened at the first height too.
AgedTooYoung(b, from) == OpenOf[b] <= from

\* The auctions that leave the window.
Aged(b, from) == OpenOf[b] < from

\* advance_scan_window, in one transaction, and the look at the cursor.
Advance ==
    /\ scan.at = "asked"
    /\ LET from == scan.tip - Retained + 1
           moves == first < from
       IN  /\ first' = IF moves THEN from ELSE first
           /\ last' = IF moves THEN Larger(last, from - 1) ELSE last
           /\ rows' = [b \in Bids |-> IF moves /\ Aged(b, from) THEN "none" ELSE rows[b]]
    /\ scan' = IF last' >= scan.tip THEN Waiting
               ELSE [scan EXCEPT !.at = "batch", !.done = last']
    /\ UNCHANGED <<blocks, reorgs, crashes, replaced>>

EndOfBatch == Smaller(last + Batch, scan.tip)

\* What scan_block makes of the rows: a bid already there is kept, a reveal is
\* written to the bid it spends, if that is there.
Indexed(block) ==
    [b \in Bids |->
        IF b \in block.reveals /\ (rows[b] # "none" \/ b \in block.bids) THEN "revealed"
        ELSE IF b \in block.bids /\ rows[b] = "none" THEN "bid"
        ELSE rows[b]]

\* scan_block.
ScanBlock ==
    /\ scan.at = "batch"
    /\ scan.done + 1 <= Height
    /\ rows' = Indexed(blocks[scan.done + 1])
    /\ scan' = [scan EXCEPT !.done = @ + 1,
                            !.at = IF scan.done + 1 = EndOfBatch THEN "ended" ELSE "batch"]
    /\ UNCHANGED <<blocks, cursor, reorgs, crashes, replaced>>

\* An error ends the batch; the next one tries again.
ScanBlockFails ==
    /\ scan.at = "batch"
    /\ scan' = [scan EXCEPT !.at = "ended"]
    /\ UNCHANGED <<blocks, cursor, rows, reorgs, crashes, replaced>>

\* Mutant of Reached: the batch's end, whatever became of it.
ReachedEnd == EndOfBatch

\* The last height scanned without an error.
Reached == scan.done

\* set_scan_cursor, best effort.
SaveCursor ==
    /\ scan.at = "ended"
    /\ last < Reached
    /\ last' = Reached
    /\ scan' = Waiting
    /\ UNCHANGED <<blocks, first, rows, reorgs, crashes, replaced>>

\* Nothing to save, or it cannot be saved.
SaveCursorFails ==
    /\ scan.at = "ended"
    /\ scan' = Waiting
    /\ UNCHANGED <<blocks, cursor, rows, reorgs, crashes, replaced>>

ScannerEnds ==
    /\ crashes < MaxCrashes
    /\ scan.at # "sleeps"
    /\ crashes' = crashes + 1
    /\ scan' = Waiting
    /\ UNCHANGED <<blocks, cursor, rows, reorgs, replaced>>

ScanNext ==
    \/ MineBlock \/ ReplaceLast
    \/ AskTip \/ Advance \/ ScanBlock \/ ScanBlockFails
    \/ SaveCursor \/ SaveCursorFails \/ ScannerEnds

ScanSpec == ScanInit /\ [][ScanNext]_scanVars

-----------------------------------------------------------------------------
Before(h) == {i \in 1..h : i <= Height}

(* Of an auction that is kept, the index has every bid and every reveal up *)
(* to the cursor, and none that was not mined, whatever the batches, the   *)
(* failures, the crashes and the moves of the window in between            *)
(* (chain_scan.rs:482, 505).  Not so once a reorg has replaced a block the *)
(* scanner had been through: it does not go back.                          *)
IndexComplete ==
    replaced \/
    \A b \in Bids :
        /\ first <= OpenOf[b] =>
              \A h \in Before(last) :
                  /\ BidAt(b, h) => rows[b] # "none"
                  /\ RevealAt(b, h) => rows[b] = "revealed"
        /\ rows[b] # "none" => \E h \in Before(Height) : BidAt(b, h)
        /\ rows[b] = "revealed" => \E h \in Before(Height) : RevealAt(b, h)
=============================================================================
