----------------------- MODULE ShakedexPurchaseProofs -----------------------
(***************************************************************************)
(* What the purchase job concludes and what is deleted, for every chain,   *)
(* every node, every number of reorgs and evictions and every patience     *)
(* (MissingBlocks, ExpiryBlocks, Window).                                  *)
(*                                                                         *)
(* The inductive invariant has four parts: how the name may have come to   *)
(* its owner (Traced), what a send leaves behind (Handed), which rows a job*)
(* may be working on (Assigned), and what the requests the job already made*)
(* still say of the chain, if neither reorg nor expiry came (Remembered).  *)
(***************************************************************************)
EXTENDS ShakedexPurchase, SequenceTheorems, TLAPS

\* The name went from coin to coin along After; a purchase in the mempool or
\* in a block was handed to a node; a name that is not alive was never
\* finalized, and nothing waits for it.
Traced ==
    /\ owners[1] = "lock"
    /\ \A i \in 1..(Len(owners) - 1) : owners[i + 1] \in After[owners[i]]
    /\ Mined("purchase") => relayed /\ landed
    /\ pool = "purchase" => relayed
    /\ pool # None => pool \in After[owner]
    /\ life # "live" => owner \in {"lock", "purchase"} /\ pool = None

\* A refused purchase reached no node; an unsent draft is that of a purchase
\* not sent, a dropped one is not; a send holds a signed draft that is not past
\* the grace, and no poll overlaps it.
Handed ==
    /\ draft = "failed" \/ sending = "refused" => ~relayed
    /\ draft = "absent" <=> state = "none"
    /\ draft \in Unsent => state = "pending_send"
    /\ draft = "dropped" => state # "pending_send"
    /\ polled # "off" => sending = "no" /\ draft # "absent"
    /\ sending # "no" => draft \notin {"absent", "draft", "failed"}
    /\ sending # "no" /\ draft \in Unsent => age < 2

\* A job works on the row it was started for, or on one deleted since.
Assigned ==
    /\ job.at # "asleep" =>
         state # "none" /\ job.task \in {"refresh", "mined", "lose", "revive", "recheck"}
    /\ job.at \in {"draft", "tx", "lock", "price", "send", "taken"} => job.task = "refresh"
    /\ job.at \notin {"asleep", "draft", "tx", "lock", "price", "send", "taken"}
         => job.task # "refresh"
    /\ job.at \notin {"asleep", "draft"} => draft \notin Unsent
    /\ job.at \in {"name", "owner"} => job.task # "recheck"
    /\ job.at = "history" => job.task = "mined"
    /\ job.at = "moved" \/ job.at = "still" => job.task # "recheck"
    /\ job.at # "asleep" /\ job.task \in {"refresh", "mined", "lose"} => state \in Open \cup NoRow
    /\ job.at # "asleep" /\ job.task = "revive" => state \in {"lost"} \cup NoRow
    /\ job.at # "asleep" /\ job.task = "recheck" => state \in {"owned"} \cup NoRow

\* What was in a block when the job began, or when it was told so, still is; a
\* node with the index tells it; the name the trace of a paid purchase reads is
\* alive, its owner one after the TRANSFER; a name read after its TRANSFER and
\* held by another coin has left the TRANSFER, or is not alive.
Remembered ==
    /\ job.at # "asleep" /\ job.since = "paid" => Mined("purchase")
    /\ job.since = "paid" /\ "tx" \in indexes =>
         job.at \notin {"lock", "price", "send", "taken"} /\ job.task # "lose"
    /\ job.since = "paid" /\ job.at \in {"name", "owner"} => life = "live"
    /\ job.since = "paid" /\ job.at = "owner" => job.seen \in {"finalized", "moved"}
    /\ job.since # "stirred" /\ job.at # "asleep" /\ job.task = "mined" => Mined("purchase")
    /\ job.since # "stirred" /\ job.at \in {"moved", "still"} => Mined("purchase")
    /\ job.since # "stirred" /\ job.at = "still" =>
         life # "live" \/ Mined("finalized")

Inv == TypeOK /\ Traced /\ Handed /\ Assigned /\ Remembered

-----------------------------------------------------------------------------
(* The name on the chain.                                                  *)

LEMMA Coins ==
    /\ OwnerCoins = {"lock", "purchase", "finalized", "moved", "rival", "rivalhome"}
    /\ After["lock"] = {"purchase", "rival"} /\ After["purchase"] = {"finalized"}
    /\ After["finalized"] = {"moved"} /\ After["moved"] = {}
    /\ After["rival"] = {"rivalhome"} /\ After["rivalhome"] = {}
BY DEF OwnerCoins, After

\* The owner tells the way the name took.
LEMMA Shape ==
    ASSUME SaleTypeOK, Traced
    PROVE  /\ Len(owners) \in Nat \ {0}
           /\ owners \in [1..Len(owners) -> OwnerCoins]
           /\ owner \in OwnerCoins
           /\ Mined("purchase") <=> owner \in {"purchase", "finalized", "moved"}
           /\ Mined("finalized") <=> owner \in {"finalized", "moved"}
<1>1. /\ Len(owners) \in Nat \ {0}
      /\ \A i \in 1..Len(owners) : owners[i] \in OwnerCoins
      /\ owners \in [1..Len(owners) -> OwnerCoins]
  BY LenProperties, EmptySeq DEF SaleTypeOK
<1>2. owners[1] = "lock"
  BY DEF Traced
<1>3. \A i \in 1..(Len(owners) - 1) : owners[i + 1] \in After[owners[i]]
  BY DEF Traced
<1>4. Len(owners) >= 2 => owners[2] \in {"purchase", "rival"}
  <2> SUFFICES ASSUME Len(owners) >= 2 PROVE owners[2] \in {"purchase", "rival"}
    OBVIOUS
  <2>1. 1 \in 1..(Len(owners) - 1)
    BY <1>1
  <2>2. owners[1 + 1] \in After[owners[1]]
    BY <2>1, <1>3
  <2> QED BY <2>2, <1>2, Coins
<1>5. Len(owners) >= 3 =>
        owners[3] = IF owners[2] = "purchase" THEN "finalized" ELSE "rivalhome"
  <2> SUFFICES ASSUME Len(owners) >= 3
               PROVE owners[3] = IF owners[2] = "purchase" THEN "finalized" ELSE "rivalhome"
    OBVIOUS
  <2>1. 2 \in 1..(Len(owners) - 1)
    BY <1>1
  <2>2. owners[2 + 1] \in After[owners[2]]
    BY <2>1, <1>3
  <2> QED BY <2>2, <1>1, <1>4, Coins
<1>6. Len(owners) >= 4 => owners[2] = "purchase" /\ owners[4] = "moved"
  <2> SUFFICES ASSUME Len(owners) >= 4 PROVE owners[2] = "purchase" /\ owners[4] = "moved"
    OBVIOUS
  <2>1. 3 \in 1..(Len(owners) - 1)
    BY <1>1
  <2>2. owners[3 + 1] \in After[owners[3]]
    BY <2>1, <1>3
  <2> QED BY <2>2, <1>1, <1>4, <1>5, Coins
<1>7. Len(owners) < 5
  <2> SUFFICES ASSUME Len(owners) >= 5 PROVE FALSE
    BY <1>1
  <2>1. 4 \in 1..(Len(owners) - 1)
    BY <1>1
  <2>2. owners[4 + 1] \in After[owners[4]]
    BY <2>1, <1>3
  <2> QED BY <2>2, <1>1, <1>6, Coins
<1>8. Len(owners) = 1 \/ Len(owners) = 2 \/ Len(owners) = 3 \/ Len(owners) = 4
  BY <1>1, <1>7
<1> QED
  BY <1>1, <1>2, <1>4, <1>5, <1>6, <1>8, Coins DEF Mined, owner

OwnerTells ==
    /\ owner \in OwnerCoins
    /\ Mined("purchase") <=> owner \in {"purchase", "finalized", "moved"}
    /\ Mined("finalized") <=> owner \in {"finalized", "moved"}

LEMMA OwnerTold == SaleTypeOK /\ Traced => OwnerTells
BY Shape DEF OwnerTells

LEMMA PurchaseDelivered ==
    ASSUME SaleTypeOK, Traced, DeliverPurchase
    PROVE  SaleTypeOK' /\ Traced'
<1>1. owners' = owners /\ life' = life /\ landed' = landed /\ relayed' = TRUE
  BY DEF DeliverPurchase
<1>2. owner' = owner /\ Mined("purchase")' = Mined("purchase")
  BY <1>1 DEF owner, Mined
<1>3. pool' = pool \/ (pool' = "purchase" /\ owner = "lock" /\ life = "live")
  BY DEF DeliverPurchase
<1>4. SaleTypeOK'
  BY <1>1, <1>3, Coins DEF DeliverPurchase, SaleTypeOK
<1>5. Traced'
  BY <1>1, <1>2, <1>3, Coins, SaleAssumption DEF Traced
<1> QED BY <1>4, <1>5

LEMMA CoinMined ==
    ASSUME SaleTypeOK, Traced, NEW t \in OwnerCoins, Mine(t)
    PROVE  /\ SaleTypeOK' /\ Traced'
           /\ Len(owners') >= Len(owners) /\ owner' \in After[owner]
<1> DEFINE n == Len(owners)
<1>1. /\ owners' = Append(owners, t) /\ pool' = None /\ life' = life /\ life = "live"
      /\ relayed' = relayed /\ landed' = (landed \/ t = "purchase")
      /\ t \in After[owner] /\ (t = "purchase" => relayed)
  BY DEF Mine, Valid
<1>2. /\ owners' \in Seq(OwnerCoins) /\ owners' # <<>> /\ Len(owners') = n + 1
      /\ \A i \in 1..n : owners'[i] = owners[i]
      /\ owners'[n + 1] = t
  BY <1>1, AppendProperties DEF SaleTypeOK
<1>3. n \in Nat \ {0}
  BY Shape
<1>4. owner' = t
  BY <1>2, <1>3 DEF owner
<1>5. \A i \in 1..(Len(owners') - 1) : owners'[i + 1] \in After[owners'[i]]
  <2> TAKE i \in 1..(Len(owners') - 1)
  <2>1. CASE i = n
    BY <2>1, <1>1, <1>2, <1>3 DEF owner
  <2>2. CASE i # n
    <3>1. i \in 1..(n - 1) /\ i \in 1..n /\ i + 1 \in 1..n
      BY <2>2, <1>2, <1>3
    <3>2. owners[i + 1] \in After[owners[i]]
      BY <3>1 DEF Traced
    <3> QED BY <3>1, <3>2, <1>2
  <2> QED BY <2>1, <2>2
<1>6. Mined("purchase")' => Mined("purchase") \/ t = "purchase"
  BY <1>2, <1>3 DEF Mined
<1>7. owners'[1] = "lock"
  BY <1>2, <1>3 DEF Traced
<1>8. SaleTypeOK'
  BY <1>1, <1>2 DEF SaleTypeOK, Mine
<1>9. Traced'
  <2>1. /\ Mined("purchase")' => relayed' /\ landed'
        /\ life' = "live" /\ pool' = None
    BY <1>1, <1>6 DEF Traced
  <2> QED BY <2>1, <1>5, <1>7, SaleAssumption DEF Traced
<1> QED BY <1>1, <1>2, <1>3, <1>4, <1>8, <1>9

LEMMA Reorganized ==
    ASSUME SaleTypeOK, Traced, Reorg
    PROVE  /\ SaleTypeOK' /\ Traced'
           /\ Len(owners') < Len(owners)
<1> DEFINE n == Len(owners)
<1>1. /\ owners' = SubSeq(owners, 1, n - 1) /\ n > 1 /\ pool' \in {None, owner}
      /\ life' = life /\ life = "live" /\ relayed' = relayed /\ landed' = landed
  BY DEF Reorg
<1>2. n \in Nat \ {0} /\ \A i \in 1..n : owners[i] \in OwnerCoins
  BY Shape
<1>3. \A i \in 1..(n - 1) : owners[i] \in OwnerCoins
  BY <1>2
<1>4. /\ owners' \in Seq(OwnerCoins) /\ Len(owners') = n - 1
      /\ \A i \in 1..(n - 1) : owners'[i] = owners[i]
  <2>1. 1 \in Int /\ n - 1 \in Int /\ 1 <= n - 1
    BY <1>1, <1>2
  <2>2. /\ SubSeq(owners, 1, n - 1) \in Seq(OwnerCoins)
        /\ Len(SubSeq(owners, 1, n - 1)) =
             (IF 1 <= n - 1 THEN (n - 1) - 1 + 1 ELSE 0)
        /\ \A i \in 1..((n - 1) - 1 + 1) : SubSeq(owners, 1, n - 1)[i] = owners[1 + i - 1]
    BY <2>1, <1>3, SubSeqProperties
  <2> QED BY <2>1, <2>2, <1>1, <1>2
<1>5. owners' # <<>>
  <2>1. Len(owners') # 0
    BY <1>1, <1>2, <1>4
  <2>2. Len(<<>>) = 0
    OBVIOUS
  <2> QED BY <2>1, <2>2
<1>6. \A i \in 1..(Len(owners') - 1) : owners'[i + 1] \in After[owners'[i]]
  <2> TAKE i \in 1..(Len(owners') - 1)
  <2>1. i \in 1..(n - 1) /\ i + 1 \in 1..(n - 1)
    BY <1>2, <1>4
  <2>2. owners[i + 1] \in After[owners[i]]
    BY <2>1 DEF Traced
  <2> QED BY <2>1, <2>2, <1>4
<1>7. owners'[1] = "lock"
  BY <1>1, <1>2, <1>4 DEF Traced
<1>8. owner \in After[owner']
  <2>1. n - 1 \in 1..(n - 1) /\ (n - 1) + 1 = n
    BY <1>1, <1>2
  <2>2. owners[(n - 1) + 1] \in After[owners[n - 1]]
    BY <2>1 DEF Traced
  <2> QED BY <2>1, <2>2, <1>4 DEF owner
<1>9. Mined("purchase")' => Mined("purchase")
  BY <1>2, <1>4 DEF Mined
<1>10. owner = "purchase" => Mined("purchase")
  BY <1>2 DEF Mined, owner
<1>11. SaleTypeOK'
  <2>1. price' \in 1..Len(Prices)
    BY DEF Reorg, SaleTypeOK, Prices
  <2> QED BY <2>1, <1>1, <1>4, <1>5, Shape DEF SaleTypeOK, Reorg
<1>12. Traced'
  <2>1. /\ Mined("purchase")' => relayed' /\ landed'
        /\ pool' = "purchase" => relayed'
    BY <1>1, <1>9, <1>10, SaleAssumption DEF Traced
  <2> QED BY <2>1, <1>1, <1>6, <1>7, <1>8 DEF Traced
<1> QED BY <1>2, <1>4, <1>11, <1>12

\* The steps that leave the best chain as it is.
LEMMA ChainStays ==
    ASSUME SaleTypeOK, Traced,
           (\E t \in OwnerCoins : Arrive(t)) \/ PriceStep \/ Evict \/ Expire \/ Reopen
    PROVE  SaleTypeOK' /\ Traced' /\ owners' = owners
<1>1. owners' = owners /\ relayed' = relayed /\ landed' = landed
  BY DEF Arrive, PriceStep, Evict, Expire, Reopen
<1>2. owner' = owner /\ Mined("purchase")' = Mined("purchase")
  BY <1>1 DEF owner, Mined
<1>3. CASE \E t \in OwnerCoins : Arrive(t)
  <2> PICK t \in OwnerCoins : Arrive(t)
    BY <1>3
  <2>1. /\ pool' = t /\ t \in After[owner] /\ (t = "purchase" => relayed)
        /\ life = "live" /\ life' = life
    BY DEF Arrive, Valid
  <2>2. SaleTypeOK'
    BY <2>1, <1>1 DEF SaleTypeOK, Arrive
  <2> QED BY <2>1, <2>2, <1>1, <1>2 DEF Traced
<1>4. CASE PriceStep
  <2>1. SaleTypeOK'
    BY <1>4 DEF PriceStep, SaleTypeOK, Prices
  <2> QED BY <2>1, <1>4, <1>1, <1>2 DEF Traced, PriceStep
<1>5. CASE Evict \/ Expire \/ Reopen
  <2>1. /\ pool' = None \/ (pool' = pool /\ life = "expired")
        /\ life' # "live" => owner \in {"lock", "purchase"}
        /\ life' \in {"live", "expired", "reopened"}
    BY <1>5 DEF Evict, Expire, Reopen, Traced, SaleTypeOK
  <2>2. pool' = None
    BY <2>1 DEF Traced
  <2>3. price' = price /\ indexes' = indexes /\ faults' \in Nat
    BY <1>5 DEF SaleTypeOK, Evict, Expire, Reopen
  <2>4. SaleTypeOK'
    BY <1>1, <2>1, <2>2, <2>3 DEF SaleTypeOK
  <2> QED BY <1>1, <1>2, <2>1, <2>2, <2>4, SaleAssumption DEF Traced
<1> QED BY <1>1, <1>3, <1>4, <1>5

\* What the chain and the mempool do keeps the shape of the chain; unless it is
\* a reorg, an expiry or an opening it keeps what was in a block.
LEMMA SaleStep ==
    ASSUME SaleTypeOK, Traced, SaleNext
    PROVE  /\ SaleTypeOK' /\ Traced' /\ indexes' = indexes
           /\ relayed' = relayed
           /\ Len(owners') >= Len(owners) =>
                /\ Mined("purchase") => Mined("purchase")'
                /\ Mined("finalized") => Mined("finalized")'
                /\ owner \in {"finalized", "moved"} => owner' \in {"finalized", "moved"}
<1>1. indexes' = indexes /\ relayed' = relayed
  BY DEF SaleNext, Arrive, Mine, PriceStep, Evict, Reorg, Expire, Reopen
<1>2. CASE \E t \in OwnerCoins : Mine(t)
  <2>1. SaleTypeOK' /\ Traced' /\ owner' \in After[owner]
    BY <1>2, CoinMined
  <2>2. OwnerTells /\ OwnerTells'
    BY <2>1, OwnerTold, PTL
  <2> QED BY <1>1, <2>1, <2>2, Coins DEF OwnerTells
<1>3. CASE Reorg
  <2>1. SaleTypeOK' /\ Traced' /\ Len(owners') < Len(owners)
    BY <1>3, Reorganized
  <2>2. Len(owners) \in Nat /\ Len(owners') \in Nat
    BY <2>1, LenProperties DEF SaleTypeOK
  <2> QED BY <1>1, <2>1, <2>2
<1>4. CASE (\E t \in OwnerCoins : Arrive(t)) \/ PriceStep \/ Evict \/ Expire \/ Reopen
  BY <1>1, <1>4, ChainStays DEF Mined, owner
<1> QED BY <1>2, <1>3, <1>4 DEF SaleNext

-----------------------------------------------------------------------------
(* Type correctness.                                                       *)

RowTypeOK ==
    /\ state \in PurchaseState \cup NoRow
    /\ missing \in Missing
    /\ resent \in 0..1
    /\ said \in {"unpaid", "paid", None}
    /\ rest \in 0..Window

DraftTypeOK ==
    /\ draft \in DraftStatus \cup {"absent", "deleted"}
    /\ age \in 0..2

LEMMA TypeParts ==
    TypeOK <=> /\ SaleTypeOK /\ RowTypeOK /\ DraftTypeOK
               /\ sending \in {"no", "loaded", "reloaded", "checked", "submitted",
                               "unanswered", "refused"}
               /\ polled \in {"off", "broadcasted", "confirmed"}
               /\ job \in JobType /\ steady \in BOOLEAN
BY DEF TypeOK, RowTypeOK, DraftTypeOK

LEMMA AsleepTyped == Asleep \in JobType
BY DEF Asleep, JobType, Requests, Missing

LEMMA SaveTyped ==
    ASSUME RowTypeOK, NEW to \in Open \cup {"owned", "lost"}, NEW since \in Missing,
           NEW count \in 0..1, NEW words \in {"unpaid", "paid", None},
           Save(to, since, count, words)
    PROVE  RowTypeOK'
BY PurchaseAssumption DEF Save, RowTypeOK, rowVars, PurchaseState

LEMMA ForgetTyped == ForgetRow => RowTypeOK'
BY PurchaseAssumption DEF ForgetRow, RowTypeOK, NoRow, Missing

LEMMA DraftTyped ==
    ASSUME DraftTypeOK, NEW s \in DraftStatus, SetDraft(s) \/ DeleteDraft
    PROVE  DraftTypeOK'
BY DEF DraftTypeOK, SetDraft, DeleteDraft

LEMMA RowKept == RowTypeOK /\ UNCHANGED rowVars => RowTypeOK'
BY DEF RowTypeOK, rowVars

LEMMA DraftKept == DraftTypeOK /\ UNCHANGED draftVars => DraftTypeOK'
BY DEF DraftTypeOK, draftVars

LEMMA SaleKept == SaleTypeOK /\ Traced /\ UNCHANGED saleVars => SaleTypeOK' /\ Traced'
BY DEF SaleTypeOK, Traced, saleVars, Mined, owner

\* The job's writes, one by one.
LEMMA ConcludeTyped ==
    ASSUME RowTypeOK, NEW to \in Open \cup {"owned", "lost"}, NEW since \in Missing,
           NEW count \in 0..1, NEW words \in {"unpaid", "paid", None},
           Conclude(to, since, count, words)
    PROVE  RowTypeOK' /\ job' \in JobType
BY SaveTyped, AsleepTyped DEF Conclude, End

TypedStep == RowTypeOK' /\ DraftTypeOK' /\ job' \in JobType

LEMMA EndTyped == RowTypeOK /\ DraftTypeOK /\ End /\ Look => TypedStep
BY AsleepTyped, RowKept, DraftKept DEF End, Look, TypedStep

LEMMA AskTyped ==
    ASSUME RowTypeOK, DraftTypeOK, job \in JobType, NEW at \in Requests, Ask(at), Look
    PROVE  TypedStep
BY RowKept, DraftKept DEF Ask, Look, JobType, TypedStep

LEMMA TraceTyped ==
    ASSUME RowTypeOK, DraftTypeOK, job \in JobType, NEW task \in {"mined", "lose"},
           NEW count \in 0..1, Trace(task, count)
    PROVE  TypedStep
BY RowKept, DraftKept DEF Trace, JobType, TypedStep, Requests, Missing, rowVars, draftVars

LEMMA UnconfirmedTyped ==
    ASSUME RowTypeOK, DraftTypeOK, NEW since \in Missing, NEW count \in 0..1,
           Unconfirmed(since, count)
    PROVE  TypedStep
BY ConcludeTyped, DraftKept DEF Unconfirmed, TypedStep, Open

LEMMA TrackTyped == DraftTypeOK /\ Track => DraftTypeOK'
BY DraftTyped, DraftKept DEF Track, DraftStatus, Reached

LEMMA VerdictTyped ==
    ASSUME RowTypeOK, DraftTypeOK, job \in JobType,
           AwaitFinalize \/ Owned \/ LostPaid, Track \/ UNCHANGED draftVars
    PROVE  TypedStep
<1>1. job.resent \in 0..1 /\ None \in Missing
  BY DEF JobType, Missing
<1>2. DraftTypeOK'
  BY TrackTyped, DraftKept
<1> QED BY <1>1, <1>2, ConcludeTyped DEF AwaitFinalize, Owned, LostPaid, TypedStep, Open

LEMMA MarkLostTyped == RowTypeOK /\ DraftTypeOK /\ job \in JobType /\ MarkLost => TypedStep
<1> SUFFICES ASSUME RowTypeOK, DraftTypeOK, job \in JobType, MarkLost PROVE TypedStep
  OBVIOUS
<1>1. job.resent \in 0..1 /\ None \in Missing
  BY DEF JobType, Missing
<1>2. RowTypeOK' /\ job' \in JobType
  BY <1>1, ConcludeTyped DEF MarkLost
<1>3. DraftTypeOK'
  BY DraftTyped, DraftKept DEF MarkLost, DraftStatus, GivenUp
<1> QED BY <1>2, <1>3 DEF TypedStep

LEMMA NameAnswer ==
    SaleTypeOK /\ Traced => NameOwner \in OwnerCoins \cup {"nobody", "newcomer"}
BY Shape DEF NameOwner, SaleTypeOK

LEMMA JobTyped ==
    ASSUME SaleTypeOK, Traced, RowTypeOK, DraftTypeOK, job \in JobType, JobStart \/ JobStep
    PROVE  TypedStep
<1>1. /\ job.resent \in 0..1 /\ None \in Missing /\ 1 \in 0..1
      /\ job.missing \in Missing /\ Since \in Missing
  BY PurchaseAssumption DEF JobType, Missing, Since
<1> USE <1>1
<1>2. CASE JobStart
  <2>1. job' \in JobType
    BY <1>2 DEF JobStart, Task, Asleep, JobType, Requests, RowTypeOK
  <2> QED BY <2>1, <1>2, RowKept, DraftKept DEF JobStart, Look, TypedStep
<1>3. CASE JobDraft
  <2>1. CASE draft = "deleted" /\ ForgetRow /\ End /\ UNCHANGED draftVars
    BY <2>1, ForgetTyped, AsleepTyped, DraftKept DEF End, TypedStep
  <2>2. CASE Lose(job.resent)
    BY <2>2, TraceTyped DEF Lose
  <2>3. CASE DeleteDraft /\ ForgetRow /\ End
    BY <2>3, ForgetTyped, AsleepTyped, DraftTyped DEF End, TypedStep, DraftStatus, Reached
  <2>4. CASE /\ job' = [job EXCEPT !.at = "tx", !.dropped = (draft = "dropped")]
             /\ Look
    <3>1. job' \in JobType
      BY <2>4 DEF JobType, Requests
    <3> QED BY <3>1, <2>4, RowKept, DraftKept DEF Look, TypedStep
  <2> QED BY <1>3, <2>1, <2>2, <2>3, <2>4, EndTyped DEF JobDraft
<1>4. CASE JobTx
  BY <1>4, AskTyped, UnconfirmedTyped, TraceTyped DEF JobTx, Requests
<1>5. CASE Wait
  BY <1>5, UnconfirmedTyped, TraceTyped DEF Wait, Lose
<1>6. CASE JobLock
  BY <1>5, <1>6, AskTyped, UnconfirmedTyped, TraceTyped DEF JobLock, Lose, Requests
<1>7. CASE JobPrice
  BY <1>5, <1>7, AskTyped, UnconfirmedTyped, TraceTyped DEF JobPrice, Lose, Requests
<1>8. CASE JobSend
  BY <1>8, AskTyped, EndTyped, TraceTyped DEF JobSend, Lose, Requests
<1>9. CASE JobTaken
  BY <1>9, UnconfirmedTyped, TraceTyped DEF JobTaken, Lose
<1>10. CASE NotOurs
  BY <1>10, MarkLostTyped, AskTyped, EndTyped DEF NotOurs, Requests
<1>11. CASE JobTransfer
  BY <1>11, AskTyped, EndTyped, VerdictTyped, UnconfirmedTyped DEF JobTransfer, Requests
<1>12. CASE JobName
  <2>1. CASE /\ NameOwner \notin {"nobody", "purchase"}
             /\ job' = [job EXCEPT !.at = "owner", !.seen = NameOwner] /\ Look
    <3>1. job' \in JobType
      BY <2>1, NameAnswer DEF JobType, Requests
    <3> QED BY <3>1, <2>1, RowKept, DraftKept DEF Look, TypedStep
  <2> QED BY <1>10, <1>12, <2>1, EndTyped, VerdictTyped DEF JobName
<1>13. CASE JobOwner
  BY <1>10, <1>13, AskTyped, EndTyped, VerdictTyped DEF JobOwner, Requests
<1>14. CASE JobMoved \/ JobStill \/ JobByHash \/ JobHistory
  BY <1>14, AskTyped, EndTyped, VerdictTyped DEF JobMoved, JobStill, JobByHash, JobHistory, Requests
<1> QED
  BY <1>2, <1>3, <1>4, <1>6, <1>7, <1>8, <1>9, <1>11, <1>12, <1>13, <1>14 DEF JobStep

LEMMA JobSaleTyped ==
    ASSUME SaleTypeOK, Traced, JobStart \/ JobStep
    PROVE  SaleTypeOK' /\ Traced'
<1>1. CASE JobSend
  BY <1>1, PurchaseDelivered, SaleKept DEF JobSend
<1>2. CASE ~JobSend
  BY <1>2, SaleKept DEF JobStart, JobStep, JobDraft, JobTx, JobLock, JobPrice, JobTaken,
     JobTransfer, JobName, JobOwner, JobMoved, JobStill, JobByHash, JobHistory
<1> QED BY <1>1, <1>2

SendTypeOK ==
    /\ sending \in {"no", "loaded", "reloaded", "checked", "submitted", "unanswered", "refused"}
    /\ polled \in {"off", "broadcasted", "confirmed"}
    /\ steady \in BOOLEAN

LEMMA TypedNext == TypeOK /\ Traced /\ [Next]_vars => TypeOK' /\ Traced'
<1> SUFFICES ASSUME TypeOK, Traced, [Next]_vars PROVE TypeOK' /\ Traced'
  OBVIOUS
<1>1. /\ SaleTypeOK /\ RowTypeOK /\ DraftTypeOK /\ SendTypeOK /\ job \in JobType
  BY TypeParts DEF SendTypeOK
<1> DEFINE Goal == SaleTypeOK' /\ Traced' /\ TypedStep /\ SendTypeOK'
<1>2. Goal => TypeOK' /\ Traced'
  BY DEF TypeOK, TypedStep, RowTypeOK, DraftTypeOK, SendTypeOK
<1> HIDE DEF Goal
<1> SUFFICES Goal
  BY <1>2
<1> DEFINE Rest == UNCHANGED job /\ SendTypeOK'
<1>3. CASE UNCHANGED vars
  BY <1>1, <1>3, SaleKept, RowKept, DraftKept DEF vars, Goal, TypedStep, SendTypeOK
<1>4. CASE Job /\ UNCHANGED steady
  BY <1>1, <1>4, JobTyped, JobSaleTyped DEF Job, Goal, SendTypeOK
<1>5. CASE User /\ UNCHANGED steady
  <2>1. SaleTypeOK' /\ Traced' /\ SendTypeOK' /\ job' \in JobType
    BY <1>1, <1>5, SaleKept DEF User, Build, Sign, Discard, SendTypeOK
  <2>2. CASE Build \/ Sign
    BY <2>1, <2>2, <1>1 DEF Build, Sign, RowTypeOK, DraftTypeOK, DraftStatus, Unsent,
       Open, PurchaseState, Goal, TypedStep, rowVars
  <2>3. CASE Discard
    BY <2>1, <2>3, <1>1, ForgetTyped, RowKept, DraftTyped
       DEF Discard, DiscardDraft, Goal, TypedStep, DraftStatus, Reached
  <2> QED BY <2>2, <2>3, <1>5 DEF User
<1>6. CASE Send /\ UNCHANGED steady
  <2>1. job' \in JobType
    BY <1>1, <1>6 DEF Send, SendLoad, SendGated, SendChecked, SendRecheckFails,
       SubmitDelivered, SubmitLost, SendSettle, SendFails
  <2>2. SaleTypeOK' /\ Traced'
    BY <1>1, <1>6, PurchaseDelivered, SaleKept DEF Send, SendLoad, SendGated, SendChecked,
       SendRecheckFails, SubmitDelivered, SubmitLost, SendSettle, SendFails
  <2>3. SendTypeOK'
    BY <1>1, <1>6 DEF Send, SendLoad, SendGated, SendChecked,
       SendRecheckFails, SubmitDelivered, SubmitLost, SendSettle, SendFails, SendTypeOK
  <2>4. RowTypeOK' /\ DraftTypeOK'
    <3>1. CASE SendSettle \/ SendFails
      BY <3>1, <1>1, RowKept, DraftTyped
         DEF SendSettle, SendFails, DraftStatus, Reached, GivenUp
    <3>2. CASE SendLoad \/ SendRecheckFails
      BY <3>2, <1>1, RowKept, DraftKept, ForgetTyped, DraftTyped
         DEF SendLoad, SendRecheckFails, DiscardDraft, DraftStatus, Reached
    <3>3. CASE UNCHANGED <<rowVars, draftVars>>
      BY <3>3, <1>1, RowKept, DraftKept
    <3> QED BY <3>1, <3>2, <3>3, <1>6 DEF Send, SendGated, SendChecked,
               SubmitDelivered, SubmitLost
  <2> QED BY <2>1, <2>2, <2>3, <2>4 DEF Goal, TypedStep
<1>7. CASE (PollRead \/ PollWrite) /\ UNCHANGED steady
  <2>1. polled' \in {"off", "broadcasted", "confirmed"}
    BY <1>7 DEF PollRead, PollWrite
  <2>2. SaleTypeOK' /\ Traced' /\ RowTypeOK' /\ job' \in JobType /\ SendTypeOK'
    BY <2>1, <1>1, <1>7, SaleKept, RowKept DEF PollRead, PollWrite, SendTypeOK
  <2>3. DraftTypeOK'
    BY <1>1, <1>7, DraftTyped, DraftKept DEF PollRead, PollWrite, SendTypeOK, DraftStatus, Reached
  <2> QED BY <2>2, <2>3 DEF Goal, TypedStep
<1>8. CASE (Block \/ AgeTick \/ RestTick) /\ UNCHANGED steady
  <2>1. SaleTypeOK' /\ Traced' /\ SendTypeOK' /\ job' \in JobType
    BY <1>1, <1>8, SaleKept DEF Block, AgeTick, RestTick, SendTypeOK
  <2>2. RowTypeOK' /\ DraftTypeOK'
    BY <1>1, <1>8, PurchaseAssumption DEF Block, AgeTick, RestTick, RowTypeOK, DraftTypeOK,
       rowVars, draftVars, Missing
  <2> QED BY <2>1, <2>2 DEF Goal, TypedStep
<1>9. CASE Chain /\ UNCHANGED steady
  <2>1. job' \in JobType
    BY <1>1, <1>9 DEF Chain, JobType
  <2> QED BY <2>1, <1>1, <1>9, SaleStep, RowKept, DraftKept
          DEF Chain, Goal, TypedStep, SendTypeOK
<1>10. CASE (JobFails \/ Crash) /\ UNCHANGED steady
  BY <1>1, <1>10, SaleKept, RowKept, DraftKept, AsleepTyped
     DEF JobFails, Crash, End, Look, Goal, TypedStep, SendTypeOK
<1> QED
  BY <1>3, <1>4, <1>5, <1>6, <1>7, <1>8, <1>9, <1>10 DEF Next, Answered

LEMMA TypedInit == Init => TypeOK /\ Traced
<1> SUFFICES ASSUME Init PROVE TypeOK /\ Traced
  OBVIOUS
<1>1. owners = <<"lock">> /\ owners \in Seq(OwnerCoins) /\ Len(owners) = 1 /\ owners[1] = "lock"
  BY Coins DEF Init, SaleInit
<1>2. SaleTypeOK
  <2>1. indexes \subseteq {"tx", "address"}
    BY SaleAssumption DEF Init, SaleInit
  <2>2. price \in 1..Len(Prices)
    BY DEF Init, SaleInit, Prices
  <2>3. owners # <<>>
    BY <1>1
  <2> QED BY <1>1, <2>1, <2>2, <2>3 DEF Init, SaleInit, SaleTypeOK
<1>3. TypeOK
  BY <1>2, AsleepTyped, PurchaseAssumption DEF Init, TypeOK, NoRow, Missing, DraftStatus
<1>4. Traced
  BY <1>1, SaleAssumption DEF Init, SaleInit, Traced, Mined, owner
<1> QED BY <1>3, <1>4

\* Every variable keeps its type, on every chain and node (the rows' columns, the
\* draft's statuses, the requests of the job).
THEOREM TypeCorrect == Spec => []TypeOK
BY TypedInit, TypedNext, PTL DEF Spec

-----------------------------------------------------------------------------
(* The rows and the commands.                                              *)

\* What a request of the job leaves in the two rows.
LEMMA JobWrites ==
    ASSUME TypeOK, JobStart \/ JobStep
    PROVE  \/ UNCHANGED <<rowVars, draftVars>>
           \/ /\ job.at = "draft" /\ job' = Asleep /\ state' = "gone"
              /\ \/ draft = "deleted" /\ draft' = draft
                 \/ draft \in Unsent /\ age = 2 /\ draft' = "deleted"
           \/ /\ job.at \notin {"asleep", "draft"} /\ job' = Asleep
              /\ IF state \in NoRow THEN state' = state
                 ELSE state' \in {"unconfirmed", "awaiting_finalize", "owned", "lost"}
              /\ \/ UNCHANGED draftVars
                 \/ draft' = "broadcasted"
                 \/ draft' = "dropped" /\ draft # "failed"
                 \/ draft' = "deleted" /\ draft = "deleted"
<1> DEFINE Saved(to) == IF state \in NoRow THEN state' = state ELSE state' = to
           Written == \/ UNCHANGED draftVars
                      \/ draft' = "broadcasted"
                      \/ draft' = "dropped" /\ draft # "failed"
                      \/ draft' = "deleted" /\ draft = "deleted"
           Ended == /\ job' = Asleep /\ Written
                    /\ \/ Saved("unconfirmed") \/ Saved("awaiting_finalize")
                       \/ Saved("owned") \/ Saved("lost")
           Same == UNCHANGED <<rowVars, draftVars>>
<1>1. \A to, since, count, words : Conclude(to, since, count, words) =>
        job' = Asleep /\ Saved(to)
  BY DEF Conclude, Save, End, rowVars
<1>2. \A since, count : Unconfirmed(since, count) => Ended
  BY <1>1 DEF Unconfirmed
<1>3. ASSUME AwaitFinalize \/ Owned \/ LostPaid, Track \/ UNCHANGED draftVars PROVE Ended
  BY <1>1, <1>3 DEF AwaitFinalize, Owned, LostPaid, Track, SetDraft
<1>4. MarkLost => Ended
  BY <1>1 DEF MarkLost, SetDraft
<1>5. \A task, count : Trace(task, count) => Same
  BY DEF Trace
<1>6. Look => Same
  BY DEF Look
<1>7. NotOurs => Ended \/ Same
  BY <1>4, <1>6 DEF NotOurs
<1>8. Wait => Ended \/ Same
  BY <1>2, <1>5 DEF Wait, Lose
<1> HIDE DEF Ended, Same
<1>9. JobStart \/ JobSend => Same
  BY <1>5, <1>6 DEF JobStart, JobSend, Lose
<1>10. CASE JobDraft
  BY <1>10, <1>5, <1>6 DEF JobDraft, Lose, ForgetRow, DeleteDraft, End, draftVars, Same
<1>11. JobTx \/ JobLock \/ JobPrice \/ JobTaken => Ended \/ Same
  BY <1>2, <1>5, <1>6, <1>8 DEF JobTx, JobLock, JobPrice, JobTaken, Lose
<1>12. JobTransfer \/ JobName \/ JobOwner \/ JobMoved \/ JobStill \/ JobByHash \/ JobHistory
         => Ended \/ Same
  BY <1>2, <1>3, <1>6, <1>7 DEF JobTransfer, JobName, JobOwner, JobMoved, JobStill, JobByHash,
     JobHistory
<1>13. JobStep /\ ~JobDraft /\ ~JobSend => job.at \notin {"asleep", "draft"}
  BY DEF JobStep, JobTx, JobLock, JobPrice, JobTaken, JobTransfer, JobName, JobOwner, JobMoved,
     JobStill, JobByHash, JobHistory
<1>14. CASE ~JobDraft
  BY <1>14, <1>9, <1>11, <1>12, <1>13 DEF JobStep, Ended, Same
<1> QED BY <1>10, <1>14

\* A rebroadcast is of a purchase no refusal was ever returned for.
LEMMA JobDelivers ==
    ASSUME JobStart \/ JobStep
    PROVE  relayed' = relayed \/ (sending # "refused" /\ draft # "failed" /\ draft' = draft)
BY DEF JobStart, JobStep, JobDraft, JobTx, JobLock, JobPrice, JobSend, JobTaken, JobTransfer,
   JobName, JobOwner, JobMoved, JobStill, JobByHash, JobHistory, saleVars, Look, draftVars

LEMMA HandedByJob ==
    ASSUME TypeOK, Handed, Assigned, Job
    PROVE  Handed'
<1> USE DEF Job
<1>1. UNCHANGED <<sending, polled>>
  OBVIOUS
<1>2. CASE UNCHANGED <<rowVars, draftVars>>
  BY <1>1, <1>2, JobDelivers DEF Handed, rowVars, draftVars
<1>3. CASE ~UNCHANGED <<rowVars, draftVars>>
  <2>1. job.at # "asleep" /\ state # "none" /\ draft # "absent"
    BY <1>3, JobWrites DEF Assigned, Handed
  <2>2. relayed' = relayed \/ (draft' # "failed" /\ sending # "refused")
    BY JobDelivers
  <2>3. CASE job.at = "draft"
    BY <1>1, <1>3, <2>1, <2>2, <2>3, JobWrites DEF Handed, Unsent
  <2>4. CASE job.at # "draft"
    <3>1. draft \notin Unsent
      BY <2>1, <2>4 DEF Assigned
    <3>2. /\ state' \in {"unconfirmed", "awaiting_finalize", "owned", "lost", "gone"}
          /\ draft' \in {draft, "broadcasted", "dropped", "deleted"}
      BY <1>3, <2>1, <2>4, JobWrites DEF NoRow, draftVars
    <3> QED BY <1>1, <2>1, <2>2, <3>1, <3>2 DEF Handed, Unsent
  <2> QED BY <2>3, <2>4
<1> QED BY <1>2, <1>3

LEMMA HandedNext ==
    ASSUME TypeOK, Traced, Handed, Assigned, Remembered, [Next]_vars
    PROVE  Handed'
<1>1. CASE UNCHANGED vars
  BY <1>1 DEF vars, rowVars, draftVars, saleVars, Handed
<1>2. CASE Job
  BY <1>2, HandedByJob
<1>3. CASE Build \/ Sign
  BY <1>3 DEF Build, Sign, Handed, Unsent, saleVars, rowVars
<1>4. CASE Discard
  BY <1>4 DEF Discard, DiscardDraft, DeleteDraft, ForgetRow, Handed, Unsent, GivenUp,
     saleVars, rowVars
<1>5. CASE SendLoad
  BY <1>5 DEF SendLoad, DeleteDraft, ForgetRow, TypeOK, Handed, Unsent, saleVars, rowVars, draftVars
<1>6. CASE SendGated \/ SendChecked
  BY <1>6 DEF SendGated, SendChecked, Handed, Unsent, saleVars, rowVars, draftVars
<1>7. CASE SendRecheckFails
  BY <1>7 DEF SendRecheckFails, DiscardDraft, DeleteDraft, ForgetRow, Handed, Unsent,
     saleVars, rowVars, draftVars
<1>8. CASE SubmitDelivered \/ SubmitLost
  BY <1>8 DEF SubmitDelivered, SubmitLost, DeliverPurchase, Handed, saleVars, rowVars, draftVars
<1>9. CASE SendSettle \/ SendFails
  BY <1>9 DEF SendSettle, SendFails, SetDraft, Handed, Unsent, saleVars, rowVars
<1>10. CASE PollRead
  BY <1>10 DEF PollRead, Handed, Unsent, Reached, saleVars, rowVars, draftVars
<1>11. CASE PollWrite
  BY <1>11 DEF PollWrite, SetDraft, TypeOK, Handed, Unsent, saleVars, rowVars
<1>12. CASE Block \/ AgeTick \/ RestTick
  BY <1>12 DEF Block, AgeTick, RestTick, TypeOK, Handed, Unsent, saleVars, rowVars, draftVars
<1>13. CASE Chain
  <2>1. relayed' = relayed
    BY <1>13, SaleStep, TypeParts DEF Chain
  <2> QED BY <2>1, <1>13 DEF Chain, Handed, rowVars, draftVars
<1>14. CASE JobFails \/ Crash
  BY <1>14 DEF JobFails, Crash, Look, Handed, saleVars, rowVars, draftVars
<1> QED
  BY <1>1, <1>2, <1>3, <1>4, <1>5, <1>6, <1>7, <1>8, <1>9, <1>10, <1>11, <1>12, <1>13, <1>14
     DEF Next, Answered, User, Send

LEMMA TaskIs ==
    Task # None => \/ Task = "refresh" /\ state \in Open
                   \/ Task = "revive" /\ state = "lost"
                   \/ Task = "recheck" /\ state = "owned"
BY DEF Task

LEMMA AsleepAssigned == job' = Asleep => Assigned'
BY DEF Asleep, Assigned

LEMMA AssignedByJob ==
    ASSUME TypeOK, Handed, Assigned, JobStart \/ JobStep
    PROVE  Assigned'
<1> USE DEF Assigned
<1>1. job \in JobType
  BY DEF TypeOK
<1>2. CASE job' = Asleep
  BY <1>2, AsleepAssigned
<1>3. CASE job' # Asleep
  <2>1. UNCHANGED <<state, draft>>
    BY <1>3, JobWrites DEF rowVars, draftVars
  <2>2. CASE JobStart
    <3>1. /\ job'.at = IF Task = "refresh" THEN "draft" ELSE "transfer"
          /\ job'.task = Task /\ Task # None
      BY <2>2 DEF JobStart, Asleep
    <3>2. state \in {"owned", "lost"} => draft \notin Unsent
      BY DEF Handed
    <3> QED BY <2>1, <3>1, <3>2, TaskIs DEF Open, NoRow, Handed
  <2>3. ASSUME NEW task \in {"mined", "lose"}, NEW count, Trace(task, count),
               job.task = "refresh", job.at # "asleep", draft \notin Unsent
        PROVE  Assigned'
    BY <2>1, <2>3, <1>1 DEF Trace, JobType
  <2>4. CASE JobDraft
    <3>1. CASE Lose(job.resent) /\ draft = "failed"
      BY <2>3, <2>4, <3>1 DEF Lose, JobDraft, Unsent
    <3>2. CASE /\ draft \in Reached \cup {"dropped"}
               /\ job' = [job EXCEPT !.at = "tx", !.dropped = (draft = "dropped")]
      BY <1>1, <2>1, <2>4, <3>2 DEF JobDraft, JobType, Reached, Unsent
    <3> QED BY <1>3, <2>4, <3>1, <3>2 DEF JobDraft, End
  <2>5. CASE JobTx \/ JobLock \/ JobPrice \/ JobSend \/ JobTaken
    <3>1. /\ job.at \in {"tx", "lock", "price", "send", "taken"} /\ job.task = "refresh"
          /\ draft \notin Unsent
      BY <2>5 DEF JobTx, JobLock, JobPrice, JobSend, JobTaken
    <3>2. ASSUME NEW at \in {"lock", "price", "send", "taken"}, Ask(at) PROVE Assigned'
      BY <1>1, <2>1, <3>1, <3>2 DEF Ask, JobType
    <3>3. \A since, count : Unconfirmed(since, count) => job' = Asleep
      BY DEF Unconfirmed, Conclude, End
    <3>4. ASSUME NEW count, Lose(count) PROVE Assigned'
      BY <2>3, <3>1, <3>4 DEF Lose
    <3>5. Trace("mined", job.resent) => Assigned'
      BY <2>3, <3>1
    <3> QED BY <1>3, <2>5, <3>2, <3>3, <3>4, <3>5
            DEF JobTx, JobLock, JobPrice, JobSend, JobTaken, Wait, End
  <2>6. CASE JobTransfer \/ JobName \/ JobOwner \/ JobMoved \/ JobStill \/ JobByHash \/ JobHistory
    <3>1. /\ job.at \in {"transfer", "name", "owner", "moved", "still", "byhash", "history"}
          /\ job.task # "refresh" /\ draft \notin Unsent
      BY <2>6 DEF JobTransfer, JobName, JobOwner, JobMoved, JobStill, JobByHash, JobHistory
    <3>2. \/ Ask("name") /\ job.task # "recheck"
          \/ Ask("moved") /\ job.task # "recheck"
          \/ Ask("still") /\ job.task # "recheck"
          \/ Ask("history") /\ job.task = "mined"
          \/ Ask("byhash")
          \/ job' = [job EXCEPT !.at = "owner", !.seen = NameOwner] /\ job.task # "recheck"
      BY <1>3, <2>6, <3>1 DEF JobTransfer, JobName, JobOwner, JobMoved, JobStill, JobByHash,
         JobHistory, NotOurs, MarkLost, AwaitFinalize, Owned, LostPaid, Unconfirmed, Conclude, End
    <3> QED BY <1>1, <2>1, <3>1, <3>2 DEF Ask, JobType
  <2> QED BY <2>2, <2>4, <2>5, <2>6 DEF JobStep
<1> QED BY <1>2, <1>3

\* What the rest of the system may do to a row the job is working on.
LEMMA OtherWrites ==
    ASSUME TypeOK, Handed, Assigned, [Next]_vars, ~Job
    PROVE  \/ job' = Asleep
           \/ /\ job'.at = job.at /\ job'.task = job.task
              /\ job.at # "asleep" => state' = state \/ state' = "gone"
              /\ draft \notin Unsent => draft' \notin Unsent \/ job.at = "asleep"
<1>1. CASE UNCHANGED vars
  BY <1>1 DEF vars, rowVars, draftVars
<1>2. CASE Build \/ Sign
  BY <1>2 DEF Build, Sign, Unsent, Assigned, rowVars
<1>3. CASE Discard \/ SendLoad \/ SendRecheckFails
  BY <1>3 DEF Discard, SendLoad, SendRecheckFails, DiscardDraft, DeleteDraft, ForgetRow, Unsent,
     rowVars, draftVars
<1>4. CASE SendGated \/ SendChecked \/ SubmitDelivered \/ SubmitLost \/ SendSettle \/ SendFails
  BY <1>4 DEF SendGated, SendChecked, SubmitDelivered, SubmitLost, SendSettle, SendFails,
     SetDraft, Unsent, rowVars, draftVars
<1>5. CASE PollRead \/ PollWrite
  BY <1>5 DEF PollRead, PollWrite, SetDraft, TypeOK, Unsent, rowVars, draftVars
<1>6. CASE Block \/ AgeTick \/ RestTick
  BY <1>6 DEF Block, AgeTick, RestTick, rowVars, draftVars
<1>7. CASE Chain
  <2>1. UNCHANGED <<state, draft>> /\ job'.at = job.at /\ job'.task = job.task
    BY <1>7 DEF Chain, rowVars, draftVars, TypeOK, JobType
  <2> QED BY <2>1
<1>8. CASE JobFails \/ Crash
  BY <1>8 DEF JobFails, Crash, End
<1> QED
  BY <1>1, <1>2, <1>3, <1>4, <1>5, <1>6, <1>7, <1>8 DEF Next, Answered, User, Send

LEMMA AssignedNext ==
    ASSUME TypeOK, Handed, Assigned, [Next]_vars
    PROVE  Assigned'
<1>1. CASE Job
  BY <1>1, AssignedByJob DEF Job
<1>2. CASE job' = Asleep
  BY <1>2, AsleepAssigned
<1>3. CASE ~Job /\ job' # Asleep
  BY <1>3, OtherWrites DEF Assigned, NoRow
<1> QED BY <1>1, <1>2, <1>3

-----------------------------------------------------------------------------
(* What the answers of the node still say at the end of a job.             *)

\* What the answers say while they are true.
LEMMA Answers ==
    ASSUME SaleTypeOK, Traced
    PROVE  /\ TxAnswer = "mined" => Mined("purchase")
           /\ Mined("purchase") /\ "tx" \in indexes => TxAnswer = "mined"
           /\ TransferCoin = "mined" => owner = "purchase" /\ Mined("purchase")
           /\ TransferCoin = "mempool" => ~Mined("purchase")
           /\ TransferCoin = "none" /\ Mined("purchase") => life = "live"
           /\ life = "live" => NameOwner = owner
<1>1. pool = "purchase" => owner = "lock"
  BY Shape, Coins, SaleAssumption DEF Traced
<1>2. Mined("purchase") <=> owner \in {"purchase", "finalized", "moved"}
  BY Shape
<1>3. Mined("purchase") => pool # "purchase"
  BY <1>1, <1>2
<1>4. /\ TxAnswer = "mined" => Mined("purchase")
      /\ Mined("purchase") /\ "tx" \in indexes => TxAnswer = "mined"
  BY <1>3 DEF TxAnswer
<1>5. life # "live" /\ Mined("purchase") => owner = "purchase" /\ pool = None
  BY <1>2 DEF Traced
<1>6. None # "purchase"
  BY SaleAssumption
<1>7. /\ TransferCoin = "mined" => owner = "purchase"
      /\ TransferCoin = "mempool" => pool = "purchase"
      /\ owner = "purchase" /\ pool = None => TransferCoin = "mined"
  BY <1>6 DEF TransferCoin
<1> QED BY <1>2, <1>3, <1>4, <1>5, <1>7 DEF NameOwner

\* What a step that leaves the chain alone keeps of a job that goes on.
LEMMA ChainAlone ==
    ASSUME UNCHANGED owners
    PROVE  Mined("purchase")' = Mined("purchase") /\ Mined("finalized")' = Mined("finalized")
BY DEF Mined

LEMMA AsleepRemembers == job' = Asleep => Remembered'
BY DEF Asleep, Remembered

LEMMA RememberedByJob ==
    ASSUME TypeOK, Traced, Handed, Assigned, Remembered, JobStart \/ JobStep
    PROVE  Remembered'
<1>1. job \in JobType /\ SaleTypeOK
  BY TypeParts
<1>2. CASE job' = Asleep
  BY <1>2, AsleepRemembers
<1>3. CASE job' # Asleep
  <2>1. UNCHANGED <<owners, life, indexes>>
    BY DEF JobStart, JobStep, JobDraft, JobTx, JobLock, JobPrice, JobSend, JobTaken,
       JobTransfer, JobName, JobOwner, JobMoved, JobStill, JobByHash, JobHistory, saleVars,
       DeliverPurchase
  <2>2. Mined("purchase")' = Mined("purchase") /\ Mined("finalized")' = Mined("finalized")
    BY <2>1, ChainAlone
  <2> USE <2>1, <2>2
  <2>3. CASE JobStart
    <3>1. /\ job'.at \in {"draft", "transfer"}
          /\ job'.task \in {"refresh", "revive", "recheck"}
          /\ job'.since = IF Mined("purchase") THEN "paid" ELSE "calm"
      BY <2>3, TaskIs DEF JobStart, Asleep
    <3> QED BY <3>1 DEF Remembered
  <2>4. CASE JobDraft
    <3>1. job.task = "refresh" /\ job.at = "draft"
      BY <2>4 DEF JobDraft, Assigned
    <3>2. CASE draft = "failed" /\ Lose(job.resent)
      <4>1. job.since # "paid"
        BY <3>1, <3>2 DEF Remembered, Handed, Traced
      <4>2. job'.at = "transfer" /\ job'.task = "lose" /\ job'.since = job.since
        BY <3>2, <1>1 DEF Lose, Trace, JobType
      <4> QED BY <4>1, <4>2 DEF Remembered
    <3>3. CASE job' = [job EXCEPT !.at = "tx", !.dropped = (draft = "dropped")]
      <4>1. job'.at = "tx" /\ job'.task = job.task /\ job'.since = job.since
        BY <3>3, <1>1 DEF JobType
      <4> QED BY <4>1, <3>1 DEF Remembered
    <3> QED BY <1>3, <2>4, <3>2, <3>3 DEF JobDraft, End
  <2>5. CASE JobTx
    <3>1. job.at = "tx" /\ job.task = "refresh"
      BY <2>5 DEF JobTx, Assigned
    <3>2. CASE TxAnswer = "null" /\ Ask("lock")
      <4>1. job'.at = "lock" /\ job'.task = job.task /\ job'.since = job.since
        BY <3>2, <1>1 DEF Ask, JobType
      <4>2. ~(job.since = "paid" /\ "tx" \in indexes)
        BY <3>1, <3>2, <1>1, Answers DEF Remembered
      <4> QED BY <4>1, <4>2, <3>1 DEF Remembered
    <3>3. CASE TxAnswer = "mined" /\ Trace("mined", job.resent)
      <4>1. job'.at = "transfer" /\ job'.task = "mined" /\ job'.since = job.since
        BY <3>3, <1>1 DEF Trace, JobType
      <4>2. Mined("purchase")
        BY <3>3, <1>1, Answers
      <4> QED BY <4>1, <4>2 DEF Remembered
    <3> QED BY <1>3, <2>5, <3>2, <3>3 DEF JobTx, Unconfirmed, Conclude, End
  <2>6. CASE JobLock \/ JobPrice \/ JobSend \/ JobTaken
    <3>1. job.at \in {"lock", "price", "send", "taken"} /\ job.task = "refresh"
      BY <2>6 DEF JobLock, JobPrice, JobSend, JobTaken, Assigned
    <3>2. ASSUME NEW at \in {"price", "send", "taken"}, Ask(at) PROVE Remembered'
      <4>1. job'.at = at /\ job'.task = job.task /\ job'.since = job.since
        BY <3>2, <1>1 DEF Ask, JobType
      <4> QED BY <4>1, <3>1, <3>2 DEF Remembered
    <3>3. ASSUME NEW count, Lose(count) PROVE Remembered'
      <4>1. job'.at = "transfer" /\ job'.task = "lose" /\ job'.since = job.since
        BY <3>3, <1>1 DEF Lose, Trace, JobType
      <4> QED BY <4>1, <3>1 DEF Remembered
    <3> QED BY <1>3, <2>6, <3>2, <3>3 DEF JobLock, JobPrice, JobSend, JobTaken, Wait, Unconfirmed,
            Conclude, End
  <2>7. CASE JobTransfer
    <3>1. job.at = "transfer"
      BY <2>7 DEF JobTransfer
    <3>2. CASE TransferCoin = "none" /\ Ask("name")
      <4>1. job'.at = "name" /\ job'.task = job.task /\ job'.since = job.since
        BY <3>2, <1>1 DEF Ask, JobType
      <4>2. job.since = "paid" => life = "live"
        BY <3>1, <3>2, <1>1, Answers DEF Remembered
      <4> QED BY <4>1, <4>2, <3>1 DEF Remembered
    <3>3. CASE TransferCoin \in {"mined", "mempool"} /\ Ask("moved")
      <4>1. job'.at = "moved" /\ job'.task = job.task /\ job'.since = job.since
        BY <3>3, <1>1 DEF Ask, JobType
      <4>2. job.since # "stirred" => Mined("purchase")
        <5>1. TransferCoin = "mined" => Mined("purchase")
          BY <1>1, Answers
        <5>2. TransferCoin = "mempool" => job.task = "mined"
          BY <1>3, <2>7, <3>3 DEF JobTransfer, Unconfirmed, Conclude, End
        <5> QED BY <5>1, <5>2, <3>1, <3>3 DEF Remembered
      <4> QED BY <4>1, <4>2, <3>1 DEF Remembered
    <3> QED BY <1>3, <2>7, <3>2, <3>3
            DEF JobTransfer, AwaitFinalize, Unconfirmed, Conclude, End
  <2>8. CASE JobName
    <3>1. job.at = "name"
      BY <2>8 DEF JobName
    <3>2. CASE /\ NameOwner \notin {"nobody", "purchase"}
               /\ job' = [job EXCEPT !.at = "owner", !.seen = NameOwner]
      <4>1. /\ job'.at = "owner" /\ job'.task = job.task /\ job'.since = job.since
            /\ job'.seen = NameOwner
        BY <3>2, <1>1 DEF JobType
      <4>2. job.since = "paid" => life = "live" /\ NameOwner \in {"finalized", "moved"}
        BY <3>1, <3>2, <1>1, Answers, Shape DEF Remembered
      <4> QED BY <4>1, <4>2, <3>1 DEF Remembered
    <3>3. CASE Ask("history")
      <4>1. job'.at = "history" /\ job'.task = job.task /\ job'.since = job.since
        BY <3>3, <1>1 DEF Ask, JobType
      <4> QED BY <4>1, <3>1 DEF Remembered
    <3> QED BY <1>3, <2>8, <3>2, <3>3
            DEF JobName, NotOurs, MarkLost, AwaitFinalize, Conclude, End
  <2>9. CASE JobOwner
    <3>1. job.at = "owner"
      BY <2>9 DEF JobOwner
    <3>2. ASSUME NEW at \in {"history", "byhash"}, Ask(at) PROVE Remembered'
      <4>1. job'.at = at /\ job'.task = job.task /\ job'.since = job.since
        BY <3>2, <1>1 DEF Ask, JobType
      <4> QED BY <4>1, <3>1, <3>2 DEF Remembered
    <3> QED BY <1>3, <2>9, <3>2 DEF JobOwner, NotOurs, MarkLost, Owned, Conclude, End
  <2>10. CASE JobMoved
    <3>1. job.at = "moved"
      BY <2>10 DEF JobMoved
    <3>2. NameOwner # "purchase" /\ Ask("still")
      BY <1>3, <2>10 DEF JobMoved, AwaitFinalize, Conclude, End
    <3>3. job'.at = "still" /\ job'.task = job.task /\ job'.since = job.since
      BY <3>2, <1>1 DEF Ask, JobType
    <3>4. job.since # "stirred" => Mined("purchase")
      BY <3>1 DEF Remembered
    <3>5. life = "live" /\ Mined("purchase") => Mined("finalized")
      BY <1>1, <3>2, Answers, Shape
    <3> QED BY <3>1, <3>3, <3>4, <3>5 DEF Remembered
  <2>11. CASE JobStill \/ JobByHash \/ JobHistory
    BY <1>3, <2>11 DEF JobStill, JobByHash, JobHistory, LostPaid, Owned, AwaitFinalize, Conclude,
       End
  <2> QED
    BY <2>3, <2>4, <2>5, <2>6, <2>7, <2>8, <2>9, <2>10, <2>11 DEF JobStep
<1> QED BY <1>2, <1>3

LEMMA RememberedNext ==
    ASSUME TypeOK, Traced, Handed, Assigned, Remembered, [Next]_vars
    PROVE  Remembered'
<1>1. CASE Job
  BY <1>1, RememberedByJob DEF Job
<1>2. CASE job' = Asleep
  BY <1>2, AsleepRemembers
<1>3. CASE Chain
  <2>1. SaleTypeOK /\ job \in JobType
    BY TypeParts
  <2>2. CASE job.at = "asleep" \/ (Len(owners') >= Len(owners) /\ life' = life)
    <3>1. job' = job /\ indexes' = indexes
      BY <1>3, <2>1, <2>2, SaleStep DEF Chain
    <3>2. CASE job.at = "asleep"
      BY <3>1, <3>2 DEF Remembered
    <3>3. CASE Len(owners') >= Len(owners) /\ life' = life
      <4>1. /\ Mined("purchase") => Mined("purchase")'
            /\ Mined("finalized") => Mined("finalized")'
        BY <1>3, <2>1, <3>3, SaleStep DEF Chain
      <4> QED BY <3>1, <3>3, <4>1 DEF Remembered
    <3> QED BY <2>2, <3>2, <3>3
  <2>3. CASE ~(job.at = "asleep" \/ (Len(owners') >= Len(owners) /\ life' = life))
    <3>1. job'.since = "stirred"
      BY <1>3, <2>1, <2>3 DEF Chain, JobType
    <3> QED BY <3>1 DEF Remembered
  <2> QED BY <2>2, <2>3
<1>4. CASE UNCHANGED <<owners, life, indexes, job>>
  BY <1>4, ChainAlone DEF Remembered
<1> QED
  BY <1>1, <1>2, <1>3, <1>4 DEF Next, Answered, User, Send, Build, Sign, Discard, SendLoad,
     SendGated, SendChecked, SendRecheckFails, SubmitDelivered, SubmitLost, SendSettle, SendFails,
     PollRead, PollWrite, Block, AgeTick, RestTick, JobFails, Crash, End, DeliverPurchase, vars,
     saleVars

-----------------------------------------------------------------------------
(* The invariant, and what no step does while it holds.                    *)

LEMMA InvInit == Init => Inv
<1> SUFFICES ASSUME Init PROVE Inv
  OBVIOUS
<1>1. TypeOK /\ Traced
  BY TypedInit
<1>2. Handed /\ Assigned /\ Remembered
  BY DEF Init, SaleInit, Handed, Unsent, Assigned, Remembered, Asleep
<1> QED BY <1>1, <1>2 DEF Inv

LEMMA InvNext == Inv /\ [Next]_vars => Inv'
BY TypedNext, HandedNext, AssignedNext, RememberedNext DEF Inv

LEMMA InvCorrect == Spec => []Inv
BY InvInit, InvNext, PTL DEF Spec

\* Where a row may be deleted.
LEMMA Deletes ==
    ASSUME Inv, [Next]_vars, state' = "gone", state # "gone"
    PROVE  \/ draft = "deleted"
           \/ draft \in Unsent /\ sending \in {"no", "loaded", "reloaded"}
           \/ draft = "failed"
<1> USE DEF Inv
<1>1. CASE Job
  <2>1. \/ draft = "deleted"
        \/ draft \in Unsent /\ age = 2
    BY <1>1, JobWrites DEF Job, rowVars, NoRow
  <2>2. draft \in Unsent /\ age = 2 => sending = "no"
    BY DEF Handed
  <2> QED BY <2>1, <2>2
<1>2. CASE Discard
  BY <1>2 DEF Discard, DiscardDraft, GivenUp, Handed, rowVars
<1>3. CASE SendLoad
  BY <1>3 DEF SendLoad, Unsent, rowVars
<1>4. CASE SendRecheckFails
  BY <1>4 DEF SendRecheckFails, DiscardDraft, Handed, TypeOK, DraftStatus, GivenUp, rowVars
<1>5. CASE ~Job /\ ~Discard /\ ~SendLoad /\ ~SendRecheckFails
  BY <1>5 DEF Next, Answered, User, Send, Build, Sign, SendGated, SendChecked, SubmitDelivered,
     SubmitLost, SendSettle, SendFails, PollRead, PollWrite, Block, AgeTick, RestTick, Chain,
     JobFails, Crash, Look, vars, rowVars
<1> QED BY <1>1, <1>2, <1>3, <1>4, <1>5

\* A purchase some node was handed keeps its row, whatever order the job, a
\* refused send and the user come in, unless its draft is deleted or reads as
\* not sent (delete_abandoned_shakedex_purchase, SEND_GRACE_SECS,
\* broadcast_tx_draft).
THEOREM SentKeptCorrect == Spec => SentPurchaseKept
<1> DEFINE Kept == state' = "gone" /\ state # "gone" /\ relayed =>
                     draft = "deleted" \/ (draft \in Unsent /\ ~AtNode)
<1>1. Inv /\ [Next]_vars => [Kept]_vars
  BY Deletes DEF Inv, Handed, AtNode
<1> QED BY <1>1, InvCorrect, PTL DEF Spec, SentPurchaseKept

\* Which step of the job gives a verdict on the name, and on what answer.
LEMMA Verdicts ==
    ASSUME JobStart \/ JobStep
    PROVE  \/ UNCHANGED <<state, said>>
           \/ state' \in {"gone", "unconfirmed", "awaiting_finalize"}
           \/ /\ state' = "owned"
              /\ \/ job.at = "owner" /\ job.task # "revive"
                 \/ job.at = "byhash" /\ TxAnswer = "mined"
                 \/ job.at = "history"
           \/ /\ state' = "lost" /\ said' = "unpaid" /\ job.task = "lose"
              /\ \/ job.at = "name" /\ NameOwner = "nobody"
                 \/ job.at = "owner" /\ OwnerCoinAt(job.seen) = "elsewhere"
           \/ /\ state' = "lost" /\ said' = "paid"
              /\ job.at = "still" /\ TransferCoin # "none"
<1> DEFINE Same == UNCHANGED <<state, said>>
           Saved(to, words) == Same \/ (state' = to /\ said' = words)
<1>1. \A to, since, count, words : Conclude(to, since, count, words) => Saved(to, words)
  BY DEF Conclude, Save, rowVars
<1>2. /\ \A since, count : Unconfirmed(since, count) => Same \/ state' = "unconfirmed"
      /\ AwaitFinalize => Same \/ state' = "awaiting_finalize"
      /\ Owned => Same \/ state' = "owned"
      /\ LostPaid => Saved("lost", "paid")
      /\ MarkLost => Saved("lost", "unpaid")
  BY <1>1 DEF Unconfirmed, AwaitFinalize, Owned, LostPaid, MarkLost
<1>3. /\ Look => Same
      /\ \A task, count : Trace(task, count) => Same
      /\ ForgetRow => state' = "gone"
  BY DEF Look, Trace, ForgetRow, rowVars
<1>4. NotOurs => Same \/ (job.task = "lose" /\ state' = "lost" /\ said' = "unpaid")
  BY <1>2, <1>3 DEF NotOurs
<1> HIDE DEF Same
<1>5. CASE JobStart \/ JobDraft \/ JobTx \/ JobLock \/ JobPrice \/ JobSend \/ JobTaken
  BY <1>2, <1>3, <1>5 DEF JobStart, JobDraft, JobTx, JobLock, JobPrice, JobSend, JobTaken, Wait,
     Lose, Same
<1>6. CASE JobTransfer \/ JobMoved
  BY <1>2, <1>3, <1>6 DEF JobTransfer, JobMoved, Same
<1>7. CASE JobName
  BY <1>2, <1>3, <1>4, <1>7 DEF JobName, Same
<1>8. CASE JobOwner
  BY <1>2, <1>3, <1>4, <1>8 DEF JobOwner, Same
<1>9. CASE JobStill \/ JobByHash \/ JobHistory
  BY <1>2, <1>3, <1>9 DEF JobStill, JobByHash, JobHistory, Same
<1> QED BY <1>5, <1>6, <1>7, <1>8, <1>9 DEF JobStep

\* Nobody but the job gives a verdict on the name.
LEMMA NoOtherVerdict ==
    ASSUME [Next]_vars, ~Job
    PROVE  UNCHANGED <<state, said>> \/ state' \in {"gone", "pending_send"}
BY DEF Next, Answered, User, Send, Build, Sign, Discard, SendLoad, SendGated, SendChecked,
   SendRecheckFails, SubmitDelivered, SubmitLost, SendSettle, SendFails, PollRead, PollWrite,
   Block, AgeTick, RestTick, Chain, JobFails, Crash, Look, DiscardDraft, ForgetRow, vars, rowVars

\* A lost purchase is owned again only if it was in a block once, whoever else
\* brought the name to its destination (Job::revive, mined_height).
THEOREM RevivedCorrect == Spec => RevivedWasMined
<1> DEFINE Revived == state = "lost" /\ state' = "owned" => landed
<1>1. Inv /\ [Next]_vars => [Revived]_vars
  <2> SUFFICES ASSUME Inv, [Next]_vars, state = "lost", state' = "owned" PROVE landed
    OBVIOUS
  <2> USE DEF Inv
  <2>1. JobStart \/ JobStep
    BY NoOtherVerdict DEF Job
  <2>2. \/ job.at = "owner" /\ job.task # "revive"
        \/ job.at = "byhash" /\ TxAnswer = "mined"
        \/ job.at = "history"
    BY <2>1, Verdicts
  <2>3. job.at = "byhash" /\ TxAnswer = "mined"
    <3>1. job.at # "asleep" => job.task \notin {"refresh", "mined", "lose", "recheck"}
      BY DEF Assigned, Open, NoRow
    <3>2. job.at # "asleep" => job.task \in {"refresh", "mined", "lose", "revive", "recheck"}
      BY DEF Assigned
    <3> QED BY <2>2, <3>1, <3>2 DEF Assigned
  <2> QED BY <2>3, TypeParts, Answers DEF Traced
<1> QED BY <1>1, InvCorrect, PTL DEF Spec, RevivedWasMined

\* What a loss says is true when no reorg and no expiry came between the
\* requests it was judged by: a purchase in a block is not said to have paid
\* nothing (but on a node without the index, once its owner moved the name), a
\* name that lives is not said to be lost (lose_unless_traced, name_moved_on).
THEOREM LossTrueCorrect == Spec => LossIsTrue
<1> DEFINE Unpaid ==
             BecomesLost("unpaid") /\ job.since = "paid" => owner = "moved" /\ "tx" \notin indexes
           Paid == BecomesLost("paid") /\ job.since # "stirred" => life # "live"
<1>1. Inv /\ [Next]_vars => Unpaid
  <2> SUFFICES ASSUME Inv, [Next]_vars, BecomesLost("unpaid"), job.since = "paid"
               PROVE owner = "moved" /\ "tx" \notin indexes
    OBVIOUS
  <2> USE DEF Inv
  <2>1. JobStart \/ JobStep
    BY NoOtherVerdict DEF Job, BecomesLost
  <2>2. /\ job.task = "lose"
        /\ \/ job.at = "name" /\ NameOwner = "nobody"
           \/ job.at = "owner" /\ OwnerCoinAt(job.seen) = "elsewhere"
    BY <2>1, Verdicts DEF BecomesLost
  <2>3. "tx" \notin indexes /\ life = "live"
    BY <2>2 DEF Remembered
  <2>4. owner \in OwnerCoins /\ NameOwner = owner
    BY <2>3, TypeParts, Shape, Answers
  <2>5. job.at = "owner" /\ job.seen \in {"finalized", "moved"}
    BY <2>2, <2>4, Coins DEF Remembered
  <2>6. owner = "moved"
    BY <2>2, <2>5 DEF OwnerCoinAt
  <2> QED BY <2>3, <2>6
<1>2. Inv /\ [Next]_vars => Paid
  <2> SUFFICES ASSUME Inv, [Next]_vars, BecomesLost("paid"), job.since # "stirred"
               PROVE life # "live"
    OBVIOUS
  <2> USE DEF Inv
  <2>1. JobStart \/ JobStep
    BY NoOtherVerdict DEF Job, BecomesLost
  <2>2. job.at = "still" /\ TransferCoin # "none"
    BY <2>1, Verdicts DEF BecomesLost
  <2>3. Mined("purchase") /\ (life # "live" \/ Mined("finalized"))
    BY <2>2 DEF Remembered
  <2>4. TransferCoin = "mined"
    BY <2>2, <2>3, TypeParts, Answers DEF TransferCoin
  <2>5. owner = "purchase"
    BY <2>4, TypeParts, Answers
  <2> QED BY <2>3, <2>5, TypeParts, Shape
<1> QED BY <1>1, <1>2, InvCorrect, PTL DEF Spec, LossIsTrue
=============================================================================
