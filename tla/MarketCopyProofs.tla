-------------------------- MODULE MarketCopyProofs --------------------------
(***************************************************************************)
(* What the market jobs keep, for any number of devices, of lost answers,  *)
(* refusals, reorgs, uploads of others and lowered prices.                 *)
(*                                                                         *)
(* Inv is the inductive invariant: each listing and its job fit together   *)
(* (Rows), no expiry is later than a refresh would write (Expiries), a     *)
(* step on the market of a followed device is somebody's who keeps the     *)
(* listing (Holder, without which SomeoneKeeps is not inductive), and a    *)
(* device whose copy the market holds knows it (Copied, without which a    *)
(* warning could be of a device's own copy).  For each action one lemma    *)
(* (...Rows) has the types and Rows, another (...Steady) the rest.         *)
(***************************************************************************)
EXTENDS MarketCopy, FiniteSetTheorems, TLAPS

-----------------------------------------------------------------------------
(* The inductive invariant.                                                *)

Kinds == Uploads \cup {"report", "announce", "follow"}
SomeStep == Steps \cup {NoStep}
States == {"none", "finalizing", "listed", "cancelling"} \cup Ended

Row ==
    [state : States, cancel : {"none", "unsent", "sent", "dead"}, steps : SUBSET Steps, exp : Nat,
     publish : BOOLEAN, status : Statuses, due : BOOLEAN, accepted : BOOLEAN,
     changed : BOOLEAN, told : BOOLEAN, sent : SomeStep, elsewhere : BOOLEAN,
     foreign : SomeStep]
Copies == [step : SomeStep, exp : Nat, by : Devices \cup {"nobody", "other"}]
Jobs ==
    [at : {"idle", "cut", "look", "send", "answer"}, kind : Kinds \cup {"none"}, seen : Row,
     lost : BOOLEAN, refreshed : BOOLEAN, t : 0..1, step : SomeStep, copy : Copies,
     ok : {"none", "listed", "replaced"},
     reply : {"none", "taken", "refused", "lost", "not seen yet"}]
Results ==
    [status : Statuses, due : BOOLEAN, accepted : BOOLEAN, told : BOOLEAN, sent : SomeStep]
Prompts ==
    [kind : {"none", "lower", "take over"}, old : SUBSET Steps, foreign : SomeStep,
     new : SUBSET Steps, exp : Nat]

Markets == [copy : Copies, pending : BOOLEAN, said : SUBSET States, unheard : SUBSET Devices]
Budgets == [devices : SUBSET Devices, commands : Nat, ticks : Nat, events : Nat]

Typed ==
    /\ lockCoin \in {"none", "coin"} \cup Ended /\ mtp \in 0..1 /\ year \in Nat
    /\ market \in Markets
    /\ row \in [Devices -> Row] /\ job \in [Devices -> Jobs]
    /\ prompt \in [Devices -> Prompts]
    /\ budget \in Budgets

\* A listing has the signed schedule; it is managed elsewhere by a step seen
\* there, and only once it is published; what the market took last, unchanged
\* since, is the current step, or one the clock alone moves on from.
Sound(r) ==
    /\ r \in Row
    /\ r.publish \/ r.accepted => r.state # "none"
    /\ r.state # "none" => Schedule \subseteq r.steps
    /\ r.sent \in r.steps \cup {NoStep}
    /\ r.accepted => r.told
    /\ r.elsewhere <=> r.foreign # NoStep
    /\ r.elsewhere => r.publish
    /\ r.accepted /\ ~r.changed /\ r.sent # NoStep =>
         r.steps \subseteq Schedule \/ \A t \in 0..1 : r.sent = Current(r.steps, t)

InFlight(j) == j.at # "idle" /\ j.kind \in Uploads

\* A job of a published listing knows some of its steps; while one that uploads
\* is under way the listing stays managed here.
Device(r, j) ==
    /\ Sound(r)
    /\ j.at # "idle" =>
         /\ Sound(j.seen) /\ j.seen.publish /\ r.publish /\ j.seen.steps \subseteq r.steps
         /\ j.kind \in IF j.at \in {"send", "answer"} THEN Uploads \cup {"report", "announce"}
                                                    ELSE Uploads \cup {"follow"}
    /\ InFlight(j) =>
         /\ ~r.elsewhere
         /\ j.at # "cut" => \E t \in 0..1 : j.step = Current(j.seen.steps, t)

\* What a prompt would write holds what was there.
Asked(p) == p # NoPrompt => p.kind # "none" /\ p.old \subseteq p.new

Rows == \A d \in Devices : Device(row[d], job[d]) /\ Asked(prompt[d])

\* No expiry is later than a refresh would write.
Expiries ==
    /\ market.copy.exp <= Refreshed
    /\ \A d \in Devices :
         row[d].exp <= Refreshed /\ job[d].seen.exp <= Refreshed /\ prompt[d].exp <= Refreshed

\* The market's copy of a step of a followed device is somebody's who keeps it.
Holder ==
    budget.devices = Devices /\ market.copy.step \notin Schedule \cup {NoStep}
        => \E d \in Devices :
             row[d].publish /\ ~row[d].elsewhere /\ market.copy.step \in row[d].steps

JustTaken(j) == InFlight(j) /\ j.at = "answer" /\ j.reply = "taken"

\* A device whose copy the market holds knows: by the answer on its way, or as
\* the step last sent, or by the note that what is sent changed since; or it
\* has lost track.
Noted(r, j, copy, forgot) ==
    IF JustTaken(j) THEN j.step = copy.step
    ELSE forgot \/ (r.accepted /\ (r.changed \/ r.sent = copy.step))

\* A job that has read its listing knows so too, whatever becomes of the listing.
Recalled(j, copy) ==
    InFlight(j) /\ ~j.lost /\ (j.at = "cut" \/ (j.at = "look" /\ ~j.refreshed)) =>
        j.seen.accepted /\ (j.seen.changed \/ j.seen.sent = copy.step)

\* A first warning is on its way only over a copy of somebody else, or of a
\* schedule's step with another expiry.
Warned(j) ==
    /\ InFlight(j) /\ j.at \in {"send", "answer"} /\ j.ok = "replaced"
    /\ j.seen.status # "replaced"
OfOthers(d, j) ==
    \/ j.copy.by # d \/ j.lost
    \/ j.copy.exp # j.seen.exp /\ j.step \in Schedule

Copied ==
    /\ market.copy.by \in Devices => market.copy.step # NoStep
    /\ \A d \in Devices :
         /\ market.copy.by = d => /\ Noted(row[d], job[d], market.copy, d \in market.unheard)
                                  /\ Recalled(job[d], market.copy)
         /\ Warned(job[d]) => OfOthers(d, job[d])

Inv == Typed /\ Rows /\ Expiries /\ Holder /\ SomeoneKeeps /\ Copied

-----------------------------------------------------------------------------
(* The current step.                                                       *)

\* A finite set of numbers has a largest one: of the sets of those from x on,
\* one has no smaller among them.
LEMMA MaxIn ==
    ASSUME NEW S \in SUBSET Nat, IsFiniteSet(S), S # {}
    PROVE  Max(S) \in S /\ \A y \in S : Max(S) >= y
<1>. DEFINE Up(x) == {y \in S : y >= x}
            T == {Up(x) : x \in S}
<1>1. T \subseteq FiniteSubsetsOf(S) /\ T # {}
  <2>1. \A x \in S : Up(x) \in SUBSET S /\ IsFiniteSet(Up(x))
    <3>. TAKE x \in S
    <3>1. Up(x) \in SUBSET S
      OBVIOUS
    <3>. QED
      BY <3>1, FS_Subset
  <2>. QED
    BY <2>1 DEF FiniteSubsetsOf
<1>2. PICK U \in T : \A V \in T : <<V, U>> \notin StrictSubsetOrdering(S)
  BY <1>1, FS_StrictSubsetOrderingWellFounded, WFMin
<1>3. PICK x \in S : U = Up(x)
  OBVIOUS
<1>4. ASSUME NEW y \in S PROVE x >= y
  <2>1. CASE y > x
    <3>1. Up(y) \in T /\ x \in U /\ U \subseteq S
      BY <1>3
    <3>2. \A z \in Up(y) : z >= x
      BY <2>1
    <3>3. Up(y) \subseteq Up(x)
      BY <3>2
    <3>4. x \notin Up(y)
      BY <2>1
    <3>. QED
      BY <1>2, <1>3, <3>1, <3>3, <3>4 DEF StrictSubsetOrdering
  <2>. QED
    BY <2>1
<1>. QED
  BY <1>4 DEF Max

LEMMA StepsFinite == IsFiniteSet(Steps) /\ Steps \subseteq Nat \ {NoStep}
<1>1. IsFiniteSet({Lowered[d] : d \in Devices})
  <2>. DEFINE L == {Lowered[d] : d \in Devices}
  <2>1. Lowered \in Surjection(Devices, L)
    BY MarketAssumption DEF Surjection
  <2>. QED
    BY <2>1, DevicesAssumption, FS_Surjection
<1>2. IsFiniteSet({1}) /\ IsFiniteSet({1} \cup {2})
  BY FS_EmptySet, FS_AddElement
<1>3. {1, 2} = {1} \cup {2}
  OBVIOUS
<1>4. IsFiniteSet(Schedule)
  BY <1>2, <1>3, MarketAssumption
<1>5. IsFiniteSet(Steps)
  BY <1>1, <1>4, FS_Union DEF Steps
<1>6. Steps \subseteq Nat \ {NoStep}
  BY MarketAssumption DEF Steps, NoStep
<1>. QED
  BY <1>5, <1>6

\* The current step is one of the steps.
LEMMA CurrentIn ==
    ASSUME NEW steps \in SUBSET Steps, Schedule \subseteq steps, NEW t
    PROVE  Current(steps, t) \in steps /\ Current(steps, t) # NoStep
<1>. DEFINE V == {s \in steps : ValidAt(s, t)}
<1>1. V \in SUBSET Nat /\ V \in SUBSET Steps
  BY StepsFinite
<1>3. IsFiniteSet(V) /\ 1 \in V
  <2>1. IsFiniteSet(V)
    BY <1>1, StepsFinite, FS_Subset
  <2>2. 1 \in V
    BY MarketAssumption DEF ValidAt
  <2>. QED
    BY <2>1, <2>2
<1>2. Max(V) \in V
  BY <1>1, <1>3, MaxIn
<1>. QED
  BY <1>2, StepsFinite DEF Current

\* With a lowered step, time changes nothing: it is cheaper than the schedule's.
LEMMA LoweredStays ==
    ASSUME NEW steps \in SUBSET Steps, Schedule \subseteq steps, ~(steps \subseteq Schedule),
           NEW t \in Nat, NEW u \in Nat
    PROVE  Current(steps, t) = Current(steps, u)
<1>. DEFINE V(v) == {s \in steps : ValidAt(s, v)}
<1>1. PICK l \in steps : l > 2
  BY MarketAssumption DEF Steps
<1>2. \A v \in Nat : Max(V(v)) \in V(v) /\ \A y \in V(v) : Max(V(v)) >= y
  <2>. TAKE v \in Nat
  <2>1. V(v) \in SUBSET Nat /\ V(v) \in SUBSET Steps
    BY StepsFinite
  <2>2. l \in V(v)
    BY <1>1, StepsFinite DEF ValidAt
  <2>3. IsFiniteSet(V(v))
    BY <2>1, StepsFinite, FS_Subset
  <2>. HIDE DEF V
  <2>. QED
    BY <2>1, <2>2, <2>3, MaxIn
<1>3. \A v \in Nat : l \in V(v)
  BY <1>1, StepsFinite DEF ValidAt
<1>4. \A v \in Nat : Max(V(v)) > 2 /\ Max(V(v)) \in Nat
  <2>. TAKE v \in Nat
  <2>1. Max(V(v)) \in V(v) /\ Max(V(v)) >= l
    BY <1>2, <1>3
  <2>2. Max(V(v)) \in Nat /\ l \in Nat
    BY <2>1, StepsFinite
  <2>. HIDE DEF V
  <2>. QED
    BY <1>1, <2>1, <2>2
<1>7. \A v, w \in Nat : Max(V(v)) \in V(w)
  <2>. TAKE v, w \in Nat
  <2>1. PICK m : m = Max(V(v))
    OBVIOUS
  <2>2. m \in steps /\ m # 2
    <3>1. m \in V(v) /\ m > 2 /\ m \in Nat
      BY <1>2, <1>4, <2>1
    <3>. QED
      BY <3>1
  <2>3. m \in V(w)
    BY <2>2 DEF ValidAt
  <2>. QED
    BY <2>1, <2>3
<1>5. Max(V(t)) \in V(u) /\ Max(V(u)) \in V(t)
  BY <1>7
<1>6. Max(V(t)) = Max(V(u))
  <2>. HIDE DEF V
  <2>. QED
    BY <1>2, <1>4, <1>5
<1>. QED
  BY <1>6 DEF Current

-----------------------------------------------------------------------------
(* What the bookkeeping writes keep.                                       *)

LEMMA ChangedKeeps ==
    ASSUME NEW r, Sound(r)
    PROVE  /\ Sound(Changed(r)) /\ Changed(r).accepted = r.accepted
           /\ Changed(r).state = r.state /\ Changed(r).steps = r.steps
           /\ Changed(r).exp = r.exp /\ Changed(r).publish = r.publish
           /\ Changed(r).elsewhere = r.elsewhere /\ Changed(r).sent = r.sent
           /\ r.accepted => Changed(r).changed
<1>1. Changed(r) \in Row
  BY DEF Sound, Row, Changed, Statuses
<1>. QED
  BY <1>1 DEF Sound, Row, Changed

LEMMA ResultTyped ==
    ASSUME NEW r \in Row, NEW status \in Statuses, NEW due \in BOOLEAN, NEW accepted \in BOOLEAN,
           NEW changed \in BOOLEAN, NEW told \in BOOLEAN, NEW sent \in SomeStep
    PROVE  [r EXCEPT !.status = status, !.due = due, !.accepted = accepted,
                     !.changed = changed, !.told = told, !.sent = sent] \in Row
BY DEF Row

LEMMA RecordedKeeps ==
    ASSUME NEW r, Sound(r), r.publish, NEW seen, Sound(seen),
           NEW res \in Results,
           res.accepted => res.told /\ res.sent # NoStep,
           res.sent # NoStep =>
              res.sent \in seen.steps /\ \E t \in 0..1 : res.sent = Current(seen.steps, t)
    PROVE  /\ Sound(Recorded(r, seen, res))
           /\ Recorded(r, seen, res).state = r.state /\ Recorded(r, seen, res).steps = r.steps
           /\ Recorded(r, seen, res).exp = r.exp /\ Recorded(r, seen, res).publish
           /\ Recorded(r, seen, res).elsewhere = r.elsewhere
<1>. DEFINE w == Recorded(r, seen, res)
<1>1. CASE ~Same(r, seen)
  BY <1>1 DEF Recorded
<1>2. CASE Same(r, seen)
  <2>. DEFINE c == ~res.accepted /\ (r.changed \/ (r.accepted /\ r.sent # NoStep
                                        /\ res.sent \notin {NoStep, r.sent}))
           a == r.accepted \/ res.accepted
           o == r.told \/ res.told
           s == IF res.sent = NoStep THEN r.sent ELSE res.sent
  <2>7. c \in BOOLEAN /\ a \in BOOLEAN /\ o \in BOOLEAN
    OBVIOUS
  <2>9. s \in SomeStep
    BY DEF Sound, Row, Results
  <2>8. w = [r EXCEPT !.status = res.status, !.due = res.due, !.accepted = a,
                      !.changed = c, !.told = o, !.sent = s]
    BY <1>2 DEF Recorded, Sound, Row
  <2>1. w \in Row
    <3>1. res.status \in Statuses /\ res.due \in BOOLEAN /\ r \in Row
      BY DEF Sound, Results
    <3>. DEFINE u == res.status
                b == res.due
    <3>2. u \in Statuses /\ b \in BOOLEAN
      BY <3>1
    <3>3. w = [r EXCEPT !.status = u, !.due = b, !.accepted = a,
                        !.changed = c, !.told = o, !.sent = s]
      BY <2>8
    <3>. HIDE DEF w, a, c, o, s, u, b
    <3>4. [r EXCEPT !.status = u, !.due = b, !.accepted = a,
                    !.changed = c, !.told = o, !.sent = s] \in Row
      BY <2>7, <2>9, <3>1, <3>2, ResultTyped
    <3>. QED
      BY <3>3, <3>4
  <2>2. /\ w.state = r.state /\ w.steps = r.steps /\ w.exp = r.exp /\ w.publish = r.publish
        /\ w.elsewhere = r.elsewhere /\ w.foreign = r.foreign
        /\ w.accepted = (r.accepted \/ res.accepted) /\ w.told = (r.told \/ res.told)
        /\ w.sent = IF res.sent = NoStep THEN r.sent ELSE res.sent
        /\ ~w.changed => res.accepted \/ ~r.changed
    BY <1>2 DEF Recorded, Sound, Row
  <2>3. r.steps = seen.steps
    BY <1>2 DEF Same
  <2>4. ASSUME w.accepted, ~w.changed, w.sent # NoStep
        PROVE  w.steps \subseteq Schedule \/ \A t \in 0..1 : w.sent = Current(w.steps, t)
    <3>1. CASE res.sent = NoStep
      BY <2>2, <2>4, <3>1 DEF Sound
    <3>2. CASE res.sent # NoStep
      <4>1. PICK t \in 0..1 : w.sent = Current(w.steps, t)
        BY <2>2, <2>3, <3>2
      <4>2. w.steps \in SUBSET Steps /\ Schedule \subseteq w.steps
        BY <2>1, <2>2 DEF Row, Sound
      <4>. QED
        BY <4>1, <4>2, LoweredStays
    <3>. QED
      BY <3>1, <3>2
  <2>5. w.sent \in w.steps \cup {NoStep} /\ (w.accepted => w.told)
    BY <2>2, <2>3 DEF Sound
  <2>. HIDE DEF w
  <2>6. Sound(w)
    BY <2>1, <2>2, <2>4, <2>5 DEF Sound
  <2>. QED
    BY <2>2, <2>6 DEF w
<1>. QED
  BY <1>1, <1>2

LEMMA MarkedKeeps ==
    ASSUME NEW r, Sound(r), r.publish, NEW seen, NEW step \in SomeStep
    PROVE  /\ Sound(Marked(r, seen, step))
           /\ Marked(r, seen, step).state = r.state /\ Marked(r, seen, step).steps = r.steps
           /\ Marked(r, seen, step).exp = r.exp /\ Marked(r, seen, step).publish
           /\ Marked(r, seen, step).accepted = r.accepted /\ Marked(r, seen, step).sent = r.sent
           /\ Marked(r, seen, step).changed = r.changed
           /\ Marked(r, seen, step).status = r.status
<1>. DEFINE w == Marked(r, seen, step)
<1>1. w \in Row
  BY DEF Marked, Sound, Row
<1>2. /\ w.state = r.state /\ w.steps = r.steps /\ w.exp = r.exp /\ w.publish = r.publish
      /\ w.accepted = r.accepted /\ w.sent = r.sent /\ w.changed = r.changed
      /\ w.status = r.status /\ w.told = r.told
      /\ w.elsewhere <=> w.foreign # NoStep
  BY DEF Marked, Sound, Row
<1>. HIDE DEF w
<1>3. Sound(w)
  BY <1>1, <1>2 DEF Sound
<1>. QED
  BY <1>2, <1>3 DEF w

-----------------------------------------------------------------------------
(* What the devices know.                                                  *)

\* A step of one device.
LEMMA OneRow ==
    ASSUME Typed, Rows, NEW d \in Devices, NEW r, Device(r, job[d]),
           row' = [row EXCEPT ![d] = r], job' = job,
           NEW p \in Prompts, Asked(p), prompt' = [prompt EXCEPT ![d] = p]
    PROVE  row' \in [Devices -> Row] /\ job' \in [Devices -> Jobs]
           /\ prompt' \in [Devices -> Prompts] /\ Rows'
<1>1. r \in Row
  BY DEF Device, Sound
<1>2. row' \in [Devices -> Row] /\ job' \in [Devices -> Jobs] /\ prompt' \in [Devices -> Prompts]
  BY <1>1 DEF Typed
<1>3. \A e \in Devices : row'[e] = (IF e = d THEN r ELSE row[e])
                         /\ prompt'[e] = (IF e = d THEN p ELSE prompt[e])
  BY DEF Typed
<1>4. Rows'
  BY <1>3 DEF Rows
<1>. QED
  BY <1>2, <1>4

LEMMA OneDevice ==
    ASSUME Typed, Rows, NEW d \in Devices, NEW r, NEW j \in Jobs, Device(r, j),
           row' = [row EXCEPT ![d] = r], job' = [job EXCEPT ![d] = j], prompt' = prompt
    PROVE  row' \in [Devices -> Row] /\ job' \in [Devices -> Jobs]
           /\ prompt' \in [Devices -> Prompts] /\ Rows'
<1>1. r \in Row
  BY DEF Device, Sound
<1>2. row' \in [Devices -> Row] /\ job' \in [Devices -> Jobs] /\ prompt' \in [Devices -> Prompts]
  BY <1>1 DEF Typed
<1>3. \A e \in Devices : row'[e] = (IF e = d THEN r ELSE row[e])
                         /\ job'[e] = (IF e = d THEN j ELSE job[e])
  BY DEF Typed
<1>4. Rows'
  BY <1>3 DEF Rows
<1>. QED
  BY <1>2, <1>4

LEMMA Blank ==
    /\ NoCopy \in Copies /\ Idle \in Jobs /\ NoPrompt \in Prompts
    /\ Sound(NoRow) /\ NoRow.state = "none" /\ Sound(Imported) /\ \A p \in BOOLEAN : Sound(Signed(p))
<1>1. NoCopy \in Copies
  BY DEF NoCopy, Copies, SomeStep
<1>2. NoRow \in Row
  BY DEF NoRow, Row, States, SomeStep, Statuses
<1>3. /\ NoRow.state = "none" /\ NoRow.steps = {} /\ ~NoRow.publish /\ ~NoRow.accepted
      /\ ~NoRow.changed /\ ~NoRow.told /\ NoRow.sent = NoStep /\ ~NoRow.elsewhere
      /\ NoRow.foreign = NoStep
  BY DEF NoRow
<1>4. Imported \in Row /\ Imported.state = "listed" /\ Imported.steps = Schedule
      /\ Imported.publish = NoRow.publish /\ Imported.accepted = NoRow.accepted
      /\ Imported.told = NoRow.told /\ Imported.sent = NoRow.sent
      /\ Imported.elsewhere = NoRow.elsewhere /\ Imported.foreign = NoRow.foreign
  <2>. HIDE DEF NoRow
  <2>. QED
    BY <1>2 DEF Imported, Row, States, Steps
<1>5. ASSUME NEW p \in BOOLEAN
      PROVE  /\ Signed(p) \in Row /\ Signed(p).state = "finalizing" /\ Signed(p).steps = Schedule
             /\ Signed(p).accepted = NoRow.accepted
             /\ Signed(p).told = NoRow.told /\ Signed(p).sent = NoRow.sent
             /\ Signed(p).elsewhere = NoRow.elsewhere /\ Signed(p).foreign = NoRow.foreign
  <2>. HIDE DEF NoRow, Imported
  <2>. QED
    BY <1>4 DEF Signed, Row, States
<1>6. Idle \in Jobs
  <2>. HIDE DEF NoRow, NoCopy
  <2>. QED
    BY <1>1, <1>2 DEF Idle, Jobs, SomeStep
<1>7. NoPrompt \in Prompts
  BY DEF NoPrompt, Prompts, SomeStep
<1>. HIDE DEF NoRow, Imported, NoCopy, Idle, NoPrompt
<1>8. Sound(NoRow) /\ Sound(Imported)
  BY <1>2, <1>3, <1>4 DEF Sound
<1>9. \A p \in BOOLEAN : Sound(Signed(p))
  BY <1>3, <1>5 DEF Sound
<1>. QED
  BY <1>1, <1>3, <1>6, <1>7, <1>8, <1>9

\* A device without a job is as good as its listing.
LEMMA AtRest == ASSUME NEW r, Sound(r) PROVE Device(r, Idle)
BY DEF Device, Idle, InFlight

LEMMA WorkOf ==
    ASSUME NEW r, NEW kind \in Work(r)
    PROVE  /\ kind \in Kinds
           /\ kind \in Uploads => ~r.elsewhere
BY DEF Work, Kinds, Uploads, Kept

LEMMA SpendKeeps ==
    ASSUME Typed, NEW what \in {"commands", "ticks", "events"}, Spend(what)
    PROVE  budget' \in Budgets /\ budget'.devices = budget.devices
BY DEF Typed, Spend, Budgets

LEMMA BeginRows ==
    ASSUME Typed, Rows, NEW d \in Devices, Begin(d)
    PROVE  Typed' /\ Rows'
<1>1. PICK kind \in Work(row[d]) :
        job' = [job EXCEPT ![d] =
            [@ EXCEPT !.kind = kind, !.seen = row[d], !.lost = d \in market.unheard,
                      !.at = IF kind \in {"report", "announce"} THEN "send" ELSE "cut",
                      !.t = IF kind = "advance" THEN mtp ELSE 0]]
  BY DEF Begin
<1>. DEFINE r == row[d]
            a == IF kind \in {"report", "announce"} THEN "send" ELSE "cut"
            t == IF kind = "advance" THEN mtp ELSE 0
            l == d \in market.unheard
            j == [job[d] EXCEPT !.kind = kind, !.seen = r, !.lost = l, !.at = a, !.t = t]
<1>2. job[d] \in Jobs /\ r \in Row /\ Sound(r) /\ r.publish
  BY DEF Typed, Rows, Device, Begin
<1>3. j \in Jobs
  <2>1. a \in {"cut", "send"} /\ t \in 0..1 /\ kind \in Kinds /\ l \in BOOLEAN
    BY WorkOf DEF Typed
  <2>. HIDE DEF a, t, r, l
  <2>. QED
    BY <1>2, <2>1 DEF Jobs
<1>4. j.kind = kind /\ j.seen = r /\ j.at = a
  BY <1>2 DEF Jobs
<1>5. Device(r, j)
  <2>1. /\ kind \in Kinds
        /\ kind \in Uploads => ~r.elsewhere
    BY WorkOf
  <2>2. kind \in IF a \in {"send", "answer"} THEN Uploads \cup {"report", "announce"}
                                            ELSE Uploads \cup {"follow"}
    BY <2>1 DEF Kinds, Uploads
  <2>3. kind \in Uploads => a = "cut"
    BY DEF Uploads
  <2>. HIDE DEF j, r, a
  <2>. QED
    BY <1>2, <1>4, <2>1, <2>2, <2>3 DEF Device, InFlight
<1>6. job' = [job EXCEPT ![d] = j] /\ row' = [row EXCEPT ![d] = r] /\ prompt' = prompt
  BY <1>1 DEF Typed, Begin
<1>7. /\ row' \in [Devices -> Row] /\ job' \in [Devices -> Jobs]
      /\ prompt' \in [Devices -> Prompts] /\ Rows'
  <2>. HIDE DEF j, r
  <2>. QED
    BY <1>3, <1>5, <1>6, OneDevice
<1>. QED
  BY <1>7 DEF Typed, Begin, chainVars

LEMMA NotNowRows ==
    ASSUME Typed, Rows, NEW d \in Devices, NotNow(d)
    PROVE  Typed' /\ Rows'
<1>1. Device(row[d], Idle)
  BY AtRest DEF Rows, Device
<1>2. row' = [row EXCEPT ![d] = row[d]] /\ job' = [job EXCEPT ![d] = Idle] /\ prompt' = prompt
  BY DEF Typed, NotNow, Done
<1>3. /\ row' \in [Devices -> Row] /\ job' \in [Devices -> Jobs]
      /\ prompt' \in [Devices -> Prompts] /\ Rows'
  BY <1>1, <1>2, Blank, OneDevice
<1>4. budget' \in Budgets
  BY SpendKeeps DEF NotNow, Typed
<1>. QED
  BY <1>3, <1>4 DEF Typed, NotNow, chainVars

LEMMA MovedKeeps ==
    ASSUME NEW r, Sound(r), NEW e \in Nat
    PROVE  LET m == [Changed(r) EXCEPT !.exp = e]
           IN /\ Sound(m) /\ m.state = r.state /\ m.steps = r.steps /\ m.publish = r.publish
              /\ m.exp = e /\ m.elsewhere = r.elsewhere /\ m.sent = r.sent
              /\ m.accepted = r.accepted /\ (r.accepted => m.changed)
<1>. DEFINE c == Changed(r)
            m == [c EXCEPT !.exp = e]
<1>1. /\ Sound(c) /\ c.accepted = r.accepted
      /\ c.state = r.state /\ c.steps = r.steps
      /\ c.exp = r.exp /\ c.publish = r.publish
      /\ c.elsewhere = r.elsewhere /\ c.sent = r.sent
      /\ r.accepted => c.changed
  BY ChangedKeeps
<1>. HIDE DEF c
<1>2. m \in Row
  BY <1>1 DEF Sound, Row
<1>3. /\ m.state = c.state /\ m.steps = c.steps /\ m.publish = c.publish /\ m.exp = e
      /\ m.elsewhere = c.elsewhere /\ m.sent = c.sent /\ m.accepted = c.accepted
      /\ m.changed = c.changed /\ m.told = c.told /\ m.foreign = c.foreign
  BY <1>1 DEF Sound, Row
<1>4. Sound(m)
  <2>. HIDE DEF m
  <2>. QED
    BY <1>1, <1>2, <1>3 DEF Sound
<1>5. /\ Sound(m) /\ m.state = r.state /\ m.steps = r.steps /\ m.publish = r.publish
      /\ m.exp = e /\ m.elsewhere = r.elsewhere /\ m.sent = r.sent
      /\ m.accepted = r.accepted /\ (r.accepted => m.changed)
  <2>. HIDE DEF m
  <2>. QED
    BY <1>1, <1>3, <1>4
<1>. QED
  BY <1>5 DEF c

LEMMA CutRows ==
    ASSUME Typed, Rows, NEW d \in Devices, Cut(d)
    PROVE  Typed' /\ Rows'
<1>. DEFINE j == job[d]
            r == row[d]
            t == IF j.kind = "advance" THEN j.t ELSE mtp
            refresh == j.kind # "follow" /\ j.seen.state = "listed" /\ NearExpiry(j.seen.exp)
            same == r.state = "listed" /\ r.steps = j.seen.steps /\ r.exp = j.seen.exp
            moved == [Changed(r) EXCEPT !.exp = Refreshed]
            seen == IF refresh THEN moved ELSE j.seen
            new == IF refresh /\ same THEN moved ELSE r
            step == IF j.kind = "follow" THEN NoStep ELSE Current(seen.steps, t)
            next == [j EXCEPT !.at = "look", !.seen = seen, !.refreshed = refresh, !.t = 0,
                              !.step = step]
            stops == (refresh /\ ~same) \/ j.kind = "refresh"
            j1 == IF stops THEN Idle ELSE next
<1>1. /\ j.at = "cut" /\ row' = [row EXCEPT ![d] = new]
      /\ job' = [job EXCEPT ![d] = j1] /\ prompt' = prompt
  <2>1. row' = IF refresh /\ same THEN [row EXCEPT ![d] = moved] ELSE row
    BY DEF Cut
  <2>2. row = [row EXCEPT ![d] = r]
    BY DEF Typed
  <2>3. IF stops THEN Done(d) ELSE job' = [job EXCEPT ![d] = next]
    BY DEF Cut
  <2>. HIDE DEF next, stops, moved, refresh, same
  <2>. QED
    BY <2>1, <2>2, <2>3 DEF Done, Cut
<1>2. Device(r, j) /\ j \in Jobs /\ Refreshed \in Nat /\ t \in 0..1
  <2>1. Device(r, j) /\ j \in Jobs /\ Refreshed \in Nat
    BY DEF Rows, Typed, Refreshed
  <2>2. j.t \in 0..1 /\ mtp \in 0..1
    BY <2>1 DEF Jobs, Typed
  <2>. QED
    BY <2>1, <2>2
<1>3. /\ Sound(moved) /\ moved.state = r.state /\ moved.steps = r.steps
      /\ moved.publish = r.publish /\ moved.elsewhere = r.elsewhere
      /\ moved.exp = Refreshed
  <2>. HIDE DEF r
  <2>. QED
    BY <1>2, MovedKeeps DEF Device
<1>4. Sound(r) /\ Sound(j.seen) /\ j.seen.publish /\ r.publish /\ j.seen.steps \subseteq r.steps
      /\ j.kind \in Uploads \cup {"follow"}
  BY <1>1, <1>2 DEF Device
<1>. HIDE DEF j, r, moved
<1>5. /\ Sound(new) /\ new.publish /\ Sound(seen) /\ seen.publish
      /\ ~stops => seen.steps \subseteq new.steps
  BY <1>3, <1>4
<1>6. ASSUME ~stops PROVE next \in Jobs /\ Device(new, next)
  <2>1. seen.steps \in SUBSET Steps /\ Schedule \subseteq seen.steps /\ seen \in Row
    BY <1>5 DEF Sound, Row
  <2>2. step \in SomeStep
    <3>. HIDE DEF seen, t
    <3>. QED
      BY <2>1, CurrentIn DEF SomeStep
  <2>3. refresh \in BOOLEAN /\ 0 \in 0..1
    OBVIOUS
  <2>4. next \in Jobs
    <3>. HIDE DEF seen, step, refresh
    <3>. QED
      BY <1>2, <2>1, <2>2, <2>3 DEF Jobs
  <2>5. next.at = "look" /\ next.kind = j.kind /\ next.seen = seen /\ next.step = step
    <3>. HIDE DEF seen, step, refresh
    <3>. QED
      BY <1>2 DEF Jobs
  <2>6. ASSUME j.kind \in Uploads
        PROVE  ~new.elsewhere /\ step = Current(seen.steps, t)
    <3>1. CASE refresh
      BY <1>1, <1>2, <1>3, <1>6, <2>6, <3>1 DEF Device, InFlight, Uploads
    <3>2. CASE ~refresh
      BY <1>1, <1>2, <2>6, <3>2 DEF Device, InFlight, Uploads
    <3>. QED
      BY <3>1, <3>2
  <2>. HIDE DEF next, seen, new, step, t
  <2>7. Device(new, next)
    BY <1>2, <1>4, <1>5, <1>6, <2>5, <2>6 DEF Device, InFlight
  <2>. QED
    BY <2>4, <2>7
<1>7. j1 \in Jobs /\ Device(new, j1)
  <2>. HIDE DEF new, next, stops
  <2>. QED
    BY <1>5, <1>6, AtRest, Blank
<1>8. /\ row' \in [Devices -> Row] /\ job' \in [Devices -> Jobs]
      /\ prompt' \in [Devices -> Prompts] /\ Rows'
  <2>. HIDE DEF new, j1
  <2>. QED
    BY <1>1, <1>7, OneDevice
<1>. QED
  BY <1>8 DEF Typed, Cut, chainVars

Uploaded(reply, ok, sent) == AfterReply(reply, ok, TRUE, sent)
Reported(reply, ok) == AfterReply(reply, ok, FALSE, NoStep)

\* What a look at the market comes to: the listing is marked or stays marked, a
\* checked copy is ours, nothing is known, or something is sent.
Marks(d) ==
    \E step \in SomeStep :
        /\ row' = [row EXCEPT ![d] = Marked(row[d], job[d].seen, step)] /\ Done(d)
        /\ step # NoStep => step = market.copy.step /\ step \in Steps \ job[d].seen.steps
ChecksOurs(d) ==
    /\ job[d].kind \in Uploads /\ SameOffer(market.copy, job[d].step, job[d].seen)
    /\ row' = [row EXCEPT ![d] = Recorded(row[d], job[d].seen,
                    Uploaded("taken", KeptLabel(job[d].seen), job[d].step))]
    /\ Done(d)
ChecksNothing(d) ==
    /\ job[d].kind \in Uploads
    /\ row' = [row EXCEPT ![d] = Recorded(row[d], job[d].seen,
                    Uploaded("lost", "listed", NoStep))]
    /\ Done(d)
Sends(d) ==
    /\ job[d].kind \in Uploads /\ row' = row
    /\ \E label \in {"listed", "replaced"}, copy \in {market.copy, NoCopy} :
          /\ job' = [job EXCEPT ![d] = [job[d] EXCEPT !.at = "send", !.ok = label,
                                                     !.copy = copy, !.refreshed = FALSE]]
          /\ label = "replaced" /\ job[d].seen.status # "replaced" =>
               /\ copy = market.copy /\ label = Label(copy, job[d].seen) /\ ~job[d].refreshed
               /\ ~SameOffer(copy, job[d].step, job[d].seen)

LEMMA LookSplit ==
    ASSUME Typed, Rows, NEW d \in Devices, Look(d)
    PROVE  /\ Marks(d) \/ ChecksOurs(d) \/ ChecksNothing(d) \/ Sends(d)
           /\ job[d].at = "look"
           /\ UNCHANGED <<chainVars, market, prompt>>
           /\ budget' \in Budgets
           /\ budget'.devices = budget.devices
<1>. DEFINE j == job[d]
            r == row[d]
            written(new) == row' = [row EXCEPT ![d] = new] /\ Done(d)
            sends(label, copy) ==
                /\ job' = [job EXCEPT ![d] = [j EXCEPT !.at = "send", !.ok = label,
                                                      !.copy = copy, !.refreshed = FALSE]]
                /\ UNCHANGED row
            answered ==
                IF j.kind = "follow"
                THEN written(Marked(r, j.seen, IF ForeignIn(market.copy, j.seen)
                                               THEN market.copy.step ELSE NoStep))
                ELSE IF ForeignIn(market.copy, j.seen)
                THEN written(Marked(r, j.seen, market.copy.step))
                ELSE IF j.kind \in {"upload", "advance"} THEN sends(KeptLabel(j.seen), market.copy)
                ELSE IF SameOffer(market.copy, j.step, j.seen)
                THEN written(Recorded(r, j.seen,
                                      AfterReply("taken", KeptLabel(j.seen), TRUE, j.step)))
                ELSE sends(IF j.refreshed THEN "listed" ELSE Label(market.copy, j.seen), market.copy)
            unanswered ==
                IF j.kind = "follow" THEN written(Marked(r, j.seen, NoStep))
                ELSE IF j.kind \in {"upload", "advance"} THEN sends(KeptLabel(j.seen), NoCopy)
                ELSE IF j.refreshed THEN sends("listed", NoCopy)
                ELSE written(Recorded(r, j.seen, AfterReply("lost", "listed", TRUE, NoStep)))
<1>1. /\ j.at = "look"
      /\ \/ answered /\ UNCHANGED budget
         \/ unanswered /\ Spend("events")
      /\ UNCHANGED <<chainVars, market, prompt>>
  BY DEF Look
<1>2. Device(r, j) /\ j.kind \in Uploads \cup {"follow"}
  BY <1>1 DEF Rows, Device
<1>3. market.copy.step \in SomeStep /\ NoStep \in SomeStep
  BY DEF Typed, Markets, Copies, SomeStep
<1>4. /\ KeptLabel(j.seen) \in {"listed", "replaced"}
      /\ KeptLabel(j.seen) = "replaced" => j.seen.status = "replaced"
      /\ Label(market.copy, j.seen) \in {"listed", "replaced"}
  BY DEF KeptLabel, Label
<1>5. ASSUME answered PROVE Marks(d) \/ ChecksOurs(d) \/ Sends(d)
  <2>1. CASE j.kind = "follow"
    <3>1. CASE ForeignIn(market.copy, j.seen)
      BY <1>3, <1>5, <2>1, <3>1 DEF Marks, ForeignIn
    <3>2. CASE ~ForeignIn(market.copy, j.seen)
      BY <1>3, <1>5, <2>1, <3>2 DEF Marks
    <3>. QED
      BY <3>1, <3>2
  <2>2. CASE j.kind # "follow" /\ ForeignIn(market.copy, j.seen)
    BY <1>3, <1>5, <2>2 DEF Marks, ForeignIn
  <2>3. CASE /\ j.kind # "follow" /\ ~ForeignIn(market.copy, j.seen)
             /\ j.kind \in {"upload", "advance"}
    <3>1. sends(KeptLabel(j.seen), market.copy)
      BY <1>5, <2>3
    <3>. QED
      BY <1>2, <1>4, <2>3, <3>1 DEF Sends
  <2>4. CASE /\ j.kind # "follow" /\ ~ForeignIn(market.copy, j.seen)
             /\ j.kind \notin {"upload", "advance"} /\ SameOffer(market.copy, j.step, j.seen)
    BY <1>2, <1>5, <2>4 DEF ChecksOurs, Uploaded
  <2>5. CASE /\ j.kind # "follow" /\ ~ForeignIn(market.copy, j.seen)
             /\ j.kind \notin {"upload", "advance"} /\ ~SameOffer(market.copy, j.step, j.seen)
    <3>. DEFINE label == IF j.refreshed THEN "listed" ELSE Label(market.copy, j.seen)
    <3>1. sends(label, market.copy)
      BY <1>5, <2>5
    <3>2. /\ label \in {"listed", "replaced"}
          /\ label = "replaced" => label = Label(market.copy, j.seen) /\ ~j.refreshed
      BY <1>4
    <3>. HIDE DEF label
    <3>. QED
      BY <1>2, <2>5, <3>1, <3>2 DEF Sends
  <2>. QED
    BY <2>1, <2>2, <2>3, <2>4, <2>5
<1>6. ASSUME unanswered PROVE Marks(d) \/ ChecksNothing(d) \/ Sends(d)
  <2>1. CASE j.kind = "follow"
    BY <1>3, <1>6, <2>1 DEF Marks
  <2>2. CASE j.kind \in {"upload", "advance"}
    <3>1. sends(KeptLabel(j.seen), NoCopy)
      BY <1>6, <2>2
    <3>. QED
      BY <1>2, <1>4, <2>2, <3>1 DEF Sends
  <2>3. CASE j.kind \notin {"follow", "upload", "advance"} /\ j.refreshed
    <3>1. sends("listed", NoCopy)
      BY <1>6, <2>3
    <3>. QED
      BY <1>2, <2>3, <3>1 DEF Sends
  <2>4. CASE j.kind \notin {"follow", "upload", "advance"} /\ ~j.refreshed
    BY <1>2, <1>6, <2>4 DEF ChecksNothing, Uploaded
  <2>. QED
    BY <2>1, <2>2, <2>3, <2>4
<1>7. /\ budget' \in Budgets
      /\ budget'.devices = budget.devices
  BY <1>1, SpendKeeps DEF Typed
<1>. HIDE DEF answered, unanswered
<1>. QED
  BY <1>1, <1>5, <1>6, <1>7

\* The answers fit the row, whatever they are.
LEMMA UploadReply ==
    ASSUME NEW reply, NEW ok \in {"none", "listed", "replaced"}, NEW sent \in SomeStep
    PROVE  /\ Uploaded(reply, ok, sent) \in Results
           /\ Uploaded(reply, ok, sent).status =
                 IF reply = "taken" THEN ok
                 ELSE IF reply = "refused" THEN "refused" ELSE "retrying"
           /\ Uploaded(reply, ok, sent).accepted <=> reply = "taken"
           /\ Uploaded(reply, ok, sent).told <=> reply = "taken"
           /\ Uploaded(reply, ok, sent).sent = sent
<1>. DEFINE st == CASE reply = "taken" -> ok
                    [] reply = "refused" -> "refused"
                    [] OTHER -> "retrying"
            b == reply = "refused" \/ (reply = "taken" /\ ok \in {"pending", "reported"})
            a == reply = "taken" /\ TRUE
            o == reply = "taken"
            res == Uploaded(reply, ok, sent)
<1>1. /\ st = IF reply = "taken" THEN ok
              ELSE IF reply = "refused" THEN "refused" ELSE "retrying"
      /\ b \in BOOLEAN /\ a \in BOOLEAN /\ o \in BOOLEAN
  OBVIOUS
<1>2. st \in Statuses /\ sent \in SomeStep
  BY <1>1 DEF Statuses, SomeStep
<1>3. res = [status |-> st, due |-> b, accepted |-> a, told |-> o, sent |-> sent]
  BY DEF AfterReply, Uploaded, Reported
<1>4. /\ res \in Results
      /\ res.status = st /\ res.accepted = a /\ res.told = o /\ res.sent = sent
  <2>. HIDE DEF st, b, a, o, res
  <2>. QED
    BY <1>1, <1>2, <1>3 DEF Results
<1>5. (res.accepted <=> a) /\ (res.told <=> o)
  <2>. HIDE DEF res, a, o
  <2>. QED
    BY <1>1, <1>4
<1>6. res.status = IF reply = "taken" THEN ok
              ELSE IF reply = "refused" THEN "refused" ELSE "retrying"
  <2>. HIDE DEF res, st
  <2>. QED
    BY <1>1, <1>4
<1>. QED
  BY <1>4, <1>5, <1>6 DEF res

LEMMA UploadTyped ==
    ASSUME NEW reply, NEW ok \in {"none", "listed", "replaced"}, NEW sent \in SomeStep
    PROVE  Uploaded(reply, ok, sent) \in Results
BY UploadReply

LEMMA UploadStatus ==
    ASSUME NEW reply, NEW ok \in {"none", "listed", "replaced"}, NEW sent \in SomeStep
    PROVE  /\ reply = "taken" => Uploaded(reply, ok, sent).status = ok
           /\ reply # "taken" => Uploaded(reply, ok, sent).status \in {"refused", "retrying"}
<1>. DEFINE status == CASE reply = "taken" -> ok
                        [] reply = "refused" -> "refused"
                        [] OTHER -> "retrying"
<1>1. Uploaded(reply, ok, sent).status = status
  BY DEF Uploaded, AfterReply
<1>2. /\ reply = "taken" => status = ok
      /\ reply # "taken" => status \in {"refused", "retrying"}
  OBVIOUS
<1>. HIDE DEF status
<1>. QED
  BY <1>1, <1>2

LEMMA UploadAccepted ==
    ASSUME NEW reply, NEW ok \in {"none", "listed", "replaced"}, NEW sent \in SomeStep
    PROVE  Uploaded(reply, ok, sent).accepted <=> reply = "taken"
BY UploadReply

LEMMA ReportReply ==
    ASSUME NEW reply, NEW ok \in {"pending", "reported"}
    PROVE  /\ Reported(reply, ok) \in Results
           /\ Reported(reply, ok).status =
                 IF reply = "taken" THEN ok
                 ELSE IF reply = "refused" THEN "refused" ELSE "retrying"
           /\ ~Reported(reply, ok).accepted
           /\ Reported(reply, ok).told <=> reply = "taken"
           /\ Reported(reply, ok).sent = NoStep
<1>. DEFINE st == CASE reply = "taken" -> ok
                    [] reply = "refused" -> "refused"
                    [] OTHER -> "retrying"
            b == reply = "refused" \/ (reply = "taken" /\ ok \in {"pending", "reported"})
            a == reply = "taken" /\ FALSE
            o == reply = "taken"
            res == Reported(reply, ok)
<1>1. /\ st = IF reply = "taken" THEN ok
              ELSE IF reply = "refused" THEN "refused" ELSE "retrying"
      /\ b \in BOOLEAN /\ a \in BOOLEAN /\ o \in BOOLEAN
  OBVIOUS
<1>2. st \in Statuses /\ NoStep \in SomeStep
  BY <1>1 DEF Statuses, SomeStep
<1>3. res = [status |-> st, due |-> b, accepted |-> a, told |-> o, sent |-> NoStep]
  BY DEF AfterReply, Uploaded, Reported
<1>4. /\ res \in Results
      /\ res.status = st /\ res.accepted = a /\ res.told = o /\ res.sent = NoStep
  <2>. HIDE DEF st, b, a, o, res
  <2>. QED
    BY <1>1, <1>2, <1>3 DEF Results
<1>5. (res.accepted <=> a) /\ (res.told <=> o)
  <2>. HIDE DEF res, a, o
  <2>. QED
    BY <1>1, <1>4
<1>6. res.status = IF reply = "taken" THEN ok
              ELSE IF reply = "refused" THEN "refused" ELSE "retrying"
  <2>. HIDE DEF res, st
  <2>. QED
    BY <1>1, <1>4
<1>. QED
  BY <1>4, <1>5, <1>6 DEF res

\* What a job under way may write over its row, or over one as it was read.
LEMMA JobRecords ==
    ASSUME Typed, Rows, NEW d \in Devices, InFlight(job[d]), job[d].at # "cut",
           NEW reply, NEW ok \in {"none", "listed", "replaced"}, NEW sent \in {NoStep, job[d].step},
           reply = "taken" => sent # NoStep
    PROVE  LET new == Recorded(row[d], job[d].seen, Uploaded(reply, ok, sent))
           IN Sound(new) /\ Device(new, Idle)
<1>. DEFINE j == job[d]
            res == Uploaded(reply, ok, sent)
<1>1. Device(row[d], j) /\ j \in Jobs
  BY DEF Rows, Typed
<1>2. /\ Sound(row[d]) /\ row[d].publish /\ Sound(j.seen) /\ j.seen.publish
      /\ \E t \in 0..1 : j.step = Current(j.seen.steps, t)
  BY <1>1 DEF Device, InFlight
<1>3. j.step \in j.seen.steps /\ j.step # NoStep /\ j.step \in SomeStep
  <2>1. j.seen.steps \in SUBSET Steps /\ Schedule \subseteq j.seen.steps
    BY <1>2 DEF Sound, Row
  <2>. QED
    BY <1>2, <2>1, CurrentIn DEF SomeStep
<1>4. /\ res \in Results
      /\ res.accepted => res.told /\ res.sent # NoStep
      /\ res.sent = sent
  <2>1. sent \in SomeStep
    BY <1>3 DEF SomeStep
  <2>2. /\ res \in Results
    BY <2>1, UploadReply
  <2>5. res.sent = sent
    BY DEF Uploaded, AfterReply
  <2>3. res.accepted <=> reply = "taken"
    BY <2>1, UploadReply
  <2>4. res.told <=> reply = "taken"
    BY <2>1, UploadReply
  <2>. HIDE DEF res
  <2>. QED
    BY <2>2, <2>3, <2>4, <2>5
<1>5. res.sent # NoStep =>
        res.sent \in j.seen.steps /\ \E t \in 0..1 : res.sent = Current(j.seen.steps, t)
  BY <1>2, <1>3, <1>4
<1>. HIDE DEF res, j
<1>6. Sound(Recorded(row[d], j.seen, res))
  BY <1>2, <1>4, <1>5, RecordedKeeps
<1>. QED
  BY <1>6, AtRest DEF res, j

LEMMA LookRows ==
    ASSUME Typed, Rows, NEW d \in Devices, Look(d)
    PROVE  Typed' /\ Rows'
<1>. DEFINE j == job[d]
            r == row[d]
<1>1. Device(r, j) /\ j \in Jobs /\ j.at = "look" /\ prompt' = prompt
  BY LookSplit DEF Rows, Typed
<1>2. \E new, j1 : /\ j1 \in Jobs /\ Device(new, j1)
                   /\ row' = [row EXCEPT ![d] = new] /\ job' = [job EXCEPT ![d] = j1]
  <2>1. CASE Marks(d)
    <3>1. PICK step \in SomeStep :
            row' = [row EXCEPT ![d] = Marked(r, j.seen, step)] /\ Done(d)
      BY <2>1 DEF Marks
    <3>2. Sound(r) /\ r.publish
      BY <1>1 DEF Device
    <3>3. Device(Marked(r, j.seen, step), Idle)
      BY <3>2, MarkedKeeps, AtRest
    <3>. QED
      BY <3>1, <3>3, Blank DEF Done
  <2>2. CASE ChecksOurs(d)
    <3>1. /\ Device(Recorded(r, j.seen, Uploaded("taken", KeptLabel(j.seen), j.step)), Idle)
      <4>1. InFlight(j) /\ KeptLabel(j.seen) \in {"listed", "replaced"}
        BY <1>1, <2>2 DEF ChecksOurs, InFlight, KeptLabel
      <4>2. j.step # NoStep
        <5>1. \E t \in 0..1 : j.step = Current(j.seen.steps, t)
          BY <1>1, <4>1 DEF Device
        <5>2. j.seen.steps \in SUBSET Steps /\ Schedule \subseteq j.seen.steps
          BY <1>1 DEF Device, Sound, Row
        <5>. QED
          BY <5>1, <5>2, CurrentIn
      <4>. QED
        BY <1>1, <4>1, <4>2, JobRecords
    <3>. QED
      BY <2>2, <3>1, Blank DEF ChecksOurs, Done
  <2>3. CASE ChecksNothing(d)
    <3>1. Device(Recorded(r, j.seen, Uploaded("lost", "listed", NoStep)), Idle)
      <4>1. InFlight(j)
        BY <1>1, <2>3 DEF ChecksNothing, InFlight
      <4>. QED
        BY <1>1, <4>1, JobRecords
    <3>. QED
      BY <2>3, <3>1, Blank DEF ChecksNothing, Done
  <2>4. CASE Sends(d)
    <3>1. PICK label \in {"listed", "replaced"}, copy \in {market.copy, NoCopy} :
            job' = [job EXCEPT ![d] = [j EXCEPT !.at = "send", !.ok = label, !.copy = copy,
                                                !.refreshed = FALSE]]
      BY <2>4 DEF Sends
    <3>. DEFINE j1 == [j EXCEPT !.at = "send", !.ok = label, !.copy = copy, !.refreshed = FALSE]
    <3>2. copy \in Copies
      BY Blank DEF Typed, Markets
    <3>3. /\ j1 \in Jobs /\ j1.at = "send" /\ j1.kind = j.kind /\ j1.seen = j.seen
          /\ j1.step = j.step
      BY <1>1, <3>2 DEF Jobs
    <3>4. Device(r, j1)
      <4>1. j.kind \in Uploads
        BY <2>4 DEF Sends
      <4>. HIDE DEF j1
      <4>. QED
        BY <1>1, <3>3, <4>1 DEF Device, InFlight
    <3>5. row' = [row EXCEPT ![d] = r]
      BY <2>4 DEF Sends, Typed
    <3>. QED
      BY <3>1, <3>3, <3>4, <3>5
  <2>. QED
    BY <2>1, <2>2, <2>3, <2>4, LookSplit
<1>3. /\ row' \in [Devices -> Row] /\ job' \in [Devices -> Jobs]
      /\ prompt' \in [Devices -> Prompts] /\ Rows'
  BY <1>1, <1>2, OneDevice
<1>4. UNCHANGED <<chainVars, market, prompt>> /\ budget' \in Budgets
  BY LookSplit
<1>. QED
  BY <1>3, <1>4 DEF Typed, chainVars

\* What the market takes of a job under way.
LEMMA TakesCopy ==
    ASSUME Typed, NEW d \in Devices, NEW j \in Jobs, j.kind \in Uploads \cup {"report", "announce"}
    PROVE  /\ Takes(j, d) \in Markets /\ Takes(j, d).unheard = market.unheard
           /\ j.kind \in Uploads =>
                Takes(j, d).copy = [step |-> j.step, by |-> d,
                    exp |-> IF market.copy = NoCopy THEN j.seen.exp ELSE market.copy.exp]
           /\ j.kind = "report" => Takes(j, d).copy = NoCopy
           /\ j.kind = "announce" => Takes(j, d).copy = market.copy
<1>. DEFINE copy == [step |-> j.step, by |-> d,
                     exp |-> IF market.copy = NoCopy THEN j.seen.exp ELSE market.copy.exp]
<1>1. market \in Markets /\ market.copy.exp \in Nat /\ j.seen.exp \in Nat /\ j.step \in SomeStep
      /\ j.seen.state \in States /\ NoCopy \in Copies
  BY Blank DEF Typed, Markets, Copies, Jobs, Row
<1>2. copy \in Copies
  BY <1>1 DEF Copies
<1>3. CASE j.kind = "report"
  <2>1. Takes(j, d) = [Told(j) EXCEPT !.copy = NoCopy]
    BY <1>3 DEF Takes
  <2>2. Told(j) \in Markets /\ Told(j).unheard = market.unheard
    BY <1>1 DEF Told, Markets
  <2>3. Takes(j, d) \in Markets /\ Takes(j, d).unheard = market.unheard /\ Takes(j, d).copy = NoCopy
    BY <1>1, <2>1, <2>2 DEF Markets
  <2>. QED
    BY <1>3, <2>3 DEF Uploads
<1>4. CASE j.kind = "announce"
  <2>1. Takes(j, d) = [market EXCEPT !.pending = TRUE]
    BY <1>4 DEF Takes
  <2>. QED
    BY <1>1, <1>4, <2>1 DEF Markets, Uploads
<1>5. CASE j.kind \in Uploads
  <2>1. Takes(j, d) = [market EXCEPT !.copy = copy]
    BY <1>5 DEF Takes, Uploads
  <2>2. j.kind # "report" /\ j.kind # "announce"
    BY <1>5 DEF Uploads
  <2>. HIDE DEF copy
  <2>3. Takes(j, d) \in Markets /\ Takes(j, d).unheard = market.unheard /\ Takes(j, d).copy = copy
    BY <1>1, <1>2, <2>1 DEF Markets
  <2>. QED
    BY <2>2, <2>3 DEF copy
<1>. QED
  BY <1>3, <1>4, <1>5

\* What sending comes to.
LEMMA SendSplit ==
    ASSUME Typed, Rows, NEW d \in Devices, Send(d)
    PROVE  /\ job[d].at = "send" /\ job[d].kind \in Uploads \cup {"report", "announce"}
           /\ UNCHANGED <<chainVars, row, prompt>>
           /\ budget' \in Budgets /\ budget'.devices = budget.devices /\ market' \in Markets
           /\ \E reply \in {"taken", "lost", "refused", "not seen yet"} :
                /\ job' = [job EXCEPT ![d] = [job[d] EXCEPT !.at = "answer", !.reply = reply]]
                /\ \/ reply = "taken" /\ market' = Takes(job[d], d)
                   \/ /\ reply # "taken" /\ market'.unheard = market.unheard \cup {d}
                      /\ market'.copy = Takes(job[d], d).copy
                   \/ reply # "taken" /\ market'.unheard = market.unheard
                      /\ market'.copy = market.copy
<1>. DEFINE j == job[d]
            next(reply) == [j EXCEPT !.at = "answer", !.reply = reply]
<1>1. j \in Jobs /\ j.at = "send" /\ Device(row[d], j) /\ market \in Markets
  BY DEF Send, Typed, Rows
<1>2. j.kind \in Uploads \cup {"report", "announce"}
  BY <1>1 DEF Device
<1>3. Takes(j, d) \in Markets
  BY <1>1, <1>2, TakesCopy
<1>4. PICK reply \in {"taken", "lost", "refused", "not seen yet"} :
        /\ job' = [job EXCEPT ![d].at = "answer", ![d].reply = reply]
        /\ \/ reply = "taken" /\ market' = Takes(j, d) /\ UNCHANGED budget
           \/ /\ reply = "lost" /\ market' = [Takes(j, d) EXCEPT !.unheard = @ \cup {d}]
              /\ Spend("events")
           \/ reply = "lost" /\ UNCHANGED market /\ Spend("events")
           \/ /\ reply = "refused" /\ Spend("events")
              /\ market' = IF j.kind = "report" THEN Told(j) ELSE market
           \/ reply = "not seen yet" /\ UNCHANGED <<market, budget>>
  BY DEF Send
<1>5. job' = [job EXCEPT ![d] = next(reply)]
  BY <1>1, <1>4 DEF Typed
<1>6. budget' \in Budgets /\ budget'.devices = budget.devices
  BY <1>4, SpendKeeps DEF Typed
<1>7. /\ Told(j) \in Markets /\ Told(j).unheard = market.unheard /\ Told(j).copy = market.copy
  <2>1. j.seen.state \in States
    BY <1>1 DEF Jobs, Row
  <2>. QED
    BY <1>1, <2>1 DEF Told, Markets
<1>8. LET lost == [Takes(j, d) EXCEPT !.unheard = @ \cup {d}]
      IN /\ lost \in Markets /\ lost.unheard = market.unheard \cup {d}
         /\ lost.copy = Takes(j, d).copy
  <2>1. Takes(j, d).unheard = market.unheard
    BY <1>1, <1>2, TakesCopy
  <2>. QED
    BY <1>3, <2>1 DEF Markets
<1>9. /\ market' \in Markets
      /\ \/ reply = "taken" /\ market' = Takes(j, d)
         \/ /\ reply # "taken" /\ market'.unheard = market.unheard \cup {d}
            /\ market'.copy = Takes(j, d).copy
         \/ reply # "taken" /\ market'.unheard = market.unheard /\ market'.copy = market.copy
  BY <1>1, <1>3, <1>4, <1>7, <1>8
<1>10. UNCHANGED <<chainVars, row, prompt>>
  BY DEF Send
<1>. QED
  BY <1>1, <1>2, <1>5, <1>6, <1>9, <1>10

LEMMA SendRows ==
    ASSUME Typed, Rows, NEW d \in Devices, Send(d)
    PROVE  Typed' /\ Rows'
<1>. DEFINE j == job[d]
            r == row[d]
            next(reply) == [j EXCEPT !.at = "answer", !.reply = reply]
<1>1. PICK reply \in {"taken", "lost", "refused", "not seen yet"} :
        job' = [job EXCEPT ![d] = next(reply)]
  BY SendSplit
<1>2. j \in Jobs /\ Device(r, j) /\ j.at = "send"
  BY SendSplit DEF Typed, Rows
<1>3. /\ next(reply) \in Jobs /\ next(reply).at = "answer" /\ next(reply).kind = j.kind
      /\ next(reply).seen = j.seen /\ next(reply).step = j.step
  BY <1>2 DEF Jobs
<1>4. Device(r, next(reply))
  <2>. HIDE DEF next
  <2>. QED
    BY <1>2, <1>3 DEF Device, InFlight
<1>5. row' = [row EXCEPT ![d] = r] /\ prompt' = prompt
  BY SendSplit DEF Typed
<1>6. /\ row' \in [Devices -> Row] /\ job' \in [Devices -> Jobs]
      /\ prompt' \in [Devices -> Prompts] /\ Rows'
  <2>. HIDE DEF next, r
  <2>. QED
    BY <1>1, <1>3, <1>4, <1>5, OneDevice
<1>. QED
  BY <1>6, SendSplit DEF Typed, chainVars

\* What is recorded of an answer: of an upload, or of what the market was told.
RecordsUpload(d) ==
    /\ job[d].kind \in Uploads
    /\ market' \in Markets /\ market'.copy = market.copy
    /\ \A e \in Devices \ {d} : e \in market.unheard => e \in market'.unheard
    /\ IF job[d].reply = "taken" THEN ~Same(row[d], job[d].seen) => d \in market'.unheard
       ELSE market' = market
    /\ row' = [row EXCEPT ![d] = Recorded(row[d], job[d].seen,
                    Uploaded(job[d].reply, job[d].ok, job[d].step))]
RecordsTold(d) ==
    /\ job[d].kind \notin Uploads /\ market' = market
    /\ \E res \in Results :
          /\ ~res.accepted /\ res.sent = NoStep /\ res.status # "replaced"
          /\ row' = [row EXCEPT ![d] = Recorded(row[d], job[d].seen, res)]

LEMMA RecordSplit ==
    ASSUME Typed, Rows, NEW d \in Devices, Record(d)
    PROVE  /\ RecordsUpload(d) \/ RecordsTold(d)
           /\ job[d].at = "answer" /\ Done(d)
           /\ UNCHANGED <<chainVars, prompt, budget>> /\ market' \in Markets
<1>. DEFINE j == job[d]
            result == CASE j.kind = "report" -> AfterReport(j.reply)
                        [] j.kind = "announce" -> AfterReply(j.reply, "pending", FALSE, NoStep)
                        [] OTHER -> AfterReply(j.reply, j.ok, TRUE, j.step)
<1>1. j.at = "answer" /\ j \in Jobs /\ Device(row[d], j)
  BY DEF Record, Typed, Rows
<1>2. j.kind \in Uploads \cup {"report", "announce"}
  BY <1>1 DEF Device
<1>3. row' = [row EXCEPT ![d] = Recorded(row[d], j.seen, result)]
  BY DEF Record
<1>4. ASSUME j.kind \in Uploads PROVE RecordsUpload(d)
  <2>1. result = Uploaded(j.reply, j.ok, j.step)
    BY <1>4 DEF Uploads, Uploaded
  <2>. DEFINE u == IF Same(row[d], j.seen) THEN market.unheard \ {d} ELSE market.unheard \cup {d}
  <2>2. market' = IF j.reply # "taken" THEN market ELSE [market EXCEPT !.unheard = u]
    BY <1>4 DEF Record
  <2>3. /\ market \in Markets /\ u \in SUBSET Devices
        /\ \A e \in Devices \ {d} : e \in market.unheard => e \in u
        /\ ~Same(row[d], j.seen) => d \in u
    BY DEF Typed, Markets
  <2>. HIDE DEF u
  <2>4. LET m == [market EXCEPT !.unheard = u]
        IN m \in Markets /\ m.copy = market.copy /\ m.unheard = u
    BY <2>3 DEF Markets
  <2>. HIDE DEF result
  <2>. QED
    BY <1>3, <1>4, <2>1, <2>2, <2>3, <2>4 DEF RecordsUpload
<1>7. j.kind \notin Uploads => market' = market
  BY DEF Record
<1>5. ASSUME j.kind = "announce" PROVE RecordsTold(d)
  <2>1. result = Reported(j.reply, "pending")
    BY <1>5 DEF Reported
  <2>2. Reported(j.reply, "pending") \in Results
    BY ReportReply
  <2>3. ~Reported(j.reply, "pending").accepted
    BY ReportReply
  <2>4. Reported(j.reply, "pending").sent = NoStep
    BY DEF Reported, AfterReply
  <2>5. Reported(j.reply, "pending").status # "replaced"
    BY ReportReply
  <2>. QED
    BY <1>3, <1>5, <1>7, <2>1, <2>2, <2>3, <2>4, <2>5 DEF RecordsTold, Uploads
<1>6. ASSUME j.kind = "report" PROVE RecordsTold(d)
  <2>. DEFINE t == Reported("taken", "reported")
  <2>1. result = IF j.reply = "refused" THEN [t EXCEPT !.told = FALSE]
                 ELSE Reported(j.reply, "reported")
    BY <1>6 DEF Reported, AfterReport
  <2>2. Reported(j.reply, "reported") \in Results /\ t \in Results
    BY ReportReply
  <2>3. ~Reported(j.reply, "reported").accepted /\ ~t.accepted
    BY ReportReply
  <2>4. Reported(j.reply, "reported").sent = NoStep /\ t.sent = NoStep
    BY DEF Reported, AfterReply
  <2>5. Reported(j.reply, "reported").status # "replaced" /\ t.status # "replaced"
    BY ReportReply
  <2>. HIDE DEF t
  <2>6. LET u == [t EXCEPT !.told = FALSE]
        IN u \in Results /\ ~u.accepted /\ u.sent = NoStep /\ u.status # "replaced"
    BY <2>2, <2>3, <2>4, <2>5 DEF Results
  <2>. HIDE DEF result
  <2>7. result \in Results /\ ~result.accepted /\ result.sent = NoStep /\ result.status # "replaced"
    BY <2>1, <2>2, <2>3, <2>4, <2>5, <2>6
  <2>8. j.kind \notin Uploads
    BY <1>6 DEF Uploads
  <2>. QED
    BY <1>3, <1>7, <2>7, <2>8 DEF RecordsTold
<1>. QED
  <2>1. market' \in Markets
    BY <1>2, <1>4, <1>7 DEF RecordsUpload, Typed
  <2>. QED
    BY <1>1, <1>2, <1>4, <1>5, <1>6, <2>1 DEF Record

LEMMA RecordRows ==
    ASSUME Typed, Rows, NEW d \in Devices, Record(d)
    PROVE  Typed' /\ Rows'
<1>. DEFINE j == job[d]
            r == row[d]
<1>1. j \in Jobs /\ Device(r, j) /\ j.at = "answer" /\ job' = [job EXCEPT ![d] = Idle]
      /\ prompt' = prompt
  BY RecordSplit DEF Typed, Rows, Done
<1>2. \E new : Device(new, Idle) /\ row' = [row EXCEPT ![d] = new]
  <2>1. CASE RecordsUpload(d)
    <3>1. InFlight(j) /\ j.ok \in {"none", "listed", "replaced"}
      BY <1>1, <2>1 DEF RecordsUpload, InFlight, Jobs
    <3>2. j.step # NoStep
      <4>1. \E t \in 0..1 : j.step = Current(j.seen.steps, t)
        BY <1>1, <3>1 DEF Device
      <4>2. j.seen.steps \in SUBSET Steps /\ Schedule \subseteq j.seen.steps
        BY <1>1 DEF Device, Sound, Row
      <4>. QED
        BY <4>1, <4>2, CurrentIn
    <3>3. Device(Recorded(r, j.seen, Uploaded(j.reply, j.ok, j.step)), Idle)
      BY <1>1, <3>1, <3>2, JobRecords
    <3>. QED
      BY <2>1, <3>3 DEF RecordsUpload
  <2>2. CASE RecordsTold(d)
    <3>1. PICK res \in Results :
            /\ ~res.accepted /\ res.sent = NoStep
            /\ row' = [row EXCEPT ![d] = Recorded(r, j.seen, res)]
      BY <2>2 DEF RecordsTold
    <3>2. Sound(r) /\ r.publish /\ Sound(j.seen)
      BY <1>1 DEF Device
    <3>3. Sound(Recorded(r, j.seen, res))
      BY <3>1, <3>2, RecordedKeeps
    <3>. QED
      BY <3>1, <3>3, AtRest
  <2>. QED
    BY <2>1, <2>2, RecordSplit
<1>3. /\ row' \in [Devices -> Row] /\ job' \in [Devices -> Jobs]
      /\ prompt' \in [Devices -> Prompts] /\ Rows'
  BY <1>1, <1>2, Blank, OneDevice
<1>4. market' \in Markets
  BY RecordSplit
<1>5. UNCHANGED <<chainVars, prompt, budget>>
  BY RecordSplit
<1>. QED
  BY <1>3, <1>4, <1>5 DEF Typed, chainVars

LEMMA StateKeeps ==
    ASSUME NEW r, Sound(r), r.state # "none", NEW state \in States \ {"none"}
    PROVE  LET n == [r EXCEPT !.state = state]
           IN /\ Sound(n) /\ n.state = state /\ n.steps = r.steps /\ n.exp = r.exp
              /\ n.publish = r.publish /\ n.elsewhere = r.elsewhere /\ n.sent = r.sent
              /\ n.accepted = r.accepted /\ n.changed = r.changed /\ n.status = r.status
<1>. DEFINE n == [r EXCEPT !.state = state]
<1>1. n \in Row
  BY DEF Sound, Row
<1>2. /\ n.state = state /\ n.steps = r.steps /\ n.exp = r.exp
      /\ n.publish = r.publish /\ n.elsewhere = r.elsewhere /\ n.sent = r.sent
      /\ n.accepted = r.accepted /\ n.changed = r.changed /\ n.status = r.status
      /\ n.told = r.told /\ n.foreign = r.foreign
  BY DEF Sound, Row
<1>3. Sound(n)
  <2>. HIDE DEF n
  <2>. QED
    BY <1>1, <1>2 DEF Sound
<1>. QED
  BY <1>2, <1>3

\* What following the lock, and starting over, writes: nothing of what is sent,
\* but for a listing that starts over.
FollowsLock(d, new) ==
    /\ row' = [row EXCEPT ![d] = new] /\ Sound(new)
    /\ new.steps = row[d].steps /\ new.exp = row[d].exp /\ new.publish = row[d].publish
    /\ new.elsewhere = row[d].elsewhere
    /\ new.status = "replaced" => row[d].status = "replaced"
    /\ \/ /\ market' = market
          /\ new.accepted = row[d].accepted /\ new.sent = row[d].sent
          /\ row[d].accepted /\ row[d].changed => new.changed
       \/ /\ market' \in Markets /\ market'.copy = market.copy
          /\ market.unheard \subseteq market'.unheard
          /\ row[d].told => d \in market'.unheard

LEMMA StartsOver ==
    ASSUME Typed, Rows, NEW d \in Devices, NEW state \in States \ {"none"},
           StartOver(d, state), row[d].state # "none"
    PROVE  \E new : FollowsLock(d, new)
<1>. DEFINE r == row[d]
            new == Reset([r EXCEPT !.state = state, !.cancel = "none"])
            u == IF r.told THEN market.unheard \cup {d} ELSE market.unheard
<1>1. Sound(r) /\ r \in Row
  BY DEF Rows, Device, Sound
<1>2. row' = [row EXCEPT ![d] = new] /\ market' = [market EXCEPT !.unheard = u]
  BY DEF StartOver, Typed
<1>3. /\ new \in Row /\ new.state = state /\ new.steps = r.steps /\ new.exp = r.exp
      /\ new.publish = r.publish /\ new.elsewhere = r.elsewhere /\ new.foreign = r.foreign
      /\ ~new.accepted /\ new.sent = NoStep /\ new.status = "none"
  BY <1>1 DEF Reset, Row, Statuses, SomeStep
<1>4. /\ u \in SUBSET Devices /\ market.unheard \subseteq u /\ (r.told => d \in u)
      /\ market \in Markets
  BY DEF Typed, Markets
<1>. HIDE DEF new, u
<1>5. Sound(new)
  BY <1>1, <1>3 DEF Sound
<1>6. market' \in Markets /\ market'.copy = market.copy /\ market'.unheard = u
  BY <1>2, <1>4 DEF Markets
<1>. QED
  BY <1>2, <1>3, <1>4, <1>5, <1>6 DEF FollowsLock

LEMMA FollowLockSplit ==
    ASSUME Typed, Rows, NEW d \in Devices, FollowLock(d)
    PROVE  /\ \E new : FollowsLock(d, new)
           /\ job[d].at = "idle" /\ UNCHANGED <<chainVars, job, prompt, budget>>
<1>. DEFINE r == row[d]
            startOver == \E state \in {"listed", "finalizing"} : StartOver(d, state)
            back == [r EXCEPT !.state = "cancelling"]
            again == IF r.cancel = "unsent" /\ r.status # "refused" THEN Changed(back) ELSE back
            ended == [r EXCEPT !.state = lockCoin]
            undone == [r EXCEPT !.state = "finalizing"]
<1>1. Sound(r) /\ r \in Row
  BY DEF Rows, Device, Sound
<1>2. /\ job[d].at = "idle" /\ UNCHANGED <<chainVars, job, prompt, budget>>
      /\ r.state # "none"
      /\ \/ startOver
         \/ row' = [row EXCEPT ![d] = undone] /\ UNCHANGED market
         \/ lockCoin \in Ended /\ row' = [row EXCEPT ![d] = ReportDue(ended)] /\ UNCHANGED market
         \/ row' = [row EXCEPT ![d] = again] /\ UNCHANGED market
  <2>1. \/ r.state \in {"finalizing", "sold", "cancelling"} /\ startOver
        \/ r.state \in {"listed", "sold"} /\ row' = [row EXCEPT ![d] = undone] /\ UNCHANGED market
        \/ /\ r.state \in {"listed", "cancelling"} \/ (r.state = "sold" /\ lockCoin = "cancelled")
           /\ lockCoin \in Ended /\ row' = [row EXCEPT ![d] = ReportDue(ended)] /\ UNCHANGED market
        \/ r.state = "cancelled" /\ row' = [row EXCEPT ![d] = again] /\ UNCHANGED market
    BY DEF FollowLock
  <2>2. job[d].at = "idle" /\ UNCHANGED <<chainVars, job, prompt, budget>>
    BY DEF FollowLock
  <2>. HIDE DEF startOver, undone, ended, again
  <2>. QED
    BY <2>1, <2>2
<1>3. CASE startOver
  <2>1. PICK state \in {"listed", "finalizing"} : StartOver(d, state)
    BY <1>3
  <2>2. state \in States \ {"none"}
    BY DEF States
  <2>. QED
    BY <1>2, <2>1, <2>2, StartsOver
<1>4. CASE row' = [row EXCEPT ![d] = undone] /\ UNCHANGED market
  <2>1. "finalizing" \in States \ {"none"}
    BY DEF States
  <2>2. /\ Sound(undone) /\ undone.steps = r.steps /\ undone.exp = r.exp
        /\ undone.publish = r.publish /\ undone.elsewhere = r.elsewhere
        /\ undone.sent = r.sent /\ undone.accepted = r.accepted
        /\ undone.changed = r.changed /\ undone.status = r.status
    BY <1>1, <1>2, <2>1, StateKeeps
  <2>. HIDE DEF undone
  <2>. QED
    BY <1>2, <1>4, <2>2 DEF FollowsLock
<1>5. CASE lockCoin \in Ended /\ row' = [row EXCEPT ![d] = ReportDue(ended)] /\ UNCHANGED market
  <2>. DEFINE new == ReportDue(ended)
  <2>1. lockCoin \in States \ {"none"}
    BY <1>5 DEF States, Ended
  <2>2. /\ Sound(ended) /\ ended.steps = r.steps /\ ended.exp = r.exp
        /\ ended.publish = r.publish /\ ended.elsewhere = r.elsewhere
        /\ ended.sent = r.sent /\ ended.accepted = r.accepted
        /\ ended.changed = r.changed /\ ended.status = r.status
    BY <1>1, <1>2, <2>1, StateKeeps
  <2>. HIDE DEF ended
  <2>. DEFINE b == ended.due \/ ended.status # "none"
  <2>3. b \in BOOLEAN /\ new = [ended EXCEPT !.due = b] /\ ended \in Row
    BY <2>2 DEF ReportDue, Sound, Row
  <2>. HIDE DEF b
  <2>4. /\ new \in Row /\ new.steps = ended.steps /\ new.exp = ended.exp
        /\ new.publish = ended.publish /\ new.elsewhere = ended.elsewhere
        /\ new.sent = ended.sent /\ new.accepted = ended.accepted
        /\ new.changed = ended.changed /\ new.status = ended.status
        /\ new.state = ended.state /\ new.told = ended.told /\ new.foreign = ended.foreign
    BY <2>3 DEF Row
  <2>. HIDE DEF new
  <2>5. Sound(new)
    BY <2>2, <2>4 DEF Sound
  <2>6. row' = [row EXCEPT ![d] = new] /\ market' = market
    BY <1>5 DEF new
  <2>7. /\ new.steps = r.steps /\ new.exp = r.exp /\ new.publish = r.publish
        /\ new.elsewhere = r.elsewhere /\ new.sent = r.sent /\ new.accepted = r.accepted
        /\ new.changed = r.changed /\ new.status = r.status
    BY <2>2, <2>4
  <2>8. FollowsLock(d, new)
    BY <2>5, <2>6, <2>7 DEF FollowsLock
  <2>. QED
    BY <1>2, <2>8
<1>6. CASE row' = [row EXCEPT ![d] = again] /\ UNCHANGED market
  <2>1. "cancelling" \in States \ {"none"}
    BY DEF States
  <2>2. /\ Sound(back) /\ back.steps = r.steps /\ back.exp = r.exp
        /\ back.publish = r.publish /\ back.elsewhere = r.elsewhere
        /\ back.sent = r.sent /\ back.accepted = r.accepted
        /\ back.changed = r.changed /\ back.status = r.status
    BY <1>1, <1>2, <2>1, StateKeeps
  <2>. HIDE DEF back
  <2>3. /\ Sound(again) /\ again.steps = back.steps /\ again.exp = back.exp
        /\ again.publish = back.publish /\ again.elsewhere = back.elsewhere
        /\ again.sent = back.sent /\ again.accepted = back.accepted
        /\ back.accepted /\ back.changed => again.changed
        /\ again.status = "replaced" => back.status = "replaced"
    <3>1. Changed(back).status # "replaced"
      BY <2>2 DEF Changed, Sound, Row
    <3>. QED
      BY <2>2, <3>1, ChangedKeeps
  <2>. HIDE DEF again
  <2>. QED
    BY <1>2, <1>6, <2>2, <2>3 DEF FollowsLock
<1>. HIDE DEF startOver, undone, ended, again
<1>. QED
  BY <1>2, <1>3, <1>4, <1>5, <1>6

LEMMA ImportRows ==
    ASSUME Typed, Rows, NEW d \in Devices, Import(d)
    PROVE  Typed' /\ Rows'
<1>1. /\ row[d].state = "none" /\ row' = [row EXCEPT ![d] = Imported]
      /\ UNCHANGED <<chainVars, market, job, prompt, budget>>
  BY DEF Import, Write
<1>2. Device(row[d], job[d]) /\ prompt[d] \in Prompts /\ Asked(prompt[d])
  BY DEF Rows, Typed
<1>3. Device(Imported, job[d])
  BY <1>1, <1>2, Blank DEF Device, Sound, InFlight
<1>4. prompt' = [prompt EXCEPT ![d] = prompt[d]]
  BY <1>1 DEF Typed
<1>5. /\ row' \in [Devices -> Row] /\ job' \in [Devices -> Jobs]
      /\ prompt' \in [Devices -> Prompts] /\ Rows'
  BY <1>1, <1>2, <1>3, <1>4, OneRow
<1>. QED
  BY <1>1, <1>5 DEF Typed, chainVars

\* Publishing, and what becomes of a cancel, leave the rest of the row alone.
LEMMA FieldKeeps ==
    ASSUME NEW r, Sound(r), r.state # "none", NEW n \in Row, n.state # "none",
           n.steps = r.steps, n.publish = r.publish \/ n.publish = TRUE,
           n.accepted = r.accepted, n.told = r.told, n.changed = r.changed, n.sent = r.sent,
           n.elsewhere = r.elsewhere, n.foreign = r.foreign
    PROVE  Sound(n)
BY DEF Sound

LEMMA PublishRows ==
    ASSUME Typed, Rows, NEW d \in Devices, Publish(d)
    PROVE  Typed' /\ Rows'
<1>. DEFINE r == row[d]
            n == [r EXCEPT !.publish = TRUE]
<1>1. /\ r.state = "listed" /\ ~r.publish /\ row' = [row EXCEPT ![d] = n]
      /\ UNCHANGED <<chainVars, market, job, prompt, budget>>
  BY DEF Publish, Write
<1>2. Device(r, job[d]) /\ prompt[d] \in Prompts /\ Asked(prompt[d]) /\ Sound(r) /\ r \in Row
  BY DEF Rows, Typed, Device
<1>3. /\ n \in Row /\ n.state = r.state /\ n.steps = r.steps /\ n.publish = TRUE
      /\ n.accepted = r.accepted /\ n.told = r.told /\ n.changed = r.changed /\ n.sent = r.sent
      /\ n.elsewhere = r.elsewhere /\ n.foreign = r.foreign
  BY <1>2 DEF Row
<1>4. job[d].at = "idle"
  BY <1>1, <1>2 DEF Device
<1>. HIDE DEF n
<1>5. Sound(n)
  BY <1>1, <1>2, <1>3, FieldKeeps
<1>6. Device(n, job[d])
  BY <1>4, <1>5 DEF Device, InFlight
<1>7. prompt' = [prompt EXCEPT ![d] = prompt[d]]
  BY <1>1 DEF Typed
<1>8. /\ row' \in [Devices -> Row] /\ job' \in [Devices -> Jobs]
      /\ prompt' \in [Devices -> Prompts] /\ Rows'
  BY <1>1, <1>2, <1>6, <1>7, OneRow
<1>. QED
  BY <1>1, <1>8 DEF Typed, chainVars

LEMMA CancelRows ==
    ASSUME Typed, Rows, NEW d \in Devices, Cancel(d)
    PROVE  Typed' /\ Rows'
<1>. DEFINE r == row[d]
            n == [r EXCEPT !.state = "cancelling", !.cancel = "unsent"]
<1>1. /\ r.state = "listed" /\ row' = [row EXCEPT ![d] = n]
      /\ UNCHANGED <<chainVars, market, job, prompt>>
  BY DEF Cancel, Write
<1>2. Device(r, job[d]) /\ prompt[d] \in Prompts /\ Asked(prompt[d]) /\ Sound(r) /\ r \in Row
  BY DEF Rows, Typed, Device
<1>3. /\ n \in Row /\ n.state = "cancelling" /\ n.steps = r.steps /\ n.publish = r.publish
      /\ n.accepted = r.accepted /\ n.told = r.told /\ n.changed = r.changed /\ n.sent = r.sent
      /\ n.elsewhere = r.elsewhere /\ n.foreign = r.foreign /\ n.exp = r.exp
  BY <1>2 DEF Row, States
<1>. HIDE DEF n
<1>4. Sound(n)
  BY <1>1, <1>2, <1>3, FieldKeeps
<1>5. Device(n, job[d])
  BY <1>1, <1>2, <1>3, <1>4 DEF Device, InFlight, Same
<1>6. prompt' = [prompt EXCEPT ![d] = prompt[d]] /\ job' = job
  BY <1>1 DEF Typed
<1>7. /\ row' \in [Devices -> Row] /\ job' \in [Devices -> Jobs]
      /\ prompt' \in [Devices -> Prompts] /\ Rows'
  BY <1>1, <1>2, <1>5, <1>6, OneRow
<1>8. budget' \in Budgets
  BY SpendKeeps DEF Cancel
<1>. QED
  BY <1>1, <1>7, <1>8 DEF Typed, chainVars

\* What becomes of a Cancel is marked on its row alone.
CancelMark(d, to) ==
    /\ row' = [row EXCEPT ![d] = [row[d] EXCEPT !.cancel = to]]
    /\ UNCHANGED <<chainVars, market, job, prompt>>
    /\ budget' \in Budgets /\ budget'.devices = budget.devices

LEMMA CancelMarkRows ==
    ASSUME Typed, Rows, NEW d \in Devices, NEW to \in {"sent", "dead"}, CancelMark(d, to)
    PROVE  Typed' /\ Rows'
<1>. DEFINE r == row[d]
            n == [r EXCEPT !.cancel = to]
<1>1. Device(r, job[d]) /\ prompt[d] \in Prompts /\ Asked(prompt[d]) /\ Sound(r) /\ r \in Row
  BY DEF Rows, Typed, Device
<1>2. /\ n \in Row /\ n.state = r.state /\ n.steps = r.steps /\ n.publish = r.publish
      /\ n.accepted = r.accepted /\ n.told = r.told /\ n.changed = r.changed /\ n.sent = r.sent
      /\ n.elsewhere = r.elsewhere /\ n.foreign = r.foreign
  BY <1>1 DEF Row
<1>. HIDE DEF n
<1>3. Sound(n)
  BY <1>1, <1>2 DEF Sound
<1>4. Device(n, job[d])
  BY <1>1, <1>2, <1>3 DEF Device, InFlight
<1>5. prompt' = [prompt EXCEPT ![d] = prompt[d]] /\ job' = job /\ row' = [row EXCEPT ![d] = n]
  BY DEF CancelMark, Typed, n
<1>6. /\ row' \in [Devices -> Row] /\ job' \in [Devices -> Jobs]
      /\ prompt' \in [Devices -> Prompts] /\ Rows'
  BY <1>1, <1>4, <1>5, OneRow
<1>. QED
  BY <1>6 DEF CancelMark, Typed, chainVars

LEMMA CancelDiesSplit ==
    ASSUME Typed, Rows, NEW d \in Devices, CancelDies(d)
    PROVE  CancelMark(d, "dead")
<1>1. row' = [row EXCEPT ![d] = [row[d] EXCEPT !.cancel = "dead"]]
  BY DEF CancelDies, Typed
<1>2. budget' \in Budgets /\ budget'.devices = budget.devices
  BY SpendKeeps DEF CancelDies
<1>. QED
  BY <1>1, <1>2 DEF CancelDies, CancelMark

LEMMA SendOrDropCancelSplit ==
    ASSUME Typed, Rows, NEW d \in Devices, SendOrDropCancel(d)
    PROVE  /\ budget' \in Budgets /\ budget'.devices = budget.devices
           /\ UNCHANGED <<chainVars, job, prompt>>
           /\ CancelMark(d, "sent") \/ \E new : FollowsLock(d, new)
<1>1. budget' \in Budgets /\ budget'.devices = budget.devices
  BY SpendKeeps DEF SendOrDropCancel
<1>2. row[d].state # "none" /\ UNCHANGED <<chainVars, job, prompt>>
  BY DEF SendOrDropCancel
<1>3. CASE row' = [row EXCEPT ![d].cancel = "sent"] /\ UNCHANGED market
  BY <1>1, <1>2, <1>3 DEF CancelMark, Typed
<1>4. CASE StartOver(d, "listed")
  <2>1. "listed" \in States \ {"none"}
    BY DEF States
  <2>. QED
    BY <1>1, <1>2, <1>4, <2>1, StartsOver
<1>. QED
  BY <1>3, <1>4 DEF SendOrDropCancel

LEMMA CancelDiesRows ==
    ASSUME Typed, Rows, NEW d \in Devices, CancelDies(d)
    PROVE  Typed' /\ Rows'
BY CancelDiesSplit, CancelMarkRows

\* Whatever a job is doing.
LEMMA FollowsLockRows ==
    ASSUME Typed, Rows, NEW d \in Devices, NEW new, FollowsLock(d, new),
           UNCHANGED <<chainVars, job, prompt>>, budget' \in Budgets
    PROVE  Typed' /\ Rows'
<1>1. Device(row[d], job[d])
  BY DEF Rows
<1>2. Device(new, job[d]) /\ job[d] \in Jobs /\ job' = [job EXCEPT ![d] = job[d]]
  BY <1>1 DEF FollowsLock, Device, InFlight, Typed
<1>3. /\ row' \in [Devices -> Row] /\ job' \in [Devices -> Jobs]
      /\ prompt' \in [Devices -> Prompts] /\ Rows'
  BY <1>2, OneDevice DEF FollowsLock
<1>4. market' \in Markets
  BY DEF FollowsLock, Typed
<1>. QED
  BY <1>3, <1>4 DEF Typed, chainVars

LEMMA FollowLockRows ==
    ASSUME Typed, Rows, NEW d \in Devices, FollowLock(d)
    PROVE  Typed' /\ Rows'
<1>1. PICK new : FollowsLock(d, new)
  BY FollowLockSplit
<1>2. UNCHANGED <<chainVars, job, prompt, budget>>
  BY FollowLockSplit
<1>. QED
  BY <1>1, <1>2, FollowsLockRows DEF Typed

LEMMA SendOrDropCancelRows ==
    ASSUME Typed, Rows, NEW d \in Devices, SendOrDropCancel(d)
    PROVE  Typed' /\ Rows'
BY SendOrDropCancelSplit, CancelMarkRows, FollowsLockRows

LEMMA LowerPriceRows ==
    ASSUME Typed, Rows, NEW d \in Devices, LowerPrice(d)
    PROVE  Typed' /\ Rows'
<1>. DEFINE r == row[d]
            p == [kind |-> "lower", old |-> r.steps, foreign |-> NoStep, exp |-> r.exp,
                  new |-> r.steps \cup {Lowered[d]}]
<1>1. /\ prompt' = [prompt EXCEPT ![d] = p] /\ UNCHANGED <<chainVars, market, row, job>>
  BY DEF LowerPrice
<1>2. Device(r, job[d]) /\ r \in Row /\ r.steps \in SUBSET Steps /\ r.exp \in Nat
  BY DEF Rows, Device, Sound, Row
<1>3. Lowered[d] \in Steps
  BY DEF Steps
<1>5. p \in Prompts
  BY <1>2, <1>3 DEF Prompts, SomeStep
<1>6. Asked(p)
  BY DEF Asked
<1>7. row' = [row EXCEPT ![d] = r] /\ job' = job
  BY <1>1 DEF Typed
<1>. HIDE DEF p, r
<1>8. /\ row' \in [Devices -> Row] /\ job' \in [Devices -> Jobs]
      /\ prompt' \in [Devices -> Prompts] /\ Rows'
  BY <1>1, <1>2, <1>5, <1>6, <1>7, OneRow
<1>9. budget' \in Budgets
  BY SpendKeeps DEF LowerPrice
<1>. QED
  BY <1>1, <1>8, <1>9 DEF Typed, chainVars

LEMMA TakeOverSplit ==
    ASSUME Typed, Rows, NEW d \in Devices, TakeOver(d)
    PROVE  \E new \in SUBSET Steps, exp \in Nat :
              /\ row[d].steps \subseteq new
              /\ \E e \in Devices : exp = row[e].exp
              /\ prompt' = [prompt EXCEPT ![d] =
                    [kind |-> "take over", old |-> row[d].steps, foreign |-> row[d].foreign,
                     exp |-> exp, new |-> new]]
<1>. DEFINE r == row[d]
<1>1. PICK file \in {[steps |-> r.steps \cup {r.foreign}, exp |-> r.exp]}
                       \cup {[steps |-> row[e].steps, exp |-> row[e].exp] : e \in Devices \ {d}} :
        /\ r.steps \subseteq file.steps
        /\ prompt' = [prompt EXCEPT ![d] =
              [kind |-> "take over", old |-> r.steps, foreign |-> r.foreign,
               exp |-> file.exp, new |-> file.steps]]
  BY DEF TakeOver
<1>2. \A e \in Devices : row[e] \in Row /\ row[e].steps \in SUBSET Steps /\ row[e].exp \in Nat
  BY DEF Typed, Row
<1>3. r.foreign \in Steps
  <2>1. r.elsewhere /\ Sound(r)
    BY DEF TakeOver, Rows, Device
  <2>. QED
    BY <2>1 DEF Sound, Row, SomeStep
<1>4. /\ file.steps \in SUBSET Steps /\ file.exp \in Nat
      /\ \E e \in Devices : file.exp = row[e].exp
  <2>1. CASE file = [steps |-> r.steps \cup {r.foreign}, exp |-> r.exp]
    BY <1>2, <1>3, <2>1
  <2>2. CASE \E e \in Devices \ {d} : file = [steps |-> row[e].steps, exp |-> row[e].exp]
    BY <1>2, <2>2
  <2>. QED
    BY <1>1, <2>1, <2>2
<1>. QED
  BY <1>1, <1>4

LEMMA TakeOverRows ==
    ASSUME Typed, Rows, NEW d \in Devices, TakeOver(d)
    PROVE  Typed' /\ Rows'
<1>1. PICK new \in SUBSET Steps, exp \in Nat :
        /\ row[d].steps \subseteq new
        /\ prompt' = [prompt EXCEPT ![d] =
              [kind |-> "take over", old |-> row[d].steps, foreign |-> row[d].foreign,
               exp |-> exp, new |-> new]]
  BY TakeOverSplit
<1>. DEFINE r == row[d]
            p == [kind |-> "take over", old |-> r.steps, foreign |-> r.foreign,
                  exp |-> exp, new |-> new]
<1>2. UNCHANGED <<chainVars, market, row, job>>
  BY DEF TakeOver
<1>3. Device(r, job[d]) /\ r \in Row /\ r.steps \in SUBSET Steps /\ r.foreign \in SomeStep
  BY DEF Rows, Device, Sound, Row
<1>4. p \in Prompts /\ Asked(p)
  BY <1>1, <1>3 DEF Prompts, Asked
<1>5. row' = [row EXCEPT ![d] = r] /\ job' = job
  BY <1>2 DEF Typed
<1>. HIDE DEF p, r
<1>6. prompt' = [prompt EXCEPT ![d] = p]
  BY <1>1 DEF p, r
<1>7. /\ row' \in [Devices -> Row] /\ job' \in [Devices -> Jobs]
      /\ prompt' \in [Devices -> Prompts] /\ Rows'
  BY <1>3, <1>4, <1>5, <1>6, OneRow
<1>8. budget' \in Budgets
  BY SpendKeeps DEF TakeOver
<1>. QED
  BY <1>2, <1>7, <1>8 DEF Typed, chainVars

\* What is written of an answered prompt, where anything is.
Answers(d, n) ==
    /\ row' = [row EXCEPT ![d] = n] /\ Device(n, job[d])
    /\ row[d].steps \subseteq n.steps /\ n.publish = row[d].publish
    /\ n.elsewhere => row[d].elsewhere
    /\ n.accepted = row[d].accepted /\ n.sent = row[d].sent
    /\ row[d].accepted /\ row[d].changed => n.changed
    /\ n.exp \in {row[d].exp, prompt[d].exp}
    /\ n.status = "replaced" => row[d].status = "replaced"

LEMMA AnswerSplit ==
    ASSUME Typed, Rows, NEW d \in Devices, Answer(d)
    PROVE  /\ \E n : Answers(d, n)
           /\ prompt' = [prompt EXCEPT ![d] = NoPrompt]
           /\ UNCHANGED <<chainVars, market, job, budget>>
<1>. DEFINE p == prompt[d]
            r == row[d]
            j == job[d]
            unchanged == /\ r.state = "listed" /\ r.steps = p.old
                         /\ p.kind = "take over" => r.elsewhere /\ r.foreign = p.foreign
            new == [r EXCEPT !.steps = p.new, !.exp = p.exp,
                             !.elsewhere = @ /\ p.kind = "lower",
                             !.foreign = IF p.kind = "lower" THEN @ ELSE NoStep]
<1>1. /\ p # NoPrompt /\ prompt' = [prompt EXCEPT ![d] = NoPrompt]
      /\ UNCHANGED <<chainVars, market, job, budget>>
      /\ \/ UNCHANGED row
         \/ unchanged /\ row' = [row EXCEPT ![d] = Changed(new)]
  BY Zenon DEF Answer
<1>2. /\ Device(r, j) /\ Sound(r) /\ r \in Row /\ p \in Prompts /\ Asked(p)
  BY DEF Rows, Device, Sound, Typed
<1>3. ASSUME UNCHANGED row PROVE Answers(d, r)
  BY <1>2, <1>3 DEF Answers, Typed
<1>4. ASSUME unchanged, row' = [row EXCEPT ![d] = Changed(new)]
      PROVE  Answers(d, Changed(new))
  <2>. DEFINE e == p.exp
              w == r.elsewhere /\ p.kind = "lower"
              f == IF p.kind = "lower" THEN r.foreign ELSE NoStep
              n == Changed(new)
  <2>1. /\ p.new \in SUBSET Steps /\ e \in Nat /\ w \in BOOLEAN /\ f \in SomeStep
    BY <1>2 DEF Prompts, Row, SomeStep
  <2>2. new = [r EXCEPT !.steps = p.new, !.exp = e, !.elsewhere = w, !.foreign = f]
    BY <1>2 DEF Row
  <2>3. p.old \subseteq p.new /\ r.steps = p.old /\ r.state = "listed"
    BY <1>1, <1>2, <1>4 DEF Asked, Prompts
  <2>4. (w <=> f # NoStep) /\ (w => r.elsewhere)
    BY <1>2, <2>3 DEF Sound
  <2>. HIDE DEF e, w, f, new
  <2>5. /\ new \in Row /\ new.steps = p.new /\ new.exp = e /\ new.elsewhere = w
        /\ new.foreign = f /\ new.state = r.state /\ new.publish = r.publish
        /\ new.accepted = r.accepted /\ new.told = r.told /\ new.changed = r.changed
        /\ new.sent = r.sent /\ new.status = r.status
    BY <1>2, <2>1, <2>2 DEF Row
  <2>6. /\ n \in Row /\ n.steps = new.steps /\ n.exp = new.exp
        /\ n.elsewhere = new.elsewhere /\ n.foreign = new.foreign
        /\ n.state = new.state /\ n.publish = new.publish /\ n.accepted = new.accepted
        /\ n.told = new.told /\ n.sent = new.sent /\ n.status # "replaced"
        /\ new.accepted => n.changed
    BY <2>5 DEF Changed, Row, Statuses
  <2>. HIDE DEF n
  <2>7. Sound(n)
    BY <1>2, <2>3, <2>4, <2>5, <2>6 DEF Sound
  <2>9. Device(n, j)
    BY <1>2, <2>3, <2>4, <2>5, <2>6, <2>7 DEF Device, InFlight
  <2>10. row' = [row EXCEPT ![d] = n]
    BY <1>4 DEF n
  <2>11. Answers(d, n)
    BY <2>3, <2>4, <2>5, <2>6, <2>9, <2>10 DEF Answers, e
  <2>. QED
    BY <2>11 DEF n
<1>. HIDE DEF unchanged, new
<1>. QED
  BY <1>1, <1>3, <1>4

LEMMA AnswerRows ==
    ASSUME Typed, Rows, NEW d \in Devices, Answer(d)
    PROVE  Typed' /\ Rows'
<1>1. PICK n : Answers(d, n)
  BY AnswerSplit
<1>2. /\ prompt' = [prompt EXCEPT ![d] = NoPrompt]
      /\ UNCHANGED <<chainVars, market, job, budget>>
  BY AnswerSplit
<1>3. NoPrompt \in Prompts /\ Asked(NoPrompt)
  BY Blank DEF Asked, NoPrompt
<1>4. /\ row' \in [Devices -> Row] /\ job' \in [Devices -> Jobs]
      /\ prompt' \in [Devices -> Prompts] /\ Rows'
  BY <1>1, <1>2, <1>3, OneRow DEF Answers
<1>. QED
  BY <1>2, <1>4 DEF Typed, chainVars

\* Steps of the chain, the clock, the market and everybody else.
Elsewhere == LockCoinMoves \/ TimePasses \/ OthersUpload \/ \E d \in Devices : Renew(d)

\* They leave the devices alone; the market's copy may be another's, or get
\* another expiry.
LEMMA ElsewhereSplit ==
    ASSUME Typed, Elsewhere
    PROVE  /\ UNCHANGED <<row, job, prompt>>
           /\ lockCoin' \in {"none", "coin"} \cup Ended /\ mtp' \in 0..1 /\ year' \in Nat
           /\ year' >= year
           /\ budget' \in Budgets /\ budget'.devices = budget.devices
           /\ market' \in Markets /\ market'.unheard = market.unheard
           /\ \/ market'.copy = market.copy
              \/ /\ market'.copy.step = market.copy.step /\ market'.copy.by = market.copy.by
                 /\ market'.copy.exp = Refreshed /\ year' = year
              \/ /\ market'.copy.by = Others /\ year' = year
                 /\ market'.copy.exp \in {1, market.copy.exp}
                 /\ market'.copy.step \in
                      Schedule \cup {NoStep} \cup {Lowered[d] : d \in Devices \ budget.devices}
<1>1. CASE LockCoinMoves
  <2>1. UNCHANGED <<mtp, year, market, row, job, prompt>> /\ lockCoin' \in {"none", "coin"} \cup Ended
    BY <1>1 DEF LockCoinMoves, Ended
  <2>2. UNCHANGED budget \/ Spend("events")
    BY <1>1 DEF LockCoinMoves
  <2>3. budget' \in Budgets /\ budget'.devices = budget.devices
    BY <2>2, SpendKeeps DEF Typed
  <2>. QED
    BY <2>1, <2>3 DEF Typed
<1>2. CASE TimePasses
  <2>1. /\ UNCHANGED <<lockCoin, market, row, job, prompt>>
        /\ mtp' \in 0..1 /\ year' \in Nat /\ year' >= year
    BY <1>2 DEF TimePasses, Typed
  <2>2. budget' \in Budgets /\ budget'.devices = budget.devices
    BY <1>2, SpendKeeps DEF TimePasses
  <2>. QED
    BY <2>1, <2>2 DEF Typed
<1>3. CASE OthersUpload
  <2>1. PICK s \in Schedule \cup {NoStep} \cup {Lowered[d] : d \in Devices \ budget.devices} :
          market' = [market EXCEPT !.copy = [step |-> s, by |-> Others,
                        exp |-> IF market.copy = NoCopy THEN 1 ELSE market.copy.exp]]
    BY <1>3 DEF OthersUpload
  <2>. DEFINE e == IF market.copy = NoCopy THEN 1 ELSE market.copy.exp
              c == [step |-> s, by |-> Others, exp |-> e]
  <2>2. s \in SomeStep /\ e \in Nat /\ e \in {1, market.copy.exp} /\ market \in Markets
    BY MarketAssumption DEF SomeStep, Steps, Typed, Markets, Copies
  <2>. HIDE DEF e
  <2>3. c \in Copies /\ c.step = s /\ c.by = Others /\ c.exp = e
    BY <2>2 DEF Copies, Others
  <2>4. market' = [market EXCEPT !.copy = c]
    BY <2>1 DEF e
  <2>. HIDE DEF c
  <2>5. market' \in Markets /\ market'.copy = c /\ market'.unheard = market.unheard
    BY <2>2, <2>3, <2>4 DEF Markets
  <2>6. budget' \in Budgets /\ budget'.devices = budget.devices
    BY <1>3, SpendKeeps DEF OthersUpload
  <2>7. UNCHANGED <<lockCoin, mtp, year, row, job, prompt>>
    BY <1>3 DEF OthersUpload, chainVars
  <2>. QED
    BY <2>1, <2>2, <2>3, <2>5, <2>6, <2>7 DEF Typed
<1>4. ASSUME NEW d \in Devices, Renew(d) PROVE
           /\ UNCHANGED <<row, job, prompt, lockCoin, mtp, year>>
           /\ budget' \in Budgets /\ budget'.devices = budget.devices
           /\ market' \in Markets /\ market'.unheard = market.unheard
           /\ market'.copy.step = market.copy.step /\ market'.copy.by = market.copy.by
           /\ market'.copy.exp = Refreshed
  <2>. DEFINE c == [market.copy EXCEPT !.exp = Refreshed]
  <2>1. market' = [market EXCEPT !.copy = c] /\ market \in Markets /\ market.copy \in Copies
        /\ Refreshed \in Nat
    BY <1>4 DEF Renew, Typed, Markets, Refreshed
  <2>2. /\ c \in Copies /\ c.step = market.copy.step /\ c.by = market.copy.by
        /\ c.exp = Refreshed
    BY <2>1 DEF Copies
  <2>. HIDE DEF c
  <2>3. market' \in Markets /\ market'.copy = c /\ market'.unheard = market.unheard
    BY <2>1, <2>2 DEF Markets
  <2>4. budget' \in Budgets /\ budget'.devices = budget.devices
    BY <1>4, SpendKeeps DEF Renew
  <2>5. UNCHANGED <<row, job, prompt, lockCoin, mtp, year>>
    BY <1>4 DEF Renew, chainVars
  <2>. QED
    BY <2>2, <2>3, <2>4, <2>5
<1>5. CASE \E d \in Devices : Renew(d)
  BY <1>4, <1>5 DEF Typed
<1>. QED
  BY <1>1, <1>2, <1>3, <1>5 DEF Elsewhere

LEMMA ElsewhereRows ==
    ASSUME Typed, Rows, Elsewhere
    PROVE  Typed' /\ Rows'
<1>1. UNCHANGED <<row, job, prompt>>
  BY ElsewhereSplit
<1>2. Rows'
  BY <1>1 DEF Rows
<1>. QED
  BY <1>1, <1>2, ElsewhereSplit DEF Typed

LEMMA HourSplit ==
    ASSUME Typed, Rows, Hour
    PROVE  /\ row' \in [Devices -> Row] /\ UNCHANGED <<chainVars, market, job, prompt, budget>>
           /\ \A d \in Devices :
                /\ Sound(row'[d])
                /\ row'[d].state = row[d].state /\ row'[d].steps = row[d].steps
                /\ row'[d].exp = row[d].exp /\ row'[d].publish = row[d].publish
                /\ row'[d].elsewhere = row[d].elsewhere /\ row'[d].status = row[d].status
                /\ row'[d].accepted = row[d].accepted /\ row'[d].changed = row[d].changed
                /\ row'[d].sent = row[d].sent
<1>1. row' = [d \in Devices |-> [row[d] EXCEPT !.due = TRUE]]
      /\ UNCHANGED <<chainVars, market, job, prompt, budget>>
  BY DEF Hour
<1>2. ASSUME NEW d \in Devices
      PROVE  /\ row'[d] \in Row /\ Sound(row'[d])
             /\ row'[d].state = row[d].state /\ row'[d].steps = row[d].steps
             /\ row'[d].exp = row[d].exp /\ row'[d].publish = row[d].publish
             /\ row'[d].elsewhere = row[d].elsewhere /\ row'[d].status = row[d].status
             /\ row'[d].accepted = row[d].accepted /\ row'[d].changed = row[d].changed
             /\ row'[d].sent = row[d].sent
  <2>. DEFINE r == row[d]
              n == [r EXCEPT !.due = TRUE]
  <2>1. row'[d] = n /\ Sound(r) /\ r \in Row
    BY <1>1 DEF Rows, Device, Sound
  <2>2. /\ n \in Row /\ n.state = r.state /\ n.steps = r.steps /\ n.exp = r.exp
        /\ n.publish = r.publish /\ n.elsewhere = r.elsewhere /\ n.status = r.status
        /\ n.accepted = r.accepted /\ n.changed = r.changed /\ n.sent = r.sent
        /\ n.told = r.told /\ n.foreign = r.foreign
    BY <2>1 DEF Row
  <2>. HIDE DEF n, r
  <2>3. Sound(n)
    BY <2>1, <2>2 DEF Sound
  <2>. QED
    BY <2>1, <2>2, <2>3 DEF r
<1>. QED
  BY <1>1, <1>2

LEMMA HourRows ==
    ASSUME Typed, Rows, Hour
    PROVE  Typed' /\ Rows'
<1>1. /\ row' \in [Devices -> Row] /\ UNCHANGED <<chainVars, market, job, prompt, budget>>
  BY HourSplit
<1>2. ASSUME NEW d \in Devices PROVE Device(row'[d], job[d])
  <2>1. Device(row[d], job[d])
    BY DEF Rows
  <2>. QED
    BY <2>1, HourSplit DEF Device, InFlight, Same
<1>3. Rows'
  BY <1>1, <1>2 DEF Rows
<1>. QED
  BY <1>1, <1>3 DEF Typed, chainVars

-----------------------------------------------------------------------------
(* What the market holds.                                                  *)

\* Nobody unpublishes or forgets steps; a listing is marked only by a step on
\* the market that its device does not have; and what is put on the market is
\* one of the schedule's or of a device that keeps it there.
HoldStep ==
    /\ budget'.devices = budget.devices
    /\ \A e \in Devices :
         /\ row[e].publish => row'[e].publish /\ row[e].steps \subseteq row'[e].steps
         /\ row'[e].elsewhere =>
              \/ row[e].elsewhere
              \/ /\ row[e].publish /\ market'.copy.step = market.copy.step
                 /\ market.copy.step \in Steps \ row[e].steps
    /\ \/ market'.copy.step = market.copy.step
       \/ market'.copy.step \in Schedule \cup {NoStep} \/ budget.devices # Devices
       \/ /\ row' = row
          /\ \E e \in Devices :
               row[e].publish /\ ~row[e].elsewhere /\ market'.copy.step \in row[e].steps

LEMMA HoldKeeps ==
    ASSUME Typed, Rows, Holder, SomeoneKeeps, HoldStep
    PROVE  Holder' /\ SomeoneKeeps'
<1>. DEFINE step == market.copy.step
<1>1. \A e \in Devices : /\ row[e].elsewhere => row[e].publish
                         /\ row[e].publish => Schedule \subseteq row[e].steps
  BY DEF Rows, Device, Sound
<1>2. \A e \in Devices : step \in row[e].steps /\ ~row[e].elsewhere => ~row'[e].elsewhere
  BY DEF HoldStep
<1>3. Holder'
  <2>1. CASE market'.copy.step = step
    <3>1. SUFFICES ASSUME budget.devices = Devices, step \notin Schedule \cup {NoStep}
                   PROVE  \E d \in Devices :
                            row'[d].publish /\ ~row'[d].elsewhere /\ step \in row'[d].steps
      BY <2>1 DEF Holder, HoldStep
    <3>2. PICK d \in Devices : row[d].publish /\ ~row[d].elsewhere /\ step \in row[d].steps
      BY <3>1 DEF Holder
    <3>. QED
      BY <1>2, <3>2 DEF HoldStep
  <2>2. CASE market'.copy.step \in Schedule \cup {NoStep} \/ budget.devices # Devices
    BY <2>2 DEF Holder, HoldStep
  <2>3. CASE /\ row' = row
             /\ \E e \in Devices :
                  row[e].publish /\ ~row[e].elsewhere /\ market'.copy.step \in row[e].steps
    BY <2>3 DEF Holder
  <2>. QED
    BY <2>1, <2>2, <2>3 DEF HoldStep
<1>4. SomeoneKeeps'
  <2>1. SUFFICES ASSUME budget.devices = Devices, NEW p \in Devices, row'[p].publish
                 PROVE  \E d \in Devices : row'[d].publish /\ ~row'[d].elsewhere
    BY DEF SomeoneKeeps, HoldStep
  <2>2. CASE ~row[p].publish
    BY <1>1, <2>1, <2>2 DEF HoldStep
  <2>3. CASE row[p].publish
    <3>1. PICK k \in Devices : row[k].publish /\ ~row[k].elsewhere
      BY <2>1, <2>3 DEF SomeoneKeeps
    <3>2. CASE ~row'[k].elsewhere
      BY <3>1, <3>2 DEF HoldStep
    <3>3. CASE row'[k].elsewhere
      <4>1. step \in Steps \ row[k].steps
        BY <3>1, <3>3 DEF HoldStep
      <4>2. step \notin Schedule \cup {NoStep}
        BY <1>1, <3>1, <4>1, StepsFinite
      <4>3. PICK h \in Devices : row[h].publish /\ ~row[h].elsewhere /\ step \in row[h].steps
        BY <2>1, <4>2 DEF Holder
      <4>. QED
        BY <1>2, <4>3 DEF HoldStep
    <3>. QED
      BY <3>2, <3>3
  <2>. QED
    BY <2>2, <2>3
<1>. QED
  BY <1>3, <1>4

\* The property's step.
WarnStep ==
    \A d \in Devices :
         row'[d].status = "replaced" /\ row[d].status # "replaced" =>
            \/ job[d].copy.by # d \/ job[d].lost
            \/ job[d].seen.status = "replaced"
            \/ job[d].copy.exp # job[d].seen.exp /\ job[d].step \in Schedule

Steady == Expiries' /\ HoldStep /\ Copied' /\ WarnStep

\* What the other devices noted stands.
LEMMA CopiedFrame ==
    ASSUME Typed, Rows, Copied, NEW d \in Devices, NEW n, NEW j,
           row' = [row EXCEPT ![d] = n], job' = [job EXCEPT ![d] = j],
           market'.copy.by \in Devices => market'.copy.step # NoStep,
           \A e \in Devices \ {d} : e \in market.unheard => e \in market'.unheard,
           \/ market'.copy.step = market.copy.step /\ market'.copy.by = market.copy.by
           \/ market'.copy.by \in {d, "nobody", "other"},
           market'.copy.by = d => /\ Noted(n, j, market'.copy, d \in market'.unheard)
                                  /\ Recalled(j, market'.copy),
           Warned(j) => OfOthers(d, j)
    PROVE  Copied'
<1>1. row'[d] = n /\ job'[d] = j
      /\ \A e \in Devices \ {d} : row'[e] = row[e] /\ job'[e] = job[e]
  BY DEF Typed
<1>2. \A e \in Devices : e # "nobody" /\ e # "other"
  BY DevicesAssumption
<1>3. ASSUME NEW e \in Devices \ {d}
      PROVE  /\ market'.copy.by = e =>
                    /\ Noted(row'[e], job'[e], market'.copy, e \in market'.unheard)
                    /\ Recalled(job'[e], market'.copy)
             /\ Warned(job'[e]) => OfOthers(e, job'[e])
  <2>1. row'[e] = row[e] /\ job'[e] = job[e] /\ e # d
    BY <1>1
  <2>2. market'.copy.by = e =>
          market.copy.by = e /\ market'.copy.step = market.copy.step
    BY <1>2, <2>1
  <2>3. Warned(job'[e]) => OfOthers(e, job'[e])
    BY <2>1 DEF Copied
  <2>4. ASSUME market'.copy.by = e
        PROVE  Recalled(job'[e], market'.copy)
    BY <2>1, <2>2, <2>4 DEF Copied, Recalled
  <2>5. ASSUME market'.copy.by = e
        PROVE  Noted(row'[e], job'[e], market'.copy, e \in market'.unheard)
    BY <2>1, <2>2, <2>5 DEF Copied, Noted
  <2>. QED
    BY <2>3, <2>4, <2>5
<1>. QED
  BY <1>1, <1>3 DEF Copied

\* A step that leaves the market alone, and of the row what is known of it.
Quiet(d, n, j) ==
    /\ row' = [row EXCEPT ![d] = n] /\ job' = [job EXCEPT ![d] = j]
    /\ market' = market /\ budget'.devices = budget.devices /\ year' = year
    /\ row[d].publish => n.publish /\ row[d].steps \subseteq n.steps
    /\ n.elsewhere => row[d].elsewhere
    /\ row[d].accepted => n.accepted /\ n.sent = row[d].sent /\ (row[d].changed => n.changed)
    /\ n.status = "replaced" => row[d].status = "replaced"
    /\ n.exp <= Refreshed /\ j.seen.exp <= Refreshed
    /\ \A e \in Devices : prompt'[e].exp <= Refreshed
    /\ \/ j = job[d]
       \/ /\ ~JustTaken(job[d]) /\ ~JustTaken(j) /\ ~Warned(j)
          /\ market.copy.by = d => Recalled(j, market.copy)

LEMMA QuietKeeps ==
    ASSUME Inv, NEW d \in Devices, NEW n, NEW j, Quiet(d, n, j)
    PROVE  Steady
<1>1. /\ row'[d] = n /\ job'[d] = j
      /\ \A e \in Devices \ {d} : row'[e] = row[e] /\ job'[e] = job[e]
  BY DEF Inv, Typed, Quiet
<1>2. Expiries'
  BY <1>1 DEF Inv, Expiries, Quiet, Refreshed
<1>3. HoldStep
  BY <1>1 DEF HoldStep, Quiet
<1>4. WarnStep
  BY <1>1 DEF WarnStep, Quiet
<1>5. Copied'
  <2>1. market.copy.by = d => Noted(n, j, market.copy, d \in market.unheard)
    BY DEF Inv, Copied, Noted, Quiet
  <2>2. /\ market.copy.by = d => Recalled(j, market.copy)
        /\ Warned(j) => OfOthers(d, j)
    BY DEF Inv, Copied, Quiet
  <2>3. market' = market /\ row' = [row EXCEPT ![d] = n] /\ job' = [job EXCEPT ![d] = j]
    BY DEF Quiet
  <2>. QED
    BY <2>1, <2>2, <2>3, CopiedFrame DEF Inv, Copied
<1>. QED
  BY <1>2, <1>3, <1>4, <1>5 DEF Steady

LEMMA BeginSteady == ASSUME Inv, NEW d \in Devices, Begin(d) PROVE Steady
<1>1. PICK kind \in Work(row[d]) :
        job' = [job EXCEPT ![d] =
            [@ EXCEPT !.kind = kind, !.seen = row[d], !.lost = d \in market.unheard,
                      !.at = IF kind \in {"report", "announce"} THEN "send" ELSE "cut",
                      !.t = IF kind = "advance" THEN mtp ELSE 0]]
  BY DEF Begin
<1>. DEFINE r == row[d]
            a == IF kind \in {"report", "announce"} THEN "send" ELSE "cut"
            t == IF kind = "advance" THEN mtp ELSE 0
            l == d \in market.unheard
            j == [job[d] EXCEPT !.kind = kind, !.seen = r, !.lost = l, !.at = a, !.t = t]
<1>2. job[d] \in Jobs /\ job[d].at = "idle" /\ UNCHANGED <<chainVars, market, row, prompt, budget>>
  BY DEF Inv, Typed, Begin
<1>3. j.kind = kind /\ j.seen = r /\ j.at = a /\ j.lost = l
  BY <1>2 DEF Jobs
<1>4. row' = [row EXCEPT ![d] = r] /\ job' = [job EXCEPT ![d] = j]
  BY <1>1, <1>2 DEF Inv, Typed
<1>5. a \in {"cut", "send"} /\ (kind \in Uploads => a = "cut")
  BY DEF Uploads
<1>. HIDE DEF a, j
<1>6. ~JustTaken(job[d]) /\ ~JustTaken(j) /\ ~Warned(j)
  BY <1>2, <1>3, <1>5 DEF JustTaken, Warned, InFlight
<1>9. market.copy.by = d => Recalled(j, market.copy)
  BY <1>2, <1>3, <1>6 DEF Recalled, Noted, Inv, Copied
<1>7. r.exp <= Refreshed /\ \A e \in Devices : prompt'[e].exp <= Refreshed
  BY <1>2 DEF Inv, Expiries
<1>8. Quiet(d, r, j)
  BY <1>2, <1>3, <1>4, <1>6, <1>7, <1>9 DEF Quiet, chainVars
<1>. QED
  BY <1>8, QuietKeeps

LEMMA NotNowSteady == ASSUME Inv, NEW d \in Devices, NotNow(d) PROVE Steady
<1>1. /\ job[d].at = "cut" /\ row' = [row EXCEPT ![d] = row[d]] /\ job' = [job EXCEPT ![d] = Idle]
      /\ UNCHANGED <<chainVars, market, prompt>>
  BY DEF Inv, Typed, NotNow, Done
<1>2. budget'.devices = budget.devices
  BY SpendKeeps DEF NotNow, Inv
<1>3. ~JustTaken(job[d]) /\ ~JustTaken(Idle) /\ ~Warned(Idle) /\ Recalled(Idle, market.copy)
  BY <1>1 DEF JustTaken, Warned, InFlight, Idle, Recalled
<1>4. row[d].exp <= Refreshed /\ Idle.seen.exp <= Refreshed
      /\ \A e \in Devices : prompt'[e].exp <= Refreshed
  <2>1. Idle.seen.exp = 0 /\ Refreshed \in Nat
    BY DEF Idle, NoRow, Refreshed, Inv, Typed
  <2>. QED
    BY <1>1, <2>1 DEF Inv, Expiries
<1>5. Quiet(d, row[d], Idle)
  BY <1>1, <1>2, <1>3, <1>4 DEF Quiet, chainVars
<1>. QED
  BY <1>5, QuietKeeps

LEMMA IdleKnows ==
    ASSUME Inv
    PROVE  Idle.seen.exp <= Refreshed /\ 1 <= Refreshed /\ Refreshed \in Nat
           /\ ~JustTaken(Idle) /\ ~Warned(Idle) /\ \A copy : Recalled(Idle, copy)
BY DEF Idle, NoRow, Refreshed, Inv, Typed, JustTaken, Warned, InFlight, Recalled

LEMMA CutSteady == ASSUME Inv, NEW d \in Devices, Cut(d) PROVE Steady
<1>. DEFINE j == job[d]
            r == row[d]
            t == IF j.kind = "advance" THEN j.t ELSE mtp
            refresh == j.kind # "follow" /\ j.seen.state = "listed" /\ NearExpiry(j.seen.exp)
            same == r.state = "listed" /\ r.steps = j.seen.steps /\ r.exp = j.seen.exp
            moved == [Changed(r) EXCEPT !.exp = Refreshed]
            seen == IF refresh THEN moved ELSE j.seen
            new == IF refresh /\ same THEN moved ELSE r
            step == IF j.kind = "follow" THEN NoStep ELSE Current(seen.steps, t)
            next == [j EXCEPT !.at = "look", !.seen = seen, !.refreshed = refresh, !.t = 0,
                              !.step = step]
            stops == (refresh /\ ~same) \/ j.kind = "refresh"
            j1 == IF stops THEN Idle ELSE next
<1>1. /\ j.at = "cut" /\ row' = [row EXCEPT ![d] = new]
      /\ job' = [job EXCEPT ![d] = j1] /\ UNCHANGED <<chainVars, market, prompt, budget>>
  <2>1. row' = IF refresh /\ same THEN [row EXCEPT ![d] = moved] ELSE row
    BY DEF Cut
  <2>2. row = [row EXCEPT ![d] = r]
    BY DEF Inv, Typed
  <2>3. IF stops THEN Done(d) ELSE job' = [job EXCEPT ![d] = next]
    BY DEF Cut
  <2>. HIDE DEF next, stops, moved, refresh, same
  <2>. QED
    BY <2>1, <2>2, <2>3 DEF Done, Cut
<1>2. Device(r, j) /\ j \in Jobs /\ Refreshed \in Nat /\ Sound(r) /\ r \in Row
  BY DEF Inv, Rows, Typed, Refreshed, Device, Sound
<1>3. /\ moved.steps = r.steps /\ moved.publish = r.publish /\ moved.elsewhere = r.elsewhere
      /\ moved.exp = Refreshed /\ moved.accepted = r.accepted /\ moved.sent = r.sent
      /\ r.accepted => moved.changed
  <2>. HIDE DEF r
  <2>. QED
    BY <1>2, MovedKeeps
<1>4. moved.status # "replaced"
  BY <1>2 DEF Changed, Row
<1>5. /\ next.at = "look" /\ next.seen = seen /\ next.refreshed = refresh
      /\ next.kind = j.kind /\ next.lost = j.lost
  <2>. HIDE DEF seen, step, refresh
  <2>. QED
    BY <1>2 DEF Jobs
<1>6. r.exp <= Refreshed /\ j.seen.exp <= Refreshed
      /\ \A e \in Devices : prompt'[e].exp <= Refreshed
  BY <1>1 DEF Inv, Expiries
<1>. HIDE DEF moved, next
<1>7. /\ new.exp <= Refreshed /\ j1.seen.exp <= Refreshed
      /\ r.publish => new.publish /\ r.steps \subseteq new.steps
      /\ new.elsewhere => r.elsewhere
      /\ r.accepted => new.accepted /\ new.sent = r.sent /\ (r.changed => new.changed)
      /\ new.status = "replaced" => r.status = "replaced"
  BY <1>2, <1>3, <1>4, <1>5, <1>6, IdleKnows
<1>8. ~JustTaken(j) /\ ~JustTaken(j1) /\ ~Warned(j1)
  BY <1>1, <1>5, IdleKnows DEF JustTaken, Warned
<1>10. market.copy.by = d => Recalled(j1, market.copy)
  <2>1. market.copy.by = d => Recalled(j, market.copy)
    BY DEF Inv, Copied
  <2>. QED
    BY <1>1, <1>5, <2>1, IdleKnows DEF Recalled, InFlight
<1>. HIDE DEF new, j1
<1>9. Quiet(d, new, j1)
  BY <1>1, <1>6, <1>7, <1>8, <1>10 DEF Quiet, chainVars
<1>. QED
  BY <1>9, QuietKeeps

LEMMA RowSteady ==
    ASSUME Inv, NEW d \in Devices, NEW n, row' = [row EXCEPT ![d] = n],
           UNCHANGED <<chainVars, market, job>>, budget'.devices = budget.devices,
           \A e \in Devices : prompt'[e].exp <= Refreshed,
           row[d].publish => n.publish /\ row[d].steps \subseteq n.steps,
           n.elsewhere => row[d].elsewhere,
           row[d].accepted => n.accepted /\ n.sent = row[d].sent /\ (row[d].changed => n.changed),
           n.status = "replaced" => row[d].status = "replaced", n.exp <= Refreshed
    PROVE  Steady
<1>1. job' = [job EXCEPT ![d] = job[d]] /\ job[d].seen.exp <= Refreshed
  BY DEF Inv, Typed, Expiries
<1>2. Quiet(d, n, job[d])
  BY <1>1 DEF Quiet, chainVars
<1>. QED
  BY <1>2, QuietKeeps

LEMMA ImportSteady == ASSUME Inv, NEW d \in Devices, Import(d) PROVE Steady
<1>1. /\ row[d].state = "none" /\ row' = [row EXCEPT ![d] = Imported]
      /\ UNCHANGED <<chainVars, market, job, prompt, budget>>
  BY DEF Import, Write
<1>2. ~row[d].publish /\ ~row[d].accepted
  BY <1>1 DEF Inv, Rows, Device, Sound
<1>3. ~Imported.elsewhere /\ Imported.status = "none" /\ Imported.exp = 1
  <2>1. NoRow \in Row /\ ~NoRow.elsewhere /\ NoRow.status = "none"
    BY Blank DEF Sound, NoRow
  <2>. HIDE DEF NoRow
  <2>. QED
    BY <2>1 DEF Imported, Row
<1>4. Imported.exp <= Refreshed /\ \A e \in Devices : prompt'[e].exp <= Refreshed
  BY <1>1, <1>3, IdleKnows DEF Inv, Expiries
<1>. HIDE DEF Imported
<1>. QED
  BY <1>1, <1>2, <1>3, <1>4, RowSteady

LEMMA PublishSteady == ASSUME Inv, NEW d \in Devices, Publish(d) PROVE Steady
<1>. DEFINE r == row[d]
            n == [r EXCEPT !.publish = TRUE]
<1>1. /\ row' = [row EXCEPT ![d] = n] /\ UNCHANGED <<chainVars, market, job, prompt, budget>>
      /\ r \in Row
  BY DEF Publish, Write, Inv, Typed
<1>2. /\ n.state = r.state /\ n.steps = r.steps /\ n.publish = TRUE
      /\ n.accepted = r.accepted /\ n.changed = r.changed /\ n.sent = r.sent
      /\ n.elsewhere = r.elsewhere /\ n.status = r.status /\ n.exp = r.exp
  BY <1>1 DEF Row
<1>3. n.exp <= Refreshed /\ \A e \in Devices : prompt'[e].exp <= Refreshed
  BY <1>1, <1>2 DEF Inv, Expiries
<1>. HIDE DEF n
<1>. QED
  BY <1>1, <1>2, <1>3, RowSteady

LEMMA CancelSteady == ASSUME Inv, NEW d \in Devices, Cancel(d) PROVE Steady
<1>. DEFINE r == row[d]
            n == [r EXCEPT !.state = "cancelling", !.cancel = "unsent"]
<1>1. /\ r.state = "listed" /\ row' = [row EXCEPT ![d] = n]
      /\ UNCHANGED <<chainVars, market, job, prompt>> /\ r \in Row /\ Device(r, job[d])
  BY DEF Cancel, Write, Inv, Typed, Rows
<1>2. /\ n.state = "cancelling" /\ n.steps = r.steps /\ n.publish = r.publish
      /\ n.accepted = r.accepted /\ n.changed = r.changed /\ n.sent = r.sent
      /\ n.elsewhere = r.elsewhere /\ n.status = r.status /\ n.exp = r.exp
  BY <1>1 DEF Row
<1>3. n.exp <= Refreshed /\ \A e \in Devices : prompt'[e].exp <= Refreshed
  BY <1>1, <1>2 DEF Inv, Expiries
<1>5. budget'.devices = budget.devices
  BY SpendKeeps DEF Cancel, Inv
<1>. HIDE DEF n
<1>. QED
  BY <1>1, <1>2, <1>3, <1>5, RowSteady

LEMMA CancelMarkSteady ==
    ASSUME Inv, NEW d \in Devices, NEW to, CancelMark(d, to) PROVE Steady
<1>. DEFINE r == row[d]
            n == [r EXCEPT !.cancel = to]
<1>1. r \in Row /\ row' = [row EXCEPT ![d] = n] /\ UNCHANGED <<chainVars, market, job, prompt>>
      /\ budget'.devices = budget.devices
  BY DEF CancelMark, Inv, Typed
<1>2. /\ n.steps = r.steps /\ n.publish = r.publish
      /\ n.accepted = r.accepted /\ n.changed = r.changed /\ n.sent = r.sent
      /\ n.elsewhere = r.elsewhere /\ n.status = r.status /\ n.exp = r.exp
  BY <1>1 DEF Row
<1>3. n.exp <= Refreshed /\ \A e \in Devices : prompt'[e].exp <= Refreshed
  BY <1>1, <1>2 DEF Inv, Expiries
<1>. HIDE DEF n
<1>. QED
  BY <1>1, <1>2, <1>3, RowSteady

LEMMA CancelDiesSteady == ASSUME Inv, NEW d \in Devices, CancelDies(d) PROVE Steady
BY CancelDiesSplit, CancelMarkSteady DEF Inv

\* A prompt is put up with an expiry somebody has.
LEMMA PromptSteady ==
    ASSUME Inv, NEW d \in Devices, NEW p, prompt' = [prompt EXCEPT ![d] = p],
           p.exp <= Refreshed, UNCHANGED <<chainVars, market, row, job>>,
           budget'.devices = budget.devices
    PROVE  Steady
<1>1. \A e \in Devices : prompt'[e].exp <= Refreshed
  BY DEF Inv, Typed, Expiries
<1>2. row' = [row EXCEPT ![d] = row[d]] /\ row[d].exp <= Refreshed
  BY DEF Inv, Typed, Expiries
<1>. QED
  BY <1>1, <1>2, RowSteady

LEMMA LowerPriceSteady == ASSUME Inv, NEW d \in Devices, LowerPrice(d) PROVE Steady
<1>. DEFINE p == [kind |-> "lower", old |-> row[d].steps, foreign |-> NoStep, exp |-> row[d].exp,
                  new |-> row[d].steps \cup {Lowered[d]}]
<1>1. prompt' = [prompt EXCEPT ![d] = p] /\ UNCHANGED <<chainVars, market, row, job>>
  BY DEF LowerPrice
<1>2. p.exp <= Refreshed
  BY DEF Inv, Expiries
<1>3. budget'.devices = budget.devices
  BY SpendKeeps DEF LowerPrice, Inv
<1>. HIDE DEF p
<1>. QED
  BY <1>1, <1>2, <1>3, PromptSteady

LEMMA TakeOverSteady == ASSUME Inv, NEW d \in Devices, TakeOver(d) PROVE Steady
<1>1. PICK new \in SUBSET Steps, exp \in Nat :
        /\ \E e \in Devices : exp = row[e].exp
        /\ prompt' = [prompt EXCEPT ![d] =
              [kind |-> "take over", old |-> row[d].steps, foreign |-> row[d].foreign,
               exp |-> exp, new |-> new]]
  BY TakeOverSplit DEF Inv
<1>. DEFINE p == [kind |-> "take over", old |-> row[d].steps, foreign |-> row[d].foreign,
                  exp |-> exp, new |-> new]
<1>2. prompt' = [prompt EXCEPT ![d] = p] /\ UNCHANGED <<chainVars, market, row, job>>
  BY <1>1 DEF TakeOver
<1>3. p.exp <= Refreshed
  BY <1>1 DEF Inv, Expiries
<1>4. budget'.devices = budget.devices
  BY SpendKeeps DEF TakeOver, Inv
<1>. HIDE DEF p
<1>. QED
  BY <1>2, <1>3, <1>4, PromptSteady

LEMMA AnswerSteady == ASSUME Inv, NEW d \in Devices, Answer(d) PROVE Steady
<1>1. PICK n : Answers(d, n)
  BY AnswerSplit DEF Inv
<1>2. /\ prompt' = [prompt EXCEPT ![d] = NoPrompt]
      /\ UNCHANGED <<chainVars, market, job, budget>>
  BY AnswerSplit DEF Inv
<1>3. \A e \in Devices : prompt'[e].exp <= Refreshed
  BY <1>2, IdleKnows DEF Inv, Typed, Expiries, NoPrompt
<1>4. n.exp <= Refreshed
  BY <1>1 DEF Answers, Inv, Expiries
<1>6. \A e \in Devices : row[e].elsewhere => row[e].publish
  BY DEF Inv, Rows, Device, Sound
<1>. QED
  BY <1>1, <1>2, <1>3, <1>4, <1>6, RowSteady DEF Answers

\* A listing that starts over has lost track of what the market took.
LEMMA FollowsLockSteady ==
    ASSUME Inv, NEW d \in Devices, NEW n, FollowsLock(d, n),
           UNCHANGED <<chainVars, job, prompt>>, budget'.devices = budget.devices
    PROVE  Steady
<1>1. n.exp <= Refreshed /\ \A e \in Devices : prompt'[e].exp <= Refreshed
  BY DEF FollowsLock, Inv, Expiries
<1>2. CASE /\ market' = market
           /\ n.accepted = row[d].accepted /\ n.sent = row[d].sent
           /\ row[d].accepted /\ row[d].changed => n.changed
  BY <1>1, <1>2, RowSteady DEF FollowsLock
<1>3. CASE /\ market'.copy = market.copy /\ market.unheard \subseteq market'.unheard
           /\ row[d].told => d \in market'.unheard
  <2>1. /\ row'[d] = n /\ \A e \in Devices \ {d} : row'[e] = row[e]
    BY DEF Inv, Typed, FollowsLock
  <2>2. Expiries'
    BY <1>1, <1>3, <2>1 DEF Inv, Expiries, Refreshed, chainVars
  <2>3. HoldStep
    BY <1>3, <2>1 DEF HoldStep, FollowsLock
  <2>4. WarnStep
    BY <2>1 DEF WarnStep, FollowsLock
  <2>5. market.copy.by = d => Noted(n, job[d], market.copy, d \in market'.unheard)
    <3>1. row[d].accepted => d \in market'.unheard
      BY <1>3 DEF Inv, Rows, Device, Sound
    <3>. QED
      BY <1>3, <3>1 DEF Inv, Copied, Noted
  <2>6. /\ market.copy.by = d => Recalled(job[d], market.copy)
        /\ Warned(job[d]) => OfOthers(d, job[d])
    BY DEF Inv, Copied
  <2>7. row' = [row EXCEPT ![d] = n] /\ job' = [job EXCEPT ![d] = job[d]]
    BY DEF FollowsLock, Inv, Typed
  <2>8. Copied'
    BY <1>3, <2>5, <2>6, <2>7, CopiedFrame DEF Inv, Copied
  <2>. QED
    BY <2>2, <2>3, <2>4, <2>8 DEF Steady
<1>. QED
  BY <1>2, <1>3 DEF FollowsLock

LEMMA FollowLockSteady == ASSUME Inv, NEW d \in Devices, FollowLock(d) PROVE Steady
<1>1. PICK n : FollowsLock(d, n)
  BY FollowLockSplit DEF Inv
<1>2. UNCHANGED <<chainVars, job, prompt, budget>>
  BY FollowLockSplit DEF Inv
<1>. QED
  BY <1>1, <1>2, FollowsLockSteady

LEMMA SendOrDropCancelSteady ==
    ASSUME Inv, NEW d \in Devices, SendOrDropCancel(d) PROVE Steady
BY SendOrDropCancelSplit, CancelMarkSteady, FollowsLockSteady DEF Inv

LEMMA YearOn ==
    ASSUME NEW y \in Nat, NEW z \in Nat, z >= y
    PROVE  y + 1 \in Nat /\ z + 1 \in Nat /\ z + 1 >= y + 1 /\ 1 <= y + 1
OBVIOUS

LEMMA ElsewhereSteady == ASSUME Inv, Elsewhere PROVE Steady
<1>1. UNCHANGED <<row, job, prompt>> /\ budget'.devices = budget.devices
      /\ market'.unheard = market.unheard /\ year' >= year /\ year' \in Nat
  BY ElsewhereSplit DEF Inv
<1>2. \/ market'.copy = market.copy
      \/ /\ market'.copy.step = market.copy.step /\ market'.copy.by = market.copy.by
         /\ market'.copy.exp = Refreshed /\ year' = year
      \/ /\ market'.copy.by = Others /\ year' = year
         /\ market'.copy.exp \in {1, market.copy.exp}
         /\ market'.copy.step \in
              Schedule \cup {NoStep} \cup {Lowered[d] : d \in Devices \ budget.devices}
  BY ElsewhereSplit DEF Inv
<1>3. Expiries'
  <2>1. Refreshed \in Nat /\ Refreshed' \in Nat /\ Refreshed' >= Refreshed /\ 1 <= Refreshed
        /\ (year' = year => Refreshed' = Refreshed)
    <3>1. year \in Nat /\ year' \in Nat /\ year' >= year
      BY <1>1 DEF Inv, Typed
    <3>2. /\ year + 1 \in Nat /\ year' + 1 \in Nat
          /\ year' + 1 >= year + 1 /\ 1 <= year + 1
      BY <3>1, YearOn
    <3>. QED
      BY <3>2 DEF Refreshed
  <2>2. /\ market.copy.exp \in Nat
        /\ \A e \in Devices : row[e].exp \in Nat /\ job[e].seen.exp \in Nat /\ prompt[e].exp \in Nat
    BY DEF Inv, Typed, Markets, Copies, Row, Jobs, Prompts
  <2>3. market'.copy.exp <= Refreshed'
    BY <1>2, <2>1, <2>2 DEF Inv, Expiries
  <2>4. ASSUME NEW e \in Devices
        PROVE  /\ row'[e].exp <= Refreshed' /\ job'[e].seen.exp <= Refreshed'
               /\ prompt'[e].exp <= Refreshed'
    <3>1. row'[e] = row[e] /\ job'[e] = job[e] /\ prompt'[e] = prompt[e]
      BY <1>1
    <3>. QED
      BY <3>1, <2>1, <2>2 DEF Inv, Expiries
  <2>. QED
    BY <2>3, <2>4 DEF Expiries
<1>4. HoldStep
  <2>1. \/ market'.copy.step = market.copy.step
        \/ market'.copy.step \in Schedule \cup {NoStep} \/ budget.devices # Devices
    BY <1>2
  <2>. QED
    BY <1>1, <2>1 DEF HoldStep
<1>5. WarnStep
  BY <1>1 DEF WarnStep
<1>6. Copied'
  <2>1. Others \notin Devices
    BY DevicesAssumption DEF Others
  <2>2. market'.copy.by \in Devices =>
          market'.copy.by = market.copy.by /\ market'.copy.step = market.copy.step
    BY <1>2, <2>1
  <2>. QED
    BY <1>1, <2>2 DEF Inv, Copied, Noted, Recalled
<1>. QED
  BY <1>3, <1>4, <1>5, <1>6 DEF Steady

LEMMA HourSteady == ASSUME Inv, Hour PROVE Steady
<1>1. UNCHANGED <<chainVars, market, job, prompt, budget>>
  BY HourSplit DEF Inv
<1>2. \A d \in Devices :
        /\ row'[d].state = row[d].state /\ row'[d].steps = row[d].steps
        /\ row'[d].exp = row[d].exp /\ row'[d].publish = row[d].publish
        /\ row'[d].elsewhere = row[d].elsewhere /\ row'[d].status = row[d].status
        /\ row'[d].accepted = row[d].accepted /\ row'[d].changed = row[d].changed
        /\ row'[d].sent = row[d].sent
  BY HourSplit DEF Inv
<1>3. Expiries'
  BY <1>1, <1>2 DEF Inv, Expiries, Refreshed, chainVars
<1>4. HoldStep
  BY <1>1, <1>2 DEF HoldStep
<1>5. WarnStep
  BY <1>2 DEF WarnStep
<1>6. Copied'
  BY <1>1, <1>2 DEF Inv, Copied, Noted
<1>. QED
  BY <1>3, <1>4, <1>5, <1>6 DEF Steady

\* What a job writes over the row it read, when the row is still that one.
LEMMA RecordedIs ==
    ASSUME NEW r, Sound(r), NEW seen, NEW res \in Results
    PROVE  /\ ~Same(r, seen) => Recorded(r, seen, res) = r
           /\ Same(r, seen) =>
                /\ Recorded(r, seen, res).status = res.status
                /\ Recorded(r, seen, res).accepted <=> r.accepted \/ res.accepted
                /\ Recorded(r, seen, res).changed <=>
                     /\ ~res.accepted
                     /\ \/ r.changed
                        \/ r.accepted /\ r.sent # NoStep /\ res.sent \notin {NoStep, r.sent}
                /\ Recorded(r, seen, res).sent = IF res.sent = NoStep THEN r.sent ELSE res.sent
           /\ Recorded(r, seen, res).publish = r.publish
           /\ Recorded(r, seen, res).steps = r.steps /\ Recorded(r, seen, res).exp = r.exp
           /\ Recorded(r, seen, res).elsewhere = r.elsewhere
<1>. DEFINE w == Recorded(r, seen, res)
            c == ~res.accepted /\ (r.changed \/ (r.accepted /\ r.sent # NoStep
                                      /\ res.sent \notin {NoStep, r.sent}))
            a == r.accepted \/ res.accepted
            o == r.told \/ res.told
            s == IF res.sent = NoStep THEN r.sent ELSE res.sent
<1>1. CASE ~Same(r, seen)
  BY <1>1 DEF Recorded
<1>2. CASE Same(r, seen)
  <2>1. w = [r EXCEPT !.status = res.status, !.due = res.due, !.accepted = a,
                      !.changed = c, !.told = o, !.sent = s]
    BY <1>2 DEF Recorded, Sound, Row
  <2>2. r \in Row
    BY DEF Sound
  <2>. HIDE DEF w, a, c, o, s
  <2>3. /\ w.status = res.status /\ w.accepted = a /\ w.changed = c /\ w.sent = s
        /\ w.publish = r.publish /\ w.steps = r.steps /\ w.exp = r.exp
        /\ w.elsewhere = r.elsewhere
    BY <2>1, <2>2 DEF Row
  <2>4. (w.accepted <=> a) /\ (w.changed <=> c)
    BY <2>3
  <2>. QED
    BY <1>2, <2>3, <2>4 DEF w, a, c, s
<1>. QED
  BY <1>1, <1>2

\* A job ends by what it writes.
LEMMA EndSteady ==
    ASSUME Inv, NEW d \in Devices, NEW w, row' = [row EXCEPT ![d] = w], Done(d),
           market'.copy = market.copy,
           \A e \in Devices \ {d} : e \in market.unheard => e \in market'.unheard,
           UNCHANGED <<chainVars, prompt>>, budget'.devices = budget.devices,
           row[d].publish => w.publish, w.steps = row[d].steps, w.exp = row[d].exp,
           w.elsewhere => \/ row[d].elsewhere
                          \/ row[d].publish /\ market.copy.step \in Steps \ row[d].steps,
           w.status = "replaced" /\ row[d].status # "replaced" =>
              Warned(job[d]) \/ job[d].seen.status = "replaced",
           market.copy.by = d =>
              d \in market'.unheard \/ (w.accepted /\ (w.changed \/ w.sent = market.copy.step))
    PROVE  Steady
<1>1. /\ row'[d] = w /\ job'[d] = Idle
      /\ \A e \in Devices \ {d} : row'[e] = row[e] /\ job'[e] = job[e]
  BY DEF Inv, Typed, Done
<1>2. Expiries'
  BY <1>1, IdleKnows DEF Inv, Expiries, Refreshed, chainVars
<1>3. HoldStep
  BY <1>1 DEF HoldStep
<1>4. WarnStep
  <2>1. ASSUME NEW e \in Devices, row'[e].status = "replaced", row[e].status # "replaced"
        PROVE  e = d /\ (Warned(job[d]) \/ job[d].seen.status = "replaced")
    BY <1>1, <2>1
  <2>. QED
    BY <2>1 DEF WarnStep, Inv, Copied, OfOthers
<1>5. Copied'
  <2>1. job' = [job EXCEPT ![d] = Idle]
    BY DEF Done
  <2>2. market'.copy.by = d => Noted(w, Idle, market'.copy, d \in market'.unheard)
    BY IdleKnows DEF Noted
  <2>3. ~Warned(Idle) /\ Recalled(Idle, market'.copy)
    BY IdleKnows
  <2>. QED
    BY <2>1, <2>2, <2>3, CopiedFrame DEF Inv, Copied
<1>. QED
  BY <1>2, <1>3, <1>4, <1>5 DEF Steady

\* An answer without a step leaves what is known of the market's copy.
LEMMA ToldSteady ==
    ASSUME Inv, NEW d \in Devices, job[d].at # "idle", ~JustTaken(job[d]),
           NEW res \in Results, ~res.accepted, res.sent = NoStep, res.status # "replaced",
           row' = [row EXCEPT ![d] = Recorded(row[d], job[d].seen, res)], Done(d),
           market' = market, UNCHANGED <<chainVars, prompt>>, budget'.devices = budget.devices
    PROVE  Steady
<1>. DEFINE r == row[d]
            w == Recorded(r, job[d].seen, res)
<1>1. Sound(r)
  BY DEF Inv, Rows, Device
<1>2. /\ w.publish = r.publish /\ w.steps = r.steps /\ w.exp = r.exp /\ w.elsewhere = r.elsewhere
      /\ w.status = "replaced" => r.status = "replaced"
      /\ r.accepted => w.accepted /\ w.sent = r.sent /\ (r.changed => w.changed)
  BY <1>1, RecordedIs
<1>3. market.copy.by = d =>
        d \in market.unheard \/ (w.accepted /\ (w.changed \/ w.sent = market.copy.step))
  <2>. HIDE DEF w
  <2>. QED
    BY <1>2 DEF Inv, Copied, Noted
<1>. HIDE DEF w
<1>4. row' = [row EXCEPT ![d] = w]
  BY DEF w
<1>. QED
  BY <1>2, <1>3, <1>4, EndSteady

\* A job on its way has a step of its listing.
LEMMA JobStep ==
    ASSUME Inv, NEW d \in Devices, InFlight(job[d]), job[d].at # "cut"
    PROVE  /\ job[d].step \in SomeStep /\ job[d].step # NoStep /\ job[d].step \in job[d].seen.steps
           /\ \E t \in 0..1 : job[d].step = Current(job[d].seen.steps, t)
           /\ row[d].publish /\ ~row[d].elsewhere /\ job[d].step \in row[d].steps
<1>. DEFINE j == job[d]
<1>1. Device(row[d], j)
  BY DEF Inv, Rows
<1>2. /\ \E t \in 0..1 : j.step = Current(j.seen.steps, t)
      /\ Sound(j.seen) /\ j.seen.publish /\ j.seen.steps \subseteq row[d].steps
      /\ row[d].publish /\ ~row[d].elsewhere
  BY <1>1 DEF Device, InFlight
<1>3. j.seen.steps \in SUBSET Steps /\ Schedule \subseteq j.seen.steps
  BY <1>2 DEF Sound, Row
<1>. QED
  BY <1>2, <1>3, CurrentIn DEF SomeStep

LEMMA LookSteady == ASSUME Inv, NEW d \in Devices, Look(d) PROVE Steady
<1>. DEFINE j == job[d]
            r == row[d]
<1>1. /\ Device(r, j) /\ j \in Jobs /\ j.at = "look" /\ Sound(r) /\ Sound(j.seen) /\ r.publish
      /\ UNCHANGED <<chainVars, market, prompt>> /\ budget'.devices = budget.devices
  BY LookSplit DEF Inv, Rows, Typed, Device
<1>2. /\ ~JustTaken(j)
      /\ market.copy.by = d =>
           d \in market.unheard \/ (r.accepted /\ (r.changed \/ r.sent = market.copy.step))
  BY <1>1 DEF JustTaken, Inv, Copied, Noted
<1>3. CASE Marks(d)
  <2>1. PICK step \in SomeStep :
          /\ row' = [row EXCEPT ![d] = Marked(r, j.seen, step)] /\ Done(d)
          /\ step # NoStep => step = market.copy.step /\ step \in Steps \ j.seen.steps
    BY <1>3 DEF Marks
  <2>. DEFINE w == Marked(r, j.seen, step)
  <2>2. /\ w.steps = r.steps /\ w.exp = r.exp /\ w.publish
        /\ w.accepted = r.accepted /\ w.sent = r.sent /\ w.changed = r.changed
        /\ w.status = r.status
    BY <1>1, MarkedKeeps
  <2>3. w.elsewhere => r.elsewhere \/ market.copy.step \in Steps \ r.steps
    BY <1>1, <2>1 DEF Marked
  <2>. HIDE DEF w
  <2>4. row' = [row EXCEPT ![d] = w]
    BY <2>1 DEF w
  <2>. QED
    BY <1>1, <1>2, <2>1, <2>2, <2>3, <2>4, EndSteady
<1>4. CASE ChecksOurs(d)
  <2>. DEFINE res == Uploaded("taken", KeptLabel(j.seen), j.step)
              w == Recorded(r, j.seen, res)
  <2>1. InFlight(j) /\ SameOffer(market.copy, j.step, j.seen) /\ Done(d)
        /\ row' = [row EXCEPT ![d] = w]
    BY <1>1, <1>4 DEF ChecksOurs, InFlight
  <2>2. j.step \in SomeStep /\ j.step # NoStep /\ KeptLabel(j.seen) \in {"listed", "replaced"}
    BY <1>1, <2>1, JobStep DEF KeptLabel
  <2>3. res \in Results /\ res.status = KeptLabel(j.seen)
    BY <2>2, UploadReply
  <2>4. res.accepted
    BY <2>2, UploadReply
  <2>5. res.sent = j.step
    BY DEF Uploaded, AfterReply
  <2>. HIDE DEF res
  <2>6. /\ w.publish = r.publish /\ w.steps = r.steps /\ w.exp = r.exp
        /\ w.elsewhere = r.elsewhere
        /\ Same(r, j.seen) => w.status = res.status /\ w.accepted /\ w.sent = j.step
        /\ ~Same(r, j.seen) => w = r
    <3>. DEFINE seen == j.seen
    <3>. HIDE DEF r, seen
    <3>1. Sound(r)
      BY <1>1
    <3>. QED
      BY <3>1, <2>2, <2>3, <2>4, <2>5, RecordedIs DEF seen
  <2>7. w.status = "replaced" /\ r.status # "replaced" => j.seen.status = "replaced"
    BY <2>3, <2>6 DEF KeptLabel
  <2>8. j.step = market.copy.step
    BY <2>1 DEF SameOffer
  <2>. HIDE DEF w
  <2>9. market.copy.by = d =>
          d \in market.unheard \/ (w.accepted /\ (w.changed \/ w.sent = market.copy.step))
    BY <1>2, <2>6, <2>8
  <2>. QED
    BY <1>1, <2>1, <2>6, <2>7, <2>9, EndSteady
<1>5. CASE ChecksNothing(d)
  <2>5. PICK reply, ok : reply = "lost" /\ ok = "listed"
    OBVIOUS
  <2>. DEFINE res == Uploaded(reply, ok, NoStep)
  <2>1. Done(d) /\ row' = [row EXCEPT ![d] = Recorded(r, j.seen, res)]
    BY <1>5, <2>5 DEF ChecksNothing
  <2>6. NoStep \in SomeStep
    BY DEF SomeStep
  <2>7. ok \in {"none", "listed", "replaced"} /\ reply # "taken" /\ reply # "refused"
    BY <2>5
  <2>2. res \in Results
    BY <2>6, <2>7, UploadTyped
  <2>8. res.status # "replaced"
    BY <2>6, <2>7, UploadStatus
  <2>3. ~res.accepted
    BY <2>6, <2>7, UploadReply
  <2>4. res.sent = NoStep
    BY DEF Uploaded, AfterReply
  <2>. HIDE DEF res
  <2>. QED
    BY <1>1, <1>2, <2>1, <2>2, <2>3, <2>4, <2>8, ToldSteady
<1>6. CASE Sends(d)
  <2>1. PICK label \in {"listed", "replaced"}, copy \in {market.copy, NoCopy} :
          /\ job' = [job EXCEPT ![d] = [j EXCEPT !.at = "send", !.ok = label, !.copy = copy,
                                              !.refreshed = FALSE]]
          /\ label = "replaced" /\ j.seen.status # "replaced" =>
               /\ copy = market.copy /\ label = Label(copy, j.seen) /\ ~j.refreshed
               /\ ~SameOffer(copy, j.step, j.seen)
    BY <1>6 DEF Sends
  <2>. DEFINE j1 == [j EXCEPT !.at = "send", !.ok = label, !.copy = copy, !.refreshed = FALSE]
  <2>2. /\ j1.at = "send" /\ j1.kind = j.kind /\ j1.seen = j.seen /\ j1.step = j.step
        /\ j1.ok = label /\ j1.copy = copy /\ j1.lost = j.lost
    BY <1>1 DEF Jobs
  <2>3. InFlight(j) /\ row' = row
    BY <1>1, <1>6 DEF Sends, InFlight
  <2>. HIDE DEF j1
  <2>4. job' = [job EXCEPT ![d] = j1] /\ row' = [row EXCEPT ![d] = r]
    BY <2>1, <2>3 DEF j1, Inv, Typed
  <2>5. /\ row'[d] = r /\ job'[d] = j1
        /\ \A e \in Devices \ {d} : row'[e] = row[e] /\ job'[e] = job[e]
    BY <2>4 DEF Inv, Typed
  <2>6. Expiries'
    BY <1>1, <2>2, <2>5 DEF Inv, Expiries, Refreshed, chainVars
  <2>7. HoldStep
    BY <1>1, <2>3 DEF HoldStep
  <2>8. WarnStep
    BY <2>3 DEF WarnStep
  <2>9. ASSUME Warned(j1) PROVE OfOthers(d, j1)
    <3>1. SUFFICES ASSUME copy.by = d, ~j.lost
                   PROVE  copy.exp # j.seen.exp /\ j.step \in Schedule
      BY <2>2 DEF OfOthers
    <3>2. /\ copy = market.copy /\ Label(copy, j.seen) = "replaced" /\ ~j.refreshed
          /\ ~SameOffer(copy, j.step, j.seen)
      BY <2>1, <2>2, <2>9 DEF Warned
    <3>3. ~j.seen.changed /\ ~OurSentStep(copy, j.seen)
      BY <3>2 DEF Label
    <3>4. j.seen.accepted /\ j.seen.sent = copy.step /\ copy.step # NoStep
      BY <1>1, <2>3, <3>1, <3>2, <3>3 DEF Recalled, Inv, Copied
    <3>5. copy.exp # j.seen.exp
      BY <1>1, <3>3, <3>4 DEF OurSentStep, Sound
    <3>6. copy.step # j.step
      <4>1. copy.exp \in Nat /\ j.seen.exp \in Nat /\ copy.exp <= Refreshed
        BY <1>1, <3>2 DEF Inv, Typed, Markets, Copies, Jobs, Row, Expiries
      <4>. QED
        BY <3>2, <4>1 DEF SameOffer
    <3>7. \E t \in 0..1 : j.step = Current(j.seen.steps, t)
      BY <1>1, <2>3, JobStep
    <3>8. j.seen.steps \subseteq Schedule
      BY <1>1, <3>3, <3>4, <3>6, <3>7 DEF Sound
    <3>9. j.step \in j.seen.steps
      BY <1>1, <2>3, JobStep
    <3>. QED
      BY <3>5, <3>8, <3>9
  <2>10. Copied'
    <3>1. ~JustTaken(j1) /\ Recalled(j1, market.copy)
      BY <2>2 DEF JustTaken, Recalled
    <3>2. market.copy.by = d => Noted(r, j1, market.copy, d \in market.unheard)
      BY <1>2, <3>1 DEF Noted
    <3>. QED
      BY <1>1, <2>4, <2>9, <3>1, <3>2, CopiedFrame DEF Inv, Copied
  <2>. QED
    BY <2>6, <2>7, <2>8, <2>10 DEF Steady
<1>. QED
  BY <1>3, <1>4, <1>5, <1>6, LookSplit DEF Inv

LEMMA SendSteady == ASSUME Inv, NEW d \in Devices, Send(d) PROVE Steady
<1>. DEFINE j == job[d]
            r == row[d]
            next(reply) == [j EXCEPT !.at = "answer", !.reply = reply]
            copy == Takes(j, d).copy
<1>1. /\ j.at = "send" /\ j.kind \in Uploads \cup {"report", "announce"} /\ j \in Jobs
      /\ UNCHANGED <<chainVars, row, prompt>> /\ budget'.devices = budget.devices
  BY SendSplit DEF Inv, Typed
<1>2. PICK reply :
        /\ job' = [job EXCEPT ![d] = next(reply)]
        /\ \/ reply = "taken" /\ market' = Takes(j, d)
           \/ /\ reply # "taken" /\ market'.unheard = market.unheard \cup {d}
              /\ market'.copy = Takes(j, d).copy
           \/ reply # "taken" /\ market'.unheard = market.unheard /\ market'.copy = market.copy
  BY SendSplit, Zenon DEF Inv
<1>. DEFINE j1 == next(reply)
<1>3. /\ j1.at = "answer" /\ j1.kind = j.kind /\ j1.seen = j.seen /\ j1.step = j.step
      /\ j1.ok = j.ok /\ j1.copy = j.copy /\ j1.lost = j.lost /\ j1.reply = reply
  BY <1>1 DEF Jobs
<1>. HIDE DEF next
<1>4. row' = [row EXCEPT ![d] = r] /\ job' = [job EXCEPT ![d] = j1] /\ row' = row
  BY <1>1, <1>2 DEF Inv, Typed
<1>5. /\ job'[d] = j1 /\ \A e \in Devices \ {d} : job'[e] = job[e]
  BY <1>4 DEF Inv, Typed
<1>6. InFlight(j) <=> j.kind \in Uploads
  BY <1>1 DEF InFlight
<1>7. /\ j.kind \in Uploads => /\ copy.step = j.step /\ copy.by = d
                               /\ copy.exp \in {j.seen.exp, market.copy.exp}
      /\ j.kind = "report" => copy = NoCopy
      /\ j.kind = "announce" => copy = market.copy
      /\ Takes(j, d).unheard = market.unheard
  <2>1. /\ Takes(j, d).unheard = market.unheard
        /\ j.kind \in Uploads =>
             copy = [step |-> j.step, by |-> d,
                     exp |-> IF market.copy = NoCopy THEN j.seen.exp ELSE market.copy.exp]
        /\ j.kind = "report" => copy = NoCopy
        /\ j.kind = "announce" => copy = market.copy
    BY <1>1, TakesCopy DEF Inv
  <2>2. PICK exp \in {j.seen.exp, market.copy.exp} :
          exp = IF market.copy = NoCopy THEN j.seen.exp ELSE market.copy.exp
    OBVIOUS
  <2>. HIDE DEF copy
  <2>3. j.kind \in Uploads => copy = [step |-> j.step, by |-> d, exp |-> exp]
    BY <2>1, <2>2
  <2>4. j.kind \in Uploads => copy.step = j.step /\ copy.by = d /\ copy.exp = exp
    BY <2>3
  <2>. QED
    BY <2>1, <2>2, <2>4
<1>8. NoCopy.step = NoStep /\ NoCopy.exp = 0 /\ NoCopy.by = "nobody"
  BY DEF NoCopy
<1>. HIDE DEF copy, j1
<1>9. market'.copy \in {copy, market.copy} /\ market.unheard \subseteq market'.unheard
  BY <1>2, <1>7 DEF copy
<1>10. Expiries'
  <2>1. /\ market.copy.exp <= Refreshed
        /\ \A e \in Devices :
             row[e].exp <= Refreshed /\ job[e].seen.exp <= Refreshed /\ prompt[e].exp <= Refreshed
    BY DEF Inv, Expiries
  <2>2. 0 <= Refreshed /\ Refreshed' = Refreshed
    <3>1. Refreshed' = Refreshed
      BY <1>1 DEF Refreshed, chainVars
    <3>2. Refreshed \in Nat
      BY IdleKnows
    <3>. QED
      BY <3>1, <3>2
  <2>3. market'.copy.exp <= Refreshed
    BY <1>1, <1>7, <1>8, <1>9, <2>1, <2>2
  <2>4. \A e \in Devices : job'[e].seen = job[e].seen
    BY <1>3, <1>5
  <2>. QED
    BY <1>1, <1>4, <2>1, <2>2, <2>3, <2>4 DEF Expiries
<1>11. HoldStep
  <2>1. \/ market'.copy.step = market.copy.step
        \/ market'.copy.step \in Schedule \cup {NoStep}
        \/ row[d].publish /\ ~row[d].elsewhere /\ market'.copy.step \in row[d].steps
    <3>1. CASE j.kind \in Uploads
      BY <1>1, <1>6, <1>7, <1>9, <3>1, JobStep
    <3>2. CASE j.kind \in {"report", "announce"}
      BY <1>7, <1>8, <1>9, <3>2
    <3>. QED
      BY <1>1, <3>1, <3>2
  <2>. QED
    BY <1>1, <1>4, <2>1 DEF HoldStep
<1>12. WarnStep
  BY <1>4 DEF WarnStep
<1>13. Copied'
  <2>1. /\ market'.copy.by \in Devices => market'.copy.step # NoStep
        /\ \/ market'.copy.step = market.copy.step /\ market'.copy.by = market.copy.by
           \/ market'.copy.by \in {d, "nobody", "other"}
    <3>1. CASE j.kind \in Uploads
      BY <1>1, <1>6, <1>7, <1>9, <3>1, JobStep DEF Inv, Copied
    <3>2. CASE j.kind \in {"report", "announce"}
      BY <1>7, <1>8, <1>9, <3>2, DevicesAssumption DEF Inv, Copied
    <3>. QED
      BY <1>1, <3>1, <3>2
  <2>2. ASSUME market'.copy.by = d PROVE Noted(r, j1, market'.copy, d \in market'.unheard)
    <3>1. ~JustTaken(j)
      BY <1>1 DEF JustTaken
    <3>2. market'.copy = market.copy =>
            d \in market'.unheard \/ (r.accepted /\ (r.changed \/ r.sent = market.copy.step))
      BY <1>9, <2>2, <3>1 DEF Inv, Copied, Noted
    <3>3. CASE reply = "taken" /\ j.kind \in Uploads
      <4>1. j1.step = market'.copy.step /\ JustTaken(j1)
        BY <1>2, <1>3, <1>7, <3>3 DEF JustTaken, InFlight, copy
      <4>. QED
        BY <4>1 DEF Noted
    <3>4. CASE ~(reply = "taken" /\ j.kind \in Uploads)
      <4>1. ~JustTaken(j1)
        BY <1>3, <3>4 DEF JustTaken, InFlight
      <4>2. market'.copy = market.copy \/ d \in market'.unheard
        <5>1. CASE reply = "taken"
          <6>1. market'.copy = copy /\ j.kind \in {"report", "announce"}
            BY <1>1, <1>2, <3>4, <5>1 DEF copy
          <6>. QED
            BY <1>7, <1>8, <2>2, <6>1, DevicesAssumption
        <5>2. CASE reply # "taken"
          BY <1>2, <2>2, <5>2
        <5>. QED
          BY <5>1, <5>2
      <4>. QED
        BY <3>2, <4>1, <4>2 DEF Noted
    <3>. QED
      BY <3>3, <3>4
  <2>3. ASSUME Warned(j1) PROVE OfOthers(d, j1)
    <3>1. Warned(j)
      BY <1>1, <1>3, <2>3 DEF Warned, InFlight
    <3>. QED
      BY <1>3, <3>1 DEF Inv, Copied, OfOthers
  <2>4. Recalled(j1, market'.copy)
    BY <1>3 DEF Recalled
  <2>. QED
    BY <1>4, <1>9, <2>1, <2>2, <2>3, <2>4, CopiedFrame DEF Inv
<1>. QED
  BY <1>10, <1>11, <1>12, <1>13 DEF Steady

LEMMA RecordSteady == ASSUME Inv, NEW d \in Devices, Record(d) PROVE Steady
<1>. DEFINE j == job[d]
            r == row[d]
<1>1. /\ j.at = "answer" /\ Done(d) /\ UNCHANGED <<chainVars, prompt, budget>>
      /\ Device(r, j) /\ j \in Jobs /\ Sound(r)
  BY RecordSplit DEF Inv, Typed, Rows, Device
<1>3. CASE RecordsUpload(d)
  <2>. DEFINE res == Uploaded(j.reply, j.ok, j.step)
              w == Recorded(r, j.seen, res)
  <2>1. /\ InFlight(j) /\ row' = [row EXCEPT ![d] = w]
        /\ market'.copy = market.copy
        /\ \A e \in Devices \ {d} : e \in market.unheard => e \in market'.unheard
        /\ IF j.reply = "taken" THEN ~Same(r, j.seen) => d \in market'.unheard
           ELSE market' = market
    BY <1>1, <1>3 DEF RecordsUpload, InFlight
  <2>2. j.step \in SomeStep /\ j.step # NoStep /\ j.ok \in {"none", "listed", "replaced"}
    BY <1>1, <2>1, JobStep DEF Jobs
  <2>3. res \in Results
    BY <2>2, UploadTyped
  <2>9. res.status = "replaced" => j.reply = "taken" /\ j.ok = "replaced"
    BY <2>2, UploadStatus
  <2>4. res.accepted <=> j.reply = "taken"
    BY <2>2, UploadAccepted
  <2>5. res.sent = j.step
    BY DEF Uploaded, AfterReply
  <2>. HIDE DEF res
  <2>6. /\ w.publish = r.publish /\ w.steps = r.steps /\ w.exp = r.exp
        /\ w.elsewhere = r.elsewhere
        /\ ~Same(r, j.seen) => w = r
        /\ Same(r, j.seen) =>
             /\ w.status = res.status /\ w.sent = j.step
             /\ w.accepted <=> r.accepted \/ res.accepted
             /\ w.changed <=> /\ ~res.accepted
                              /\ r.changed \/ (r.accepted /\ r.sent # NoStep /\ j.step # r.sent)
    <3>. DEFINE seen == j.seen
    <3>. HIDE DEF r, seen
    <3>1. Sound(r)
      BY <1>1
    <3>2. /\ w.publish = r.publish /\ w.steps = r.steps /\ w.exp = r.exp
          /\ w.elsewhere = r.elsewhere
          /\ ~Same(r, seen) => w = r
      BY <2>3, <3>1, RecordedIs DEF seen
    <3>3. ASSUME Same(r, seen)
          PROVE  /\ w.status = res.status /\ w.sent = j.step
                 /\ w.accepted <=> r.accepted \/ res.accepted
                 /\ w.changed <=> /\ ~res.accepted
                                  /\ r.changed \/ (r.accepted /\ r.sent # NoStep /\ j.step # r.sent)
      BY <2>2, <2>3, <2>5, <3>1, <3>3, RecordedIs DEF seen
    <3>. QED
      BY <3>2, <3>3 DEF seen
  <2>. HIDE DEF w
  <2>7. ASSUME w.status = "replaced", r.status # "replaced"
        PROVE  Warned(j) \/ j.seen.status = "replaced"
    <3>1. j.ok = "replaced"
      BY <2>6, <2>7, <2>9
    <3>. QED
      BY <1>1, <2>1, <3>1 DEF Warned
  <2>8. ASSUME market.copy.by = d, d \notin market'.unheard
        PROVE  w.accepted /\ (w.changed \/ w.sent = market.copy.step)
    <3>1. Noted(r, j, market.copy, d \in market.unheard) /\ market.copy.step # NoStep
      BY <2>8 DEF Inv, Copied
    <3>2. CASE j.reply = "taken"
      BY <1>1, <2>1, <2>4, <2>6, <2>8, <3>1, <3>2 DEF Noted, JustTaken
    <3>3. CASE j.reply # "taken"
      <4>1. r.accepted /\ (r.changed \/ r.sent = market.copy.step)
        BY <2>1, <2>8, <3>1, <3>3 DEF Noted, JustTaken
      <4>. QED
        BY <2>4, <2>6, <3>1, <3>3, <4>1
    <3>. QED
      BY <3>2, <3>3
  <2>. QED
    BY <1>1, <2>1, <2>6, <2>7, <2>8, EndSteady
<1>4. CASE RecordsTold(d)
  <2>1. PICK res \in Results :
          /\ ~res.accepted /\ res.sent = NoStep /\ res.status # "replaced"
          /\ row' = [row EXCEPT ![d] = Recorded(r, j.seen, res)]
    BY <1>4 DEF RecordsTold
  <2>2. ~JustTaken(j) /\ market' = market
    BY <1>4 DEF RecordsTold, JustTaken, InFlight
  <2>. QED
    BY <1>1, <2>1, <2>2, ToldSteady
<1>. QED
  BY <1>3, <1>4, RecordSplit DEF Inv

-----------------------------------------------------------------------------
(* The invariant, from the start and over every step.                      *)

LEMMA InitInv == ASSUME Init PROVE Inv
<1>. DEFINE start == [copy |-> NoCopy, pending |-> FALSE, said |-> {}, unheard |-> {}]
<1>1. PICK p \in BOOLEAN : row = [d \in Devices |-> IF d = Seller THEN Signed(p) ELSE NoRow]
  BY DEF Init
<1>2. /\ lockCoin = "none" /\ mtp = 0 /\ year = 0 /\ market = start
      /\ job = [d \in Devices |-> Idle] /\ prompt = [d \in Devices |-> NoPrompt]
      /\ budget \in Worlds
  BY DEF Init
<1>3. start \in Markets /\ start.copy = NoCopy
  BY Blank DEF Markets
<1>4. /\ \A d \in Devices : row[d] \in {Signed(p), NoRow} /\ job[d] = Idle /\ prompt[d] = NoPrompt
      /\ \A d \in Devices : Sound(row[d])
  BY <1>1, <1>2, Blank
<1>5. \A d \in Devices : row[d] \in Row
  BY <1>4 DEF Sound
<1>6. Typed
  <2>1. row \in [Devices -> Row] /\ job \in [Devices -> Jobs] /\ prompt \in [Devices -> Prompts]
    BY <1>1, <1>2, <1>5, Blank
  <2>2. budget \in Budgets
    BY <1>2, MarketAssumption DEF Budgets
  <2>. QED
    BY <1>2, <1>3, <2>1, <2>2 DEF Typed
<1>7. Rows
  <2>1. Asked(NoPrompt)
    BY DEF Asked, NoPrompt
  <2>. QED
    BY <1>4, <2>1, AtRest DEF Rows
<1>8. /\ NoRow.exp = 0 /\ ~NoRow.elsewhere /\ ~NoRow.publish
      /\ Signed(p).exp = 1 /\ ~Signed(p).elsewhere
  <2>1. NoRow.exp = 0 /\ ~NoRow.elsewhere /\ ~NoRow.publish /\ NoRow \in Row
    BY Blank DEF NoRow, Sound
  <2>. HIDE DEF NoRow
  <2>2. Imported.exp = 1 /\ ~Imported.elsewhere /\ Imported \in Row
    BY <2>1, Blank DEF Imported, Row, Sound
  <2>. HIDE DEF Imported
  <2>. QED
    BY <2>1, <2>2 DEF Signed, Row
<1>9. /\ NoCopy.exp = 0 /\ NoCopy.step = NoStep /\ NoCopy.by = "nobody"
      /\ Idle.seen = NoRow /\ NoPrompt.exp = 0 /\ Idle.at = "idle"
  BY DEF NoCopy, Idle, NoPrompt
<1>10. Expiries
  <2>1. Refreshed = 1
    BY <1>2 DEF Refreshed
  <2>. HIDE DEF Refreshed
  <2>. QED
    BY <1>2, <1>3, <1>4, <1>8, <1>9, <2>1 DEF Expiries
<1>11. Holder
  BY <1>2, <1>3, <1>9 DEF Holder
<1>12. SomeoneKeeps
  BY <1>4, <1>8 DEF SomeoneKeeps
<1>13. Copied
  <2>1. "nobody" \notin Devices
    BY DevicesAssumption
  <2>. QED
    BY <1>2, <1>3, <1>4, <1>9, <2>1 DEF Copied, Warned, InFlight
<1>. QED
  BY <1>6, <1>7, <1>10, <1>11, <1>12, <1>13 DEF Inv

LEMMA NextInv == ASSUME Inv, [Next]_vars PROVE Inv' /\ WarnStep
<1>. DEFINE Kept1 == Typed' /\ Rows' /\ Steady
<1>1. ASSUME NEW d \in Devices, Job(d) PROVE Kept1
  BY <1>1, BeginRows, NotNowRows, CutRows, LookRows, SendRows, RecordRows,
     BeginSteady, NotNowSteady, CutSteady, LookSteady, SendSteady, RecordSteady DEF Job, Inv
<1>2. ASSUME NEW d \in Devices, FollowLock(d) PROVE Kept1
  BY <1>2, FollowLockRows, FollowLockSteady DEF Inv
<1>3. ASSUME NEW d \in Devices, Command(d), ~Renew(d) PROVE Kept1
  BY <1>3, ImportRows, PublishRows, CancelRows, SendOrDropCancelRows, LowerPriceRows,
     TakeOverRows, AnswerRows, ImportSteady, PublishSteady, CancelSteady,
     SendOrDropCancelSteady, LowerPriceSteady, TakeOverSteady, AnswerSteady DEF Command, Inv
<1>9. ASSUME NEW d \in Devices, CancelDies(d) PROVE Kept1
  BY <1>9, CancelDiesRows, CancelDiesSteady DEF Inv
<1>4. ASSUME Elsewhere PROVE Kept1
  BY <1>4, ElsewhereRows, ElsewhereSteady DEF Inv
<1>5. ASSUME Hour PROVE Kept1
  BY <1>5, HourRows, HourSteady DEF Inv
<1>6. ASSUME UNCHANGED vars PROVE Kept1
  <2>1. /\ UNCHANGED <<lockCoin, mtp, year, market, row, job, prompt, budget>>
    BY <1>6 DEF vars
  <2>2. Typed' /\ Rows'
    BY <2>1 DEF Inv, Typed, Rows
  <2>3. Expiries'
    BY <2>1 DEF Inv, Expiries, Refreshed
  <2>4. HoldStep /\ WarnStep
    BY <2>1 DEF HoldStep, WarnStep
  <2>5. Copied'
    BY <2>1 DEF Inv, Copied, Noted
  <2>. QED
    BY <2>2, <2>3, <2>4, <2>5 DEF Steady
<1>. HIDE DEF Kept1
<1>7. Kept1
  BY <1>1, <1>2, <1>3, <1>4, <1>5, <1>6, <1>9 DEF Next, Elsewhere
<1>8. Holder' /\ SomeoneKeeps'
  BY <1>7, HoldKeeps DEF Inv, Kept1, Steady
<1>. QED
  BY <1>7, <1>8 DEF Inv, Kept1, Steady

LEMMA InvTypeOK == ASSUME Inv PROVE TypeOK
<1>1. market.copy.step \in Steps \cup {NoStep}
  BY DEF Inv, Typed, Markets, Copies, SomeStep
<1>2. ASSUME NEW d \in Devices
      PROVE  /\ row[d].status \in Statuses /\ row[d].steps \subseteq Steps
             /\ row[d].state \in {"none", "finalizing", "listed", "cancelling"} \cup Ended
             /\ row[d].sent \in row[d].steps \cup {NoStep}
             /\ row[d].accepted => row[d].told
             /\ row[d].elsewhere <=> row[d].foreign # NoStep
             /\ job[d].at # "idle" => job[d].seen.publish
  <2>1. Sound(row[d]) /\ (job[d].at # "idle" => job[d].seen.publish)
    BY DEF Inv, Rows, Device
  <2>. QED
    BY <2>1 DEF Sound, Row, States
<1>. QED
  BY <1>1, <1>2 DEF TypeOK, Inv, Typed

\* Rows, jobs and the market's copy keep their types, and a job on its way has
\* read a published listing (shakedex_jobs.rs, upload_current, advance_one, keep_listed).
THEOREM TypeCorrect == Spec => []TypeOK
<1>1. Init => Inv
  BY InitInv
<1>2. Inv /\ [Next]_vars => Inv'
  BY NextInv
<1>3. Inv => TypeOK
  BY InvTypeOK
<1>. QED
  BY <1>1, <1>2, <1>3, PTL DEF Spec

\* However many devices lower, take over and lose prices, one that publishes
\* the listing still manages it (shakedex_jobs.rs, mark_elsewhere,
\* follow_elsewhere; commands/shakedex.rs, take_over_confirmed).
THEOREM KeepsCorrect == Spec => []SomeoneKeeps
<1>1. Init => Inv
  BY InitInv
<1>2. Inv /\ [Next]_vars => Inv'
  BY NextInv
<1>3. Inv => SomeoneKeeps
  BY DEF Inv
<1>. QED
  BY <1>1, <1>2, <1>3, PTL DEF Spec

\* The warning of somebody else's copy is first given over one of somebody else,
\* whatever the listing became meanwhile, but for what it had lost track of when the
\* job read it and a schedule that goes down over another expiry
\* (shakedex_jobs.rs, keep_listed, is_our_sent_step; db/queries.rs,
\* record_market_result).
THEOREM WarnedCorrect == Spec => WarnedOnlyOfOthers
<1>1. Init => Inv
  BY InitInv
<1>2. Inv /\ [Next]_vars => Inv' /\ WarnStep
  BY NextInv
<1>3. WarnStep => [\A d \in Devices :
         row'[d].status = "replaced" /\ row[d].status # "replaced" =>
            \/ job[d].copy.by # d \/ job[d].lost
            \/ job[d].seen.status = "replaced"
            \/ job[d].copy.exp # job[d].seen.exp /\ job[d].step \in Schedule]_vars
  BY DEF WarnStep
<1>. QED
  BY <1>1, <1>2, <1>3, PTL DEF Spec, WarnedOnlyOfOthers
=============================================================================
