--------------------------- MODULE Display_proofs ---------------------------
(***************************************************************************)
(* Proofs about the display a sender shows, where its pointer is drawn,    *)
(* and the pictures between the compositor and the encoder.                *)
(*                                                                         *)
(* SenderDisplay, for any plans, settling time and budgets: the plan of the *)
(* last hello is never lost, and a display is restored only if the         *)
(* compositor changed it.  SenderPointer, for any positions and any number *)
(* of events waiting: the user is never left without a pointer, and never  *)
(* sees it where it was.  CursorThread, for any positions, images and      *)
(* budgets: the pointer a receiver is told of is the output's.  Latest,    *)
(* ConvertStage and Capture, for any captures, slots and buffers: the      *)
(* newest picture is converted, and no buffer is written while it is read. *)
(***************************************************************************)
EXTENDS SenderDisplay, SenderPointer, CursorThread, Latest, ConvertStage, Capture,
        SequenceTheorems, FiniteSetTheorems, TLAPS

Targets == Plans \cup {None}
Debounces == [applied : Targets, pending : Targets, due : Int]
ActiveDisplays == [target : Plans, generation : Nat]

\* A session that has heard no hello has neither a plan nor a display.
Unasked ==
    asked.plan = None => debounce = NoPlan /\ active = None

Asked ==
    asked.plan # None =>
        /\ debounce.applied # None
        /\ asked.plan = IF debounce.pending # None THEN debounce.pending ELSE debounce.applied
        /\ active \in ActiveDisplays /\ active.target = debounce.applied
        /\ announced = debounce.applied

PlanInv ==
    /\ debounce \in Debounces
    /\ asked \in [plan : Targets, hellos : Int]
    /\ built \in Nat
    /\ ended # None => asked.plan = None
    /\ Unasked
    /\ Asked

-----------------------------------------------------------------------------
(* Debounce.                                                               *)

\* The plan a debounce has come to: the one that settles, or else runs.
Meant(d) == IF d.pending # None THEN d.pending ELSE d.applied

LEMMA PendingTyped ==
    ASSUME NEW d \in Debounces, NEW p \in Targets, NEW t \in Int
    PROVE  [d EXCEPT !.pending = p, !.due = t] \in Debounces
BY DEF Debounces

\* Whatever came before, the newest plan counts; the first runs at once, and
\* later ones leave the running one alone.
LEMMA NewestPlanCounts ==
    ASSUME NEW d \in Debounces, NEW plan \in Plans,
           d.applied = None => d = NoPlan
    PROVE  /\ OnHello(d, plan) \in Debounces
           /\ Meant(OnHello(d, plan)) = plan
           /\ OnHello(d, plan).applied = IF d.applied = None THEN plan ELSE d.applied
           /\ OnHello(d, plan).applied # None
<1>1. /\ None \in Targets /\ plan \in Targets /\ plan # None
      /\ Settling \in Int /\ 0 \in Int
  BY DisplayAssumption DEF Targets
<1>2. CASE d.applied = None
  <2>1. OnHello(d, plan) = [applied |-> plan, pending |-> None, due |-> 0]
    BY <1>2 DEF OnHello, NoPlan
  <2> QED
    BY <1>1, <1>2, <2>1 DEF Meant, Debounces
<1>3. CASE d.applied = plan
  <2>1. OnHello(d, plan) = [d EXCEPT !.pending = None, !.due = 0]
    BY <1>1, <1>3 DEF OnHello
  <2>2. OnHello(d, plan) \in Debounces
    BY <1>1, <2>1, PendingTyped
  <2>3. OnHello(d, plan).applied = d.applied /\ OnHello(d, plan).pending = None
    BY <2>1 DEF Debounces
  <2>4. Meant(OnHello(d, plan)) = plan
    BY <1>3, <2>3 DEF Meant
  <2>5. d.applied # None
    BY <1>1, <1>3
  <2> QED
    BY <2>2, <2>3, <2>4, <2>5
<1>4. CASE d.applied # None /\ d.applied # plan
  <2>1. OnHello(d, plan) = [d EXCEPT !.pending = plan, !.due = Settling]
    BY <1>4 DEF OnHello
  <2>2. OnHello(d, plan) \in Debounces
    BY <1>1, <2>1, PendingTyped
  <2>3. OnHello(d, plan).applied = d.applied /\ OnHello(d, plan).pending = plan
    BY <2>1 DEF Debounces
  <2> QED
    BY <1>1, <1>4, <2>2, <2>3 DEF Meant
<1> QED
  BY <1>2, <1>3, <1>4

LEMMA NewestOfBatch ==
    ASSUME PlanInv, NEW batch \in Hellos1 \cup Hellos2, HearHellos(batch)
    PROVE  /\ debounce' \in Debounces
           /\ batch[1] \in Plans /\ batch[Len(batch)] \in Plans
           /\ Meant(debounce') = batch[Len(batch)]
           /\ debounce'.applied = IF debounce.applied = None THEN batch[1] ELSE debounce.applied
           /\ debounce'.applied # None
<1>1. debounce \in Debounces /\ (debounce.applied = None => debounce = NoPlan)
  BY DEF PlanInv, Unasked, Asked
<1>2. ASSUME NEW p \in Plans \cup {Unfit}, batch = <<p>> PROVE p \in Plans /\ Len(batch) = 1
  BY <1>2 DEF HearHellos
<1>3. ASSUME NEW p \in Plans \cup {Unfit}, NEW q \in Plans \cup {Unfit}, batch = <<p, q>>
      PROVE  p \in Plans /\ q \in Plans /\ Len(batch) = 2
  <2>1. DOMAIN batch = 1 .. 2 /\ Len(batch) = 2 /\ batch[1] = p /\ batch[2] = q
    BY <1>3
  <2> QED
    BY <2>1 DEF HearHellos
<1>4. CASE batch \in Hellos1
  <2>1. PICK p \in Plans \cup {Unfit} : batch = <<p>>
    BY <1>4 DEF Hellos1
  <2>2. debounce' = OnHello(debounce, p)
    BY <1>2, <2>1 DEF HearHellos, DebounceAfter
  <2> QED
    BY <1>1, <1>2, <2>1, <2>2, NewestPlanCounts
<1>5. CASE batch \in Hellos2
  <2>1. PICK p \in Plans \cup {Unfit}, q \in Plans \cup {Unfit} : batch = <<p, q>>
    BY <1>5 DEF Hellos2
  <2>2. p \in Plans /\ q \in Plans /\ Len(batch) = 2
    BY <1>3, <2>1
  <2> DEFINE first == OnHello(debounce, p)
  <2>3. debounce' = OnHello(first, q)
    BY <2>1, <2>2 DEF HearHellos, DebounceAfter
  <2>4. /\ first \in Debounces /\ first.applied # None
        /\ first.applied = IF debounce.applied = None THEN p ELSE debounce.applied
    BY <1>1, <2>2, NewestPlanCounts
  <2> HIDE DEF first
  <2> QED
    BY <2>1, <2>2, <2>3, <2>4, NewestPlanCounts
<1> QED
  BY <1>4, <1>5

-----------------------------------------------------------------------------
LEMMA PlanInvInit == DisplayInit => PlanInv
BY DisplayAssumption
DEF DisplayInit, NoPlan, PlanInv, Unasked, Asked, Debounces, Targets

\* However a session ends, the next one starts without a plan.
LEMMA LeavesPlan ==
    ASSUME PlanInv, NEW why, Leaves(why)
    PROVE  PlanInv'
BY DisplayAssumption
DEF Leaves, NoPlan, PlanInv, Unasked, Asked, Debounces, Targets

\* Rebuilding for another reason leaves the plan alone.
LEMMA RebuildKeepsPlan ==
    ASSUME PlanInv, ended = None, active # None,
           Builds(active.target), UNCHANGED <<ended, debounce, asked>>
    PROVE  PlanInv'
<1>1. active \in ActiveDisplays /\ asked.plan # None
  BY DEF PlanInv, Unasked, Asked
<1>2. active' \in ActiveDisplays /\ active'.target = active.target /\ built' \in Nat
  BY <1>1 DEF Builds, PlanInv, ActiveDisplays
<1> QED
  BY <1>1, <1>2 DEF Builds, PlanInv, Unasked, Asked

LEMMA SamePlan ==
    ASSUME PlanInv, UNCHANGED <<ended, debounce, active, built, announced, asked>>
    PROVE  PlanInv'
BY DEF PlanInv, Unasked, Asked

LEMMA PlanInvKept == PlanInv /\ [DisplayNext]_displayVars => PlanInv'
<1> SUFFICES ASSUME PlanInv, [DisplayNext]_displayVars PROVE PlanInv'
  OBVIOUS
<1>1. ASSUME NEW batch \in Hellos1 \cup Hellos2, HearHellos(batch) PROVE PlanInv'
  <2> DEFINE last == batch[Len(batch)]
  <2>1. /\ debounce' \in Debounces /\ batch[1] \in Plans /\ last \in Plans
        /\ Meant(debounce') = last /\ debounce'.applied # None
        /\ debounce'.applied = IF debounce.applied = None THEN batch[1] ELSE debounce.applied
    BY <1>1, NewestOfBatch
  <2>2. asked' \in [plan : Targets, hellos : Int] /\ asked'.plan = last /\ last # None
    <3>1. Len(batch) \in Int
      BY DEF Hellos1, Hellos2
    <3> QED
      BY <1>1, <2>1, <3>1, DisplayAssumption DEF HearHellos, PlanInv, Targets
  <2>3. /\ active' \in ActiveDisplays /\ active'.target = debounce'.applied
        /\ announced' = debounce'.applied /\ built' \in Nat
    <3>1. CASE debounce.applied = None
      BY <1>1, <2>1, <3>1 DEF HearHellos, Builds, PlanInv, ActiveDisplays
    <3>2. CASE debounce.applied # None
      <4>1. asked.plan # None
        BY <3>2 DEF PlanInv, Unasked, NoPlan
      <4> QED
        BY <1>1, <2>1, <3>2, <4>1 DEF HearHellos, AsIs, PlanInv, Asked
    <3> QED
      BY <3>1, <3>2
  <2>4. ended' = None
    BY <1>1 DEF HearHellos, MoreHellos
  <2> QED
    BY <2>1, <2>2, <2>3, <2>4 DEF PlanInv, Unasked, Asked, Meant
<1>2. ASSUME NEW why, Leaves(why) PROVE PlanInv'
  BY <1>2, LeavesPlan
<1>3. CASE Redial
  BY <1>3 DEF Redial, AsIs, PlanInv, Unasked, Asked
<1>4. CASE SettlePlan
  <2>1. debounce.pending \in Plans /\ asked.plan = debounce.pending
    <3>1. debounce.pending \in Plans /\ asked.plan # None
      BY <1>4 DEF SettlePlan, Settled, PlanInv, Unasked, NoPlan, Debounces, Targets
    <3> QED
      BY <3>1, DisplayAssumption DEF PlanInv, Asked
  <2>2. /\ debounce' \in Debounces
        /\ debounce'.applied = debounce.pending /\ debounce'.pending = None
    BY <1>4 DEF SettlePlan, Polled, PlanInv, Debounces, Targets
  <2>3. /\ active' \in ActiveDisplays /\ active'.target = debounce.pending
        /\ announced' = debounce.pending /\ built' \in Nat
    BY <1>4, <2>1 DEF SettlePlan, Builds, PlanInv, ActiveDisplays
  <2> QED
    BY <1>4, <2>1, <2>2, <2>3, DisplayAssumption
    DEF SettlePlan, PlanInv, Unasked, Asked
<1>5. CASE Recreate
  BY <1>5, RebuildKeepsPlan DEF Recreate, Lost
<1>6. CASE Restore
  BY <1>6, RebuildKeepsPlan DEF Restore, Drifted, Done, Current
<1>7. CASE ProbeStarts \/ ProbeInVain \/ StopFighting
  BY <1>7, SamePlan DEF ProbeStarts, ProbeInVain, StopFighting, AsIs
<1>8. CASE ProbeAnswer
  BY <1>8, SamePlan DEF ProbeAnswer, ProbeAnswers, AsIs
<1>9. CASE CompositorChanges \/ Vanishes
  BY <1>9, SamePlan DEF CompositorChanges, Vanishes, SenderAsIs
<1>10. CASE TimePasses
  <2> DEFINE due == IF debounce.due = 0 THEN 0 ELSE debounce.due - 1
  <2>1. due \in Int
    BY DEF PlanInv, Debounces
  <2>2. debounce' = [debounce EXCEPT !.due = due]
    BY <1>10 DEF TimePasses
  <2> HIDE DEF due
  <2>3. /\ debounce' \in Debounces
        /\ debounce'.applied = debounce.applied /\ debounce'.pending = debounce.pending
    BY <2>1, <2>2 DEF PlanInv, Debounces
  <2>4. asked.plan = None => debounce' = NoPlan
    BY <1>10 DEF TimePasses, PlanInv, Unasked, NoPlan
  <2> QED
    BY <1>10, <2>3, <2>4 DEF TimePasses, AsIs, PlanInv, Unasked, Asked
<1>11. CASE UNCHANGED displayVars
  BY <1>11, SamePlan DEF displayVars
<1> QED
  BY <1>1, <1>2, <1>3, <1>4, <1>5, <1>6, <1>7, <1>8, <1>9, <1>10, <1>11
  DEF DisplayNext, DisplayHost, DisplayWorld, Hear, HearInVain, LeaveSession, Settle,
      SettleInVain, HearLost, GiveUpDisplay, ProbeDone, RestoreInVain

(* The last hello's plan runs and is announced, or it is the one that      *)
(* settles, whatever else rebuilds the display meanwhile (on_hello, poll,  *)
(* apply_now).                                                             *)
THEOREM PlanIsKept == DisplaySpec => []PlanKept
<1>1. PlanInv => PlanKept
  BY DisplayAssumption DEF PlanInv, Asked, PlanKept, Running, ActiveDisplays
<1> QED
  BY <1>1, PlanInvInit, PlanInvKept, PTL DEF DisplaySpec

-----------------------------------------------------------------------------
(* Generations tell a probe's display from its successors, and an answer   *)
(* about the present display is no older than what it says.                *)
ProbeInv ==
    /\ built \in Nat
    /\ active = None \/ active \in ActiveDisplays
    /\ probe = None \/ probe \in [generation : Nat, answer : BOOLEAN \cup {None}]
    /\ desk \in [changed : BOOLEAN, gone : BOOLEAN]
    /\ ended # None => active = None
    /\ active # None => active.generation < built
    /\ probe # None => probe.generation < built
    /\ Done /\ probe.answer /\ Current => desk.changed

LEMMA ProbeInvInit == DisplayInit => ProbeInv
BY DEF DisplayInit, ProbeInv, Calm, Done

\* A new display has a generation no probe has.
LEMMA RebuildOutdatesProbe ==
    ASSUME ProbeInv, NEW plan \in Plans, Builds(plan), ended' = None,
           probe' = probe \/ probe' = None
    PROVE  ProbeInv'
<1>1. /\ active' \in ActiveDisplays /\ active'.generation = built
      /\ built' = built + 1 /\ built' \in Nat /\ built < built'
      /\ desk' \in [changed : BOOLEAN, gone : BOOLEAN]
  BY DEF Builds, Calm, ProbeInv, ActiveDisplays
<1>2. probe' # None => /\ probe' \in [generation : Nat, answer : BOOLEAN \cup {None}]
                       /\ probe'.generation < built
                       /\ probe'.generation < built'
  BY <1>1 DEF ProbeInv
<1>3. ~(Done /\ Current)'
  BY <1>1, <1>2 DEF Done, Current
<1> QED
  BY <1>1, <1>2, <1>3 DEF ProbeInv

LEMMA LeavesNoProbe ==
    ASSUME ProbeInv, NEW why, Leaves(why)
    PROVE  ProbeInv'
BY DEF Leaves, Calm, ProbeInv, Done

LEMMA SameProbe ==
    ASSUME ProbeInv, ended' \in {ended, None}, UNCHANGED <<active, built, desk>>,
           probe' \in {probe, None}
    PROVE  ProbeInv'
BY DEF ProbeInv, Done, Current

LEMMA ProbeInvKept ==
    PlanInv /\ ProbeInv /\ [DisplayNext]_displayVars => ProbeInv'
<1> SUFFICES ASSUME PlanInv, ProbeInv, [DisplayNext]_displayVars PROVE ProbeInv'
  OBVIOUS
<1>1. ASSUME NEW batch \in Hellos1 \cup Hellos2, HearHellos(batch) PROVE ProbeInv'
  <2>1. CASE debounce.applied = None
    BY <1>1, <2>1, NewestOfBatch, RebuildOutdatesProbe DEF HearHellos, MoreHellos
  <2>2. CASE debounce.applied # None
    BY <1>1, <2>2, SameProbe DEF HearHellos, AsIs
  <2> QED
    BY <2>1, <2>2
<1>2. ASSUME NEW why, Leaves(why) PROVE ProbeInv'
  BY <1>2, LeavesNoProbe
<1>3. CASE Redial
  BY <1>3, SameProbe DEF Redial, AsIs
<1>4. CASE SettlePlan
  <2>1. debounce.pending \in Plans
    BY <1>4 DEF SettlePlan, Settled, PlanInv, Debounces, Targets
  <2> QED
    BY <1>4, <2>1, RebuildOutdatesProbe DEF SettlePlan, Settled
<1>5. CASE Recreate \/ Restore
  <2>1. active # None
    BY <1>5 DEF Recreate, Restore, Lost, Drifted, Current
  <2>2. active.target \in Plans
    BY <2>1 DEF ProbeInv, ActiveDisplays
  <2> QED
    BY <1>5, <2>2, RebuildOutdatesProbe DEF Recreate, Restore, Lost, Drifted, Done
<1>6. CASE ProbeStarts
  <2>1. active \in ActiveDisplays /\ active.generation \in Nat
    BY <1>6 DEF ProbeStarts, ProbeInv, ActiveDisplays
  <2>2. /\ probe' \in [generation : Nat, answer : BOOLEAN \cup {None}]
        /\ probe'.generation = active.generation /\ probe'.answer = None
    BY <1>6, <2>1 DEF ProbeStarts
  <2> QED
    BY <1>6, <2>1, <2>2 DEF ProbeStarts, AsIs, ProbeInv, Done
<1>7. ASSUME NEW why \in BOOLEAN, ProbeAnswers(why) PROVE ProbeInv'
  <2>1. /\ probe' \in [generation : Nat, answer : BOOLEAN \cup {None}]
        /\ probe'.generation = probe.generation /\ probe'.answer = why
    BY <1>7 DEF ProbeAnswers, ProbeInv
  <2>2. Current => why = desk.changed
    BY <1>7 DEF ProbeAnswers, Current
  <2> QED
    BY <1>7, <2>1, <2>2 DEF ProbeAnswers, AsIs, ProbeInv, Done, Current
<1>8. CASE ProbeInVain \/ StopFighting
  BY <1>8, SameProbe DEF ProbeInVain, StopFighting, AsIs
<1>9. CASE CompositorChanges \/ Vanishes
  <2>1. desk' \in [changed : BOOLEAN, gone : BOOLEAN] /\ (desk.changed => desk'.changed)
    BY <1>9 DEF CompositorChanges, Vanishes, ProbeInv
  <2> QED
    BY <1>9, <2>1 DEF CompositorChanges, Vanishes, SenderAsIs, ProbeInv, Done, Current
<1>10. CASE TimePasses \/ UNCHANGED displayVars
  BY <1>10, SameProbe DEF TimePasses, AsIs, displayVars
<1> QED
  BY <1>1, <1>2, <1>3, <1>4, <1>5, <1>6, <1>7, <1>8, <1>9, <1>10
  DEF DisplayNext, DisplayHost, DisplayWorld, Hear, HearInVain, LeaveSession, Settle,
      SettleInVain, HearLost, GiveUpDisplay, ProbeAnswer, ProbeDone, RestoreInVain

(* A display is restored only if the compositor changed it: an answer      *)
(* about an earlier display is never held against its successor            *)
(* (generation in the drift_done branch).                                  *)
THEOREM OnlyTheChangedIsRestored == DisplaySpec => RestoresTheChanged
<1>1. ProbeInv => (Restore => desk.changed)
  BY DEF ProbeInv, Restore, Drifted
<1>2. DisplaySpec => [](PlanInv /\ ProbeInv)
  <2>1. DisplayInit => PlanInv /\ ProbeInv
    BY PlanInvInit, ProbeInvInit
  <2>2. PlanInv /\ ProbeInv /\ [DisplayNext]_displayVars => (PlanInv /\ ProbeInv)'
    BY PlanInvKept, ProbeInvKept
  <2> QED
    BY <2>1, <2>2, PTL DEF DisplaySpec
<1>3. PlanInv /\ ProbeInv /\ [DisplayNext]_displayVars => [Restore => desk.changed]_displayVars
  BY <1>1
<1> QED
  BY <1>2, <1>3, PTL DEF DisplaySpec, RestoresTheChanged

-----------------------------------------------------------------------------
(* SenderPointer.                                                          *)

\* What a single event does to the two ends, without the queue it came from.
EndsTyped ==
    /\ drawn \in Actives \cup {None}
    /\ screen \in [sprite : BOOLEAN, at : Spots]

ThreadTyped ==
    thread \in [sprite : {"none", "have", "failed"}, at : Spots \cup {"unknown"}]

EventsTyped ==
    /\ events \in Seq(Pointing) /\ Len(events) <= MaxEvents
    /\ drawn = None => events = <<>>

-----------------------------------------------------------------------------
LEMMA StepTyped ==
    ASSUME EndsTyped, drawn # None, NEW ev \in Pointing, CursorStep(ev)
    PROVE  EndsTyped' /\ drawn' # None
<1> USE PointerAssumption DEF Sides, Spots
<1>1. drawn \in Actives
  BY DEF EndsTyped
<1>2. CASE UNCHANGED <<drawn, screen>>
  BY <1>2 DEF EndsTyped
<1>3. CASE Fails
  <2>1. PICK ok \in Repaints :
          drawn' = [drawn EXCEPT !.cursor = "Failed", !.painted = @ \/ ok]
    BY <1>3 DEF Fails
  <2>2. (drawn.painted \/ ok) \in BOOLEAN
    OBVIOUS
  <2>3. drawn' \in Actives
    BY <1>1, <2>1, <2>2 DEF Actives
  <2>4. screen' \in [sprite : BOOLEAN, at : Spots]
    BY <1>3 DEF Fails, EndsTyped
  <2> QED
    BY <2>3, <2>4, NoneIsNoDisplay DEF EndsTyped
<1>4. CASE GoesLive
  <2>1. drawn' \in Actives
    BY <1>1, <1>4 DEF GoesLive, Actives
  <2>2. screen' \in [sprite : BOOLEAN, at : Spots]
    BY <1>1, <1>4 DEF GoesLive, EndsTyped, Actives
  <2> QED
    BY <2>1, <2>2, NoneIsNoDisplay DEF EndsTyped
<1>5. CASE StaysPainted
  <2>1. drawn' \in Actives
    BY <1>1, <1>5 DEF StaysPainted, Actives
  <2> QED
    BY <1>5, <2>1, NoneIsNoDisplay DEF StaysPainted, EndsTyped
<1>6. CASE ev.kind \in {"Moved", "Hidden"} /\ Holds(ev)
  <2>1. drawn' \in Actives
    BY <1>1, <1>6 DEF Holds, Actives, Pointing
  <2> QED
    BY <1>6, <2>1, NoneIsNoDisplay DEF Holds, EndsTyped
<1>7. CASE ev.kind # "SpriteUnavailable" /\ Forwards(ev)
  BY <1>7 DEF Forwards, EndsTyped, Pointing
<1> QED
  BY <1>1, <1>2, <1>3, <1>4, <1>5, <1>6, <1>7 DEF CursorStep, Actives, Pointing

(* The state keeps its type, and a session that has no display has no      *)
(* events of one waiting (cursor_rx ends with its session).                *)
THEOREM PointerTyped == PointerSpec => []PointerTypeOK
<1>1. PointerInit => PointerTypeOK
  BY PointerAssumption DEF PointerInit, Started, PointerTypeOK, Spots
<1>2. PointerTypeOK /\ [PointerNext]_pointerVars => PointerTypeOK'
  <2> SUFFICES ASSUME PointerTypeOK, [PointerNext]_pointerVars
               PROVE  EndsTyped' /\ ThreadTyped' /\ EventsTyped'
    BY DEF PointerTypeOK, EndsTyped, ThreadTyped, EventsTyped
  <2>1. EndsTyped /\ ThreadTyped /\ EventsTyped
    BY DEF PointerTypeOK, EndsTyped, ThreadTyped, EventsTyped
  <2>2. ASSUME NEW side \in Sides, BuildDisplay(side)
        PROVE  EndsTyped' /\ ThreadTyped' /\ EventsTyped'
    <3>1. Painted(side) \in Actives
      BY DEF Painted, Actives, Spots
    <3>2. EndsTyped' /\ EventsTyped'
      BY <2>1, <2>2, <3>1, NoneIsNoDisplay DEF BuildDisplay, EndsTyped, EventsTyped
    <3> QED
      BY <2>2, <3>2 DEF BuildDisplay, Started, ThreadTyped
  <2>3. CASE CloseDisplay
    <3>1. <<>> \in Seq(Pointing) /\ Len(<<>>) = 0
      BY EmptySeq
    <3>2. EndsTyped' /\ EventsTyped'
      BY <2>1, <2>3, <3>1, PointerAssumption DEF CloseDisplay, EndsTyped, EventsTyped
    <3> QED
      BY <2>3, <3>2 DEF CloseDisplay, Started, ThreadTyped
  <2>4. CASE TakeEvent
    <3>1. Head(events) \in Pointing /\ Tail(events) \in Seq(Pointing)
          /\ Len(Tail(events)) = Len(events) - 1
      BY <2>1, <2>4, HeadTailProperties DEF TakeEvent, EventsTyped
    <3>2. EndsTyped' /\ drawn' # None
      BY <2>1, <2>4, <3>1, StepTyped DEF TakeEvent
    <3>3. Len(events) \in Nat
      BY <2>1, LenProperties DEF EventsTyped
    <3> QED
      BY <2>1, <2>4, <3>1, <3>2, <3>3, PointerAssumption DEF TakeEvent, ThreadTyped, EventsTyped
  <2>5. ASSUME NEW ev \in Pointing, Report(ev)
        PROVE  EndsTyped' /\ ThreadTyped' /\ EventsTyped'
    <3>1. Append(events, ev) \in Seq(Pointing) /\ Len(Append(events, ev)) = Len(events) + 1
      BY <2>1, AppendProperties DEF EventsTyped
    <3>2. Len(events) \in Nat
      BY <2>1, LenProperties DEF EventsTyped
    <3>3. EventsTyped'
      BY <2>1, <2>5, <3>1, <3>2, PointerAssumption DEF Report, EventsTyped
    <3>4. ThreadTyped'
      BY <2>1, <2>5 DEF Report, ThreadTyped, Pointing, Spots
    <3> QED
      BY <2>1, <2>5, <3>3, <3>4 DEF Report, EndsTyped
  <2>6. CASE UNCHANGED pointerVars
    BY <2>1, <2>6 DEF pointerVars, EndsTyped, ThreadTyped, EventsTyped
  <2> QED
    BY <2>2, <2>3, <2>4, <2>5, <2>6 DEF PointerNext
<1> QED
  BY <1>1, <1>2, PTL DEF PointerSpec

-----------------------------------------------------------------------------
(* As long as the pointer can be painted again, the user has one: in the   *)
(* video, or drawn by a receiver that was given its sprite.  Only GoesLive *)
(* takes it out of the video, and only a live channel that fails comes     *)
(* back, painting first.                                                   *)
THEOREM AlwaysAPointer ==
    ASSUME Repaints = {TRUE}
    PROVE  PointerSpec => []NeverNoPointer
<1>1. PointerInit => NeverNoPointer
  BY DEF PointerInit, NeverNoPointer
<1>2. /\ PointerTypeOK /\ NeverNoPointer
      /\ [PointerNext]_pointerVars
      => NeverNoPointer'
  <2> SUFFICES ASSUME PointerTypeOK, NeverNoPointer, [PointerNext]_pointerVars
               PROVE  NeverNoPointer'
    OBVIOUS
  <2>1. ASSUME NEW side \in Sides, BuildDisplay(side) PROVE NeverNoPointer'
    BY <2>1 DEF BuildDisplay, Painted, NeverNoPointer
  <2>2. CASE CloseDisplay
    BY <2>2 DEF CloseDisplay, NeverNoPointer
  <2>3. CASE TakeEvent
    <3> DEFINE ev == Head(events)
    <3>1. drawn \in Actives /\ screen \in [sprite : BOOLEAN, at : Spots]
      BY <2>3 DEF TakeEvent, PointerTypeOK
    <3>2. CursorStep(ev)
      BY <2>3 DEF TakeEvent
    <3>3. ev \in Pointing
      BY <2>3, HeadTailProperties DEF TakeEvent, PointerTypeOK
    <3> HIDE DEF ev
    <3>4. CASE UNCHANGED <<drawn, screen>>
      BY <3>4 DEF NeverNoPointer
    <3>5. CASE Fails
      <4>1. PICK ok \in Repaints :
              drawn' = [drawn EXCEPT !.cursor = "Failed", !.painted = @ \/ ok]
        BY <3>5 DEF Fails
      <4>2. ok
        BY <4>1
      <4>3. drawn'.painted
        BY <3>1, <4>1, <4>2 DEF Actives
      <4> QED
        BY <4>3 DEF NeverNoPointer
    <3>6. CASE GoesLive
      BY <3>1, <3>6 DEF GoesLive, Actives, NeverNoPointer
    <3>7. CASE drawn.cursor = "Pending" /\ (StaysPainted \/ Holds(ev))
      <4>1. drawn'.painted = drawn.painted
        BY <3>1, <3>7 DEF StaysPainted, Holds, Actives
      <4> QED
        BY <2>3, <3>7, <4>1 DEF TakeEvent, NeverNoPointer
    <3>8. CASE ev.kind # "SpriteUnavailable" /\ Forwards(ev)
      BY <3>1, <3>3, <3>8 DEF Forwards, Pointing, NeverNoPointer
    <3> QED
      BY <3>1, <3>2, <3>3, <3>4, <3>5, <3>6, <3>7, <3>8
      DEF CursorStep, Actives, Sides, Pointing
  <2>4. ASSUME NEW ev \in Pointing, Report(ev) PROVE NeverNoPointer'
    BY <2>4 DEF Report, NeverNoPointer
  <2>5. CASE UNCHANGED pointerVars
    BY <2>5 DEF pointerVars, NeverNoPointer
  <2> QED
    BY <2>1, <2>2, <2>3, <2>4, <2>5 DEF PointerNext
<1> QED
  BY <1>1, <1>2, PointerTyped, PTL DEF PointerSpec

-----------------------------------------------------------------------------
(* Where the pointer is drawn.  A place the thread saw last is the last    *)
(* one that waits among the events; if none waits, it is held back or      *)
(* drawn.                                                                  *)

Moving == {"Moved", "Hidden"}

Arrived(x) ==
    /\ drawn.cursor = "Pending" => drawn.held = x
    /\ drawn.cursor = "Live" => screen.at = x

LastSeen(x) ==
    \/ \E i \in 1 .. Len(events) :
         /\ events[i].kind = "Moved" /\ events[i].at = x
         /\ \A j \in i + 1 .. Len(events) : events[j].kind \notin Moving
    \/ /\ \A j \in 1 .. Len(events) : events[j].kind \notin Moving
       /\ Arrived(x)

PlaceInv == drawn # None /\ thread.at \in Positions => LastSeen(thread.at)

\* An event that says where the pointer is, or that says nothing of it.
LEMMA StepArrives ==
    ASSUME EndsTyped, drawn # None, NEW ev \in Pointing, CursorStep(ev), NEW x \in Positions,
           \/ ev.kind = "Moved" /\ ev.at = x
           \/ ev.kind \notin Moving /\ Arrived(x)
    PROVE  Arrived(x)'
<1> USE PointerAssumption DEF Arrived, Moving
<1>1. drawn \in Actives /\ screen \in [sprite : BOOLEAN, at : Spots]
  BY DEF EndsTyped
<1>2. CASE drawn.cursor \in {"Off", "Failed"} /\ UNCHANGED <<drawn, screen>>
  BY <1>2
<1>3. CASE Fails
  <2>1. drawn'.cursor = "Failed"
    BY <1>1, <1>3 DEF Fails, Actives
  <2> QED
    BY <2>1
<1>4. CASE drawn.cursor = "Pending" /\ ev.kind = "Image" /\ GoesLive
  BY <1>1, <1>4 DEF GoesLive, Actives
<1>5. CASE StaysPainted
  BY <1>1, <1>5 DEF StaysPainted, Actives
<1>6. CASE drawn.cursor = "Pending" /\ ev.kind = "Moved" /\ Holds(ev)
  BY <1>1, <1>6 DEF Holds, Actives
<1>7. CASE drawn.cursor = "Live" /\ ev.kind # "SpriteUnavailable" /\ Forwards(ev)
  BY <1>1, <1>7 DEF Forwards, Pointing
<1> QED
  BY <1>1, <1>2, <1>3, <1>4, <1>5, <1>6, <1>7 DEF CursorStep, Actives, Sides, Pointing

LEMMA TakeKeepsPlace ==
    ASSUME PointerTypeOK, PlaceInv, TakeEvent
    PROVE  PlaceInv'
<1> SUFFICES ASSUME drawn # None, thread.at \in Positions PROVE LastSeen(thread.at)'
  BY DEF TakeEvent, PlaceInv
<1> DEFINE x == thread.at
           ev == Head(events)
<1>1. /\ EndsTyped /\ ev \in Pointing /\ CursorStep(ev) /\ UNCHANGED thread
      /\ Len(events) \in Nat /\ Len(events) > 0 /\ ev = events[1]
      /\ events' = Tail(events) /\ Len(events') = Len(events) - 1
      /\ \A i \in 1 .. Len(events') : events'[i] = events[i + 1]
  BY HeadTailProperties DEF TakeEvent, PointerTypeOK, EndsTyped
<1>2. LastSeen(x)
  BY DEF PlaceInv
<1>3. CASE \E i \in 2 .. Len(events) :
             /\ events[i].kind = "Moved" /\ events[i].at = x
             /\ \A j \in i + 1 .. Len(events) : events[j].kind \notin Moving
  <2>1. PICK i \in 2 .. Len(events) :
             /\ events[i].kind = "Moved" /\ events[i].at = x
             /\ \A j \in i + 1 .. Len(events) : events[j].kind \notin Moving
    BY <1>3
  <2>2. i - 1 \in 1 .. Len(events') /\ events'[i - 1] = events[i]
    BY <1>1
  <2>3. \A j \in (i - 1) + 1 .. Len(events') : events'[j].kind \notin Moving
    BY <1>1, <2>1
  <2> QED
    BY <1>1, <2>1, <2>2, <2>3 DEF LastSeen
<1>4. CASE \/ ev.kind = "Moved" /\ ev.at = x
              /\ \A j \in 2 .. Len(events) : events[j].kind \notin Moving
           \/ Arrived(x) /\ \A j \in 1 .. Len(events) : events[j].kind \notin Moving
  <2>1. (ev.kind = "Moved" /\ ev.at = x) \/ (ev.kind \notin Moving /\ Arrived(x))
    BY <1>1, <1>4
  <2>2. \A j \in 1 .. Len(events') : events'[j].kind \notin Moving
    BY <1>1, <1>4
  <2>3. (drawn'.cursor = "Pending" => drawn'.held = x) /\ (drawn'.cursor = "Live" => screen'.at = x)
    BY <1>1, <2>1, StepArrives DEF Arrived
  <2> QED
    BY <1>1, <2>2, <2>3 DEF LastSeen, Arrived
<1> QED
  BY <1>1, <1>2, <1>3, <1>4 DEF LastSeen

LEMMA ReportKeepsPlace ==
    ASSUME PointerTypeOK, PlaceInv, NEW ev \in Pointing, Report(ev)
    PROVE  PlaceInv'
<1>1. /\ drawn # None /\ UNCHANGED <<drawn, screen>>
      /\ thread \in [sprite : {"none", "have", "failed"}, at : Spots \cup {"unknown"}]
  BY DEF Report, PointerTypeOK
<1>2. /\ Len(events) \in Nat /\ Len(events') = Len(events) + 1
      /\ events'[Len(events) + 1] = ev
      /\ \A i \in 1 .. Len(events) : events'[i] = events[i]
  BY AppendProperties DEF Report, PointerTypeOK
<1>3. CASE ev.kind = "Moved"
  <2>1. thread'.at = ev.at
    BY <1>1, <1>3 DEF Report
  <2> QED
    BY <1>2, <1>3, <2>1 DEF PlaceInv, LastSeen
<1>4. CASE ev.kind = "Hidden"
  <2>1. thread'.at = None
    BY <1>1, <1>4 DEF Report
  <2> QED
    BY <2>1, PointerAssumption DEF PlaceInv
<1>5. CASE ev.kind \notin Moving
  <2>1. thread'.at = thread.at
    BY <1>1, <1>5 DEF Report, Pointing, Moving
  <2> SUFFICES ASSUME thread.at \in Positions PROVE LastSeen(thread.at)'
    BY <2>1 DEF PlaceInv
  <2>2. LastSeen(thread.at)
    BY <1>1 DEF PlaceInv
  <2>3. \A j \in 1 .. Len(events') : j \notin 1 .. Len(events) => events'[j].kind \notin Moving
    BY <1>2, <1>5
  <2>4. CASE \E i \in 1 .. Len(events) :
               /\ events[i].kind = "Moved" /\ events[i].at = thread.at
               /\ \A j \in i + 1 .. Len(events) : events[j].kind \notin Moving
    <3>1. PICK i \in 1 .. Len(events) :
               /\ events[i].kind = "Moved" /\ events[i].at = thread.at
               /\ \A j \in i + 1 .. Len(events) : events[j].kind \notin Moving
      BY <2>4
    <3>2. i \in 1 .. Len(events') /\ events'[i] = events[i]
      BY <1>2
    <3>3. \A j \in i + 1 .. Len(events') : events'[j].kind \notin Moving
      <4> SUFFICES ASSUME NEW j \in i + 1 .. Len(events') PROVE events'[j].kind \notin Moving
        OBVIOUS
      <4>1. CASE j \in 1 .. Len(events)
        BY <1>2, <3>1, <4>1
      <4>2. CASE j \notin 1 .. Len(events)
        BY <1>2, <2>3, <4>2
      <4> QED
        BY <4>1, <4>2
    <3> QED
      BY <2>1, <3>1, <3>2, <3>3 DEF LastSeen
  <2>5. CASE /\ \A j \in 1 .. Len(events) : events[j].kind \notin Moving
             /\ Arrived(thread.at)
    <3>1. \A j \in 1 .. Len(events') : events'[j].kind \notin Moving
      BY <1>2, <2>3, <2>5
    <3>2. Arrived(thread.at)'
      BY <1>1, <2>1, <2>5 DEF Arrived
    <3> QED
      BY <3>1, <3>2 DEF LastSeen
  <2> QED
    BY <2>2, <2>4, <2>5 DEF LastSeen
<1> QED
  BY <1>3, <1>4, <1>5 DEF Moving

(* The receiver draws the pointer where the cursor thread of this display  *)
(* saw it last, once it has heard what waits: whatever an earlier thread   *)
(* said before it and however the first sprite comes between the places.   *)
THEOREM PointerIsThere == PointerSpec => []LivePointerIsThere
<1>1. PointerInit => PlaceInv
  BY DEF PointerInit, PlaceInv
<1>2. PointerTypeOK /\ PlaceInv /\ [PointerNext]_pointerVars => PlaceInv'
  <2> SUFFICES ASSUME PointerTypeOK, PlaceInv, [PointerNext]_pointerVars PROVE PlaceInv'
    OBVIOUS
  <2>1. ASSUME NEW side \in Sides, BuildDisplay(side) PROVE PlaceInv'
    BY <2>1, PointerAssumption DEF BuildDisplay, Started, PlaceInv
  <2>2. CASE CloseDisplay
    BY <2>2 DEF CloseDisplay, PlaceInv
  <2>3. CASE TakeEvent
    BY <2>3, TakeKeepsPlace
  <2>4. ASSUME NEW ev \in Pointing, Report(ev) PROVE PlaceInv'
    BY <2>4, ReportKeepsPlace
  <2>5. CASE UNCHANGED pointerVars
    BY <2>5 DEF pointerVars, PlaceInv, LastSeen, Arrived
  <2> QED
    BY <2>1, <2>2, <2>3, <2>4, <2>5 DEF PointerNext
<1>3. PlaceInv => LivePointerIsThere
  <2> SUFFICES ASSUME PlaceInv, drawn # None, events = <<>>, drawn.cursor = "Live",
                      thread.at \in Positions
               PROVE  screen.at = thread.at
    BY DEF LivePointerIsThere
  <2>1. LastSeen(thread.at) /\ Len(events) = 0
    BY EmptySeq DEF PlaceInv
  <2> QED
    BY <2>1 DEF LastSeen, Arrived
<1> QED
  BY <1>1, <1>2, <1>3, PointerTyped, PTL DEF PointerSpec

(* Someone draws the pointer, the picture or the receiver, and the         *)
(* receiver where it is: for any positions, however many events wait and   *)
(* whichever displays and threads came before.                             *)
THEOREM PointerIsKept ==
    ASSUME Repaints = {TRUE}
    PROVE  PointerSpec => []PointerKept
BY AlwaysAPointer, PointerIsThere, PTL DEF PointerKept

-----------------------------------------------------------------------------
(* The cursor thread.                                                      *)

\* What is a record with these fields, of whatever type.
HasFields(r, fields) == r = [f \in fields |-> r[f]]

CurFields ==
    {"at", "owner", "stop", "inside", "hidden", "latest", "sent", "buffer", "frame", "failed",
     "have", "stale", "failures", "empty", "last"}

BufferIs(b) == HasFields(b, {"width", "px"}) /\ b.px \in Pixels

\* What the thread has and told, between the parts of its loop too.
PairIs(r) ==
    /\ HasFields(r, {"cur", "told"})
    /\ HasFields(r.cur, CurFields) /\ HasFields(r.told, {"pointer", "sprite", "unavailable"})
    /\ {r.cur.inside, r.cur.hidden, r.cur.frame, r.cur.failed, r.cur.have, r.told.unavailable}
         \subseteq BOOLEAN

\* The sprite: given up means failed, and nothing is fetched any more; one
\* that was sent was there.
SpriteKept(r) ==
    /\ r.told.unavailable => r.cur.failed
    /\ r.told.sprite = None => ~r.cur.have
    /\ r.cur.frame => BufferIs(r.cur.buffer) /\ ~r.cur.failed
    /\ r.cur.buffer # None => BufferIs(r.cur.buffer)

\* The place: what was told is where the thread says it is.
PlaceTold(r) ==
    /\ ~r.cur.inside => r.cur.sent = None
    /\ r.cur.hidden => r.told.pointer = "hidden" /\ r.cur.sent = None
    /\ ~r.cur.hidden /\ r.told.pointer # None => r.cur.inside /\ r.told.pointer = r.cur.sent

SamePlace(r, q) ==
    /\ q.cur.inside = r.cur.inside /\ q.cur.hidden = r.cur.hidden
    /\ q.cur.latest = r.cur.latest /\ q.cur.sent = r.cur.sent
    /\ q.told.pointer = r.told.pointer /\ q.cur.at = r.cur.at

SameSprite(r, q) ==
    /\ q.cur.frame = r.cur.frame /\ q.cur.failed = r.cur.failed /\ q.cur.have = r.cur.have
    /\ q.cur.buffer = r.cur.buffer
    /\ q.told.sprite = r.told.sprite /\ q.told.unavailable = r.told.unavailable

\* Inside is where the pointer is, unless its leaving was missed.
InsideIs(c) == c.inside = scene.over \/ scene.missed

\* Where the pointer is, is in the events not looked at or known already.
PlaceKnown ==
    /\ scene.missed => ~scene.over
    /\ st.entered = TRUE => scene.over
    /\ st.entered = FALSE => ~scene.over
    /\ st.entered = None => InsideIs(cur)
    /\ scene.over /\ st.position # None => st.position = scene.at
    /\ scene.over /\ st.position = None => st.entered = None /\ cur.latest = scene.at

Held == [cur |-> cur, told |-> told]

SceneIs ==
    /\ HasFields(scene, {"over", "at", "image", "width", "copied", "frame", "missed"})
    /\ {scene.over, scene.frame, scene.missed} \subseteq BOOLEAN
    /\ scene.at \in CursorSpots /\ scene.image \in Shapes \cup {"clear"}

EventsAre ==
    /\ HasFields(st, {"entered", "position", "size", "ready", "failed", "stopped"})
    /\ st.entered \in BOOLEAN \cup {None} /\ {st.ready, st.stopped} \subseteq BOOLEAN

CursorInv ==
    /\ SceneIs /\ EventsAre
    /\ PairIs(Held) /\ SpriteKept(Held) /\ PlaceTold(Held)
    /\ cur.at = "setup" => ~cur.inside /\ ~scene.over /\ ~cur.failed /\ ~cur.frame
    /\ cur.at = "loop" => PlaceKnown
    /\ scene.frame => cur.frame
    /\ cur.failed => ~st.ready

\* Positions.
LEMMA MovedPlace ==
    ASSUME CursorInv, cur.at = "loop", NEW r, r = [cur |-> CursorMoved(cur), told |-> told]
    PROVE  /\ PairIs(r) /\ SpriteKept(r) /\ SameSprite(Held, r)
           /\ InsideIs(r.cur) /\ r.cur.at = "loop"
           /\ scene.over => r.cur.latest = scene.at
           /\ ~r.cur.inside => r.cur.sent = None
           /\ r.cur.hidden => r.told.pointer = "hidden" /\ r.cur.sent = None
           /\ ~r.cur.hidden /\ r.told.pointer # None /\ r.cur.inside => r.told.pointer = r.cur.sent
<1> DEFINE e == CASE st.entered = TRUE -> [cur EXCEPT !.inside = TRUE]
                  [] st.entered = FALSE -> LeftInside(cur)
                  [] OTHER -> cur
<1>0. /\ HasFields(cur, CurFields) /\ HasFields(told, {"pointer", "sprite", "unavailable"})
      /\ {cur.inside, cur.hidden, cur.frame, cur.failed, cur.have, told.unavailable} \subseteq BOOLEAN
      /\ scene.over \in BOOLEAN /\ st.entered \in BOOLEAN \cup {None} /\ PlaceKnown
      /\ SpriteKept(Held) /\ PlaceTold(Held) /\ Held.cur = cur /\ Held.told = told
  BY DEF CursorInv, SceneIs, EventsAre, PairIs, Held
<1>1. /\ HasFields(e, CurFields) /\ InsideIs(e) /\ e.inside \in BOOLEAN
      /\ e.hidden = cur.hidden /\ e.frame = cur.frame /\ e.failed = cur.failed /\ e.have = cur.have
      /\ e.buffer = cur.buffer /\ e.at = cur.at
      /\ \/ e.inside /\ e.sent = cur.sent /\ e.latest = cur.latest
         \/ ~e.inside /\ e.sent = None
  <2>1. CASE st.entered = TRUE
    <3>1. e = [cur EXCEPT !.inside = TRUE]
      BY <2>1
    <3> HIDE DEF e
    <3> QED
      BY <1>0, <2>1, <3>1 DEF HasFields, CurFields, PlaceKnown, InsideIs
  <2>2. CASE st.entered = FALSE
    <3>1. e = [cur EXCEPT !.inside = FALSE, !.latest = None, !.sent = None]
      BY <2>2 DEF LeftInside
    <3> HIDE DEF e
    <3> QED
      BY <1>0, <2>2, <3>1 DEF HasFields, CurFields, PlaceKnown, InsideIs
  <2>3. CASE st.entered = None
    <3>1. e = cur
      BY <2>3, CursorThreadAssumption
    <3> HIDE DEF e
    <3>2. InsideIs(cur)
      BY <1>0, <2>3 DEF PlaceKnown
    <3> QED
      BY <1>0, <3>1, <3>2 DEF PlaceTold
  <2> QED
    BY <1>0, <2>1, <2>2, <2>3
<1>2. CursorMoved(cur) = IF st.position = None THEN e ELSE [e EXCEPT !.latest = st.position]
  BY DEF CursorMoved
<1> HIDE DEF e
<1>3. PICK c : c = CursorMoved(cur)
  OBVIOUS
<1>4. /\ HasFields(c, CurFields) /\ c.inside = e.inside /\ c.sent = e.sent
      /\ c.hidden = cur.hidden /\ c.frame = cur.frame /\ c.failed = cur.failed /\ c.have = cur.have
      /\ c.buffer = cur.buffer /\ c.at = "loop"
      /\ c.latest = IF st.position = None THEN e.latest ELSE st.position
  <2>1. CASE st.position = None
    BY <1>1, <1>2, <1>3, <2>1
  <2>2. CASE st.position # None
    BY <1>1, <1>2, <1>3, <2>2 DEF HasFields, CurFields
  <2> QED
    BY <2>1, <2>2
<1>5. r.cur = c /\ r.told = told /\ HasFields(r, {"cur", "told"})
  BY <1>3 DEF HasFields
<1>6. scene.over => r.cur.latest = scene.at
  BY <1>0, <1>1, <1>4, <1>5 DEF PlaceKnown, InsideIs
<1>7. PairIs(r) /\ SpriteKept(r) /\ SameSprite(Held, r)
  BY <1>0, <1>1, <1>4, <1>5 DEF PairIs, SpriteKept, SameSprite
<1>8. /\ ~r.cur.inside => r.cur.sent = None
      /\ r.cur.hidden => r.told.pointer = "hidden" /\ r.cur.sent = None
      /\ ~r.cur.hidden /\ r.told.pointer # None /\ r.cur.inside => r.told.pointer = r.cur.sent
  BY <1>0, <1>1, <1>4, <1>5 DEF PlaceTold
<1> QED
  BY <1>1, <1>4, <1>5, <1>6, <1>7, <1>8 DEF InsideIs

\* poll.
LEMMA PolledPlace ==
    ASSUME NEW r, PairIs(r), SpriteKept(r), NEW soon \in BOOLEAN,
           ~r.cur.inside => r.cur.sent = None,
           r.cur.hidden => r.told.pointer = "hidden" /\ r.cur.sent = None,
           ~r.cur.hidden /\ r.told.pointer # None /\ r.cur.inside => r.told.pointer = r.cur.sent,
           NEW q, q = CursorPolled(r, soon)
    PROVE  /\ PairIs(q) /\ SpriteKept(q) /\ SameSprite(r, q) /\ PlaceTold(q)
           /\ q.cur.inside = r.cur.inside /\ q.cur.latest = r.cur.latest /\ q.cur.at = r.cur.at
<1> DEFINE c == r.cur
<1>0. /\ HasFields(r, {"cur", "told"}) /\ HasFields(c, CurFields)
      /\ HasFields(r.told, {"pointer", "sprite", "unavailable"})
      /\ {c.inside, c.hidden, c.frame, c.failed, c.have, r.told.unavailable} \subseteq BOOLEAN
  BY DEF PairIs
<1>1. CASE ~c.inside /\ ~c.hidden
  <2>1. PICK d, t : d = [c EXCEPT !.hidden = TRUE] /\ t = [r.told EXCEPT !.pointer = "hidden"]
    OBVIOUS
  <2>2. /\ HasFields(d, CurFields) /\ d.hidden = TRUE /\ d.inside = c.inside /\ d.sent = c.sent
        /\ d.latest = c.latest /\ d.at = c.at /\ d.frame = c.frame /\ d.failed = c.failed
        /\ d.have = c.have /\ d.buffer = c.buffer
    BY <1>0, <2>1 DEF HasFields, CurFields
  <2>3. /\ HasFields(t, {"pointer", "sprite", "unavailable"}) /\ t.pointer = "hidden"
        /\ t.sprite = r.told.sprite /\ t.unavailable = r.told.unavailable
    BY <1>0, <2>1 DEF HasFields
  <2>4. q = [cur |-> d, told |-> t]
    BY <1>1, <2>1 DEF CursorPolled
  <2>5. q.cur = d /\ q.told = t /\ HasFields(q, {"cur", "told"})
    BY <2>4 DEF HasFields
  <2>6. {d.inside, d.hidden, d.frame, d.failed, d.have, t.unavailable} \subseteq BOOLEAN
    BY <1>0, <2>2, <2>3
  <2>7. PairIs(q)
    BY <2>2, <2>3, <2>5, <2>6 DEF PairIs
  <2>8. SpriteKept(q) /\ SameSprite(r, q)
    BY <2>2, <2>3, <2>5 DEF SpriteKept, SameSprite
  <2>9. PlaceTold(q)
    BY <1>1, <2>2, <2>3, <2>5 DEF PlaceTold
  <2> QED
    BY <2>2, <2>5, <2>7, <2>8, <2>9
<1>2. CASE /\ ~(~c.inside /\ ~c.hidden)
           /\ c.inside /\ c.latest # None /\ c.sent # c.latest /\ ~soon
  <2>1. PICK d, t : /\ d = [c EXCEPT !.sent = c.latest, !.hidden = FALSE]
                    /\ t = [r.told EXCEPT !.pointer = c.latest]
    OBVIOUS
  <2>2. /\ HasFields(d, CurFields) /\ d.hidden = FALSE /\ d.inside = c.inside /\ d.sent = c.latest
        /\ d.latest = c.latest /\ d.at = c.at /\ d.frame = c.frame /\ d.failed = c.failed
        /\ d.have = c.have /\ d.buffer = c.buffer
    BY <1>0, <2>1 DEF HasFields, CurFields
  <2>3. /\ HasFields(t, {"pointer", "sprite", "unavailable"}) /\ t.pointer = c.latest
        /\ t.sprite = r.told.sprite /\ t.unavailable = r.told.unavailable
    BY <1>0, <2>1 DEF HasFields
  <2>4. q = [cur |-> d, told |-> t]
    BY <1>2, <2>1 DEF CursorPolled
  <2>5. q.cur = d /\ q.told = t /\ HasFields(q, {"cur", "told"})
    BY <2>4 DEF HasFields
  <2> QED
    <3>1. PairIs(q)
      <4>1. {d.inside, d.hidden, d.frame, d.failed, d.have, t.unavailable} \subseteq BOOLEAN
        BY <1>0, <2>2, <2>3
      <4> QED
        BY <2>2, <2>3, <2>5, <4>1 DEF PairIs
    <3>2. SpriteKept(q) /\ SameSprite(r, q)
      BY <2>2, <2>3, <2>5 DEF SpriteKept, SameSprite
    <3>3. PlaceTold(q)
      BY <1>2, <2>2, <2>3, <2>5 DEF PlaceTold
    <3> QED
      BY <2>2, <2>5, <3>1, <3>2, <3>3
<1>3. CASE /\ ~(~c.inside /\ ~c.hidden)
           /\ ~(c.inside /\ c.latest # None /\ c.sent # c.latest /\ ~soon)
  <2>1. q = r
    BY <1>3 DEF CursorPolled
  <2> QED
    BY <1>0, <1>3, <2>1 DEF SameSprite, PlaceTold
<1> QED
  BY <1>1, <1>2, <1>3

\* The sprite is given up: what was being fetched is dropped with it.
LEMMA GivenUp ==
    ASSUME NEW r, PairIs(r), SpriteKept(r), ~r.cur.frame, NEW q, q = GivesUpSprite(r)
    PROVE  /\ PairIs(q) /\ SpriteKept(q) /\ SamePlace(r, q)
           /\ q.told.sprite = r.told.sprite /\ q.cur.failed /\ ~q.cur.frame
<1>1. PICK d, t : d = [r.cur EXCEPT !.failed = TRUE] /\ t = [r.told EXCEPT !.unavailable = TRUE]
  OBVIOUS
<1>2. /\ HasFields(d, CurFields) /\ d.failed = TRUE
      /\ d.inside = r.cur.inside /\ d.hidden = r.cur.hidden /\ d.sent = r.cur.sent
      /\ d.latest = r.cur.latest /\ d.at = r.cur.at /\ d.frame = r.cur.frame
      /\ d.have = r.cur.have /\ d.buffer = r.cur.buffer
  BY <1>1 DEF PairIs, HasFields, CurFields
<1>3. /\ HasFields(t, {"pointer", "sprite", "unavailable"}) /\ t.unavailable = TRUE
      /\ t.sprite = r.told.sprite /\ t.pointer = r.told.pointer
  BY <1>1 DEF PairIs, HasFields
<1>4. q.cur = d /\ q.told = t /\ HasFields(q, {"cur", "told"})
  BY <1>1 DEF GivesUpSprite, HasFields
<1>5. PairIs(q)
  <2>1. {d.inside, d.hidden, d.frame, d.failed, d.have, t.unavailable} \subseteq BOOLEAN
    BY <1>2, <1>3 DEF PairIs
  <2> QED
    BY <1>2, <1>3, <1>4, <2>1 DEF PairIs
<1>6. SpriteKept(q) /\ SamePlace(r, q)
  BY <1>2, <1>3, <1>4 DEF SpriteKept, SamePlace
<1> QED
  BY <1>2, <1>3, <1>4, <1>5, <1>6

\* A part that changes the thread only.
LEMMA CurChanges ==
    ASSUME NEW r, PairIs(r), NEW d, HasFields(d, CurFields), NEW q, q = [r EXCEPT !.cur = d],
           {d.inside, d.hidden, d.frame, d.failed, d.have} \subseteq BOOLEAN
    PROVE  PairIs(q) /\ q.cur = d /\ q.told = r.told
BY DEF PairIs, HasFields

\* A buffer that fits.
LEMMA FittedSprite ==
    ASSUME NEW r, PairIs(r), SpriteKept(r), NEW readable \in BOOLEAN, NEW q, q = Fitted(r, readable)
    PROVE  PairIs(q) /\ SpriteKept(q) /\ SamePlace(r, q) /\ q.told.sprite = r.told.sprite
           /\ q.cur.have = r.cur.have /\ (r.cur.failed => q = r)
<1>1. CASE \/ r.cur.failed \/ st.size = None
           \/ (r.cur.buffer # None /\ r.cur.buffer.width = st.size)
  <2>1. q = r
    BY <1>1 DEF Fitted
  <2> QED
    BY <2>1 DEF SamePlace
<1>2. CASE ~(\/ r.cur.failed \/ st.size = None
             \/ (r.cur.buffer # None /\ r.cur.buffer.width = st.size))
  <2>1. PICK c : c = [r.cur EXCEPT !.frame = FALSE, !.buffer = None]
    OBVIOUS
  <2>2. /\ HasFields(c, CurFields) /\ c.frame = FALSE /\ c.buffer = None
        /\ c.inside = r.cur.inside /\ c.hidden = r.cur.hidden /\ c.sent = r.cur.sent
        /\ c.latest = r.cur.latest /\ c.at = r.cur.at /\ c.failed = r.cur.failed
        /\ c.have = r.cur.have
    BY <2>1 DEF PairIs, HasFields, CurFields
  <2>3. {r.cur.inside, r.cur.hidden, r.cur.failed, r.cur.have} \subseteq BOOLEAN
    BY DEF PairIs
  <2>4. CASE readable
    <3>1. PICK b : b = [width |-> st.size, px |-> "nothing"]
      OBVIOUS
    <3>2. BufferIs(b)
      BY <3>1 DEF BufferIs, HasFields, Pixels
    <3>3. PICK d : d = [c EXCEPT !.buffer = b]
      OBVIOUS
    <3>4. /\ HasFields(d, CurFields) /\ d.frame = FALSE /\ d.buffer = b
          /\ d.inside = r.cur.inside /\ d.hidden = r.cur.hidden /\ d.sent = r.cur.sent
          /\ d.latest = r.cur.latest /\ d.at = r.cur.at /\ d.failed = r.cur.failed
          /\ d.have = r.cur.have
      BY <2>2, <3>3 DEF HasFields, CurFields
    <3>5. q = [r EXCEPT !.cur = d]
      BY <1>2, <2>1, <2>4, <3>1, <3>3 DEF Fitted
    <3>6. PairIs(q) /\ q.cur = d /\ q.told = r.told
      <4>1. {d.inside, d.hidden, d.frame, d.failed, d.have} \subseteq BOOLEAN
        BY <2>3, <3>4
      <4> QED
        BY <3>4, <3>5, <4>1, CurChanges
    <3> QED
      BY <1>2, <3>2, <3>4, <3>6 DEF SpriteKept, SamePlace
  <2>5. CASE ~readable
    <3>1. PICK m : m = [r EXCEPT !.cur = c]
      OBVIOUS
    <3>2. PairIs(m) /\ m.cur = c /\ m.told = r.told
      <4>1. {c.inside, c.hidden, c.frame, c.failed, c.have} \subseteq BOOLEAN
        BY <2>2, <2>3
      <4> QED
        BY <2>2, <3>1, <4>1, CurChanges
    <3>3. SpriteKept(m) /\ SamePlace(r, m) /\ ~m.cur.frame
      BY <2>2, <3>2 DEF SpriteKept, SamePlace
    <3>4. q = GivesUpSprite(m)
      BY <1>2, <2>1, <2>5, <3>1 DEF Fitted
    <3>5. /\ PairIs(q) /\ SpriteKept(q) /\ SamePlace(m, q) /\ q.told.sprite = m.told.sprite
      BY <3>2, <3>3, <3>4, GivenUp
    <3>6. q.cur.have = m.cur.have
      BY <3>4, <3>2 DEF GivesUpSprite, PairIs, HasFields, CurFields
    <3> QED
      BY <1>2, <2>2, <3>2, <3>3, <3>5, <3>6 DEF SamePlace
  <2> QED
    BY <2>4, <2>5
<1> QED
  BY <1>1, <1>2

\* The events of the frame before, and the next frame.
LEMMA EmptyIs ==
    ASSUME NEW r, PairIs(r), SpriteKept(r), ~r.cur.frame, NEW q, q = EmptyCopy(r)
    PROVE  PairIs(q) /\ SpriteKept(q) /\ SamePlace(r, q) /\ q.told.sprite = r.told.sprite
           /\ ~q.cur.frame
<1> DEFINE n == IF r.cur.inside /\ ~r.cur.have /\ r.cur.empty <= MaxEmpty
                THEN r.cur.empty + 1 ELSE r.cur.empty
<1>1. PICK c : c = [r.cur EXCEPT !.empty = n]
  OBVIOUS
<1>2. PICK d : d = [c EXCEPT !.stale = TRUE]
  OBVIOUS
<1>3. ASSUME NEW x \in {c, d}
      PROVE  /\ HasFields(x, CurFields) /\ x.frame = r.cur.frame /\ x.buffer = r.cur.buffer
             /\ x.inside = r.cur.inside /\ x.hidden = r.cur.hidden /\ x.sent = r.cur.sent
             /\ x.latest = r.cur.latest /\ x.at = r.cur.at /\ x.failed = r.cur.failed
             /\ x.have = r.cur.have
  BY <1>1, <1>2 DEF PairIs, HasFields, CurFields
<1>4. ASSUME NEW x \in {c, d}, NEW m, m = [r EXCEPT !.cur = x]
      PROVE  PairIs(m) /\ SpriteKept(m) /\ SamePlace(r, m) /\ m.told.sprite = r.told.sprite
             /\ ~m.cur.frame
  <2>1. {x.inside, x.hidden, x.frame, x.failed, x.have} \subseteq BOOLEAN
    BY <1>3 DEF PairIs
  <2>2. PairIs(m) /\ m.cur = x /\ m.told = r.told
    BY <1>3, <1>4, <2>1, CurChanges
  <2> QED
    BY <1>3, <2>2 DEF SpriteKept, SamePlace
<1>5. EmptyCopy(r) = IF n > MaxEmpty /\ ~c.failed THEN GivesUpSprite([r EXCEPT !.cur = c])
                     ELSE [r EXCEPT !.cur = d]
  BY <1>1, <1>2 DEF EmptyCopy
<1>6. CASE q = GivesUpSprite([r EXCEPT !.cur = c])
  <2>1. PICK m : m = [r EXCEPT !.cur = c]
    OBVIOUS
  <2>2. PairIs(m) /\ SpriteKept(m) /\ SamePlace(r, m) /\ m.told.sprite = r.told.sprite /\ ~m.cur.frame
    BY <1>4, <2>1
  <2>3. /\ PairIs(q) /\ SpriteKept(q) /\ SamePlace(m, q) /\ q.told.sprite = m.told.sprite
        /\ ~q.cur.frame
    BY <1>6, <2>1, <2>2, GivenUp
  <2> QED
    BY <2>2, <2>3 DEF SamePlace
<1>7. CASE q = [r EXCEPT !.cur = d]
  BY <1>4, <1>7
<1> QED
  BY <1>5, <1>6, <1>7

LEMMA CopiedIs ==
    ASSUME NEW r, PairIs(r), SpriteKept(r), NEW q, q = Copied(r)
    PROVE  PairIs(q) /\ SpriteKept(q) /\ SamePlace(r, q) /\ ~q.cur.frame
           /\ (r.told.sprite = None => q.told.sprite \in Shapes \cup {None})
<1>1. PICK c : c = [r.cur EXCEPT !.frame = FALSE, !.failures = 0]
  OBVIOUS
<1>2. /\ HasFields(c, CurFields) /\ c.frame = FALSE /\ c.buffer = r.cur.buffer
      /\ c.inside = r.cur.inside /\ c.hidden = r.cur.hidden /\ c.sent = r.cur.sent
      /\ c.latest = r.cur.latest /\ c.at = r.cur.at /\ c.failed = r.cur.failed
      /\ c.have = r.cur.have
      /\ {c.inside, c.hidden, c.frame, c.failed, c.have} \subseteq BOOLEAN
  BY <1>1 DEF PairIs, HasFields, CurFields
<1>3. PICK s : s = [r EXCEPT !.cur = c]
  OBVIOUS
<1>4. PairIs(s) /\ s.cur = c /\ s.told = r.told
  BY <1>2, <1>3, CurChanges
<1>5. SpriteKept(s) /\ SamePlace(r, s) /\ ~s.cur.frame
  BY <1>2, <1>4 DEF SpriteKept, SamePlace
<1>6. CASE q = s
  BY <1>4, <1>5, <1>6
<1>7. CASE c.buffer # None /\ q = EmptyCopy(s)
  <2>1. PairIs(q) /\ SpriteKept(q) /\ SamePlace(s, q) /\ q.told.sprite = s.told.sprite /\ ~q.cur.frame
    BY <1>4, <1>5, <1>7, EmptyIs
  <2> QED
    BY <1>4, <1>5, <2>1 DEF SamePlace
<1>8. CASE /\ c.buffer # None /\ Sends(c, SpriteKind(c.buffer.px))
           /\ q = [cur |-> [c EXCEPT !.have = TRUE, !.last = c.buffer.px],
                   told |-> [s.told EXCEPT !.sprite = c.buffer.px]]
  <2>1. PICK d, t : /\ d = [c EXCEPT !.have = TRUE, !.last = c.buffer.px]
                    /\ t = [s.told EXCEPT !.sprite = c.buffer.px]
    OBVIOUS
  <2>2. /\ HasFields(d, CurFields) /\ d.frame = FALSE /\ d.buffer = c.buffer
        /\ d.inside = c.inside /\ d.hidden = c.hidden /\ d.sent = c.sent
        /\ d.latest = c.latest /\ d.at = c.at /\ d.failed = c.failed /\ d.have = TRUE
    BY <1>2, <2>1 DEF HasFields, CurFields
  <2>3. /\ HasFields(t, {"pointer", "sprite", "unavailable"}) /\ t.sprite = c.buffer.px
        /\ t.pointer = r.told.pointer /\ t.unavailable = r.told.unavailable
    BY <1>4, <2>1 DEF PairIs, HasFields
  <2>4. q.cur = d /\ q.told = t /\ HasFields(q, {"cur", "told"})
    BY <1>8, <2>1 DEF HasFields
  <2>5. c.buffer.px \in Pixels /\ c.buffer.px # None
    BY <1>2, <1>8, CursorThreadAssumption DEF SpriteKept, BufferIs, Pixels
  <2>6. r.told.sprite = None => c.buffer.px \in Shapes
    <3>1. r.told.sprite = None => ~c.have
      BY <1>2 DEF SpriteKept
    <3>2. ~c.have => SpriteKind(c.buffer.px) = "cursor"
      BY <1>8 DEF Sends
    <3>3. SpriteKind(c.buffer.px) = "cursor" => c.buffer.px \in Shapes
      BY <2>5 DEF SpriteKind, Pixels
    <3> QED
      BY <3>1, <3>2, <3>3
  <2>7. PairIs(q)
    <3>1. {d.inside, d.hidden, d.frame, d.failed, d.have, t.unavailable} \subseteq BOOLEAN
      BY <1>2, <2>2, <2>3 DEF PairIs
    <3> QED
      BY <2>2, <2>3, <2>4, <3>1 DEF PairIs
  <2>8. SpriteKept(q)
    BY <1>2, <2>2, <2>3, <2>4, <2>5 DEF SpriteKept
  <2>9. SamePlace(r, q) /\ ~q.cur.frame
    BY <1>2, <2>2, <2>3, <2>4 DEF SamePlace
  <2> QED
    BY <2>3, <2>4, <2>6, <2>7, <2>8, <2>9
<1> QED
  BY <1>1, <1>3, <1>6, <1>7, <1>8 DEF Copied

LEMMA NotCopiedIs ==
    ASSUME NEW r, PairIs(r), SpriteKept(r), NEW q, q = NotCopied(r)
    PROVE  PairIs(q) /\ SpriteKept(q) /\ SamePlace(r, q) /\ ~q.cur.frame
           /\ q.told.sprite = r.told.sprite
<1>1. PICK c, b, n : /\ c = [r.cur EXCEPT !.frame = FALSE]
                     /\ b = [c EXCEPT !.buffer = None]
                     /\ n = [c EXCEPT !.failures = c.failures + 1]
  OBVIOUS
<1>2. ASSUME NEW x \in {b, n}
      PROVE  /\ HasFields(x, CurFields) /\ x.frame = FALSE /\ x.buffer \in {r.cur.buffer, None}
             /\ x.inside = r.cur.inside /\ x.hidden = r.cur.hidden /\ x.sent = r.cur.sent
             /\ x.latest = r.cur.latest /\ x.at = r.cur.at /\ x.failed = r.cur.failed
             /\ x.have = r.cur.have
  BY <1>1 DEF PairIs, HasFields, CurFields
<1>3. ASSUME NEW x \in {b, n}, NEW m, m = [r EXCEPT !.cur = x]
      PROVE  PairIs(m) /\ SpriteKept(m) /\ SamePlace(r, m) /\ m.told.sprite = r.told.sprite
             /\ ~m.cur.frame
  <2>1. {x.inside, x.hidden, x.frame, x.failed, x.have} \subseteq BOOLEAN
    BY <1>2 DEF PairIs
  <2>2. PairIs(m) /\ m.cur = x /\ m.told = r.told
    BY <1>2, <1>3, <2>1, CurChanges
  <2> QED
    BY <1>2, <2>2 DEF SpriteKept, SamePlace
<1>4. CASE q \in {[r EXCEPT !.cur = b], [r EXCEPT !.cur = n]}
  BY <1>3, <1>4
<1>5. CASE q = GivesUpSprite([r EXCEPT !.cur = b])
  <2>1. PICK m : m = [r EXCEPT !.cur = b]
    OBVIOUS
  <2>2. PairIs(m) /\ SpriteKept(m) /\ SamePlace(r, m) /\ m.told.sprite = r.told.sprite /\ ~m.cur.frame
    BY <1>3, <2>1
  <2>3. /\ PairIs(q) /\ SpriteKept(q) /\ SamePlace(m, q) /\ q.told.sprite = m.told.sprite
        /\ ~q.cur.frame
    BY <1>5, <2>1, <2>2, GivenUp
  <2> QED
    BY <2>2, <2>3 DEF SamePlace
<1> QED
  BY <1>1, <1>4, <1>5 DEF NotCopied

\* Copied, not copied, or nothing said; then another frame, if there is none.
LEMMA SpriteIs ==
    ASSUME NEW r, PairIs(r), SpriteKept(r), NEW q, q = Sprite(r)
    PROVE  /\ PairIs(q) /\ SpriteKept(q) /\ SamePlace(r, q)
           /\ r.told.sprite = None => q.told.sprite \in Shapes \cup {None}
           /\ ~st.ready => q.told.sprite = r.told.sprite
<1>1. PICK s : s = IF st.ready THEN Copied(r) ELSE IF st.failed # None THEN NotCopied(r) ELSE r
  OBVIOUS
<1>2. /\ PairIs(s) /\ SpriteKept(s) /\ SamePlace(r, s)
      /\ r.told.sprite = None => s.told.sprite \in Shapes \cup {None}
      /\ ~st.ready => s.told.sprite = r.told.sprite
  <2>1. CASE s = Copied(r) /\ st.ready
    BY <2>1, CopiedIs
  <2>2. CASE s = NotCopied(r) /\ ~st.ready
    BY <2>2, NotCopiedIs
  <2>3. CASE s = r
    BY <2>3 DEF SamePlace
  <2> QED
    BY <1>1, <2>1, <2>2, <2>3
<1>3. PICK f : f = (s.cur.frame \/ (s.cur.buffer # None /\ ~s.cur.failed))
  OBVIOUS
<1>4. PICK d : d = [s.cur EXCEPT !.frame = f]
  OBVIOUS
<1>5. q = [s EXCEPT !.cur = d]
  BY <1>1, <1>3, <1>4 DEF Sprite
<1>6. /\ HasFields(d, CurFields) /\ d.frame = f /\ d.buffer = s.cur.buffer
      /\ d.inside = s.cur.inside /\ d.hidden = s.cur.hidden /\ d.sent = s.cur.sent
      /\ d.latest = s.cur.latest /\ d.at = s.cur.at /\ d.failed = s.cur.failed
      /\ d.have = s.cur.have
  BY <1>2, <1>4 DEF PairIs, HasFields, CurFields
<1>7. f \in BOOLEAN /\ (f => BufferIs(s.cur.buffer) /\ ~s.cur.failed)
  BY <1>2, <1>3 DEF PairIs, SpriteKept
<1>8. PairIs(q) /\ q.cur = d /\ q.told = s.told
  <2>1. {d.inside, d.hidden, d.frame, d.failed, d.have} \subseteq BOOLEAN
    BY <1>2, <1>6, <1>7 DEF PairIs
  <2> QED
    BY <1>2, <1>5, <1>6, <2>1, CurChanges
<1>9. SpriteKept(q)
  BY <1>2, <1>6, <1>7, <1>8 DEF SpriteKept
<1>10. SamePlace(r, q)
  BY <1>2, <1>6, <1>8 DEF SamePlace
<1> QED
  BY <1>2, <1>8, <1>9, <1>10

\* The thread lets go of its buffer: to open the session anew, or for good.
LetsGo(r, q) ==
    /\ q.cur.inside = r.cur.inside /\ q.cur.hidden = r.cur.hidden
    /\ q.cur.latest = r.cur.latest /\ q.cur.sent = r.cur.sent
    /\ q.told = r.told /\ q.cur.failed = r.cur.failed /\ ~q.cur.frame

LEMMA ReopensIs ==
    ASSUME NEW r, PairIs(r), SpriteKept(r), NEW q, q = Reopens(r)
    PROVE  PairIs(q) /\ SpriteKept(q) /\ LetsGo(r, q) /\ q.cur.at = r.cur.at
<1>1. PICK d : d = [r.cur EXCEPT !.stale = FALSE, !.frame = FALSE, !.buffer = None]
  OBVIOUS
<1>2. /\ HasFields(d, CurFields) /\ d.frame = FALSE /\ d.buffer = None
      /\ d.inside = r.cur.inside /\ d.hidden = r.cur.hidden /\ d.sent = r.cur.sent
      /\ d.latest = r.cur.latest /\ d.at = r.cur.at /\ d.failed = r.cur.failed
      /\ d.have = r.cur.have
  BY <1>1 DEF PairIs, HasFields, CurFields
<1>3. {d.inside, d.hidden, d.frame, d.failed, d.have} \subseteq BOOLEAN
  BY <1>2 DEF PairIs
<1>4. q = [r EXCEPT !.cur = d]
  BY <1>1 DEF Reopens
<1>5. PairIs(q) /\ q.cur = d /\ q.told = r.told
  BY <1>2, <1>3, <1>4, CurChanges
<1> QED
  BY <1>2, <1>5 DEF SpriteKept, LetsGo

LEMMA EndedIs ==
    ASSUME NEW r, PairIs(r), SpriteKept(r), NEW q, q = Ended(r)
    PROVE  PairIs(q) /\ SpriteKept(q) /\ LetsGo(r, q) /\ q.cur.at = "done"
<1>1. PICK d : d = [r.cur EXCEPT !.at = "done", !.frame = FALSE, !.buffer = None]
  OBVIOUS
<1>2. /\ HasFields(d, CurFields) /\ d.frame = FALSE /\ d.buffer = None
      /\ d.inside = r.cur.inside /\ d.hidden = r.cur.hidden /\ d.sent = r.cur.sent
      /\ d.latest = r.cur.latest /\ d.at = "done" /\ d.failed = r.cur.failed
      /\ d.have = r.cur.have
  BY <1>1 DEF PairIs, HasFields, CurFields
<1>3. {d.inside, d.hidden, d.frame, d.failed, d.have} \subseteq BOOLEAN
  BY <1>2 DEF PairIs
<1>4. q = [r EXCEPT !.cur = d]
  BY <1>1 DEF Ended
<1>5. PairIs(q) /\ q.cur = d /\ q.told = r.told
  BY <1>2, <1>3, <1>4, CurChanges
<1> QED
  BY <1>2, <1>5 DEF SpriteKept, LetsGo

LEMMA CommitsIs ==
    ASSUME NEW r, Commits(r), PairIs(r), SpriteKept(r), PlaceTold(r)
    PROVE  /\ (PairIs(Held) /\ SpriteKept(Held) /\ PlaceTold(Held))'
           /\ cur' = r.cur /\ told' = r.told
<1>1. r = [cur |-> r.cur, told |-> r.told]
  BY DEF PairIs, HasFields
<1>2. Held' = r
  BY <1>1 DEF Held, Commits
<1> QED
  BY <1>2 DEF Commits, PairIs, SpriteKept, PlaceTold

\* What a step may do to the sprite that was sent.
SpriteSteps ==
    /\ told.sprite = None => told'.sprite \in Shapes \cup {None}
    /\ told.unavailable => told'.sprite = told.sprite

LEMMA LoopKeeps == CursorInv /\ Loop => CursorInv' /\ SpriteSteps
<1> SUFFICES ASSUME CursorInv, Loop PROVE CursorInv' /\ SpriteSteps
  OBVIOUS
<1>0. cur.at = "loop" /\ PairIs(Held) /\ SpriteKept(Held) /\ SceneIs /\ EventsAre
      /\ Held.cur = cur /\ Held.told = told
  BY DEF Loop, Open, CursorInv, Held
<1>1. PICK soon \in BOOLEAN, readable \in BOOLEAN :
        LET r == Sprite(Fitted(CursorPolled([cur |-> CursorMoved(cur), told |-> told], soon), readable))
            over == ~st.ready /\ st.failed = "stopped"
        IN  /\ Commits(IF over THEN Ended(r) ELSE r)
            /\ scene' = [scene EXCEPT !.frame = r.cur.frame /\ ~over]
  BY DEF Loop
<1>2. PICK m, p, f, r :
        /\ m = [cur |-> CursorMoved(cur), told |-> told] /\ p = CursorPolled(m, soon)
        /\ f = Fitted(p, readable) /\ r = Sprite(f)
  OBVIOUS
<1>3. PICK over : over = (~st.ready /\ st.failed = "stopped")
  OBVIOUS
<1>4. /\ Commits(IF over THEN Ended(r) ELSE r)
      /\ scene' = [scene EXCEPT !.frame = r.cur.frame /\ ~over]
  BY <1>1, <1>2, <1>3
<1>5. /\ PairIs(m) /\ SpriteKept(m) /\ SameSprite(Held, m)
      /\ InsideIs(m.cur) /\ m.cur.at = "loop"
      /\ scene.over => m.cur.latest = scene.at
      /\ ~m.cur.inside => m.cur.sent = None
      /\ m.cur.hidden => m.told.pointer = "hidden" /\ m.cur.sent = None
      /\ ~m.cur.hidden /\ m.told.pointer # None /\ m.cur.inside => m.told.pointer = m.cur.sent
  BY <1>0, <1>2, MovedPlace
<1>6. /\ PairIs(p) /\ SpriteKept(p) /\ SameSprite(m, p) /\ PlaceTold(p)
      /\ p.cur.inside = m.cur.inside /\ p.cur.latest = m.cur.latest /\ p.cur.at = m.cur.at
  BY <1>2, <1>5, PolledPlace
<1>7. PairIs(f) /\ SpriteKept(f) /\ SamePlace(p, f) /\ f.told.sprite = p.told.sprite
  BY <1>2, <1>6, FittedSprite
<1>8. /\ PairIs(r) /\ SpriteKept(r) /\ SamePlace(f, r)
      /\ f.told.sprite = None => r.told.sprite \in Shapes \cup {None}
      /\ ~st.ready => r.told.sprite = f.told.sprite
  BY <1>2, <1>7, SpriteIs
<1>9. /\ InsideIs(r.cur) /\ r.cur.at = "loop" /\ PlaceTold(r)
      /\ scene.over => r.cur.latest = scene.at
  BY <1>5, <1>6, <1>7, <1>8 DEF SamePlace, PlaceTold, InsideIs
<1>10. f.told.sprite = told.sprite
  BY <1>0, <1>5, <1>6, <1>7 DEF SameSprite
<1>11. told.unavailable => ~st.ready
  BY <1>0 DEF CursorInv, SpriteKept
<1>12. PICK q : q = IF over THEN Ended(r) ELSE r
  OBVIOUS
<1>13. /\ PairIs(q) /\ SpriteKept(q) /\ PlaceTold(q) /\ q.told = r.told
       /\ q.cur.at = (IF over THEN "done" ELSE "loop")
       /\ InsideIs(q.cur) /\ (scene.over => q.cur.latest = scene.at)
       /\ r.cur.frame /\ ~over => q.cur.frame
  <2>1. CASE over
    <3>1. PairIs(q) /\ SpriteKept(q) /\ LetsGo(r, q) /\ q.cur.at = "done"
      BY <1>8, <1>12, <2>1, EndedIs
    <3> QED
      BY <1>9, <2>1, <3>1 DEF LetsGo, PlaceTold, InsideIs
  <2>2. CASE ~over
    BY <1>8, <1>9, <1>12, <2>2
  <2> QED
    BY <2>1, <2>2
<1>14. /\ (PairIs(Held) /\ SpriteKept(Held) /\ PlaceTold(Held))'
       /\ cur' = q.cur /\ told' = r.told
  BY <1>4, <1>12, <1>13, CommitsIs
<1>15. SpriteSteps
  BY <1>8, <1>10, <1>11, <1>14 DEF SpriteSteps
<1>16. SceneIs' /\ scene'.over = scene.over /\ scene'.at = scene.at
       /\ scene'.missed = scene.missed /\ (scene'.frame => cur'.frame)
  <2>1. r.cur.frame \in BOOLEAN /\ over \in BOOLEAN
    BY <1>3, <1>8 DEF PairIs
  <2>2. PICK b : b = (r.cur.frame /\ ~over)
    OBVIOUS
  <2>3. b \in BOOLEAN /\ (b => cur'.frame)
    BY <1>13, <1>14, <2>1, <2>2
  <2>4. scene' = [scene EXCEPT !.frame = b]
    BY <1>4, <2>2
  <2> QED
    BY <1>0, <2>3, <2>4 DEF SceneIs, HasFields
<1>17. EventsAre' /\ st'.entered = None /\ st'.position = None /\ st'.ready = FALSE
  BY DEF Loop, NoEvents, EventsAre, HasFields
<1>18. PlaceKnown'
  <2>1. scene.missed => ~scene.over
    BY <1>0 DEF CursorInv, PlaceKnown
  <2> QED
    BY <2>1, <1>13, <1>14, <1>16, <1>17, CursorThreadAssumption DEF PlaceKnown, InsideIs
<1> QED
  BY <1>13, <1>14, <1>15, <1>16, <1>17, <1>18 DEF CursorInv

LEMMA LoopReopensKeeps == CursorInv /\ LoopReopens => CursorInv' /\ SpriteSteps
<1> SUFFICES ASSUME CursorInv, LoopReopens PROVE CursorInv' /\ SpriteSteps
  OBVIOUS
<1>0. cur.at = "loop" /\ PairIs(Held) /\ SpriteKept(Held) /\ SceneIs /\ EventsAre
      /\ Held.cur = cur /\ Held.told = told
  BY DEF LoopReopens, Open, CursorInv, Held
<1>1. PICK soon \in BOOLEAN :
        LET r == CursorPolled([cur |-> CursorMoved(cur), told |-> told], soon) IN
        /\ r.cur.stale /\ ~r.cur.failed /\ r.cur.inside
        /\ Commits(Reopens(r))
  BY DEF LoopReopens
<1>2. PICK m, p, q :
        /\ m = [cur |-> CursorMoved(cur), told |-> told] /\ p = CursorPolled(m, soon)
        /\ q = Reopens(p)
  OBVIOUS
<1>3. ~p.cur.failed /\ p.cur.inside /\ Commits(q)
  BY <1>1, <1>2
<1>5. /\ PairIs(m) /\ SpriteKept(m) /\ SameSprite(Held, m)
      /\ InsideIs(m.cur) /\ m.cur.at = "loop"
      /\ scene.over => m.cur.latest = scene.at
      /\ ~m.cur.inside => m.cur.sent = None
      /\ m.cur.hidden => m.told.pointer = "hidden" /\ m.cur.sent = None
      /\ ~m.cur.hidden /\ m.told.pointer # None /\ m.cur.inside => m.told.pointer = m.cur.sent
  BY <1>0, <1>2, MovedPlace
<1>6. /\ PairIs(p) /\ SpriteKept(p) /\ SameSprite(m, p) /\ PlaceTold(p)
      /\ p.cur.inside = m.cur.inside /\ p.cur.latest = m.cur.latest /\ p.cur.at = m.cur.at
  BY <1>2, <1>5, PolledPlace
<1>7. PairIs(q) /\ SpriteKept(q) /\ LetsGo(p, q) /\ q.cur.at = p.cur.at
  BY <1>2, <1>6, ReopensIs
<1>8. PlaceTold(q)
  BY <1>6, <1>7 DEF LetsGo, PlaceTold
<1>9. /\ (PairIs(Held) /\ SpriteKept(Held) /\ PlaceTold(Held))'
      /\ cur' = q.cur /\ told' = q.told
  BY <1>3, <1>7, <1>8, CommitsIs
<1>10. told'.sprite = told.sprite
  BY <1>0, <1>5, <1>6, <1>7, <1>9 DEF SameSprite, LetsGo
<1>11. SpriteSteps
  BY <1>10 DEF SpriteSteps
<1>12. cur'.inside = TRUE /\ (scene.over => cur'.latest = scene.at)
       /\ cur'.at = "loop" /\ ~cur'.failed /\ (scene.over \/ scene.missed)
  BY <1>0, <1>3, <1>5, <1>6, <1>7, <1>9 DEF LetsGo, SceneIs, InsideIs
<1>13. PICK leaves \in {FALSE, scene.over} :
         /\ scene' = [scene EXCEPT !.copied = None, !.frame = FALSE,
                                   !.over = scene.over /\ ~leaves,
                                   !.missed = scene.missed \/ leaves]
         /\ st' = [Greeting(scene.over /\ ~leaves)
                     EXCEPT !.ready = st.ready, !.failed = st.failed]
  BY DEF LoopReopens
<1>14. PICK stays : stays = (scene.over /\ ~leaves)
  OBVIOUS
<1>15. stays \in BOOLEAN /\ leaves \in BOOLEAN /\ (scene.missed => ~scene.over)
  BY <1>0, <1>13, <1>14 DEF SceneIs, CursorInv, PlaceKnown
<1>16. /\ SceneIs' /\ ~scene'.frame /\ scene'.at = scene.at
       /\ scene'.over = stays /\ scene'.missed = (scene.missed \/ leaves)
  BY <1>0, <1>13, <1>14, <1>15 DEF SceneIs, HasFields
<1>17. /\ EventsAre'
       /\ st'.entered = IF stays THEN TRUE ELSE None
       /\ st'.position = IF stays THEN scene.at ELSE None
       /\ st'.ready = st.ready
  BY <1>0, <1>13, <1>14, <1>15 DEF Greeting, NoEvents, EventsAre, HasFields
<1>18. PlaceKnown'
  <2>1. CASE stays
    <3>1. scene.over /\ ~leaves /\ ~scene.missed
      BY <1>13, <1>14, <1>15, <2>1
    <3> QED
      BY <1>0, <1>12, <1>16, <1>17, <2>1, <3>1, CursorThreadAssumption DEF PlaceKnown, SceneIs
  <2>2. CASE ~stays
    <3>1. scene'.over = FALSE /\ scene'.missed
      BY <1>12, <1>13, <1>14, <1>15, <1>16, <2>2
    <3> QED
      BY <1>17, <2>2, <3>1, CursorThreadAssumption DEF PlaceKnown, InsideIs
  <2> QED
    BY <1>15, <2>1, <2>2
<1>19. cur'.failed => ~st'.ready
  BY <1>12
<1> QED
  BY <1>9, <1>11, <1>12, <1>16, <1>17, <1>18, <1>19 DEF CursorInv

LEMMA LoopEndsKeeps == CursorInv /\ LoopEnds => CursorInv' /\ SpriteSteps
<1> SUFFICES ASSUME CursorInv, LoopEnds PROVE CursorInv' /\ SpriteSteps
  OBVIOUS
<1>1. PairIs(Held) /\ SpriteKept(Held) /\ PlaceTold(Held) /\ Held.cur = cur /\ Held.told = told
  BY DEF CursorInv, Held
<1>2. PICK q : q = Ended(Held)
  OBVIOUS
<1>3. PairIs(q) /\ SpriteKept(q) /\ LetsGo(Held, q) /\ q.cur.at = "done"
  BY <1>1, <1>2, EndedIs
<1>4. PlaceTold(q)
  BY <1>1, <1>3 DEF LetsGo, PlaceTold
<1>5. Commits(q)
  BY <1>2 DEF LoopEnds, Held
<1>6. /\ (PairIs(Held) /\ SpriteKept(Held) /\ PlaceTold(Held))'
      /\ cur' = q.cur /\ told' = q.told
  BY <1>3, <1>4, <1>5, CommitsIs
<1>7. SceneIs' /\ ~scene'.frame /\ EventsAre' /\ st'.ready = st.ready
  BY DEF LoopEnds, CursorInv, SceneIs, EventsAre, HasFields
<1>8. cur'.at = "done" /\ cur'.failed = cur.failed /\ told' = told
  BY <1>1, <1>3, <1>6 DEF LetsGo
<1> QED
  BY <1>6, <1>7, <1>8 DEF CursorInv, SpriteSteps

\* The compositor's steps, but the copy.
LEMMA SceneKeeps ==
    CursorInv /\ (Enters \/ PointerMoves \/ PointerLeaves \/ ShapeChanges \/ FailsSprite
                  \/ StopsSession)
        => CursorInv' /\ SpriteSteps
<1> SUFFICES ASSUME CursorInv, UNCHANGED <<cur, told>>, cur.at = "loop",
                    Enters \/ PointerMoves \/ PointerLeaves \/ ShapeChanges \/ FailsSprite
                    \/ StopsSession
             PROVE CursorInv' /\ SpriteSteps
  BY DEF Enters, PointerMoves, PointerLeaves, ShapeChanges, FailsSprite, StopsSession, Open
<1>1. PairIs(Held) /\ SpriteKept(Held) /\ PlaceTold(Held) /\ Held' = Held
  BY DEF CursorInv, Held
<1>2. SceneIs /\ EventsAre /\ PlaceKnown
  BY DEF CursorInv
<1>3. SceneIs' /\ EventsAre' /\ PlaceKnown' /\ (scene'.frame => scene.frame) /\ st'.ready = st.ready
  <2>1. CASE Enters
    <3>1. PICK s \in CursorSpots :
            /\ scene' = [scene EXCEPT !.over = TRUE, !.at = s, !.missed = FALSE]
            /\ st' = [st EXCEPT !.entered = TRUE, !.position = s]
      BY <2>1 DEF Enters
    <3>2. /\ SceneIs' /\ scene'.over = TRUE /\ scene'.at = s /\ scene'.frame = scene.frame
          /\ scene'.missed = FALSE
          /\ EventsAre' /\ st'.entered = TRUE /\ st'.position = s /\ st'.ready = st.ready
      BY <1>2, <3>1 DEF SceneIs, EventsAre, HasFields
    <3> QED
      BY <3>2, CursorThreadAssumption DEF PlaceKnown
  <2>2. CASE PointerMoves
    BY <1>2, <2>2, CursorThreadAssumption
    DEF PointerMoves, SceneIs, EventsAre, HasFields, PlaceKnown, InsideIs
  <2>3. CASE PointerLeaves
    BY <1>2, <2>3, CursorThreadAssumption
    DEF PointerLeaves, SceneIs, EventsAre, HasFields, PlaceKnown, InsideIs
  <2>4. CASE ShapeChanges
    <3>1. PICK i, width :
            /\ i \in Shapes \cup {"clear"}
            /\ scene' = [scene EXCEPT !.image = i, !.width = width]
            /\ st' = [st EXCEPT !.size = width] \/ st' = st
      BY <2>4 DEF ShapeChanges
    <3> QED
      BY <1>2, <3>1 DEF SceneIs, EventsAre, HasFields, PlaceKnown, InsideIs
  <2>5. CASE FailsSprite
    BY <1>2, <2>5 DEF FailsSprite, SceneIs, EventsAre, HasFields, PlaceKnown, InsideIs
  <2>6. CASE StopsSession
    BY <1>2, <2>6 DEF StopsSession, SceneIs, EventsAre, HasFields, PlaceKnown, InsideIs
  <2> QED
    BY <2>1, <2>2, <2>3, <2>4, <2>5, <2>6
<1>4. (PairIs(Held) /\ SpriteKept(Held) /\ PlaceTold(Held))'
  BY <1>1 DEF PairIs, SpriteKept, PlaceTold
<1> QED
  BY <1>3, <1>4 DEF CursorInv, SpriteSteps

\* The copy is put into the buffer the frame was asked for, which is there.
LEMMA CopiesSpriteKeeps == CursorInv /\ CopiesSprite => CursorInv' /\ SpriteSteps
<1> SUFFICES ASSUME CursorInv, CopiesSprite PROVE CursorInv' /\ SpriteSteps
  OBVIOUS
<1>1. PairIs(Held) /\ SpriteKept(Held) /\ PlaceTold(Held) /\ Held.cur = cur /\ Held.told = told
      /\ SceneIs /\ EventsAre /\ PlaceKnown /\ cur.at = "loop" /\ cur.frame /\ told' = told
  BY DEF CursorInv, Held, CopiesSprite, Open
<1>2. HasFields(cur, CurFields) /\ BufferIs(cur.buffer) /\ ~cur.failed
  BY <1>1 DEF PairIs, SpriteKept
<1>3. PICK px : px = IF scene.over THEN scene.image ELSE "placeholder"
  OBVIOUS
<1>4. px \in Pixels
  BY <1>1, <1>3 DEF SceneIs, Pixels
<1>5. PICK b : b = [cur.buffer EXCEPT !.px = px]
  OBVIOUS
<1>6. BufferIs(b)
  BY <1>2, <1>4, <1>5 DEF BufferIs, HasFields
<1>7. cur' = [cur EXCEPT !.buffer = b]
  BY <1>3, <1>5 DEF CopiesSprite
<1>8. /\ HasFields(cur', CurFields) /\ cur'.buffer = b
      /\ cur'.inside = cur.inside /\ cur'.hidden = cur.hidden /\ cur'.sent = cur.sent
      /\ cur'.latest = cur.latest /\ cur'.at = cur.at /\ cur'.failed = cur.failed
      /\ cur'.have = cur.have /\ cur'.frame = cur.frame
  BY <1>2, <1>7 DEF HasFields, CurFields
<1>9. PICK q : q = [cur |-> cur', told |-> told]
  OBVIOUS
<1>10. q.cur = cur' /\ q.told = told /\ HasFields(q, {"cur", "told"})
  BY <1>9 DEF HasFields
<1>11. PairIs(q) /\ SpriteKept(q) /\ PlaceTold(q)
  <2>1. PairIs(q)
    <3>1. {cur'.inside, cur'.hidden, cur'.frame, cur'.failed, cur'.have, told.unavailable}
         \subseteq BOOLEAN
      BY <1>1, <1>8 DEF PairIs
    <3>2. HasFields(told, {"pointer", "sprite", "unavailable"})
      BY <1>1 DEF PairIs
    <3> QED
      BY <1>8, <1>10, <3>1, <3>2 DEF PairIs
  <2>2. SpriteKept(q)
    BY <1>1, <1>2, <1>6, <1>8, <1>10 DEF SpriteKept
  <2>3. PlaceTold(q)
    BY <1>1, <1>8, <1>10 DEF PlaceTold
  <2> QED
    BY <2>1, <2>2, <2>3
<1>13. (PairIs(Held) /\ SpriteKept(Held) /\ PlaceTold(Held))'
  <2>1. Held' = q
    BY <1>1, <1>9 DEF Held
  <2> QED
    BY <1>11, <2>1 DEF PairIs, SpriteKept, PlaceTold
<1>14. SceneIs' /\ scene'.over = scene.over /\ scene'.at = scene.at /\ ~scene'.frame
       /\ scene'.missed = scene.missed
  BY <1>1 DEF CopiesSprite, SceneIs, HasFields
<1>15. EventsAre' /\ st'.entered = st.entered /\ st'.position = st.position
  BY <1>1 DEF CopiesSprite, EventsAre, HasFields
<1>16. PlaceKnown'
  BY <1>1, <1>8, <1>14, <1>15 DEF PlaceKnown, InsideIs
<1> QED
  BY <1>1, <1>2, <1>8, <1>13, <1>14, <1>15, <1>16 DEF CursorInv, SpriteSteps

\* CursorThread::spawn and stop.
LEMMA OwnerKeeps ==
    CursorInv /\ (SetUp \/ SetUpFails \/ SpawnTimesOut \/ StopsThread \/ JoinsThread)
        => CursorInv' /\ SpriteSteps
<1> SUFFICES ASSUME CursorInv, SetUp \/ SetUpFails \/ SpawnTimesOut \/ StopsThread \/ JoinsThread
             PROVE CursorInv' /\ SpriteSteps
  OBVIOUS
<1>1. PairIs(Held) /\ SpriteKept(Held) /\ PlaceTold(Held) /\ Held.cur = cur /\ Held.told = told
      /\ SceneIs /\ EventsAre
  BY DEF CursorInv, Held
<1>2. scene' = scene /\ told' = told
  BY DEF SetUp, SetUpFails, SpawnTimesOut, StopsThread, JoinsThread
<1>3. /\ HasFields(cur', CurFields) /\ cur'.buffer = cur.buffer
      /\ cur'.inside = cur.inside /\ cur'.hidden = cur.hidden /\ cur'.sent = cur.sent
      /\ cur'.latest = cur.latest /\ cur'.failed = cur.failed
      /\ cur'.have = cur.have /\ cur'.frame = cur.frame
      /\ \/ cur'.at = cur.at /\ st' = st
         \/ cur'.at = "done" /\ st' = st
         \/ cur.at = "setup" /\ cur'.at = "loop" /\ st' = Greeting(scene.over)
  <2>1. HasFields(cur, CurFields)
    BY <1>1 DEF PairIs
  <2>2. CASE SetUp
    BY <2>1, <2>2 DEF SetUp, HasFields, CurFields
  <2>3. CASE SetUpFails
    BY <2>1, <2>3 DEF SetUpFails, HasFields, CurFields
  <2>4. CASE SpawnTimesOut
    BY <2>1, <2>4 DEF SpawnTimesOut, HasFields, CurFields
  <2>5. CASE StopsThread
    BY <2>1, <2>5 DEF StopsThread, HasFields, CurFields
  <2>6. CASE JoinsThread
    BY <2>1, <2>6 DEF JoinsThread, HasFields, CurFields
  <2> QED
    BY <2>2, <2>3, <2>4, <2>5, <2>6
<1>4. PICK q : q = [cur |-> cur', told |-> told]
  OBVIOUS
<1>5. q.cur = cur' /\ q.told = told /\ HasFields(q, {"cur", "told"})
  BY <1>4 DEF HasFields
<1>6. PairIs(q) /\ SpriteKept(q) /\ PlaceTold(q)
  <2>1. PairIs(q)
    <3>1. {cur'.inside, cur'.hidden, cur'.frame, cur'.failed, cur'.have, told.unavailable}
         \subseteq BOOLEAN
      BY <1>1, <1>3 DEF PairIs
    <3>2. HasFields(told, {"pointer", "sprite", "unavailable"})
      BY <1>1 DEF PairIs
    <3> QED
      BY <1>3, <1>5, <3>1, <3>2 DEF PairIs
  <2>2. SpriteKept(q)
    BY <1>1, <1>3, <1>5 DEF SpriteKept
  <2>3. PlaceTold(q)
    BY <1>1, <1>3, <1>5 DEF PlaceTold
  <2> QED
    BY <2>1, <2>2, <2>3
<1>7. (PairIs(Held) /\ SpriteKept(Held) /\ PlaceTold(Held))'
  <2>1. Held' = q
    BY <1>2, <1>4 DEF Held
  <2> QED
    BY <1>6, <2>1 DEF PairIs, SpriteKept, PlaceTold
<1>8. SceneIs' /\ (scene'.frame => cur'.frame)
  BY <1>1, <1>2, <1>3 DEF SceneIs, CursorInv
<1>9. SpriteSteps
  BY <1>2 DEF SpriteSteps
<1>10. CASE st' = st /\ cur'.at \in {cur.at, "done"}
  <2>1. EventsAre' /\ (cur'.failed => ~st'.ready)
    BY <1>1, <1>3, <1>10 DEF EventsAre, CursorInv
  <2>2. cur'.at = "loop" => PlaceKnown'
    BY <1>2, <1>3, <1>10 DEF PlaceKnown, InsideIs, CursorInv
  <2>3. cur'.at = "setup" => ~cur'.inside /\ ~scene'.over /\ ~cur'.failed /\ ~cur'.frame
    BY <1>2, <1>3, <1>10 DEF CursorInv
  <2> QED
    BY <1>7, <1>8, <1>9, <2>1, <2>2, <2>3 DEF CursorInv
<1>11. CASE cur.at = "setup" /\ cur'.at = "loop" /\ st' = Greeting(scene.over)
  <2>1. scene.over = FALSE /\ cur.inside = FALSE /\ ~cur.failed
    BY <1>11 DEF CursorInv, SceneIs, PairIs, Held
  <2>2. EventsAre' /\ st'.entered = None /\ st'.ready = FALSE
    BY <1>11, <2>1 DEF Greeting, NoEvents, EventsAre, HasFields
  <2>3. PlaceKnown'
    BY <1>2, <1>3, <2>1, <2>2, CursorThreadAssumption DEF PlaceKnown, InsideIs
  <2> QED
    BY <1>3, <1>7, <1>8, <1>9, <1>11, <2>2, <2>3 DEF CursorInv
<1> QED
  BY <1>3, <1>10, <1>11

LEMMA CursorBegins == CursorInit => CursorInv
<1> SUFFICES ASSUME CursorInit PROVE CursorInv
  OBVIOUS
<1>1. SceneIs /\ scene.over = FALSE /\ scene.frame = FALSE
  BY DEF CursorInit, SceneIs, HasFields
<1>2. EventsAre /\ st.ready = FALSE
  BY DEF CursorInit, NoEvents, EventsAre, HasFields
<1>3. /\ HasFields(cur, CurFields) /\ cur.at = "setup" /\ cur.inside = FALSE /\ cur.hidden = FALSE
      /\ cur.sent = None /\ cur.buffer = None /\ cur.frame = FALSE /\ cur.failed = FALSE
      /\ cur.have = FALSE
  BY DEF CursorInit, HasFields, CurFields
<1>4. /\ HasFields(told, {"pointer", "sprite", "unavailable"})
      /\ told.pointer = None /\ told.sprite = None /\ told.unavailable = FALSE
  BY DEF CursorInit, HasFields
<1>5. Held.cur = cur /\ Held.told = told /\ HasFields(Held, {"cur", "told"})
  BY DEF Held, HasFields
<1>6. PairIs(Held)
  BY <1>3, <1>4, <1>5 DEF PairIs
<1>7. SpriteKept(Held) /\ PlaceTold(Held)
  BY <1>3, <1>4, <1>5 DEF SpriteKept, PlaceTold
<1> QED
  BY <1>1, <1>2, <1>3, <1>6, <1>7 DEF CursorInv

LEMMA CursorSteps == CursorInv /\ [CursorNext]_cursorVars => CursorInv' /\ SpriteSteps
<1> SUFFICES ASSUME CursorInv, [CursorNext]_cursorVars PROVE CursorInv' /\ SpriteSteps
  OBVIOUS
<1>1. CASE CursorNext
  BY <1>1, SceneKeeps, CopiesSpriteKeeps, LoopKeeps, LoopReopensKeeps, LoopEndsKeeps, OwnerKeeps
  DEF CursorNext
<1>2. CASE UNCHANGED cursorVars
  <2>1. Held' = Held
    BY <1>2 DEF cursorVars, Held
  <2>2. SpriteSteps
    BY <1>2 DEF cursorVars, SpriteSteps
  <2> QED
    BY <1>2, <2>1, <2>2
    DEF cursorVars, CursorInv, SceneIs, EventsAre, PlaceKnown, InsideIs, PairIs, SpriteKept, PlaceTold
<1> QED
  BY <1>1, <1>2

\* The pointer a receiver is shown is the output's, at rest, whatever was
\* coalesced, if it is on the output or was heard to leave it; the first image
\* it is sent is a cursor; and none comes after the thread gave up (CursorLoop
\* of wayland/cursor.rs).
THEOREM PointerIsTheOutputs == CursorSpec => PointerIsTrue
<1>1. CursorInv => PointerShown
  <2> SUFFICES ASSUME CursorInv, Idle, told.pointer # None, ~scene.missed
               PROVE told.pointer = IF scene.over THEN scene.at ELSE "hidden"
    BY DEF PointerShown, ShownRight
  <2>1. PlaceKnown /\ PlaceTold(Held) /\ Held.cur = cur /\ Held.told = told
    BY DEF CursorInv, Idle, Held
  <2>2. scene.over \in BOOLEAN /\ scene.at # None /\ cur.inside \in BOOLEAN
    BY <2>1, CursorThreadAssumption DEF CursorInv, SceneIs, PairIs
  <2>3. cur.inside = scene.over /\ (scene.over => cur.latest = scene.at) /\ cur.sent = cur.latest
    BY <2>1, <2>2 DEF PlaceKnown, InsideIs, Idle
  <2> QED
    BY <2>1, <2>2, <2>3 DEF PlaceTold
<1>2. CursorInv /\ [CursorNext]_cursorVars => CursorInv'
  BY CursorSteps
<1>3. CursorInv /\ [CursorNext]_cursorVars
        => [told.sprite = None => told'.sprite \in Shapes \cup {None}]_cursorVars
           /\ [told.unavailable => told'.sprite = told.sprite]_cursorVars
  BY CursorSteps DEF SpriteSteps
<1> QED
  BY <1>1, <1>2, <1>3, CursorBegins, PTL
  DEF CursorSpec, PointerIsTrue, FirstSpriteIsReal, GivenUpIsFinal

-----------------------------------------------------------------------------
(* The newest-wins channel (Latest).                                       *)

\* What the slot holds is the newest value, and a sender that is gone stays
\* gone.
Newest ==
    /\ value \in {sent, None}
    /\ ~senderAlive => tx \in {"last", "gone"}

LatestInv == LatestTypeOK /\ Newest

-----------------------------------------------------------------------------
LEMMA InvInit == LatestInit => LatestInv
  BY LatestAssumption DEF LatestInit, LatestInv, LatestTypeOK, Newest

LEMMA InvKept == LatestInv /\ [LatestNext]_channelVars => LatestInv'
<1> SUFFICES ASSUME LatestInv, [LatestNext]_channelVars PROVE LatestInv'
  OBVIOUS
<1> USE LatestAssumption DEF LatestInv, LatestTypeOK, Newest
<1>1. ASSUME NEW v \in Values, Send(v) PROVE LatestInv'
  BY <1>1 DEF Send
<1>2. CASE Drop
  BY <1>2 DEF Drop
<1>3. CASE TxLocks
  BY <1>3 DEF TxLocks
<1>4. CASE Stores
  BY <1>4 DEF Stores
<1>5. CASE SenderGone
  BY <1>5 DEF SenderGone
<1>6. CASE NotifyOne
  BY <1>6 DEF NotifyOne
<1>7. CASE Receive
  BY <1>7 DEF Receive
<1>8. CASE RxLocks
  BY <1>8 DEF RxLocks
<1>9. CASE Takes
  BY <1>9 DEF Takes, Returns
<1>10. CASE Disconnects \/ RunsOut
  BY <1>10 DEF Disconnects, RunsOut, Returns
<1>11. CASE Waits \/ WakesUp
  BY <1>11 DEF Waits, WakesUp
<1>12. CASE UNCHANGED channelVars
  BY <1>12 DEF channelVars
<1> QED
  BY <1>1, <1>2, <1>3, <1>4, <1>5, <1>6, <1>7, <1>8, <1>9, <1>10, <1>11, <1>12
  DEF LatestNext, Tx, Rx

LEMMA InvHolds == LatestSpec => []LatestInv
  BY InvInit, InvKept, PTL DEF LatestSpec

(* The types, that a thread that sends has a value, and that the mutex is  *)
(* held between lock and unlock and nowhere else (send, recv_timeout).     *)
THEOREM LatestTyped == LatestSpec => []LatestTypeOK
<1>1. LatestInv => LatestTypeOK
  BY DEF LatestInv
<1> QED
  BY <1>1, InvHolds, PTL

-----------------------------------------------------------------------------
\* Locking, waiting and notifying are invisible; a store puts, and each
\* return of recv_timeout takes, finds the sender gone or runs out of time.
LEMMA StepMaps ==
    LatestInv /\ [LatestNext]_channelVars => [Slot!SlotNext]_<<value, sent, senderAlive, result>>
<1> SUFFICES ASSUME LatestInv, [LatestNext]_channelVars
             PROVE  [Slot!SlotNext]_<<value, sent, senderAlive, result>>
  OBVIOUS
<1> USE LatestAssumption DEF LatestInv, LatestTypeOK, Newest
<1>1. CASE Stores
  <2>1. Slot!Put(item) /\ item \in Values
    BY <1>1 DEF Stores, Slot!Put
  <2> QED
    BY <2>1 DEF Slot!SlotNext
<1>2. CASE SenderGone
  BY <1>2 DEF SenderGone, Slot!SlotNext, Slot!Close
<1>3. CASE Takes
  BY <1>3 DEF Takes, Returns, Slot!SlotNext, Slot!Take
<1>4. CASE Disconnects
  BY <1>4 DEF Disconnects, Returns, Slot!SlotNext, Slot!Disconnected
<1>5. CASE RunsOut
  BY <1>5 DEF RunsOut, Returns, Slot!SlotNext, Slot!TimedOut
<1>6. ASSUME UNCHANGED <<value, sent, senderAlive, result>>
      PROVE  [Slot!SlotNext]_<<value, sent, senderAlive, result>>
  BY <1>6
<1>7. ASSUME NEW v \in Values, Send(v) PROVE UNCHANGED <<value, sent, senderAlive, result>>
  BY <1>7 DEF Send
<1>8. ASSUME Drop \/ TxLocks \/ NotifyOne \/ Receive \/ RxLocks \/ Waits \/ WakesUp
      PROVE  UNCHANGED <<value, sent, senderAlive, result>>
  BY <1>8 DEF Drop, TxLocks, NotifyOne, Receive, RxLocks, Waits, WakesUp
<1>9. CASE UNCHANGED channelVars
  BY <1>9, <1>6 DEF channelVars
<1> QED
  BY <1>1, <1>2, <1>3, <1>4, <1>5, <1>6, <1>7, <1>8, <1>9 DEF LatestNext, Tx, Rx

(* latest.rs implements the slot its comment promises: the encoder never   *)
(* gets a picture that a newer one had replaced, and the last one is       *)
(* delivered before the end is reported.                                   *)
THEOREM ImplementsSlot == LatestSpec => NewestWins
<1>1. LatestInit => Slot!SlotInit
  BY DEF LatestInit, Slot!SlotInit
<1> QED
  BY <1>1, InvHolds, StepMaps, PTL DEF LatestSpec, NewestWins, Slot!SlotSpec

-----------------------------------------------------------------------------
(* The convert stage.                                                      *)

\* Pictures are in conversion only once the stage is bound, which it remains,
\* and none is once the thread is gone.
OnceBound ==
    /\ stage.bound => stage.format = "fits"
    /\ stage.alive /\ (stage.entry # None \/ stage.conv # None)
         => stage.bound
    /\ ~stage.alive => stage.conv = None

\* No picture that may yet move is on the way behind the newest, unless that
\* one passed it: from the entry to the encoder, each place before the one
\* that holds it is empty.
NothingBehind ==
    LET Clear(p) == stage[p] = None
        entered == stage.alive => Clear("entry")
    IN  ~stage.passed =>
        /\ stage.newest # "overtaken"
        /\ stage.newest = "entry" => ~Clear("entry") /\ stage.alive
        /\ stage.newest = "conv" => ~Clear("conv") /\ entered
        /\ stage.newest = "slot" => ~Clear("slot") /\ entered /\ Clear("conv")
        /\ stage.newest = "pending" =>
             ~Clear("pending") /\ entered /\ Clear("conv") /\ Clear("slot")
        /\ stage.newest = "busy" =>
             ~Clear("busy") /\ entered /\ Clear("conv") /\ Clear("slot") /\ Clear("pending")
        /\ stage.newest = "last" =>
             /\ ~Clear("last") /\ entered
             /\ Clear("conv") /\ Clear("slot") /\ Clear("pending") /\ Clear("busy")

StageInv == StageTypeOK /\ OnceBound /\ NothingBehind

LEMMA StageStep ==
    ASSUME StageInv, [StageNext]_stage
    PROVE  StageInv'
<1> USE StageAssumption DEF StageInv, OnceBound, NothingBehind
<1>1. CASE SinkFrame
  <2>1. PICK width \in Widths :
           LET to == IF Staged(width) THEN "entry" ELSE "slot"
           IN  stage' = [stage EXCEPT ![to] = "rgb", !.newest = to, !.passed = Passes(width)]
    BY <1>1 DEF SinkFrame
  <2> DEFINE past == Passes(width)
  <2>2. past \in BOOLEAN
    BY DEF Passes, StageTypeOK
  <2>3. CASE Staged(width)
    <3>1. stage' = [stage EXCEPT !["entry"] = "rgb", !.newest = "entry", !.passed = past]
      BY <2>1, <2>3
    <3>2. stage.bound /\ stage.alive
      BY <2>3 DEF Staged, StageTypeOK
    <3> HIDE DEF past
    <3> QED
      BY <2>2, <3>1, <3>2 DEF StageTypeOK, StagePlaces
  <2>4. CASE ~Staged(width)
    <3>1. stage' = [stage EXCEPT !["slot"] = "rgb", !.newest = "slot", !.passed = past]
      BY <2>1, <2>4
    <3>2. ~past => stage.conv = None /\ (stage.alive => stage.entry = None)
      BY <2>4 DEF Staged, Passes, Widths, StageTypeOK
    <3> HIDE DEF past
    <3> QED
      BY <2>2, <3>1, <3>2 DEF StageTypeOK, StagePlaces
  <2> QED
    BY <2>3, <2>4
<1>2. CASE StageTakes
  BY <1>2 DEF StageTakes, Moved, StageTypeOK, StagePlaces
<1>3. CASE StageConverts
  BY <1>3 DEF StageConverts, Moved, StageTypeOK, StagePlaces
<1>4. CASE StageFails
  BY <1>4 DEF StageFails, Moved, StageTypeOK, StagePlaces
<1>5. CASE StageDies
  BY <1>5 DEF StageDies, StageTypeOK, StagePlaces
<1>6. CASE EncoderTakes
  BY ZenonT(30), <1>6 DEF EncoderTakes, Moved, StageTypeOK, StagePlaces
<1>7. CASE EncoderBegins
  <2> DEFINE fits == stage.format = "fits"
             where == Moved("pending", "busy")
  <2>1. /\ stage' = [stage EXCEPT !.busy = stage.pending, !.pending = None,
                                 !.bound = fits, !.newest = where]
        /\ stage.busy = None /\ stage.pending # None
    BY <1>7 DEF EncoderBegins
  <2>2. /\ fits \in BOOLEAN /\ (fits => stage.format = "fits") /\ (stage.bound => fits)
        /\ where \in StagePlaces \cup {None, "failed", "overtaken"}
        /\ ~stage.passed => where = IF stage.newest = "pending" THEN "busy" ELSE stage.newest
        /\ ~stage.passed => stage.newest # "busy"
    BY <2>1 DEF Moved, StageTypeOK, StagePlaces
  <2> HIDE DEF fits, where
  <2>3. /\ StageTypeOK'
        /\ stage'.entry = stage.entry /\ stage'.conv = stage.conv /\ stage'.slot = stage.slot
        /\ stage'.pending = None /\ stage'.busy = stage.pending /\ stage'.last = stage.last
        /\ stage'.format = stage.format /\ stage'.bound = fits /\ stage'.alive = stage.alive
        /\ stage'.newest = where /\ stage'.passed = stage.passed
    BY <2>1, <2>2 DEF StageTypeOK
  <2>4. OnceBound'
    BY <2>2, <2>3
  <2>5. NothingBehind'
    <3> SUFFICES ASSUME ~stage.passed PROVE NothingBehind'
      BY <2>3
    <3>1. CASE stage.newest = "pending"
      BY <2>1, <2>2, <2>3, <3>1
    <3>2. CASE stage.newest # "pending"
      BY <2>1, <2>2, <2>3, <3>2
    <3> QED
      BY <3>1, <3>2
  <2> QED
    BY <2>3, <2>4, <2>5
<1>8. CASE EncoderOpenFails
  BY ZenonT(30), <1>8 DEF EncoderOpenFails, Moved, StageTypeOK, StagePlaces
<1>9. CASE EncoderReplays
  BY <1>9 DEF EncoderReplays, Moved, StageTypeOK, StagePlaces
<1>10. CASE EncoderEnds
  BY ZenonT(30), <1>10 DEF EncoderEnds, Moved, StageTypeOK, StagePlaces
<1>11. CASE UNCHANGED stage
  BY <1>11 DEF StageTypeOK
<1> QED
  BY <1>1, <1>2, <1>3, <1>4, <1>5, <1>6, <1>7, <1>8, <1>9, <1>10, <1>11 DEF StageNext

\* The newest picture is not replaced by an older one, for every number of
\* leases and whatever the widths, unless it is a narrow one that passed wide
\* ones.
THEOREM NewestIsKept == StageSpec => []NewestKept
<1>1. StageInit => StageInv
  BY StageAssumption DEF StageInit, StageInv, StageTypeOK, OnceBound, NothingBehind, StagePlaces
<1>2. StageInv /\ [StageNext]_stage => StageInv'
  BY StageStep
<1>3. StageInv => NewestKept
  BY DEF StageInv, NothingBehind, NewestKept
<1> QED
  BY <1>1, <1>2, <1>3, PTL DEF StageSpec
\* A picture waits for the rate cap only while the encoder has none.
OneAtATime == stage.pending = None \/ stage.busy = None

LEMMA AtMostThree ==
    ASSUME NEW a, NEW b, NEW c, NEW S \in SUBSET {a, b, c}
    PROVE  Cardinality(S) \in Nat /\ Cardinality(S) <= 3
<1>1. IsFiniteSet({a}) /\ Cardinality({a}) \in 0 .. 1
  BY FS_Singleton
<1>2. IsFiniteSet({a, b}) /\ Cardinality({a, b}) \in 0 .. 2
  <2>1. {a, b} = {a} \cup {b}
    OBVIOUS
  <2> QED
    BY <1>1, <2>1, FS_AddElement
<1>3. IsFiniteSet({a, b, c}) /\ Cardinality({a, b, c}) \in 0 .. 3
  <2>1. {a, b, c} = {a, b} \cup {c}
    OBVIOUS
  <2> QED
    BY <1>2, <2>1, FS_AddElement
<1>4. Cardinality(S) <= Cardinality({a, b, c}) /\ IsFiniteSet(S)
  BY <1>3, FS_Subset
<1> QED
  BY <1>3, <1>4, FS_CardinalityType

\* MAX_BUFFERS, 4, is enough: whatever the widths, while no picture is in the
\* convert stage a buffer is left for the capture, however slow the encoder.
THEOREM CaptureHasABuffer == ASSUME LeaseLimit >= 4 PROVE StageSpec => []CaptureKeepsPace
<1> USE StageAssumption
<1>1. StageInit => StageTypeOK /\ OneAtATime
  BY DEF StageInit, StageTypeOK, StagePlaces, OneAtATime
<1>2. ASSUME StageTypeOK, OneAtATime, [StageNext]_stage
      PROVE  StageTypeOK' /\ OneAtATime'
  <2> USE <1>2 DEF OneAtATime
  <2>1. CASE SinkFrame
    <3>1. PICK to \in {"entry", "slot"}, past \in BOOLEAN :
             stage' = [stage EXCEPT ![to] = "rgb", !.newest = to, !.passed = past]
      <4>1. \A width \in Widths : Passes(width) \in BOOLEAN
        BY DEF Passes, StageTypeOK
      <4> QED
        BY <2>1, <4>1 DEF SinkFrame
    <3>2. CASE to = "entry"
      BY <3>1, <3>2 DEF StageTypeOK, StagePlaces
    <3>3. CASE to = "slot"
      BY <3>1, <3>3 DEF StageTypeOK, StagePlaces
    <3> QED
      BY <3>1, <3>2, <3>3
  <2>2. CASE StageTakes
    BY <2>2 DEF StageTakes, Moved, StageTypeOK, StagePlaces
  <2>3. CASE StageConverts
    BY <2>3 DEF StageConverts, Moved, StageTypeOK, StagePlaces
  <2>4. CASE StageFails
    BY <2>4 DEF StageFails, Moved, StageTypeOK, StagePlaces
  <2>5. CASE StageDies
    BY <2>5 DEF StageDies, Moved, StageTypeOK, StagePlaces
  <2>6. CASE EncoderTakes
    BY ZenonT(30), <2>6 DEF EncoderTakes, Moved, StageTypeOK, StagePlaces
  <2>7. CASE EncoderBegins
    <3> DEFINE fits == stage.format = "fits"
               where == Moved("pending", "busy")
    <3>1. stage' = [stage EXCEPT !.busy = stage.pending, !.pending = None,
                                 !.bound = fits, !.newest = where]
      BY <2>7 DEF EncoderBegins
    <3>2. fits \in BOOLEAN /\ where \in StagePlaces \cup {None, "failed", "overtaken"}
      BY DEF Moved, StageTypeOK, StagePlaces
    <3> HIDE DEF fits, where
    <3> QED
      BY <3>1, <3>2 DEF StageTypeOK
  <2>8. CASE EncoderOpenFails
    BY ZenonT(30), <2>8 DEF EncoderOpenFails, Moved, StageTypeOK, StagePlaces
  <2>9. CASE EncoderReplays
    BY <2>9 DEF EncoderReplays, Moved, StageTypeOK, StagePlaces
  <2>10. CASE EncoderEnds
    BY <2>10 DEF EncoderEnds, Moved, StageTypeOK, StagePlaces
  <2>11. CASE UNCHANGED stage
    BY <2>11 DEF StageTypeOK
  <2> QED
    BY <2>1, <2>2, <2>3, <2>4, <2>5, <2>6, <2>7, <2>8, <2>9, <2>10, <2>11
    DEF StageNext
<1>3. ASSUME StageTypeOK, OneAtATime PROVE CaptureKeepsPace
  <2> DEFINE Leased == {p \in StagePlaces : stage[p] = "rgb"}
  <2> SUFFICES ASSUME stage.entry = None, stage.conv = None
               PROVE  Cardinality(Leased) \in Nat /\ Cardinality(Leased) <= 3
    BY DEF CaptureKeepsPace, LeasesOut
  <2>1. CASE stage.pending = None
    <3>1. Leased \in SUBSET {"slot", "busy", "last"}
      BY <2>1 DEF StagePlaces
    <3> QED
      BY <3>1, AtMostThree
  <2>2. CASE stage.busy = None
    <3>1. Leased \in SUBSET {"slot", "pending", "last"}
      BY <2>2 DEF StagePlaces
    <3> QED
      BY <3>1, AtMostThree
  <2> QED
    BY <1>3, <2>1, <2>2 DEF OneAtATime
<1> QED
  BY <1>1, <1>2, <1>3, PTL DEF StageSpec
-----------------------------------------------------------------------------
(* The buffers of the capture.                                             *)

Captures ==
    [path : Paths,
     at : {"bind", "setup", "top", "ask", "await", "wtop", "describe", "wtake", "copy",
           "bye", "left", "gone"},
     buffers : 0 .. MaxBuffers, fitted : OutputSizes, size : OutputSizes, described : BOOLEAN,
     attached : Indices \cup {None}, ready : BOOLEAN,
     failed : {"no", "unknown", "constraints", "stopped"}, over : BOOLEAN,
     failures : Nat, resizes : Nat, stop : BOOLEAN, told : BOOLEAN]
Pools == [free : SUBSET Indices, gen : Nat, out : SUBSET Lease]

\* A place asks, waits and copies with a buffer, on the path it belongs to.
PlaceFits ==
    /\ cap.at \in {"setup", "top", "ask", "await"} => cap.path = "ext"
    /\ cap.at \in {"wtop", "describe", "wtake", "copy"} => cap.path = "wlr"
    /\ cap.at \in {"ask", "await", "copy"} => cap.attached # None
    /\ cap.at \in {"bind", "wtop", "describe", "wtake"} => cap.attached = None

Listed(i) == i \in 0 .. cap.buffers - 1
OutNow(i) == LeaseOf(i) \in pool.out

\* The list was emptied with a frame in flight, which only the standard
\* protocol does: an index of the old list may be attached or free.
Emptied == cap.path = "ext" /\ cap.buffers = 0

\* What is lent, free or attached is in the list, or the list was emptied.
InList ==
    /\ \A lease \in pool.out : lease.gen <= pool.gen
    /\ \A i \in Indices : OutNow(i) => Listed(i)
    /\ Emptied \/ \A i \in pool.free : Listed(i)
    /\ cap.attached # None => Emptied \/ Listed(cap.attached)

\* BuffersApart, buffer by buffer.
Apart ==
    /\ \A i \in pool.free : ~OutNow(i)
    /\ cap.attached # None /\ Listed(cap.attached)
         => ~OutNow(cap.attached) /\ cap.attached \notin pool.free

CaptureInv == cap \in Captures /\ pool \in Pools /\ PlaceFits /\ InList /\ Apart

LEMMA LeasesAreIndexed ==
    ASSUME pool \in Pools, NEW i \in Indices
    PROVE  i \in {lease.index : lease \in {l \in pool.out : l.gen = pool.gen}} <=> OutNow(i)
<1>1. ASSUME NEW lease \in pool.out, lease.gen = pool.gen, i = lease.index PROVE OutNow(i)
  <2>1. lease = LeaseOf(i)
    BY <1>1 DEF Pools, Lease, LeaseOf
  <2> QED
    BY <1>1, <2>1 DEF OutNow
<1>2. ASSUME OutNow(i)
      PROVE  \E lease \in {l \in pool.out : l.gen = pool.gen} : i = lease.index
  BY <1>2 DEF OutNow, LeaseOf
<1> QED
  BY <1>1, <1>2

LEMMA ApartIsApart == CaptureInv => BuffersApart
<1> SUFFICES ASSUME CaptureInv PROVE BuffersApart
  OBVIOUS
<1> DEFINE lent == {lease.index : lease \in {l \in pool.out : l.gen = pool.gen}}
<1>1. \A i \in Indices : i \in lent <=> OutNow(i)
  BY LeasesAreIndexed DEF CaptureInv
<1> HIDE DEF lent
<1>2. lent \cap pool.free = {}
  BY <1>1 DEF CaptureInv, Apart, Pools
<1>3. cap.attached # None /\ cap.attached < cap.buffers => cap.attached \notin lent \cup pool.free
  BY <1>1 DEF CaptureInv, Apart, Captures, Listed, Indices
<1> QED
  BY <1>2, <1>3 DEF BuffersApart, lent
\* What a step does to the buffers: nothing,
LEMMA NoBufferMoves ==
    ASSUME CaptureInv, cap' \in Captures, PlaceFits', UNCHANGED pool,
           cap'.path = cap.path, cap'.buffers = cap.buffers, cap'.attached \in {cap.attached, None}
    PROVE  CaptureInv'
BY DEF CaptureInv, InList, Apart, Listed, OutNow, LeaseOf, Emptied

\* empty the list,
LEMMA ListEmptied ==
    ASSUME CaptureInv, cap' \in Captures, PlaceFits', pool' = ResetPool,
           cap'.buffers = 0, cap'.path = "ext" \/ cap'.attached = None
    PROVE  CaptureInv'
<1>1. pool' \in Pools /\ pool'.free = {} /\ pool'.out = pool.out /\ pool'.gen = pool.gen + 1
  <2>1. pool.gen + 1 \in Nat
    BY DEF CaptureInv, Pools
  <2> QED
    BY <2>1 DEF CaptureInv, ResetPool, Pools
<1>2. \A lease \in pool.out : lease.gen \in Nat /\ lease.gen <= pool.gen
  BY DEF CaptureInv, Pools, Lease, InList
<1>3. pool.gen \in Nat
  BY DEF CaptureInv, Pools
<1>4. \A j \in Indices : ~OutNow(j)'
  BY <1>1, <1>2, <1>3 DEF OutNow, LeaseOf
<1>5. \A lease \in pool'.out : lease.gen <= pool'.gen
  BY <1>1, <1>2, <1>3
<1>6. (\A i \in pool.free : FALSE)' /\ (cap'.attached # None => Emptied')
  BY <1>1 DEF Emptied
<1>7. cap'.attached # None => ~OutNow(cap.attached)'
  BY <1>4 DEF Captures
<1> QED
  BY <1>1, <1>4, <1>5, <1>6, <1>7 DEF CaptureInv, InList, Apart

\* give the attached buffer back, or lend it with its picture,
LEMMA AttachedReleased ==
    ASSUME CaptureInv, cap' \in Captures, PlaceFits', cap.attached # None,
           pool' = Released(cap.attached), cap'.attached = None,
           cap'.path = cap.path, cap'.buffers = cap.buffers
    PROVE  CaptureInv'
<1>1. cap.attached \in Indices
  BY DEF CaptureInv, Captures
<1>2. /\ pool' \in Pools /\ pool'.free = pool.free \cup {cap.attached}
      /\ pool'.out = pool.out /\ pool'.gen = pool.gen
  BY <1>1 DEF CaptureInv, Released, Pools
<1>3. \A j : OutNow(j)' <=> OutNow(j)
  BY <1>2 DEF OutNow, LeaseOf
<1>4. \A j : Listed(j)' <=> Listed(j)
  BY DEF Listed
<1>5. ~OutNow(cap.attached)
  <2>1. CASE Listed(cap.attached)
    BY <2>1 DEF CaptureInv, Apart
  <2>2. CASE ~Listed(cap.attached)
    BY <1>1, <2>2 DEF CaptureInv, InList
  <2> QED
    BY <2>1, <2>2
<1> QED
  BY <1>2, <1>3, <1>4, <1>5 DEF CaptureInv, InList, Apart, Emptied

LEMMA AttachedLent ==
    ASSUME CaptureInv, cap' \in Captures, PlaceFits', cap.attached # None, Listed(cap.attached),
           pool' = Lent(cap.attached), cap'.attached = None,
           cap'.path = cap.path, cap'.buffers = cap.buffers
    PROVE  CaptureInv'
<1>1. cap.attached \in Indices
  BY DEF CaptureInv, Captures
<1>2. LeaseOf(cap.attached) \in Lease /\ pool.gen \in Nat
  BY <1>1 DEF CaptureInv, LeaseOf, Lease, Pools
<1>3. /\ pool' \in Pools /\ pool'.free = pool.free
      /\ pool'.out = pool.out \cup {LeaseOf(cap.attached)} /\ pool'.gen = pool.gen
  BY <1>2 DEF CaptureInv, Lent, Pools
<1>4. \A j \in Indices : OutNow(j)' => OutNow(j) \/ j = cap.attached
  BY <1>3 DEF OutNow, LeaseOf
<1>5. \A j : Listed(j)' <=> Listed(j)
  BY DEF Listed
<1>6. \A lease \in pool'.out : lease.gen <= pool'.gen
  BY <1>2, <1>3 DEF CaptureInv, InList, LeaseOf
<1>7. cap.attached \notin pool.free /\ pool.free \subseteq Indices
  BY DEF CaptureInv, Apart, Pools
<1> QED
  BY <1>3, <1>4, <1>5, <1>6, <1>7 DEF CaptureInv, InList, Apart, Emptied

\* attach a free buffer, or a new one,
LEMMA FreeAttached ==
    ASSUME CaptureInv, cap' \in Captures, PlaceFits', NEW i \in pool.free,
           pool' = WithoutFree(i), cap'.attached = i,
           cap'.path = cap.path, cap'.buffers = cap.buffers
    PROVE  CaptureInv'
<1>1. /\ pool' \in Pools /\ pool'.free = pool.free \ {i}
      /\ pool'.out = pool.out /\ pool'.gen = pool.gen
  BY DEF CaptureInv, WithoutFree, Pools
<1>2. \A j : OutNow(j)' <=> OutNow(j)
  BY <1>1 DEF OutNow, LeaseOf
<1>3. \A j : Listed(j)' <=> Listed(j)
  BY DEF Listed
<1> QED
  BY <1>1, <1>2, <1>3 DEF CaptureInv, InList, Apart, Emptied

LEMMA NewAttached ==
    ASSUME CaptureInv, cap' \in Captures, PlaceFits', pool.free = {}, UNCHANGED pool,
           cap'.attached = cap.buffers, cap'.buffers = cap.buffers + 1, cap'.path = cap.path
    PROVE  CaptureInv'
<1>1. cap.buffers \in Nat /\ cap'.attached \in Indices
  BY CaptureAssumption DEF CaptureInv, Captures
<1>2. \A j : OutNow(j)' <=> OutNow(j)
  BY DEF OutNow, LeaseOf
<1>3. \A j : Listed(j) => Listed(j)' /\ j # cap'.attached
  BY <1>1 DEF Listed
<1>4. Listed(cap.attached)'
  BY <1>1 DEF Listed
<1>5. ~OutNow(cap'.attached)
  BY <1>1, <1>3 DEF CaptureInv, InList
<1> QED
  BY <1>2, <1>3, <1>4, <1>5 DEF CaptureInv, InList, Apart

\* or take back what a lease held.
LEMMA LeaseReturns == CaptureInv /\ LeaseDropped => CaptureInv'
<1> SUFFICES ASSUME CaptureInv, LeaseDropped PROVE CaptureInv'
  OBVIOUS
<1>1. PICK lease \in pool.out :
         pool' = [pool EXCEPT !.out = @ \ {lease},
                              !.free = IF ComesBack(lease) THEN @ \cup {lease.index} ELSE @]
  BY DEF LeaseDropped
<1>2. lease \in Lease /\ lease.index \in Indices /\ pool.gen \in Nat
  BY DEF CaptureInv, Pools, Lease
<1>3. UNCHANGED cap
  BY DEF LeaseDropped
<1>4. \A j : Listed(j)' <=> Listed(j)
  BY <1>3 DEF Listed
<1>5. CASE ComesBack(lease)
  <2>1. /\ pool' \in Pools /\ pool'.free = pool.free \cup {lease.index}
        /\ pool'.out = pool.out \ {lease} /\ pool'.gen = pool.gen
    BY <1>1, <1>2, <1>5 DEF CaptureInv, Pools
  <2>2. lease = LeaseOf(lease.index)
    BY <1>2, <1>5 DEF ComesBack, Lease, LeaseOf
  <2>3. OutNow(lease.index) /\ ~OutNow(lease.index)'
    BY <2>1, <2>2 DEF OutNow, LeaseOf
  <2>4. \A j : OutNow(j)' => OutNow(j)
    BY <2>1 DEF OutNow, LeaseOf
  <2>5. Listed(lease.index) /\ ~Emptied
    <3>1. Listed(lease.index)
      BY <1>2, <2>3 DEF CaptureInv, InList
    <3> QED
      BY <3>1 DEF Listed, Emptied
  <2> QED
    BY <1>2, <1>3, <1>4, <2>1, <2>3, <2>4, <2>5 DEF CaptureInv, InList, Apart, PlaceFits, Emptied
<1>6. CASE ~ComesBack(lease)
  <2>1. /\ pool' \in Pools /\ pool'.free = pool.free
        /\ pool'.out = pool.out \ {lease} /\ pool'.gen = pool.gen
    BY <1>1, <1>6 DEF CaptureInv, Pools
  <2>2. \A j : OutNow(j)' => OutNow(j)
    BY <2>1 DEF OutNow, LeaseOf
  <2> QED
    BY <1>3, <1>4, <2>1, <2>2 DEF CaptureInv, InList, Apart, PlaceFits, Emptied
<1> QED
  BY <1>5, <1>6
LEMMA CaptureStep == CaptureInv /\ [CaptureNext]_captureVars => CaptureInv'
<1> SUFFICES ASSUME CaptureInv, [CaptureNext]_captureVars PROVE CaptureInv'
  OBVIOUS
<1>types. cap \in Captures /\ PlaceFits /\ 0 \in 0 .. MaxBuffers
  BY CaptureAssumption DEF CaptureInv
<1>1. CASE AskStop \/ CompositorSpeaks
  <2>1. /\ cap' \in Captures /\ cap'.path = cap.path /\ UNCHANGED pool
        /\ cap'.buffers = cap.buffers /\ cap'.attached = cap.attached
        /\ \/ cap'.at \in {cap.at, "left"}
           \/ cap.at = "bind" /\ cap'.at = IF cap.path = "ext" THEN "setup" ELSE "wtop"
    <3>1. CASE AskStop
      BY <1>types, <3>1 DEF AskStop, Captures
    <3>2. CASE Describes
      <4>1. PICK s \in OutputSizes :
               cap' = [cap EXCEPT !.size = s, !.described = TRUE,
                                  !.resizes = IF s = cap.size THEN @ ELSE @ + 1]
        BY <3>2 DEF Describes
      <4>2. (IF s = cap.size THEN cap.resizes ELSE cap.resizes + 1) \in Nat
        BY <1>types DEF Captures
      <4> QED
        BY <1>types, <3>2, <4>1, <4>2 DEF Describes, Captures
    <3>3. CASE SaysReady
      BY <1>types, <3>3 DEF SaysReady, Captures
    <3>4. CASE SaysFailed
      BY <1>types, <3>4 DEF SaysFailed, Captures
    <3>5. CASE SaysOver
      BY <1>types, <3>5 DEF SaysOver, Captures
    <3>6. CASE LosesConnection
      BY <1>types, <3>6 DEF LosesConnection, LeftCapture, Captures
    <3>7. CASE AnswersRoundtrip
      BY <1>types, <3>7 DEF AnswersRoundtrip, LeftCapture, Captures
    <3> QED
      BY <1>1, <3>1, <3>2, <3>3, <3>4, <3>5, <3>6, <3>7 DEF CompositorSpeaks
  <2>2. PlaceFits'
    BY <1>types, <2>1 DEF PlaceFits, Captures, Paths
  <2> QED
    BY <2>1, <2>2, NoBufferMoves
<1>2. CASE LeaseDropped
  BY <1>2, LeaseReturns
<1>3. CASE LeavesCapture
  <2>1. cap' \in Captures /\ cap'.at = "gone" /\ UNCHANGED pool
        /\ cap'.path = cap.path /\ cap'.buffers = cap.buffers /\ cap'.attached = cap.attached
    <3> DEFINE tells == ~cap.stop
    <3>1. tells \in BOOLEAN /\ cap' = [cap EXCEPT !.at = "gone", !.told = tells]
      BY <1>3 DEF LeavesCapture
    <3> HIDE DEF tells
    <3> QED
      BY <1>types, <1>3, <3>1 DEF LeavesCapture, Captures
  <2> QED
    BY <2>1, NoBufferMoves DEF PlaceFits
<1>4. CASE ExtSetup \/ ExtEnds \/ ExtIdle \/ ExtPanics \/ WlrTop
  <2>1. /\ cap' \in Captures /\ cap'.path = cap.path /\ UNCHANGED pool
        /\ cap'.buffers = cap.buffers /\ cap'.attached = cap.attached
        /\ \/ cap'.at \in {"left", "bye"}
           \/ cap.path = "ext" /\ cap'.at = "top"
           \/ cap.at = "wtop" /\ cap'.at = "describe"
    <3>1. CASE ExtSetup
      BY ZenonT(30), <1>types, <3>1 DEF ExtSetup, LeftCapture, Captures, PlaceFits
    <3>2. CASE ExtEnds
      BY <1>types, <3>2 DEF ExtEnds, SaysBye, Captures
    <3>3. CASE ExtIdle
      BY <1>types, <3>3 DEF ExtIdle, Captures, PlaceFits
    <3>4. CASE ExtPanics
      BY <1>types, <3>4 DEF ExtPanics, LeftCapture, Captures
    <3>5. CASE WlrTop
      BY <1>types, <3>5 DEF WlrTop, SaysBye, Captures, PlaceFits
    <3> QED
      BY <1>4, <3>1, <3>2, <3>3, <3>4, <3>5
  <2>2. PlaceFits'
    BY <1>types, <2>1 DEF PlaceFits
  <2> QED
    BY <2>1, <2>2, NoBufferMoves
<1>picks. ASSUME NEW at \in {"ask", "copy"}, Picks(at) \/ AllocationFails,
                 cap.path = IF at = "ask" THEN "ext" ELSE "wlr"
          PROVE  CaptureInv'
  <2>1. ASSUME NEW i \in pool.free, pool' = WithoutFree(i),
               cap' = [cap EXCEPT !.at = at, !.attached = i]
        PROVE  CaptureInv'
    <3>1. i \in Indices /\ i # None
      BY CaptureAssumption DEF CaptureInv, Pools, Indices
    <3>2. /\ cap' \in Captures /\ cap'.path = cap.path /\ cap'.buffers = cap.buffers
          /\ cap'.at = at /\ cap'.attached = i
      BY <1>types, <2>1, <3>1 DEF Captures
    <3>3. PlaceFits'
      BY <1>picks, <3>1, <3>2 DEF PlaceFits
    <3> QED
      BY <2>1, <3>2, <3>3, FreeAttached
  <2>2. ASSUME pool.free = {}, cap.buffers < MaxBuffers, UNCHANGED pool,
               cap' = [cap EXCEPT !.at = at, !.attached = cap.buffers,
                                  !.buffers = @ + 1, !.fitted = cap.size]
        PROVE  CaptureInv'
    <3>1. cap.buffers \in Indices /\ cap.buffers + 1 \in 0 .. MaxBuffers /\ cap.buffers # None
      BY <1>types, <2>2, CaptureAssumption DEF Captures, Indices
    <3>2. /\ cap' \in Captures /\ cap'.path = cap.path /\ cap'.buffers = cap.buffers + 1
          /\ cap'.at = at /\ cap'.attached = cap.buffers
      BY <1>types, <2>2, <3>1 DEF Captures
    <3>3. PlaceFits'
      BY <1>picks, <3>1, <3>2 DEF PlaceFits
    <3> QED
      BY <2>2, <3>2, <3>3, NewAttached
  <2>3. CASE AllocationFails
    <3>1. /\ cap' \in Captures /\ cap'.path = cap.path /\ UNCHANGED pool /\ cap'.at = "left"
          /\ cap'.buffers = cap.buffers /\ cap'.attached = cap.attached
      BY <1>types, <2>3 DEF AllocationFails, LeftCapture, Captures
    <3> QED
      BY <3>1, NoBufferMoves DEF PlaceFits
  <2> QED
    BY <1>picks, <2>1, <2>2, <2>3 DEF Picks
<1>5. CASE ExtReallocate
  <2>1. /\ cap' \in Captures /\ cap'.path = cap.path /\ cap'.buffers = 0
        /\ cap'.at = "top" /\ cap'.path = "ext"
    BY <1>types, <1>5, CaptureAssumption DEF ExtReallocate, Refitted, Captures, PlaceFits
  <2> QED
    BY <1>5, <2>1, ListEmptied DEF ExtReallocate, PlaceFits
<1>6. CASE ExtTop
  <2>1. cap.path = "ext"
    BY <1>types, <1>6 DEF ExtTop, PlaceFits
  <2>2. CASE cap.attached # None
    <3>1. /\ cap' \in Captures /\ cap'.path = cap.path /\ UNCHANGED pool
          /\ cap'.buffers = cap.buffers /\ cap'.attached = cap.attached /\ cap'.at = "await"
      BY <1>types, <1>6, <2>2 DEF ExtTop, Captures
    <3> QED
      BY <2>1, <2>2, <3>1, NoBufferMoves DEF PlaceFits
  <2>3. CASE cap.attached = None
    BY <1>6, <1>picks, <2>1, <2>3 DEF ExtTop
  <2> QED
    BY <2>2, <2>3
<1>released. ASSUME cap.attached # None, pool' = Released(cap.attached), cap' \in Captures,
                    cap'.attached = None, cap'.path = cap.path, cap'.buffers = cap.buffers,
                    \/ cap'.at = "bye"
                    \/ cap'.path = "ext" /\ cap'.at = "top"
                    \/ cap'.path = "wlr" /\ cap'.at = "wtop"
             PROVE  CaptureInv'
  BY <1>released, AttachedReleased DEF PlaceFits
<1>7. CASE ExtAsk
  <2>1. cap.path = "ext" /\ cap.attached # None
    BY <1>types, <1>7 DEF ExtAsk, PlaceFits
  <2> cap.attached \in Nat /\ cap.buffers \in Nat
    BY <1>types, <2>1 DEF Captures, Indices
  <2>2. CASE ~CaptureGoes
    <3>1. cap' = [SaysBye EXCEPT !.attached = None] /\ pool' = Released(cap.attached)
      BY <1>7, <2>2 DEF ExtAsk
    <3> QED
      BY <1>types, <1>released, <2>1, <3>1 DEF SaysBye, Captures
  <2>3. CASE CaptureGoes /\ cap.attached >= cap.buffers
    <3>1. cap' = LeftCapture /\ UNCHANGED pool
      BY <1>7, <2>3 DEF ExtAsk
    <3>2. /\ cap' \in Captures /\ cap'.path = cap.path /\ cap'.at = "left"
          /\ cap'.buffers = cap.buffers /\ cap'.attached = cap.attached
      BY <1>types, <3>1 DEF LeftCapture, Captures
    <3> QED
      BY <3>1, <3>2, NoBufferMoves DEF PlaceFits
  <2>4. CASE CaptureGoes /\ ~(cap.attached >= cap.buffers)
    <3>1. \/ /\ cap' = [cap EXCEPT !.at = "top", !.attached = None]
             /\ pool' = Released(cap.attached)
          \/ /\ cap' = [cap EXCEPT !.at = "await", !.ready = FALSE, !.failed = "no"]
             /\ UNCHANGED pool
      BY <1>7, <2>4 DEF ExtAsk
    <3>2. CASE cap' = [cap EXCEPT !.at = "top", !.attached = None] /\ pool' = Released(cap.attached)
      BY <1>types, <1>released, <2>1, <3>2 DEF Captures
    <3>3. CASE /\ cap' = [cap EXCEPT !.at = "await", !.ready = FALSE, !.failed = "no"]
               /\ UNCHANGED pool
      <4>1. /\ cap' \in Captures /\ cap'.path = cap.path /\ cap'.at = "await"
            /\ cap'.buffers = cap.buffers /\ cap'.attached = cap.attached
        BY <1>types, <3>3 DEF Captures
      <4> QED
        BY <2>1, <3>3, <4>1, NoBufferMoves DEF PlaceFits
    <3> QED
      BY <3>1, <3>2, <3>3
  <2> QED
    BY <2>2, <2>3, <2>4
<1>8. CASE ExtLends \/ WlrLends
  <2>1. cap.attached # None /\ pool' = Lent(cap.attached)
    BY <1>types, <1>8 DEF ExtLends, WlrLends, PlaceFits
  <2>2. Listed(cap.attached)
    <3>1. CASE ExtLends
      BY <1>types, <2>1, <3>1 DEF ExtLends, Captures, Indices, Listed
    <3>2. CASE WlrLends
      <4>1. cap.path # "ext"
        BY <1>types, <3>2 DEF WlrLends, PlaceFits
      <4> QED
        BY <2>1, <4>1 DEF CaptureInv, InList, Emptied
    <3> QED
      BY <1>8, <3>1, <3>2
  <2>3. /\ cap' \in Captures /\ cap'.path = cap.path /\ cap'.buffers = cap.buffers
        /\ cap'.attached = None
        /\ \/ cap.path = "ext" /\ cap'.at = "top"
           \/ cap.path = "wlr" /\ cap'.at = "wtop"
    <3>1. CASE ExtLends
      BY <1>types, <3>1 DEF ExtLends, Captures, PlaceFits
    <3>2. CASE WlrLends
      BY <1>types, <3>2 DEF WlrLends, Captures, PlaceFits
    <3> QED
      BY <1>8, <3>1, <3>2
  <2> QED
    BY <2>1, <2>2, <2>3, AttachedLent DEF PlaceFits
<1>9. CASE ExtFailed
  <2>1. cap.path = "ext" /\ cap.attached # None
    BY <1>types, <1>9 DEF ExtFailed, PlaceFits
  <2>2. CASE /\ cap' = [cap EXCEPT !.at = "top", !.attached = None, !.failed = "no"]
             /\ pool' = Released(cap.attached)
    BY <1>types, <1>released, <2>1, <2>2 DEF Captures
  <2>3. CASE /\ cap' = [Refitted EXCEPT !.at = "top", !.attached = None, !.failed = "no"]
             /\ pool' = ResetPool
    <3>1. /\ cap' \in Captures /\ cap'.path = cap.path /\ cap'.buffers = 0
          /\ cap'.at = "top" /\ cap'.attached = None
      BY <1>types, <2>3, CaptureAssumption DEF Refitted, Captures
    <3> QED
      BY <2>1, <2>3, <3>1, ListEmptied DEF PlaceFits
  <2>4. CASE cap' = [cap EXCEPT !.at = "top", !.over = TRUE, !.failed = "no"] /\ UNCHANGED pool
    <3>1. /\ cap' \in Captures /\ cap'.path = cap.path /\ cap'.at = "top"
          /\ cap'.buffers = cap.buffers /\ cap'.attached = cap.attached
      BY <1>types, <2>4 DEF Captures
    <3> QED
      BY <2>1, <2>4, <3>1, NoBufferMoves DEF PlaceFits
  <2> QED
    BY <1>9, <2>2, <2>3, <2>4 DEF ExtFailed
<1>10. CASE WlrDescribed
  <2>1. cap.path = "wlr" /\ cap.attached = None
    BY <1>types, <1>10 DEF WlrDescribed, PlaceFits
  <2>2. CASE Misfit
    <3>1. cap' = [Refitted EXCEPT !.at = "wtake"] /\ pool' = ResetPool
      BY <1>10, <2>2 DEF WlrDescribed
    <3>2. /\ cap' \in Captures /\ cap'.path = cap.path /\ cap'.buffers = 0
          /\ cap'.at = "wtake" /\ cap'.attached = None
      BY <1>types, <2>1, <3>1, CaptureAssumption DEF Refitted, Captures
    <3> QED
      BY <2>1, <3>1, <3>2, ListEmptied DEF PlaceFits
  <2>3. CASE ~Misfit
    <3>1. cap' = [cap EXCEPT !.at = "wtake"] /\ UNCHANGED pool
      BY <1>10, <2>3 DEF WlrDescribed
    <3>2. /\ cap' \in Captures /\ cap'.path = cap.path /\ cap'.at = "wtake"
          /\ cap'.buffers = cap.buffers /\ cap'.attached = cap.attached
      BY <1>types, <3>1 DEF Captures
    <3> QED
      BY <2>1, <3>1, <3>2, NoBufferMoves DEF PlaceFits
  <2> QED
    BY <2>2, <2>3
<1>failure. ASSUME cap' = AfterFailure, cap.path = "wlr"
            PROVE  /\ cap' \in Captures /\ cap'.path = cap.path /\ cap'.buffers = cap.buffers
                   /\ cap'.attached = None /\ cap'.at \in {"bye", "wtop"}
  <2>1. CASE cap' = [SaysBye EXCEPT !.attached = None]
    BY <1>types, <2>1 DEF SaysBye, Captures
  <2>2. CASE cap' = [cap EXCEPT !.at = "wtop", !.attached = None, !.failures = @ + 1]
    <3>1. cap.failures + 1 \in Nat
      BY <1>types DEF Captures
    <3> QED
      BY <1>types, <2>2, <3>1 DEF Captures
  <2> QED
    BY <1>failure, <2>1, <2>2 DEF AfterFailure
<1>11. CASE WlrNotDescribed
  <2>1. cap.path = "wlr" /\ UNCHANGED pool /\ cap' = AfterFailure
    BY <1>types, <1>11 DEF WlrNotDescribed, PlaceFits
  <2> QED
    BY <1>failure, <2>1, NoBufferMoves DEF PlaceFits
<1>12. CASE WlrTake
  <2>1. cap.path = "wlr"
    BY <1>types, <1>12 DEF WlrTake, PlaceFits
  <2>2. CASE cap' = SaysBye /\ UNCHANGED pool
    <3>1. /\ cap' \in Captures /\ cap'.path = cap.path /\ cap'.at = "bye"
          /\ cap'.buffers = cap.buffers /\ cap'.attached = cap.attached
      BY <1>types, <2>2 DEF SaysBye, Captures
    <3> QED
      BY <2>2, <3>1, NoBufferMoves DEF PlaceFits
  <2> QED
    BY <1>12, <1>picks, <2>1, <2>2 DEF WlrTake
<1>13. CASE WlrNoCopy
  <2>1. /\ cap.path = "wlr" /\ cap.attached # None
        /\ cap' = AfterFailure /\ pool' = Released(cap.attached)
    BY <1>types, <1>13 DEF WlrNoCopy, PlaceFits
  <2> QED
    BY <1>failure, <1>released, <2>1
<1>14. CASE UNCHANGED captureVars
  BY <1>types, <1>14, NoBufferMoves DEF captureVars, PlaceFits
<1> QED
  BY <1>1, <1>2, <1>3, <1>4, <1>5, <1>6, <1>7, <1>8, <1>9, <1>10, <1>11, <1>12, <1>13, <1>14
  DEF CaptureNext, CaptureWorks

\* The compositor never writes into a picture someone reads: for every number
\* of buffers, sizes and reallocations with leases still out.
THEOREM BuffersStayApart == CaptureSpec => []BuffersApart
<1>1. CaptureInit => CaptureInv
  <2> SUFFICES ASSUME CaptureInit PROVE CaptureInv
    OBVIOUS
  <2>1. PICK path \in Paths : cap = CapturesOn(path, CHOOSE s \in OutputSizes : TRUE)
    BY DEF CaptureInit, SelectPath, Paths, OtherPath
  <2>2. (CHOOSE s \in OutputSizes : TRUE) \in OutputSizes /\ 0 \in 0 .. MaxBuffers
    BY CaptureAssumption
  <2>3. cap \in Captures /\ PlaceFits /\ cap.attached = None /\ cap.buffers = 0
    BY <2>1, <2>2 DEF CapturesOn, Captures, PlaceFits, Paths
  <2>4. pool \in Pools /\ pool.free = {} /\ pool.out = {}
    BY DEF CaptureInit, NewPool, Pools
  <2> QED
    BY <2>3, <2>4 DEF CaptureInv, InList, Apart, OutNow
<1>2. CaptureInv /\ [CaptureNext]_captureVars => CaptureInv'
  BY CaptureStep
<1>3. CaptureInv => BuffersApart
  BY ApartIsApart
<1> QED
  BY <1>1, <1>2, <1>3, PTL DEF CaptureSpec
=============================================================================
