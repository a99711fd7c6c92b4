---------------------------- MODULE SenderDisplay ----------------------------
(***************************************************************************)
(* The virtual display over the sessions of one od-sender (session.rs):    *)
(* when it is built and rebuilt.  A hello sent again settles before it     *)
(* rebuilds the display (desktop.rs, Debounce); a display that vanished is *)
(* recreated within a budget; one the compositor changed is restored after *)
(* a probe said so, within a budget of its own.                            *)
(*                                                                         *)
(* An action is a branch of session's select!, taken whole: nothing else   *)
(* of the session runs while a display is built.  The compositor and the   *)
(* probe's thread move in between.                                         *)
(***************************************************************************)
EXTENDS Option, Integers, Sequences, FiniteSets

CONSTANTS
    Plans,          \* targets a hello may be planned to
    Unfit,          \* a hello that no plan fits
    Settling,       \* HELLO_DEBOUNCE
    LossWindow,     \* LossBudget: window
    MaxLosses,      \* LossBudget: max
    MaxHellos,      \* bound: hellos
    MaxBuilds       \* bound: displays built before the compositor is calm

ASSUME DisplayAssumption ==
    /\ None \notin Plans /\ Unfit \notin Plans
    /\ None \notin BOOLEAN /\ None \notin [target : Plans, generation : Nat]
    /\ Settling \in Nat /\ LossWindow \in Nat
    /\ MaxLosses \in Nat \ {0}
    /\ MaxHellos \in Nat /\ MaxBuilds \in Nat

VARIABLES
    ended,      \* how the session ended, None while it runs
    debounce,   \* Debounce: applied, pending and the time until its deadline
    active,     \* Active: target and generation
    probe,      \* drift_check: the generation it was taken from, and its answer
    drifts,     \* this session's budget of restores, and whether it is used up
    losses,     \* run's budget of recreations: their ages
    desk,       \* the compositor: was the display changed, did it vanish?
    announced,  \* the target the last streamConfig was for
    built,      \* displays built, GENERATION
    asked,      \* history: the plan of the session's last hello, and how many came at all
    recreated   \* history: ages of the recreations within the window

displayVars ==
    <<ended, debounce, active, probe, drifts, losses, desk, announced, built, asked, recreated>>

EndReasons == {"Ended", "ReceiverClosed", "DisplayLost", "LockConflict", "Incompatible"}
Ages == Seq(0 .. LossWindow + 1)

\* Budgets stay within one entry over their limit.
DisplayTypeOK ==
    /\ ended \in EndReasons \cup {None}
    /\ debounce \in [applied : Plans \cup {None}, pending : Plans \cup {None}, due : 0 .. Settling]
    /\ active = None \/ active \in [target : Plans, generation : Nat]
    /\ probe = None \/ probe \in [generation : Nat, answer : BOOLEAN \cup {None}]
    /\ drifts.ages \in Ages /\ drifts.givenUp \in BOOLEAN
    /\ losses \in Ages
    /\ Len(losses) <= MaxLosses + 1 /\ Len(drifts.ages) <= MaxLosses + 1
    /\ desk \in [changed : BOOLEAN, gone : BOOLEAN]
    /\ announced \in Plans \cup {None}
    /\ built \in Nat

-----------------------------------------------------------------------------
(* Debounce and LossBudget.                                                *)

NoPlan == [applied |-> None, pending |-> None, due |-> 0]

\* Mutant: a hello that goes back to the running plan leaves the pending one.
OnHelloForgetful(d, plan) ==
    IF d.applied = None THEN [NoPlan EXCEPT !.applied = plan]
    ELSE IF d.applied = plan THEN d
    ELSE [d EXCEPT !.pending = plan, !.due = Settling]

OnHello(d, plan) ==
    IF d.applied = None THEN [NoPlan EXCEPT !.applied = plan]
    ELSE IF d.applied = plan THEN [d EXCEPT !.pending = None, !.due = 0]
    ELSE [d EXCEPT !.pending = plan, !.due = Settling]

\* Mutant: poll does not remember what it handed out.
PolledUnrecorded(d) == [d EXCEPT !.pending = None, !.due = 0]

Polled(d) == [applied |-> d.pending, pending |-> None, due |-> 0]

\* Entries older than the window are dropped before the new one is counted.
Recorded(ages) == Append(SelectSeq(ages, LAMBDA a : a <= LossWindow), 0)

Allows(ages) == Len(Recorded(ages)) <= MaxLosses

Aged(ages) ==
    [i \in DOMAIN ages |-> IF ages[i] > LossWindow THEN ages[i] ELSE ages[i] + 1]

-----------------------------------------------------------------------------
(* build and close.                                                        *)

Calm == [changed |-> FALSE, gone |-> FALSE]
NoDrifts == [ages |-> <<>>, givenUp |-> FALSE]

\* The session's locals go with it, the budget of recreations stays.
Leaves(why) ==
    /\ ended' = why
    /\ debounce' = NoPlan
    /\ active' = None
    /\ probe' = None
    /\ drifts' = NoDrifts
    /\ desk' = Calm
    /\ asked' = [asked EXCEPT !.plan = None]
    /\ UNCHANGED <<announced, built>>

\* The display stays as it is.
AsIs == UNCHANGED <<active, built, desk, announced>>

\* The old capture and pipeline are stopped and joined first, and with the
\* pipeline goes what it had to say.
Builds(plan) ==
    /\ active' = [target |-> plan, generation |-> built]
    /\ built' = built + 1
    /\ desk' = Calm
    /\ announced' = plan

-----------------------------------------------------------------------------
(* Bytes from the receiver.                                                *)

DebounceAfter(batch) ==
    IF Len(batch) = 1 THEN OnHello(debounce, batch[1])
    ELSE OnHello(OnHello(debounce, batch[1]), batch[2])

MoreHellos(batch) == ended = None /\ asked.hellos + Len(batch) <= MaxHellos

\* The first plan is applied once the whole batch is handled.
HearHellos(batch) ==
    /\ MoreHellos(batch)
    /\ \A i \in DOMAIN batch : batch[i] # Unfit
    /\ asked' = [plan |-> batch[Len(batch)], hellos |-> asked.hellos + Len(batch)]
    /\ debounce' = DebounceAfter(batch)
    /\ IF debounce.applied = None THEN Builds(batch[1])
       ELSE AsIs
    /\ UNCHANGED <<ended, probe, drifts, losses, recreated>>

\* No plan fits; or another sender has the lock, seen by the check before
\* welcome or by open; or open fails otherwise, which only ends the session.
\* A hello sent again is checked too: it may name another output, and lock.
HearInVain(batch, why) ==
    /\ MoreHellos(batch)
    /\ IF why = "Incompatible"
       THEN \E i \in DOMAIN batch : batch[i] = Unfit
       ELSE why \in {"LockConflict", "Ended"} /\ batch[1] # Unfit
    /\ Leaves(why)
    /\ UNCHANGED <<losses, recreated>>

\* closing, end of file, an error, Ctrl+C, or the time is up.
LeaveSession(why) ==
    /\ ended = None
    /\ why \in {"Ended", "ReceiverClosed"}
    /\ Leaves(why)
    /\ UNCHANGED <<losses, recreated>>

\* Mutant: every session has its own budget.
RedialAnew ==
    /\ ended = "Ended" /\ built < MaxBuilds
    /\ ended' = None
    /\ losses' = <<>>
    /\ AsIs /\ UNCHANGED <<debounce, probe, drifts, asked, recreated>>

Redial ==
    /\ ended = "Ended" /\ built < MaxBuilds
    /\ ended' = None
    /\ AsIs /\ UNCHANGED <<debounce, probe, drifts, losses, asked, recreated>>

-----------------------------------------------------------------------------
(* The deadline of the debounce.                                           *)

Settled == ended = None /\ debounce.pending # None /\ debounce.due = 0

SettlePlan ==
    /\ Settled
    /\ debounce' = Polled(debounce)
    /\ Builds(debounce.pending)
    /\ UNCHANGED <<ended, probe, drifts, losses, asked, recreated>>

SettleInVain(why) ==
    /\ Settled
    /\ why \in {"LockConflict", "Ended"}
    /\ Leaves(why)
    /\ UNCHANGED <<losses, recreated>>

-----------------------------------------------------------------------------
(* DisplayEvent::Lost.                                                     *)

Lost == ended = None /\ active # None /\ desk.gone

Recreate ==
    /\ Lost
    /\ Allows(losses)
    /\ losses' = Recorded(losses)
    /\ recreated' = Append(recreated, 0)
    /\ Builds(active.target)
    /\ UNCHANGED <<ended, debounce, probe, drifts, asked>>

\* Lost too often, or it cannot be recreated.
GiveUpDisplay ==
    /\ Lost
    /\ losses' = Recorded(losses)
    /\ Leaves("DisplayLost")
    /\ UNCHANGED recreated

-----------------------------------------------------------------------------
(* Drift: the tick starts a probe on a thread of its own, and only one.    *)

ProbeStarts ==
    /\ ended = None /\ active # None
    /\ ~drifts.givenUp /\ probe = None
    /\ probe' = [generation |-> active.generation, answer |-> None]
    /\ AsIs /\ UNCHANGED <<ended, debounce, drifts, losses, asked, recreated>>

\* A probe knows its display by name: once that is rebuilt it compares the
\* new one with what the old one was to be, and may say anything.
ProbeAnswers(why) ==
    /\ probe # None /\ probe.answer = None
    /\ active # None /\ probe.generation = active.generation => why = desk.changed
    /\ probe' = [probe EXCEPT !.answer = why]
    /\ AsIs /\ UNCHANGED <<ended, debounce, drifts, losses, asked, recreated>>

\* Mutant: whatever a probe says is about the present display.
AnyGeneration == active # None

Current == active # None /\ active.generation = probe.generation

Done == ended = None /\ probe # None /\ probe.answer # None

\* Mutant: an answer that is not for this display is kept.
KeepsStale ==
    /\ Done /\ ~(probe.answer /\ Current /\ ~drifts.givenUp)
    /\ probe' = IF Current THEN None ELSE probe
    /\ AsIs /\ UNCHANGED <<ended, debounce, drifts, losses, asked, recreated>>

ProbeInVain ==
    /\ Done /\ ~(probe.answer /\ Current /\ ~drifts.givenUp)
    /\ probe' = None
    /\ AsIs /\ UNCHANGED <<ended, debounce, drifts, losses, asked, recreated>>

Drifted == Done /\ probe.answer /\ Current /\ ~drifts.givenUp

Restore ==
    /\ Drifted
    /\ Allows(drifts.ages)
    /\ drifts' = [drifts EXCEPT !.ages = Recorded(@)]
    /\ probe' = None
    /\ Builds(active.target)
    /\ UNCHANGED <<ended, debounce, losses, asked, recreated>>

RestoreInVain ==
    /\ Drifted
    /\ Allows(drifts.ages)
    /\ Leaves("DisplayLost")
    /\ UNCHANGED <<losses, recreated>>

StopFighting ==
    /\ Drifted
    /\ ~Allows(drifts.ages)
    /\ drifts' = [ages |-> Recorded(drifts.ages), givenUp |-> TRUE]
    /\ probe' = None
    /\ AsIs /\ UNCHANGED <<ended, debounce, losses, asked, recreated>>

-----------------------------------------------------------------------------
(* The compositor and time.                                                *)

SenderAsIs ==
    UNCHANGED <<ended, debounce, active, probe, drifts, losses, announced, built, asked, recreated>>

\* A configuration is reloaded, a rule moves or resizes the output.
CompositorChanges ==
    /\ active # None /\ built < MaxBuilds
    /\ desk' = [desk EXCEPT !.changed = TRUE]
    /\ SenderAsIs

\* The output is removed, or a thread of its pipeline panics.
Vanishes ==
    /\ active # None /\ built < MaxBuilds
    /\ desk' = [desk EXCEPT !.gone = TRUE]
    /\ SenderAsIs

TimePasses ==
    /\ debounce' = [debounce EXCEPT !.due = IF @ = 0 THEN 0 ELSE @ - 1]
    /\ losses' = Aged(losses)
    /\ drifts' = [drifts EXCEPT !.ages = Aged(@)]
    /\ recreated' = SelectSeq(Aged(recreated), LAMBDA a : a <= LossWindow)
    /\ AsIs /\ UNCHANGED <<ended, probe, asked>>

-----------------------------------------------------------------------------
DisplayInit ==
    /\ ended = None
    /\ debounce = NoPlan
    /\ active = None /\ probe = None
    /\ drifts = NoDrifts /\ losses = <<>>
    /\ desk = Calm
    /\ announced = None
    /\ built = 0
    /\ asked = [plan |-> None, hellos |-> 0]
    /\ recreated = <<>>

Hellos1 == {<<p>> : p \in Plans \cup {Unfit}}
Hellos2 == {<<p, q>> : p, q \in Plans \cup {Unfit}}

Hear ==
    \E batch \in Hellos1 \cup Hellos2 :
        \/ HearHellos(batch)
        \/ \E why \in EndReasons : HearInVain(batch, why)

Settle == SettlePlan \/ \E why \in EndReasons : SettleInVain(why)

HearLost == Recreate \/ GiveUpDisplay

ProbeDone == ProbeInVain \/ Restore \/ RestoreInVain \/ StopFighting

ProbeAnswer == \E why \in BOOLEAN : ProbeAnswers(why)

DisplayHost ==
    \/ Hear
    \/ \E why \in EndReasons : LeaveSession(why)
    \/ Redial
    \/ Settle
    \/ HearLost
    \/ ProbeStarts
    \/ ProbeDone

DisplayWorld ==
    \/ ProbeAnswer
    \/ CompositorChanges
    \/ Vanishes
    \/ TimePasses

DisplayNext == DisplayHost \/ DisplayWorld

\* Timers and threads go on, and select! comes round to a branch that stays
\* ready.  What the receiver, the compositor and the user do is up to them.
DisplaySpec ==
    /\ DisplayInit /\ [][DisplayNext]_displayVars
    /\ WF_displayVars(TimePasses)
    /\ WF_displayVars(Settle)
    /\ WF_displayVars(ProbeStarts) /\ WF_displayVars(ProbeAnswer) /\ WF_displayVars(ProbeDone)

-----------------------------------------------------------------------------
Running == ended = None

(* Whatever is rebuilt for other reasons meanwhile, and however hellos are *)
(* batched, the plan of the last hello is the one that runs and is         *)
(* announced, or the one that is settling (on_hello, poll, apply_now).     *)
PlanKept ==
    Running /\ asked.plan # None =>
        /\ asked.plan = IF debounce.pending # None THEN debounce.pending ELSE debounce.applied
        /\ active # None /\ active.target = debounce.applied
        /\ announced = debounce.applied

(* And it does come to run, unless the receiver asks for another or the    *)
(* session ends (HELLO_DEBOUNCE, sleep_until_opt).                         *)
PlanSettles ==
    \A plan \in Plans :
        Running /\ asked.plan = plan ~> asked.plan # plan \/ active.target = plan

(* A display is restored only if the compositor did change it: an answer   *)
(* about an earlier display is not held against its successor (generation  *)
(* in the drift_done branch).                                              *)
RestoresTheChanged == [][Restore => desk.changed]_displayVars

(* A change does not go unnoticed, whatever earlier probes were about:     *)
(* the display is restored, or the sender says it stops fighting (the slot *)
(* drift_check is cleared on every path).                                  *)
ChangeIsAnswered ==
    Running /\ desk.changed ~> ~desk.changed \/ drifts.givenUp \/ ~Running

(* Within one window a display is recreated no more than max times, over   *)
(* all sessions of the sender together (LossBudget, owned by run).         *)
FewRecreations == Len(recreated) <= MaxLosses

(* Between the receiver, which may change its mind, and the compositor,    *)
(* which may change the display, the sender ends up with the display that  *)
(* was asked for last, answers each change once, blames no display for     *)
(* another's, and within one window recreates it MaxLosses times at most   *)
(* (run_connected, LossBudget).                                            *)
DisplayFollows ==
    PlanSettles /\ RestoresTheChanged /\ ChangeIsAnswered /\ []FewRecreations
=============================================================================
