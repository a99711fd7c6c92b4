----------------------------- MODULE SleepWatch -----------------------------
(***************************************************************************)
(* A receiver's machine goes to sleep: the thread that watches logind with *)
(* a delay lock (power.rs in linux/crates/od-receiver/src) and the         *)
(* receiver's loop, which says sleeping to its sender (lib.rs).            *)
(*                                                                         *)
(* logind is external: it announces a sleep, waits for the delay locks but *)
(* not for ever, and announces the wake.  It grants no lock while a sleep  *)
(* is under way.  Nothing moves while the machine sleeps.                  *)
(***************************************************************************)
EXTENDS Naturals, Sequences

CONSTANT MaxSleeps      \* bound: sleeps of the machine

ASSUME SleepAssumption == MaxSleeps \in Nat

VARIABLES
    machine,        \* logind and the machine
    watcher,        \* the thread that watches
    loop            \* Receiver::run

sleepVars == <<machine, watcher, loop>>

Requests == 1 .. MaxSleeps

SleepTypeOK ==
    /\ machine \in [state : {"awake", "preparing", "asleep"},
                    sleeps : 0 .. MaxSleeps,
                    hurried : BOOLEAN]      \* the sleep did not wait, see Prepares
    /\ watcher.at \in {"listen", "wait", "take", "gone"}
    /\ watcher.lock \in BOOLEAN
    /\ watcher.signals \in Seq(BOOLEAN)     \* PrepareForSleep not yet read
    /\ watcher.request \in 0 .. MaxSleeps   \* the last PowerEvent
    /\ loop.at \in {"runs", "writes", "says", "over"}
    /\ loop.sender \in {"none", "before", "after"}  \* connected before this sleep's announcement
    /\ loop.events \in Seq(Requests)
    /\ loop.done \subseteq Requests

SleepInit ==
    /\ machine = [state |-> "awake", sleeps |-> 0, hurried |-> FALSE]
    /\ watcher = [at |-> "listen", lock |-> TRUE, signals |-> <<>>, request |-> 0]
    /\ loop = [at |-> "runs", sender |-> "none", events |-> <<>>, done |-> {}]

-----------------------------------------------------------------------------
(* logind.                                                                 *)

\* A watcher that has not caught up with the last wake, or is gone, has no lock to wait for.
CaughtUp == watcher.at = "listen" /\ watcher.signals = <<>>

Prepares ==
    /\ machine.state = "awake" /\ machine.sleeps < MaxSleeps
    /\ machine' = [state |-> "preparing", sleeps |-> machine.sleeps + 1, hurried |-> ~CaughtUp]
    /\ watcher' = [watcher EXCEPT !.signals = Append(@, TRUE)]
    /\ loop' = [loop EXCEPT !.sender = IF @ = "none" THEN @ ELSE "before"]

Suspends ==
    /\ machine.state = "preparing" /\ ~watcher.lock
    /\ machine' = [machine EXCEPT !.state = "asleep"]
    /\ UNCHANGED <<watcher, loop>>

\* InhibitDelayMaxSec is over.
SuspendsAnyway ==
    /\ machine.state = "preparing" /\ watcher.lock
    /\ machine' = [machine EXCEPT !.state = "asleep", !.hurried = TRUE]
    /\ UNCHANGED <<watcher, loop>>

Wakes ==
    /\ machine.state = "asleep"
    /\ machine' = [machine EXCEPT !.state = "awake"]
    /\ watcher' = [watcher EXCEPT !.signals = Append(@, FALSE)]
    /\ UNCHANGED loop

-----------------------------------------------------------------------------
(* watch_logind.                                                           *)

WatcherEnds == watcher' = [watcher EXCEPT !.at = "gone", !.lock = FALSE, !.signals = <<>>]

\* The machine is about to sleep; with the loop over nobody takes the event.
HearsSleep ==
    /\ watcher.at = "listen" /\ watcher.signals # <<>> /\ Head(watcher.signals)
    /\ IF loop.at = "over" THEN WatcherEnds /\ UNCHANGED loop
       ELSE /\ watcher' = [watcher EXCEPT !.at = "wait", !.request = @ + 1,
                                          !.signals = Tail(@)]
            /\ loop' = [loop EXCEPT !.events = Append(@, watcher.request + 1)]
    /\ UNCHANGED machine

\* Mutant: an answer is an answer.
DoneWithAny == loop.done # {}

\* The answer to this event, or its sender dropped with the loop.
DoneWith == watcher.request \in loop.done

LetsSleep ==
    /\ watcher.at = "wait" /\ (DoneWith \/ loop.at = "over")
    /\ watcher' = [watcher EXCEPT !.at = "listen", !.lock = FALSE]
    /\ UNCHANGED <<machine, loop>>

\* The loop does not answer in 1.5 s.
WaitsNoLonger ==
    /\ watcher.at = "wait" /\ ~DoneWith /\ loop.at # "over"
    /\ watcher' = [watcher EXCEPT !.at = "listen", !.lock = FALSE]
    /\ machine' = [machine EXCEPT !.hurried = @ \/ machine.state = "preparing"]
    /\ UNCHANGED loop

HearsWake ==
    /\ watcher.at = "listen" /\ watcher.signals # <<>> /\ ~Head(watcher.signals)
    /\ watcher' = [watcher EXCEPT !.at = IF watcher.lock THEN "listen" ELSE "take",
                                  !.signals = Tail(@)]
    /\ UNCHANGED <<machine, loop>>

\* An error of inhibit ends the thread.
TakesLock ==
    /\ watcher.at = "take"
    /\ IF machine.state = "preparing" THEN WatcherEnds
       ELSE watcher' = [watcher EXCEPT !.at = "listen", !.lock = TRUE]
    /\ UNCHANGED <<machine, loop>>

BusFails ==
    /\ watcher.at # "gone" /\ WatcherEnds
    /\ machine' = [machine EXCEPT !.hurried = @ \/ machine.state = "preparing"]
    /\ UNCHANGED loop

Watches == HearsSleep \/ LetsSleep \/ WaitsNoLonger \/ HearsWake \/ TakesLock \/ BusFails

-----------------------------------------------------------------------------
(* Receiver::run.                                                          *)

\* Mutant: the answer before the word.
AnswersFirst(n) ==
    [loop EXCEPT !.events = Tail(@), !.done = @ \cup {n},
                 !.at = IF loop.sender = "none" THEN "runs" ELSE "says"]

\* The event: with a sender the word comes first, and its write may block.
AnswersPower(n) ==
    IF loop.sender = "none" THEN [loop EXCEPT !.events = Tail(@), !.done = @ \cup {n}]
    ELSE [loop EXCEPT !.at = "says"]

TakesPowerEvent ==
    /\ loop.at = "runs" /\ loop.events # <<>>
    /\ loop' = AnswersPower(Head(loop.events))

\* sleeping is written, the connection hung up, and the watcher told.
Said ==
    /\ loop.at = "says"
    /\ loop' = [loop EXCEPT !.at = "runs", !.sender = "none",
                  !.events = IF @ = <<>> THEN @ ELSE Tail(@),
                  !.done = IF loop.events = <<>> THEN @ ELSE @ \cup {Head(loop.events)}]

\* The loop is busy, in a write that may block.
LoopWrites ==
    /\ loop.at \in {"runs", "writes"}
    /\ loop' = [loop EXCEPT !.at = IF @ = "runs" THEN "writes" ELSE "runs"]

\* A sender connects, or a newcomer takes over, the old one being hung up.
SenderConnects ==
    /\ loop.at = "runs"
    /\ loop' = [loop EXCEPT !.sender = "after"]

SenderGoes ==
    /\ loop.at \in {"runs", "writes"} /\ loop.sender # "none"
    /\ loop' = [loop EXCEPT !.at = "runs", !.sender = "none"]

\* The user closes the receiver: closing is said and the channel dropped.
ReceiverCloses ==
    /\ loop.at = "runs"
    /\ loop' = [loop EXCEPT !.at = "over", !.sender = "none", !.events = <<>>]

LoopSteps ==
    /\ TakesPowerEvent \/ Said \/ LoopWrites \/ SenderConnects \/ SenderGoes \/ ReceiverCloses
    /\ UNCHANGED <<machine, watcher>>

SleepNext ==
    \/ Prepares \/ Suspends \/ SuspendsAnyway \/ Wakes
    \/ machine.state # "asleep" /\ (Watches \/ LoopSteps)

SleepSpec == SleepInit /\ [][SleepNext]_sleepVars

-----------------------------------------------------------------------------
(* Properties.                                                             *)

\* Whatever the loop is at when the machine goes to sleep, and however the
\* sleep before it went, a sender that was connected hears sleeping before
\* the machine stops, unless the loop or the watcher took too long; and a
\* watcher that has caught up with the last wake holds its lock for the next
\* sleep (watch_logind, Receiver::run).
SleepIsSaid ==
    /\ machine.state = "asleep" /\ ~machine.hurried => loop.sender # "before"
    /\ machine.state = "awake" /\ CaughtUp => watcher.lock

\* This does not hold: the wake is read when the next sleep is under way,
\* logind grants no lock, and no sleep is told of any more.
WatcherStays == [][watcher.at = "take" => watcher'.at # "gone"]_sleepVars
=============================================================================
