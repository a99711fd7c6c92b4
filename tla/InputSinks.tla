----------------------------- MODULE InputSinks -----------------------------
(***************************************************************************)
(* The receiver's touches as pointer events on the sender's desktop        *)
(* (wayland/input.rs, backend/gnome/input.rs and backend/kde/input.rs in   *)
(* linux/crates/od-sender).  The session owns the sink; on wlroots and     *)
(* GNOME a thread of the sink's talks to the compositor, which may be      *)
(* slow, and the session waits for it at the end, but not for ever         *)
(* (bounded.rs): the next session then begins beside a thread of the last. *)
(*                                                                         *)
(* A move or a scroll does nothing to a button and is left out.            *)
(***************************************************************************)
EXTENDS Option, Naturals, Sequences

CONSTANTS
    SinkKinds,      \* "wayland", "gnome", "kde"
    MaxSinks,       \* bound: sessions with input, one after the other
    MaxQueued       \* bound: commands in a sink's channel

ASSUME InputAssumption ==
    /\ SinkKinds \subseteq {"wayland", "gnome", "kde"}
    /\ MaxSinks \in Nat /\ MaxQueued \in Nat

VARIABLES
    owner,          \* the session's side
    sink            \* the sinks, each with its thread and its pointer

sinkVars == <<owner, sink>>

Sinks == 1 .. MaxSinks
TouchPhases == {"began", "moved", "ended", "cancelled"}

InputTypeOK ==
    /\ owner \in [kind : SinkKinds, now : 0 .. MaxSinks,
                  at : {"none", "starts", "up", "waits", "exited"}]
    /\ sink \in [Sinks ->
         [thread : {"none", "starts", "runs", "done"},
          queue : UNION {[1 .. n -> TouchPhases \cup {"stop"}] : n \in 0 .. MaxQueued + 1},
          open : BOOLEAN,                   \* its channel has a sender
          pressed : BOOLEAN,                \* what the sink believes
          down : BOOLEAN,                   \* what the compositor was told
          waited : {"no", "done", "left"}]]

NoSink == [thread |-> "none", queue |-> <<>>, open |-> FALSE,
           pressed |-> FALSE, down |-> FALSE, waited |-> "no"]

SinkInit ==
    /\ owner \in [kind : SinkKinds, now : {0}, at : {"none"}]
    /\ sink = [i \in Sinks |-> NoSink]

-----------------------------------------------------------------------------
Mine == sink[owner.now]
Synchronous == owner.kind = "kde"

\* The button goes down or up, unless it is already.
Pointer(s, phase) ==
    CASE phase = "began" /\ ~s.pressed -> [s EXCEPT !.pressed = TRUE, !.down = TRUE]
      [] phase \in {"ended", "cancelled"} /\ s.pressed -> [s EXCEPT !.pressed = FALSE, !.down = FALSE]
      [] OTHER -> s

\* Mutant: the thread just ends.
FinishedAsIs(s) == [s EXCEPT !.thread = "done", !.queue = <<>>]

\* The loop is over: a held button is let go.
Finished(s) == [s EXCEPT !.thread = "done", !.queue = <<>>,
                         !.pressed = FALSE, !.down = FALSE]

-----------------------------------------------------------------------------
(* The session: build, its select loop, close.                             *)

\* A wlroots sink answers when it has its pointer; the others are at once.
StartsSink ==
    /\ owner.at = "none"
    /\ owner.now < MaxSinks
    /\ owner' = [owner EXCEPT !.now = @ + 1,
                             !.at = IF owner.kind = "wayland" THEN "starts" ELSE "up"]
    /\ sink' = [sink EXCEPT ![owner.now + 1] =
                  [NoSink EXCEPT !.open = TRUE,
                                 !.thread = CASE owner.kind = "wayland" -> "starts"
                                              [] owner.kind = "gnome" -> "runs"
                                              [] OTHER -> "none"]]

SinkReady ==
    /\ owner.at = "starts"
    /\ owner' = [owner EXCEPT !.at = "up"]
    /\ sink' = [sink EXCEPT ![owner.now].thread = "runs"]

\* No pointer manager, no such output, or no mode: a session without input.
SinkUnavailable ==
    /\ owner.at = "starts"
    /\ owner' = [owner EXCEPT !.at = "none"]
    /\ sink' = [sink EXCEPT ![owner.now].thread = "done", ![owner.now].open = FALSE]

Touches ==
    /\ owner.at = "up"
    /\ Len(Mine.queue) < MaxQueued
    /\ \E phase \in TouchPhases :
         sink' = [sink EXCEPT ![owner.now] =
                    IF Synchronous THEN Pointer(@, phase)
                    ELSE IF @.thread = "runs" THEN [@ EXCEPT !.queue = Append(@, phase)]
                    ELSE @]
    /\ UNCHANGED owner

\* Stop, or the end of the channel; then the wait.
DropsSink ==
    /\ owner.at = "up"
    /\ IF Synchronous
       THEN /\ owner' = [owner EXCEPT !.at = "none"]
            /\ sink' = [sink EXCEPT ![owner.now] =
                          [@ EXCEPT !.pressed = FALSE, !.down = FALSE,
                                    !.open = FALSE, !.waited = "done"]]
       ELSE /\ owner' = [owner EXCEPT !.at = "waits"]
            /\ sink' = [sink EXCEPT ![owner.now] =
                          IF owner.kind = "wayland" /\ @.thread = "runs"
                          THEN [@ EXCEPT !.queue = Append(@, "stop")]
                          ELSE [@ EXCEPT !.open = FALSE]]

\* Mutant: nobody waits.
WaitsNot ==
    /\ owner.at = "waits"
    /\ owner' = [owner EXCEPT !.at = "none"]
    /\ sink' = [sink EXCEPT ![owner.now].open = FALSE, ![owner.now].waited = "done"]

\* join_within: done is disconnected.
Joins ==
    /\ owner.at = "waits"
    /\ Mine.thread = "done"
    /\ owner' = [owner EXCEPT !.at = "none"]
    /\ sink' = [sink EXCEPT ![owner.now].open = FALSE, ![owner.now].waited = "done"]

\* After DROP_JOIN the thread is left to itself.
LeavesThread ==
    /\ owner.at = "waits"
    /\ Mine.thread # "done"
    /\ owner' = [owner EXCEPT !.at = "none"]
    /\ sink' = [sink EXCEPT ![owner.now].open = FALSE, ![owner.now].waited = "left"]

\* The end of main: its threads are no more.
Exits ==
    /\ owner.at = "none"
    /\ owner' = [owner EXCEPT !.at = "exited"]
    /\ sink' = [i \in Sinks |-> [sink[i] EXCEPT !.thread = "done", !.queue = <<>>]]

-----------------------------------------------------------------------------
(* A sink's thread.                                                        *)

HandlesTouch(i) ==
    /\ sink[i].thread = "runs"
    /\ sink[i].queue # <<>>
    /\ LET cmd == Head(sink[i].queue) IN
         sink' = [sink EXCEPT ![i] =
                    IF cmd = "stop" THEN Finished(@)
                    ELSE [Pointer(@, cmd) EXCEPT !.queue = Tail(@)]]
    /\ UNCHANGED owner

ChannelClosed(i) ==
    /\ sink[i].thread = "runs"
    /\ sink[i].queue = <<>>
    /\ ~sink[i].open
    /\ sink' = [sink EXCEPT ![i] = Finished(@)]
    /\ UNCHANGED owner

\* A Wayland connection that broke takes its pointer with it, at once.
\* GNOME's thread logs the error of a call and goes on.
ConnectionLost(i) ==
    /\ owner.kind = "wayland"
    /\ sink[i].thread = "runs"
    /\ sink' = [sink EXCEPT ![i] = [Finished(@) EXCEPT !.pressed = sink[i].pressed]]
    /\ UNCHANGED owner

SinkThread(i) == HandlesTouch(i) \/ ChannelClosed(i) \/ ConnectionLost(i)

SinkNext ==
    \/ StartsSink \/ SinkReady \/ SinkUnavailable \/ Touches \/ DropsSink
    \/ Joins \/ LeavesThread \/ Exits
    \/ \E i \in Sinks : SinkThread(i)

SinkSpec == SinkInit /\ [][SinkNext]_sinkVars /\ \A i \in Sinks : WF_sinkVars(SinkThread(i))

-----------------------------------------------------------------------------
(* Properties.                                                             *)

\* A session that ends in the middle of a touch leaves no button pressed on
\* the user's desktop, unless the wait for the thread was cut short: not in
\* the sessions after it, and not when the process exits.
LeavesNothingPressed ==
    [][\A i \in Sinks : sink'[i].waited = "done" => ~sink'[i].down]_sinkVars

\* A thread that was left to itself still lets the button go, if the process
\* lives.
LeftThreadLetsGo ==
    \A i \in Sinks : sink[i].waited = "left" ~> (~sink[i].down \/ owner.at = "exited")

\* A touch does not outlive its session by more than it takes the input
\* thread to see that its channel is closed (Drop for the sinks, join_within).
TouchEnds == LeavesNothingPressed /\ LeftThreadLetsGo
=============================================================================
