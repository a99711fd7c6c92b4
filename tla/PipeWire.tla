------------------------------ MODULE PipeWire ------------------------------
(***************************************************************************)
(* The capture of the KDE and GNOME backends: a thread that runs           *)
(* PipeWire's main loop over one stream (pipewire.rs in                    *)
(* linux/crates/od-sender/src), and the session that spawned it.           *)
(*                                                                         *)
(* The daemon is external: it moves the stream through its states, sets a  *)
(* format and fills buffers, and the thread's loop hears of it in that     *)
(* order, later.                                                           *)
(***************************************************************************)
EXTENDS Naturals, Sequences

CONSTANT MaxHeard       \* bound: events of the daemon on their way

ASSUME PipeWireAssumption == MaxHeard \in Nat \ {0}

VARIABLE pw

\* What the stream becomes, the format it is given, what a buffer holds.
StreamStates == {"paused", "streaming", "error", "unconnected"}
Formats == {"known", "foreign"}
Fillings == {"picture", "nothing", "short"}

PipeWireTypeOK ==
    /\ pw.caller \in {"waits", "uses", "gaveUp", "joins", "done"}
    /\ pw.thread \in {"starts", "runs", "over"}
    /\ pw.ready \in {"none", "ok", "failed"}
    /\ pw.stream \in StreamStates \cup {"none", "connecting"}
    /\ pw.format \in Formats \cup {"none"}          \* as the daemon has set it
    /\ pw.pixel \in Formats \cup {"none"}           \* Data.pixel
    /\ pw.streaming \in BOOLEAN /\ pw.ended \in BOOLEAN \* Data's
    /\ pw.quit \in BOOLEAN
    /\ pw.said \in Seq(StreamStates \cup Formats \cup Fillings)
    /\ Len(pw.said) <= MaxHeard
    /\ pw.shown \in BOOLEAN                         \* a frame was delivered

PipeWireInit ==
    pw = [caller |-> "waits", thread |-> "starts", ready |-> "none",
          stream |-> "none", format |-> "none", pixel |-> "none",
          streaming |-> FALSE, ended |-> FALSE, quit |-> FALSE, said |-> <<>>, shown |-> FALSE]

-----------------------------------------------------------------------------
(* PwCapture: spawn and stop.                                              *)

\* The thread's answer within 5 s, or none.
SpawnReturns ==
    /\ pw.caller = "waits" /\ pw.ready # "none"
    /\ pw' = [pw EXCEPT !.caller = IF pw.ready = "ok" THEN "uses" ELSE "gaveUp"]

SpawnGivesUp ==
    /\ pw.caller = "waits" /\ pw.ready = "none"
    /\ pw' = [pw EXCEPT !.caller = "gaveUp"]

StopAsks ==
    /\ pw.caller = "uses"
    /\ pw' = [pw EXCEPT !.caller = "joins", !.quit = TRUE]

StopJoins ==
    /\ pw.caller = "joins" /\ pw.thread = "over"
    /\ pw' = [pw EXCEPT !.caller = "done"]

PwCaller == SpawnReturns \/ SpawnGivesUp \/ StopJoins

-----------------------------------------------------------------------------
(* The thread: run and its callbacks.                                      *)

\* The stream offers the formats that have a pixel format, and connects.
StreamConnects ==
    /\ pw.thread = "starts"
    /\ pw' = [pw EXCEPT !.thread = "runs", !.ready = "ok", !.stream = "connecting"]

PwFails ==
    /\ pw.thread = "starts"
    /\ pw' = [pw EXCEPT !.thread = "over", !.ready = "failed"]

\* Mutant: a stream is over when it fails.
EndsOnError(new) == new = "error"

\* A stream that never streamed goes unconnected without a word.
EndsWith(new) == new = "error" \/ (new = "unconnected" /\ pw.streaming)

\* state_changed, param_changed, process.
StateChanged(new) ==
    [pw EXCEPT !.streaming = @ \/ new = "streaming", !.ended = @ \/ EndsWith(new)]
ParamChanged(f) ==
    [pw EXCEPT !.pixel = f, !.ended = @ \/ f = "foreign"]
Process(b) ==
    [pw EXCEPT !.shown = @ \/ (pw.pixel = "known" /\ b = "picture")]

CalledBack(e) ==
    CASE e \in StreamStates -> StateChanged(e)
      [] e \in Formats -> ParamChanged(e)
      [] e \in Fillings -> Process(e)

HearsDaemon ==
    /\ pw.thread = "runs" /\ pw.said # <<>>
    /\ pw' = [CalledBack(Head(pw.said)) EXCEPT !.said = Tail(@)]

\* Mutant: the loop quits when nothing happens any more.
QuitsAtRest == pw.thread = "runs" /\ pw.quit /\ pw.ended

Quits == pw.thread = "runs" /\ pw.quit

LoopQuits ==
    /\ Quits
    /\ pw' = [pw EXCEPT !.thread = "over", !.said = <<>>, !.stream = "none"]

PwThread == StreamConnects \/ PwFails \/ HearsDaemon \/ LoopQuits

-----------------------------------------------------------------------------
(* The daemon.                                                             *)

\* What the daemon may do with a stream that is in a state.
May(e) ==
    CASE e = "paused" -> pw.stream \in {"connecting", "streaming"}
      [] e = "streaming" -> pw.stream = "paused" /\ pw.format = "known"
      [] e \in {"error", "unconnected"} -> pw.stream \in {"connecting", "paused", "streaming"}
      [] e \in Formats -> pw.stream = "paused"
      [] e \in Fillings -> pw.stream = "streaming"

Daemon(e) ==
    /\ pw.thread = "runs" /\ Len(pw.said) < MaxHeard /\ May(e)
    /\ pw' = [pw EXCEPT !.said = Append(@, e),
                        !.stream = IF e \in StreamStates THEN e ELSE @,
                        !.format = IF e \in Formats THEN e ELSE @]

PipeWireNext ==
    \/ SpawnReturns \/ SpawnGivesUp \/ StopAsks \/ StopJoins
    \/ StreamConnects \/ PwFails \/ HearsDaemon \/ LoopQuits
    \/ \E e \in StreamStates \cup Formats \cup Fillings : Daemon(e)

\* Both threads run; the loop takes up a message of the session as it does the daemon's.
PipeWireFairness == WF_pw(PwCaller) /\ WF_pw(PwThread) /\ WF_pw(LoopQuits)

PipeWireSpec == PipeWireInit /\ [][PipeWireNext]_pw /\ PipeWireFairness

-----------------------------------------------------------------------------
(* Properties.                                                             *)

\* A stream that has shown something and goes away or fails ends its capture,
\* unless the session stopped it before; and a session that stops one gets its
\* thread back, whatever the stream is at (run, PwCapture::stop).
StreamEnds ==
    /\ (pw.shown /\ pw.stream \in {"error", "unconnected"}) ~> (pw.ended \/ pw.quit)
    /\ pw.caller = "joins" ~> pw.caller = "done"

\* These do not hold.  A stream that goes away before it has shown anything
\* is never reported; a session that gave up after 5 s leaves its thread.
EveryEndIsTold ==
    (pw.caller = "uses" /\ pw.stream \in {"error", "unconnected"}) ~> (pw.ended \/ pw.quit)
NoThreadIsLeft == pw.caller = "gaveUp" ~> pw.thread = "over"
=============================================================================
