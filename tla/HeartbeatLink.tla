--------------------------- MODULE HeartbeatLink ---------------------------
(***************************************************************************)
(* Liveness of one connection (PROTOCOL.md section 8.2): both sessions     *)
(* with all their clocks, inside the two single-threaded hosts that drive  *)
(* them.  The sender's host is session in od-sender/src/session.rs, the    *)
(* receiver's is run in od-receiver/src/lib.rs.  A host that is writing to *)
(* a full socket, or building a display, serves nothing else: it reads no  *)
(* bytes and gets no tick until it is back in its select!.                 *)
(*                                                                         *)
(* down and up hold what one host has written and the other has not read,  *)
(* socket buffers included; each frame has the age it spent there.  One    *)
(* unit of time passes for everything at once, and never past a moment at  *)
(* which a host would have acted.                                          *)
(***************************************************************************)
EXTENDS SenderSession, ReceiverSession

CONSTANTS
    DownCap, UpCap, \* frames the sockets of a direction hold
    MaxDelay,       \* bound: time a frame is under way to a host that reads
    BuildTime,      \* bound: time build takes
    Loads           \* what the two ends have to send beside the pings

ASSUME HeartbeatAssumption ==
    /\ DownCap \in Nat \ {0} /\ UpCap \in Nat \ {0}
    /\ MaxDelay \in Nat /\ BuildTime \in Nat
    /\ PingInterval + MaxDelay <= LivenessTimeout
    /\ None \notin {"timeout", "stopped", "left"}

VARIABLES
    up, down,       \* the two directions of the connection
    sh, rh,         \* the hosts of the sender and of the receiver
    wire,           \* "up", or "cut": the peer is gone without a word
    load,           \* "video": the screen changes, a frame in every unit of
                    \* time; "input": the user acts, a message in every unit
    held            \* history: a host was kept from its select! too long

vars == <<snd, rcv, up, down, sh, rh, wire, load, held>>

-----------------------------------------------------------------------------
\* at: "select", "write", "build" or "done"; left: units build still takes;
\* idle: no video or input message yet in this unit of time.
Host(at, out) == [at |-> at, out |-> out, left |-> 0, idle |-> TRUE, end |-> None]

HeartbeatInit ==
    /\ snd = Fresh(TRUE)
    /\ rcv = Reset(TRUE, None)
    /\ up = << >> /\ down = << >>
    /\ sh = Host("select", << >>)
    /\ rh = Host("write", <<HelloFrame>>)
    /\ wire = "up"
    /\ load \in Loads
    /\ held = FALSE

Aged(q) == [i \in DOMAIN q |-> [q[i] EXCEPT !.age = IF @ < MaxDelay THEN @ + 1 ELSE @]]

Sent(q, m) == Append(q, [m |-> m, age |-> 0])

Writing(h, frames) ==
    IF frames = << >> THEN [h EXCEPT !.at = "select"]
    ELSE [h EXCEPT !.at = "write", !.out = frames]

Ended(h, why) == [h EXCEPT !.at = "done", !.out = << >>, !.end = why]

Connected == wire = "up"

-----------------------------------------------------------------------------
(* The sender's host.                                                      *)

\* After the answers to the first hello the display is built.
SenderReads ==
    /\ sh.at = "select"
    /\ Connected /\ up # << >>
    /\ LET m == Head(up).m
       IN  /\ SenderHears(m)
           /\ sh' = IF m.type = "hello" /\ snd.hello = None
                    THEN [Writing(sh, SenderReplies(m)) EXCEPT !.left = BuildTime]
                    ELSE Writing(sh, SenderReplies(m))
    /\ up' = Tail(up)
    /\ UNCHANGED <<rcv, down, rh, wire, load, held>>

\* Mutant: the session gives the peer up, and its host goes on.
SenderTicksOn ==
    /\ sh.at = "select"
    /\ SenderTick
    /\ snd' # snd
    /\ sh' = Writing(sh, SenderTickFrames)
    /\ UNCHANGED <<rcv, up, down, rh, wire, load, held>>

SenderTicks ==
    /\ sh.at = "select"
    /\ SenderTick
    /\ snd' # snd
    /\ sh' = IF SenderSilent THEN Ended(sh, "timeout") ELSE Writing(sh, SenderTickFrames)
    /\ UNCHANGED <<rcv, up, down, rh, wire, load, held>>


SenderShows ==
    /\ load = "video" /\ sh.idle
    /\ sh.at = "select"
    /\ ReadyForVideo
    /\ sh' = [Writing(sh, <<[type |-> "video"]>>) EXCEPT !.idle = FALSE]
    /\ UNCHANGED <<snd, rcv, up, down, rh, wire, load, held>>

\* One frame of write_all; the display is built once the batch is out.
SenderWrites ==
    /\ sh.at = "write"
    /\ Len(down) < DownCap
    /\ down' = Sent(down, Head(sh.out))
    /\ sh' = [sh EXCEPT !.out = Tail(@),
                        !.at = IF Len(sh.out) > 1 THEN @
                               ELSE IF sh.left > 0 THEN "build" ELSE "select"]
    /\ UNCHANGED <<snd, rcv, up, rh, wire, load, held>>

\* build may return at any time up to BuildTime; streamConfig follows it.
SenderBuilt ==
    /\ sh.at = "build"
    /\ sh' = [Writing(sh, <<[type |-> "streamConfig"]>>) EXCEPT !.left = 0]
    /\ UNCHANGED <<snd, rcv, up, down, rh, wire, load, held>>

\* Ctrl+C is a branch of the select! too.
SenderStops ==
    /\ sh.at = "select"
    /\ SenderDisconnect
    /\ sh' = Ended(sh, "stopped")
    /\ UNCHANGED <<rcv, up, down, rh, wire, load, held>>

\* The receiver closed: a read returns nothing, or a write fails.
SenderLeft ==
    /\ sh.at \in {"select", "write"}
    /\ Connected /\ rh.at = "done"
    /\ SenderDisconnect
    /\ sh' = Ended(sh, "left")
    /\ UNCHANGED <<rcv, up, down, rh, wire, load, held>>

SenderHost ==
    SenderReads \/ SenderTicks \/ SenderShows \/ SenderWrites \/ SenderBuilt \/ SenderLeft

-----------------------------------------------------------------------------
(* The receiver's host.                                                    *)

\* Video is decoded or not; of that only the arrival matters here.
ReceiverReads ==
    /\ rh.at = "select"
    /\ Connected /\ down # << >>
    /\ LET m == Head(down).m
       IN  IF m.type = "video" THEN ReceiverHearPartial ELSE ReceiverHears(m)
    /\ down' = Tail(down)
    /\ UNCHANGED <<snd, up, sh, rh, wire, load, held>>

ReceiverTicks ==
    /\ rh.at = "select"
    /\ ReceiverTick
    /\ rcv' # rcv
    /\ rh' = IF ReceiverSilent THEN Ended(rh, "timeout") ELSE Writing(rh, ReceiverTickFrames)
    /\ UNCHANGED <<snd, up, down, sh, wire, load, held>>

ReceiverInputs ==
    /\ load = "input" /\ rh.idle
    /\ rh.at = "select"
    /\ rh' = [Writing(rh, <<[type |-> "input"]>>) EXCEPT !.idle = FALSE]
    /\ UNCHANGED <<snd, rcv, up, down, sh, wire, load, held>>

ReceiverWrites ==
    /\ rh.at = "write"
    /\ Len(up) < UpCap
    /\ up' = Sent(up, Head(rh.out))
    /\ rh' = [rh EXCEPT !.out = Tail(@), !.at = IF Len(rh.out) > 1 THEN @ ELSE "select"]
    /\ UNCHANGED <<snd, rcv, down, sh, wire, load, held>>

ReceiverStops ==
    /\ rh.at = "select"
    /\ ReceiverDisconnect
    /\ rh' = Ended(rh, "stopped")
    /\ UNCHANGED <<snd, up, down, sh, wire, load, held>>

ReceiverLeft ==
    /\ rh.at \in {"select", "write"}
    /\ Connected /\ sh.at = "done"
    /\ ReceiverDisconnect
    /\ rh' = Ended(rh, "left")
    /\ UNCHANGED <<snd, up, down, sh, wire, load, held>>

ReceiverHost ==
    ReceiverReads \/ ReceiverTicks \/ ReceiverInputs \/ ReceiverWrites \/ ReceiverLeft

-----------------------------------------------------------------------------
Cut ==
    /\ wire = "up"
    /\ wire' = "cut"
    /\ UNCHANGED <<snd, rcv, up, down, sh, rh, load, held>>

\* A host that could act does so before time passes: a tick that is due, a
\* write there is room for, bytes that have been under way for MaxDelay.
SenderPrompt ==
    CASE sh.at = "select" ->
           /\ ~SenderSilent /\ snd.pingIn # 0
           /\ ~(Connected /\ up # << >> /\ Head(up).age = MaxDelay)
           /\ ~(load = "video" /\ sh.idle /\ ReadyForVideo)
      [] sh.at = "write" -> Len(down) = DownCap
      [] sh.at = "build" -> sh.left > 0
      [] OTHER -> TRUE

ReceiverPrompt ==
    CASE rh.at = "select" ->
           /\ ~ReceiverSilent /\ rcv.pingIn # 0
           /\ ~(Connected /\ down # << >> /\ Head(down).age = MaxDelay)
           /\ ~(load = "input" /\ rh.idle)
      [] rh.at = "write" -> Len(up) = UpCap
      [] OTHER -> TRUE

\* Time passes although a host waits for room in a socket, or once more for
\* a display that has taken all of the peer's window but the way there.
TooLong ==
    \/ sh.at = "write" \/ rh.at = "write"
    \/ sh.at = "build" /\ BuildTime - sh.left >= LivenessTimeout - MaxDelay

Elapses ==
    /\ SenderPrompt /\ ReceiverPrompt
    /\ SenderElapse /\ ReceiverElapse
    /\ up' = Aged(up) /\ down' = Aged(down)
    /\ sh' = [sh EXCEPT !.idle = TRUE, !.left = IF sh.at = "build" THEN @ - 1 ELSE @]
    /\ rh' = [rh EXCEPT !.idle = TRUE]
    /\ held' = (held \/ TooLong)
    /\ UNCHANGED <<wire, load>>

HeartbeatNext ==
    SenderHost \/ ReceiverHost \/ SenderStops \/ ReceiverStops \/ Cut \/ Elapses

HeartbeatSpec ==
    /\ HeartbeatInit /\ [][HeartbeatNext]_vars
    /\ WF_vars(SenderHost) /\ WF_vars(ReceiverHost) /\ WF_vars(Elapses)

-----------------------------------------------------------------------------
(* While both hosts are alive and the network delivers, neither takes the  *)
(* other for dead: the pings of either side, sent between frames of video  *)
(* and beside the build of a display, keep within the other's window       *)
(* (on_tick of both sessions, select! of both hosts).  Unless one of them  *)
(* served nothing for too long: in a write to a full socket, which neither *)
(* write_all bounds, or in a build that outlasts the window.               *)
NoFalseTimeout ==
    Connected /\ ~held =>
        /\ sh.end = "timeout" => rh.at = "done"
        /\ rh.end = "timeout" => sh.at = "done"


(* When the peer is gone without a word, the sender notices and closes.    *)
(* PROTOCOL.md section 8.2: "The official sender reconnects after more     *)
(* than 5 s without any bytes from the receiver".                          *)
SenderNotices == wire = "cut" ~> sh.at = "done"

(* It does unless it waits in write_all for room that nobody makes any     *)
(* more, and so does the receiver: neither builds, batches nor what the    *)
(* peer had said before keeps a host from its tick (on_tick of either      *)
(* session, select! of both hosts).                                        *)
LossIsNoticed ==
    /\ wire = "cut" ~> sh.at = "done" \/ (sh.at = "write" /\ Len(down) = DownCap)
    /\ wire = "cut" ~> rh.at = "done" \/ (rh.at = "write" /\ Len(up) = UpCap)
=============================================================================
