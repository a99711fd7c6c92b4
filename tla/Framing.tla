------------------------------ MODULE Framing ------------------------------
(***************************************************************************)
(* Frames on a TCP connection and the channel each belongs to: framing.rs  *)
(* and demux.rs in linux/crates/opendisplay-proto, as the sessions         *)
(* (opendisplay-session) use them.  TCP cuts the bytes anywhere and loses  *)
(* what is on its way when a connection ends.                              *)
(*                                                                         *)
(* A length is written in two bytes instead of four, and a byte is one of  *)
(* 0 .. 7, of which 0 is NUL and 7 the brace.                              *)
(***************************************************************************)
EXTENDS Naturals, Sequences, SequencesExt, FiniteSets

CONSTANTS
    MaxPayload,     \* Deframer::max_payload: 64 MiB, or 1 MiB - 1 for a sender
    ControlMaxLen,  \* CONTROL_MAX_LEN: 32768
    MaxFrames,      \* bound: frames written on a connection
    MaxConns        \* bound: connections

ASSUME FramingAssumption ==
    /\ MaxPayload \in 1 .. 63 /\ ControlMaxLen \in Nat
    /\ MaxFrames \in Nat /\ MaxConns \in Nat

VARIABLE deframer   \* the peer that writes, the line, and the Deframer

framingVars == <<deframer>>

-----------------------------------------------------------------------------
HeaderLen == 2
Brace == 7

EncodeFrame(payload) == <<Len(payload) \div 8, Len(payload) % 8>> \o payload

\* What peers write: control messages, with and without something in them,
\* and pictures, of which some begin with telemetry.  Every picture has a
\* start code in it.
Controls == {<<Brace>>, <<Brace, 5>>}
Pictures == {<<Brace, 0>>, <<0, 1>>, <<5, 0, 1>>}
BadLengths == {0, MaxPayload + 1}

\* Mutant: the first byte decides.
ByFirstByte(payload) == IF payload[1] = Brace THEN "control" ELSE "video"

\* classify.
Classify(payload) ==
    IF /\ Len(payload) < ControlMaxLen
       /\ payload[1] = Brace
       /\ \A i \in DOMAIN payload : payload[i] # 0
    THEN "control" ELSE "video"

-----------------------------------------------------------------------------
(* Deframer.                                                               *)

FrameLen(buf) == 8 * buf[1] + buf[2]

Unusable(buf) == Len(buf) >= HeaderLen /\ FrameLen(buf) \notin 1 .. MaxPayload

\* next_frame has one.
HasFrame(buf) ==
    Len(buf) >= HeaderLen /\ ~Unusable(buf) /\ Len(buf) >= HeaderLen + FrameLen(buf)

Frame(buf) == SubSeq(buf, HeaderLen + 1, HeaderLen + FrameLen(buf))
Rest(buf) == SubSeq(buf, HeaderLen + FrameLen(buf) + 1, Len(buf))

Took(d) ==
    [d EXCEPT !.got = Append(@, [payload |-> Frame(d.buf), channel |-> Classify(Frame(d.buf))]),
              !.buf = Rest(@)]

\* Mutant: one frame for every read.
DrainedOnce(d) == IF HasFrame(d.buf) THEN Took(d) ELSE d

\* The loop of on_bytes: every frame that is there; an error closes.
RECURSIVE Drained(_)
Drained(d) ==
    CASE HasFrame(d.buf) -> Drained(Took(d))
      [] Unusable(d.buf) -> [d EXCEPT !.poisoned = TRUE, !.connected = FALSE]
      [] OTHER -> d

-----------------------------------------------------------------------------
FramingInit ==
    deframer = [conns |-> 0, connected |-> FALSE, sent |-> <<>>, bad |-> FALSE,
                line |-> <<>>, buf |-> <<>>, poisoned |-> FALSE, got |-> <<>>]

\* Mutant: what was left of the last connection stays.
OpenKeepingBytes ==
    /\ ~deframer.connected /\ deframer.conns < MaxConns
    /\ deframer' = [deframer EXCEPT !.conns = @ + 1, !.connected = TRUE, !.sent = <<>>,
                                    !.bad = FALSE, !.line = <<>>, !.poisoned = FALSE, !.got = <<>>]

\* on_connected.
OpenConnection ==
    /\ ~deframer.connected /\ deframer.conns < MaxConns
    /\ deframer' = [deframer EXCEPT !.conns = @ + 1, !.connected = TRUE, !.sent = <<>>,
                                    !.bad = FALSE, !.line = <<>>, !.buf = <<>>,
                                    !.poisoned = FALSE, !.got = <<>>]

\* to_payload refuses a message that would not be taken for one.
WriteFrame(payload, channel) ==
    /\ deframer.connected /\ ~deframer.bad /\ Len(deframer.sent) < MaxFrames
    /\ channel = "control" => Classify(payload) = "control"
    /\ deframer' = [deframer EXCEPT
                      !.sent = Append(@, [payload |-> payload, channel |-> channel]),
                      !.line = @ \o EncodeFrame(payload)]

\* A peer that is no OpenDisplay one.
WriteJunk(n) ==
    /\ deframer.connected /\ ~deframer.bad
    /\ deframer' = [deframer EXCEPT !.bad = TRUE, !.line = @ \o <<n \div 8, n % 8, 1>>]

\* A read returns what has arrived, or less.
ReadBytes(n) ==
    /\ deframer.connected /\ n <= Len(deframer.line)
    /\ deframer' = Drained([deframer EXCEPT !.buf = @ \o SubSeq(deframer.line, 1, n),
                                            !.line = SubSeq(@, n + 1, Len(@))])

CloseConnection ==
    /\ deframer.connected
    /\ deframer' = [deframer EXCEPT !.connected = FALSE, !.line = <<>>]

MaxLine == MaxFrames * (HeaderLen + MaxPayload) + HeaderLen + 1

FramingNext ==
    \/ OpenConnection \/ CloseConnection
    \/ \E p \in Controls : WriteFrame(p, "control")
    \/ \E p \in Pictures : WriteFrame(p, "video")
    \/ \E n \in BadLengths : WriteJunk(n)
    \/ \E n \in 1 .. MaxLine : ReadBytes(n)

FramingSpec == FramingInit /\ [][FramingNext]_framingVars

-----------------------------------------------------------------------------
(* Properties.                                                             *)

FramingTypeOK ==
    /\ deframer.conns \in 0 .. MaxConns
    /\ {deframer.connected, deframer.poisoned, deframer.bad} \subseteq BOOLEAN
    /\ deframer.poisoned => ~deframer.connected /\ deframer.bad

\* However TCP cuts the bytes, and whatever the last connection left behind,
\* a session is handed the frames its peer wrote, in order, each on the
\* channel it was meant for.
FramesAreWhole == IsPrefix(deframer.got, deframer.sent)

\* A frame is handed on with the read that completes it: were it kept for the
\* next one, the last picture before the screen comes to rest would wait.
NothingHeldBack ==
    LET written == FlattenSeq([i \in DOMAIN deframer.sent |-> EncodeFrame(deframer.sent[i].payload)])
        arrived == Len(written) + (IF deframer.bad THEN HeaderLen + 1 ELSE 0) - Len(deframer.line)
        whole(n) == Len(FlattenSeq([i \in 1 .. n |-> EncodeFrame(deframer.sent[i].payload)])) <= arrived
    IN  deframer.connected =>
            \A n \in DOMAIN deframer.sent : whole(n) => Len(deframer.got) >= n

\* What a peer wrote arrives whole and at once (Deframer, on_bytes of both
\* sessions).
FramesInTime == FramesAreWhole /\ NothingHeldBack
=============================================================================
