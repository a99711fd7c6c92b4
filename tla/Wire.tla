-------------------------------- MODULE Wire --------------------------------
(***************************************************************************)
(* What the two ends of an OpenDisplay session say to each other, as far   *)
(* as their handlers tell messages apart (opendisplay-proto, control.rs    *)
(* and video.rs).  A control message is a record tagged with its wire      *)
(* "type"; a video frame is a "video" record carrying what the receiver    *)
(* reads out of the access unit: whether it parses, whether it is an IDR,  *)
(* and the parameter sets (SPS with PPS) it brings along.                  *)
(***************************************************************************)
EXTENDS Option, Integers, Sequences

CONSTANTS
    Pvs,            \* protocol versions a peer may announce
    Ports,          \* UDP ports a hello may offer (u32 on the wire)
    ParamSets,      \* parameter sets a stream may use
    PingInterval,   \* PING_INTERVAL, the default of both ends
    LivenessTimeout,\* LIVENESS_TIMEOUT, the default of both ends
    MaxSeq          \* bound: cursor updates per connection

ImplicitPv == 1
OurPv == 3

ASSUME WireAssumption ==
    /\ PingInterval \in Nat \ {0}
    /\ LivenessTimeout \in Nat \ {0}
    /\ MaxSeq \in Nat
    /\ Pvs \subseteq Nat /\ OurPv \in Pvs
    /\ Ports \subseteq Nat
    /\ None \notin Int \cup ParamSets

\* Mutant: the missing version is not defaulted.
PvAsAnnounced(pv) == pv

\* A peer that announces no version speaks the implicit one.
EffectivePv(pv) == IF pv = None THEN ImplicitPv ELSE pv

-----------------------------------------------------------------------------
(* Clocks.  A duration is an age or a countdown in abstract ticks that     *)
(* saturates one past the limit it is compared with: the code reads its    *)
(* clock only in those comparisons, so nothing is lost.                    *)

RxAges == 0 .. LivenessTimeout + 1

PingWaits == 0 .. PingInterval

Older(age, limit) == IF age > limit THEN age ELSE age + 1

CursorSeqs == 0 .. MaxSeq

-----------------------------------------------------------------------------
(* Receiver to sender.                                                     *)

Hellos == [type : {"hello"}, pv : Pvs \cup {None}, cursorPort : Ports \cup {None}]

ASSUME NoneIsNoHello == None \notin Hellos

\* Handed on to the host, or ignored, without a trace in the sender's
\* session: touch, scroll, pencil, proximity and stats are "input".
PassedUp == {"input", "sleeping", "closing", "unknown"}

Kf == [type |-> "kf"]
CursorAck == [type |-> "cursorAck"]

ReceiverMsgs ==
    Hellos
      \cup [type : {"ping"}, t : BOOLEAN]
      \cup [type : {"kf", "cursorAck"} \cup PassedUp]

-----------------------------------------------------------------------------
(* Sender to receiver.                                                     *)

\* Without a trace in the receiver's session.
PassedDown == {"updateRequired", "cursorImg", "streamConfig", "pong", "ping", "unknown"}

Welcome(pv) == [type |-> "welcome", pv |-> pv]

Units == [type : {"video"}, ok : BOOLEAN, idr : BOOLEAN, params : ParamSets \cup {None}]

=============================================================================
