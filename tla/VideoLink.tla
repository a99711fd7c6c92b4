----------------------------- MODULE VideoLink -----------------------------
(***************************************************************************)
(* The video path of a session from the captured picture to the decoder:   *)
(* the encode thread (EncodePipeline), the sender's session loop (session  *)
(* in od-sender/src/session.rs around SenderSession), the TCP connection,  *)
(* and the receiver's loop (run in od-receiver/src/lib.rs around           *)
(* ReceiverSession) with its decoder.                                      *)
(*                                                                         *)
(* TCP is one FIFO per direction and a step delivers one message: the      *)
(* handlers treat a read of several frames as one after the other.  Each   *)
(* handler's replies join the other FIFO in the same step.  Of the clocks  *)
(* only the keyframe floor runs here; pings keep the session alive, and    *)
(* that is what HeartbeatLink is about.                                    *)
(***************************************************************************)
EXTENDS SenderSession, ReceiverSession, EncodePipeline

CONSTANTS
    DownCap,        \* frames TCP takes before the sender's write blocks
    UpCap,          \* bound: messages of the receiver not yet read
    MaxSessions,    \* bound: connections
    MaxShots,       \* bound: pictures captured, None: the screen never rests
    MaxLosses,      \* bound: times the decoder fails by itself
    MaxRebuilds     \* bound: times the display is rebuilt in a session

VARIABLES
    up, down,       \* the two directions of the TCP connection
    screen,         \* the virtual display: its picture, and whether a capture
                    \* just started still owes its first frame
    dec,            \* the receiver's decoder
    broken,         \* where the chain of references was last cut
    spent           \* how much of each bound is used

vars == <<snd, rcv, enc, encoded, up, down, screen, dec, broken, spent>>

-----------------------------------------------------------------------------
(* The decoder (external): it shows pictures, and from the moment it       *)
(* fails until an IDR it shows nothing new.  failed is the error the       *)
(* receiver's loop has not yet turned into a DecodeLost.                   *)

NoPicture == [shown |-> None, intact |-> FALSE, failed |-> FALSE]

(* broken.sent: the last unit the encoder produced did not go out on this  *)
(* connection.  broken.fed: the last unit that arrived did not go to the   *)
(* decoder.  broken.orphan: a P frame went to the decoder after such a     *)
(* cut, or cut says it had one before it left the sender.                  *)

LinkInit ==
    /\ SenderInit
    /\ ReceiverInit
    /\ PipelineInit
    /\ up = << >> /\ down = << >>
    /\ screen \in [pic : Pictures, owed : {FALSE}]
    /\ dec = NoPicture
    /\ broken = [sent |-> TRUE, fed |-> TRUE, orphan |-> FALSE]
    /\ spent = [sessions |-> 0, shots |-> 0, losses |-> 0, rebuilds |-> 0]

Spend(what) == spent' = [spent EXCEPT ![what] = @ + 1]

Cut(u) ==
    [type |-> "video", ok |-> u.ok, idr |-> u.idr, params |-> u.params,
     pic |-> u.pic, cut |-> broken.sent]

-----------------------------------------------------------------------------
(* The connection.                                                         *)

\* The dial is accepted: both sessions start over, the receiver resets its
\* decoder and says hello.
Dial ==
    /\ ~snd.connected /\ ~rcv.connected
    /\ spent.sessions < MaxSessions
    /\ Spend("sessions")
    /\ SenderConnect
    /\ ReceiverConnect
    /\ up' = <<HelloFrame>>
    /\ dec' = [dec EXCEPT !.intact = FALSE]
    /\ broken' = [broken EXCEPT !.sent = TRUE, !.fed = TRUE]
    /\ UNCHANGED <<pipeVars, down, screen>>

\* The connection dies; session() ends by closing the display.
HangUp ==
    /\ snd.connected
    /\ spent.sessions < MaxSessions
    /\ SenderDisconnect
    /\ ReceiverDisconnect
    /\ StopPipeline
    /\ up' = << >> /\ down' = << >>
    /\ screen' = [screen EXCEPT !.owed = FALSE]
    /\ UNCHANGED <<dec, broken, spent>>

-----------------------------------------------------------------------------
(* The sender.                                                             *)

Room == Len(down) < DownCap

\* build: a new pipeline, and a capture that starts with the picture shown.
StartCapture ==
    /\ StartPipeline
    /\ screen' = [screen EXCEPT !.owed = TRUE]

\* A message from the receiver: what the session asks for, then, once for
\* the first hello, the display (debounce.on_hello and apply).
SenderGets ==
    /\ up # << >>
    /\ Room
    /\ LET m == Head(up)
           first == m.type = "hello" /\ ~Running
       IN  /\ SenderHears(m)
           /\ down' = down \o SenderReplies(m)
                           \o IF first THEN <<[type |-> "streamConfig"]>> ELSE << >>
           /\ IF first THEN StartCapture
              ELSE /\ enc' = IF RequestsKeyframe(m) THEN WithIdrForced ELSE enc
                   /\ UNCHANGED <<encoded, screen>>
    /\ up' = Tail(up)
    /\ UNCHANGED <<rcv, dec, broken, spent>>

\* A lost display, a drifted one or a settled hello: build replaces the
\* pipeline and what it had encoded, and the stream is announced again.
Rebuild ==
    /\ Running
    /\ Room
    /\ spent.rebuilds < MaxRebuilds
    /\ Spend("rebuilds")
    /\ StartCapture
    /\ down' = Append(down, [type |-> "streamConfig"])
    /\ broken' = [broken EXCEPT !.sent = TRUE]
    /\ UNCHANGED <<snd, rcv, up, dec>>

SendEncoded ==
    /\ Room
    /\ TakeEncoded
    /\ LET u == Head(encoded)
       IN  /\ PushFrame(u.idr)
           /\ down' = IF Sendable(u.idr) THEN Append(down, Cut(u)) ELSE down
           /\ broken' = [broken EXCEPT !.sent = ~Sendable(u.idr)]
    /\ UNCHANGED <<rcv, up, screen, dec, spent>>

\* The compositor (external) hands the capture thread a picture: the one
\* shown when a capture starts, and a new one whenever the screen changes.
FirstFrame ==
    /\ screen.owed
    /\ \E size \in ParamSets : Capture([pic |-> screen.pic, size |-> size])
    /\ screen' = [screen EXCEPT !.owed = FALSE]
    /\ UNCHANGED <<snd, rcv, up, down, dec, broken, spent>>

Damage ==
    /\ MaxShots # None => spent.shots < MaxShots
    /\ \E f \in Frames :
         /\ Capture(f)
         /\ screen' = [pic |-> f.pic, owed |-> FALSE]
    /\ IF MaxShots = None THEN UNCHANGED spent ELSE Spend("shots")
    /\ UNCHANGED <<snd, rcv, up, down, dec, broken>>

EncoderStep ==
    /\ EncodeThread \/ CapPasses
    /\ UNCHANGED <<snd, rcv, up, down, screen, dec, broken, spent>>

-----------------------------------------------------------------------------
(* The receiver.                                                           *)

Feed(u, ok) ==
    dec' = IF ok THEN [dec EXCEPT !.shown = u.pic, !.intact = TRUE]
           ELSE [dec EXCEPT !.intact = FALSE, !.failed = TRUE]

\* A unit the decoder could decode may still fail, MaxLosses times.
ReceiverGetsVideo(u) ==
    /\ up' = up \o VideoReplies(u)
    /\ broken' = [broken EXCEPT
                    !.fed = ~Decodable(u),
                    !.orphan = @ \/ (Decodable(u) /\ ~u.idr /\ (u.cut \/ broken.fed))]
    /\ IF ~Decodable(u)
       THEN /\ dec' = [dec EXCEPT !.intact = @ /\ ~ResetsDecoder(u)]
            /\ UNCHANGED spent
       ELSE \/ Feed(u, u.idr \/ dec.intact) /\ UNCHANGED spent
            \/ spent.losses < MaxLosses /\ Spend("losses") /\ Feed(u, FALSE)

ReceiverGets ==
    /\ down # << >>
    /\ LET m == Head(down)
       IN  /\ ReceiverHears(m)
           /\ IF m.type = "video" THEN ReceiverGetsVideo(m)
              ELSE UNCHANGED <<up, dec, broken, spent>>
    /\ down' = Tail(down)
    /\ UNCHANGED <<snd, pipeVars, screen>>

\* The decoder's error reaches the session, after the batch or on a tick.
ReportDecodeLost ==
    /\ dec.failed
    /\ dec' = [dec EXCEPT !.failed = FALSE]
    /\ DecodeLost
    /\ up' = up \o KfFrames
    /\ broken' = [broken EXCEPT !.fed = TRUE]
    /\ UNCHANGED <<snd, pipeVars, down, screen, spent>>

\* Bound: no time passes while the sender leaves UpCap messages unread.
KfClock ==
    /\ KfAged # rcv.kfAge
    /\ Len(up) < UpCap
    /\ rcv' = [rcv EXCEPT !.kfAge = KfAged]
    /\ UNCHANGED <<snd, pipeVars, up, down, screen, dec, broken, spent>>

-----------------------------------------------------------------------------
LinkNext ==
    \/ Dial \/ HangUp
    \/ SenderGets \/ Rebuild \/ SendEncoded
    \/ FirstFrame \/ Damage \/ EncoderStep
    \/ ReceiverGets \/ ReportDecodeLost \/ KfClock

LinkSafety == LinkInit /\ [][LinkNext]_vars

\* Threads run, TCP delivers and clocks advance.  The session loop's select!
\* picks among its ready branches at random, so that a branch ready again
\* and again, whenever the TCP buffer has room, is taken.
LinkFairness ==
    /\ WF_vars(Dial)
    /\ SF_vars(SenderGets)
    /\ SF_vars(SendEncoded)
    /\ WF_vars(EncodeThread /\ EncoderStep)
    /\ WF_vars(CapPasses /\ EncoderStep)
    /\ WF_vars(FirstFrame)
    /\ WF_vars(ReceiverGets)
    /\ WF_vars(ReportDecodeLost)
    /\ WF_vars(KfClock)
    /\ MaxShots = None => WF_vars(Damage)

LinkSpec == LinkSafety /\ LinkFairness

\* An encoder that fails does not fail forever.
RelentingSpec ==
    /\ LinkSpec
    /\ SF_vars(BeginEncode /\ EncoderStep)
    /\ SF_vars(EncodeOk /\ EncoderStep)

-----------------------------------------------------------------------------
(* No P frame reaches the decoder unless the unit it refers to, the one    *)
(* the encoder produced just before it, went in before it: whatever the    *)
(* sender's session, a rebuild, a reconnect or the receiver drops in       *)
(* between, an IDR comes first (push_encoded_frame, build, on_video).      *)
ReferenceChain == ~broken.orphan

(* An IDR the sender's session owes is asked of the encoder or on its way  *)
(* out of it.  While need_idr is set a further kf is ignored, so a lost    *)
(* request would never be made again (sender.rs:332, session.rs:324).      *)
IsIdr(u) == u.type = "video" /\ u.idr
Holds(q) == \E i \in DOMAIN q : IsIdr(q[i])

OwedIdrIsComing ==
    snd.needIdr /\ Running =>
        \/ enc.force \/ enc.forced
        \/ Holds(encoded) \/ Holds(enc.out) \/ Holds(enc.held)

(* On every connection the receiver hears welcome first and streamConfig   *)
(* before any video (session.rs:1111, send_stream_config in apply).        *)
Preceded(q, i, type) == \E j \in 1 .. i - 1 : q[j].type = type

HandshakeOrder ==
    rcv.connected /\ rcv.senderPv = None =>
        \A i \in DOMAIN down :
            /\ down[i].type # "welcome" => Preceded(down, i, "welcome")
            /\ down[i].type = "video" => Preceded(down, i, "streamConfig")

(* A receiver left without a decodable picture gets one, or the            *)
(* connection ends: the kf, the IDR it asks for, and the replay of a       *)
(* static screen together repair every loss (PROTOCOL.md section 5.3).     *)
Recovers ==
    (rcv.connected /\ ~dec.intact) ~> (dec.intact \/ ~rcv.connected)

(* When the screen comes to rest its last picture is on the receiver and   *)
(* stays there: neither the one-slot channel nor the rate cap may leave it *)
(* behind (the comment on pending in EncodePipeline::start).               *)
LastPictureShown == <>[](dec.shown = screen.pic)

=============================================================================
