--------------------------- MODULE SenderSession ---------------------------
(***************************************************************************)
(* The sender's half of one OpenDisplay session: SenderSession in          *)
(* linux/crates/opendisplay-session/src/sender.rs.  The code is sans-I/O:  *)
(* the host feeds it events and executes the actions it returns.  Here an  *)
(* event handler is an action on snd, and what the handler hands back to   *)
(* the host is an operator of the state it was called in (HelloReplies,    *)
(* SenderTickFrames, ...), so that the modules that compose the            *)
(* two ends can put it on the wire in the same step.                       *)
(*                                                                         *)
(* Log lines, their once-only set and the counters are left out.           *)
(***************************************************************************)
EXTENDS Wire

CONSTANTS
    CursorAckTimeout,   \* SenderConfig::cursor_ack_timeout
    MinReceiverPv,      \* SenderConfig::min_receiver_pv
    UseCursorUdp        \* SenderConfig::use_cursor_udp

ASSUME SenderAssumption ==
    /\ CursorAckTimeout \in Nat
    /\ MinReceiverPv \in Nat
    /\ UseCursorUdp \in BOOLEAN

VARIABLE snd

-----------------------------------------------------------------------------
\* u16::try_from: an offer that is no port number is no offer.
PortOf(h) ==
    IF UseCursorUdp /\ h.cursorPort # None /\ h.cursorPort < 2^16
    THEN h.cursorPort
    ELSE None

-----------------------------------------------------------------------------
AckAges == 0 .. CursorAckTimeout + 1

SenderTypeOK ==
    snd \in [connected : BOOLEAN,
             hello : Hellos \cup {None},
             receiverPv : Nat,
             needIdr : BOOLEAN,
             rxAge : RxAges,
             pingIn : PingWaits,
             cursorSeq : CursorSeqs,
             udpPort : Ports \cup {None},
             udpAge : AckAges \cup {None},
             udpAcked : BOOLEAN]

Fresh(connected) ==
    [connected |-> connected, hello |-> None, receiverPv |-> ImplicitPv,
     needIdr |-> TRUE, rxAge |-> 0, pingIn |-> PingInterval, cursorSeq |-> 0,
     udpPort |-> None, udpAge |-> None, udpAcked |-> FALSE]

SenderInit == snd = Fresh(FALSE)

\* Nothing is sent before hello (PROTOCOL.md section 6.1).
ReadyForVideo == snd.connected /\ snd.hello # None

\* Mutant: the ack of the old connection survives.
ConnectKeepingAck == snd' = [Fresh(TRUE) EXCEPT !.udpAcked = snd.udpAcked]

\* SenderEvent::Connected: the dial succeeded, every field starts over.
SenderConnect == snd' = Fresh(TRUE)

SenderDisconnect == snd' = [snd EXCEPT !.connected = FALSE]

-----------------------------------------------------------------------------
(* on_bytes.  Every read refreshes rxAge, also one that completes no frame. *)

HearPartial ==
    /\ snd.connected
    /\ snd' = [snd EXCEPT !.rxAge = 0]

\* The deframer is poisoned: the session closes itself.
HearBadFrame ==
    /\ snd.connected
    /\ snd' = [snd EXCEPT !.rxAge = 0, !.connected = FALSE]

\* Mutant: withdrawing the offer leaves the clock running.
ClockKept(port) == snd.udpAge

ClockFor(port) == IF port = None THEN None ELSE snd.udpAge

\* Mutant: a hello sent again starts the session over.
HearHelloAnew(h) ==
    /\ snd.connected
    /\ snd' = [Fresh(TRUE) EXCEPT !.hello = h, !.receiverPv = EffectivePv(h.pv), !.udpPort = PortOf(h)]

HearHello(h) ==
    /\ snd.connected
    /\ snd' = [snd EXCEPT
                 !.rxAge = 0,
                 !.hello = h,
                 !.receiverPv = EffectivePv(h.pv),
                 !.udpPort = PortOf(h),
                 !.udpAge = ClockFor(PortOf(h)),
                 !.udpAcked = @ /\ PortOf(h) # None,
                 !.needIdr = TRUE]

\* Mutant: the welcome is forgotten.
NoWelcome(h) == << >>

HelloReplies(h) ==
    <<Welcome(OurPv)>>
      \o IF EffectivePv(h.pv) < MinReceiverPv
         THEN <<[type |-> "updateRequired"]>>
         ELSE << >>

\* A kf while an IDR is already owed changes nothing and asks for nothing.
HearKf ==
    /\ snd.connected
    /\ snd' = [snd EXCEPT !.rxAge = 0, !.needIdr = TRUE]

HearCursorAck ==
    /\ snd.connected
    /\ snd' = [snd EXCEPT !.rxAge = 0, !.udpAcked = TRUE]

\* Mutant: only messages that change something count as activity.
HearQuietly == snd.connected /\ UNCHANGED snd

\* The messages that leave no trace but the arrival itself.
HearOther ==
    /\ snd.connected
    /\ snd' = [snd EXCEPT !.rxAge = 0]

SenderHears(m) ==
    \/ m.type = "hello" /\ HearHello(m)
    \/ m.type = "kf" /\ HearKf
    \/ m.type = "cursorAck" /\ HearCursorAck
    \/ m.type \in PassedUp \cup {"ping"} /\ HearOther

SenderReplies(m) ==
    CASE m.type = "hello" -> HelloReplies(m)
      [] m.type = "ping" /\ m.t -> <<[type |-> "pong"]>>
      [] OTHER -> << >>

\* Mutant: only a hello asks for an IDR.
KfIgnored(m) == m.type = "hello"

\* The host is asked for an IDR (SenderAction::RequestKeyframe).
RequestsKeyframe(m) == m.type = "hello" \/ (m.type = "kf" /\ ~snd.needIdr)

-----------------------------------------------------------------------------
(* on_tick: liveness first, then the ping, then the cursor channel.        *)

SenderSilent == snd.rxAge > LivenessTimeout

SenderTick ==
    /\ snd.connected
    /\ snd' = IF SenderSilent
              THEN [snd EXCEPT !.connected = FALSE]
              ELSE LET gaveUp == /\ snd.udpAge # None
                                 /\ snd.udpAge > CursorAckTimeout
                                 /\ ~snd.udpAcked
                                 /\ snd.udpPort # None
                   IN  [snd EXCEPT
                          !.pingIn = IF @ = 0 THEN PingInterval ELSE @,
                          !.udpPort = IF gaveUp THEN None ELSE @,
                          !.udpAge = IF gaveUp THEN None ELSE @]

SenderTickFrames ==
    IF ~SenderSilent /\ snd.pingIn = 0 THEN <<[type |-> "ping"]>> ELSE << >>

\* One tick of time passes for every clock the session compares with.
SenderAged ==
    [snd EXCEPT
       !.rxAge = Older(@, LivenessTimeout),
       !.pingIn = IF @ = 0 THEN 0 ELSE @ - 1,
       !.udpAge = IF @ = None THEN None ELSE Older(@, CursorAckTimeout)]

SenderElapse == snd' = SenderAged

-----------------------------------------------------------------------------
(* push_encoded_frame and cursor: what the host hands over.                *)

Sendable(isIdr) == ReadyForVideo /\ (snd.needIdr => isIdr)

PushFrame(isIdr) ==
    snd' = [snd EXCEPT !.needIdr = @ /\ ~(Sendable(isIdr) /\ isIdr)]

CursorMove ==
    /\ ReadyForVideo
    /\ snd.cursorSeq < MaxSeq
    /\ snd' = [snd EXCEPT
                 !.cursorSeq = @ + 1,
                 !.udpAge = IF snd.udpPort # None /\ @ = None THEN 0 ELSE @]

CursorOnUdp == snd.udpPort # None
\* Mutant: positions are not mirrored.
NotMirrored == ~CursorOnUdp

CursorOnTcp == ~(CursorOnUdp /\ snd.udpAcked)

-----------------------------------------------------------------------------
SenderNext ==
    \/ SenderConnect
    \/ SenderDisconnect
    \/ HearPartial
    \/ HearBadFrame
    \/ \E m \in ReceiverMsgs : SenderHears(m)
    \/ SenderTick
    \/ SenderElapse
    \/ \E isIdr \in BOOLEAN : PushFrame(isIdr)
    \/ CursorMove

SenderSpec == SenderInit /\ [][SenderNext]_snd

-----------------------------------------------------------------------------
(* The side channel is given up only on a flow whose first datagram has a  *)
(* start time and that was never acknowledged: a session that keeps its    *)
(* port keeps its start time once set, and a withdrawn offer leaves no     *)
(* clock running that could later cancel a new one (sender.rs, the hello   *)
(* branch of on_control and on_tick).                                      *)
NoClockWithoutPort == snd.udpPort = None => snd.udpAge = None

(* Within a connection the cursor sequence never restarts, also not on a   *)
(* re-sent hello: the receiver keeps its floor across it and would drop    *)
(* every position up to the old mark (comment at sender.rs:300).           *)
SequencePerConnection ==
    [][snd'.cursorSeq >= snd.cursorSeq \/ SenderConnect]_snd

(* A hello sent again in mid-session, with a port or without, leaves       *)
(* nothing of the offer before it that cuts the next one short, and takes  *)
(* the pointer's positions no number back (on_control, on_tick).           *)
CursorOfferKept == []NoClockWithoutPort /\ SequencePerConnection
=============================================================================
