-------------------------- MODULE ReceiverSession --------------------------
(***************************************************************************)
(* The receiver's half of one OpenDisplay session: ReceiverSession in      *)
(* linux/crates/opendisplay-session/src/receiver.rs.  As in SenderSession, *)
(* an event handler is an action on rcv and what it hands back to the host *)
(* is an operator of the state it was called in.                           *)
(*                                                                         *)
(* The clock offset (clock.rs) only stamps telemetry and input and decides *)
(* nothing here; it is left out, with log lines, counters and the notice   *)
(* that a sender is outdated.                                              *)
(***************************************************************************)
EXTENDS Wire

CONSTANTS
    FirstPingAfter,     \* ReceiverConfig::first_ping_after
    KfMinInterval,      \* ReceiverConfig::kf_min_interval
    Flows               \* source addresses datagrams may come from

ASSUME ReceiverAssumption ==
    /\ FirstPingAfter \in 0 .. PingInterval
    /\ KfMinInterval \in Nat \ {0}
    /\ None \notin Flows

VARIABLE rcv

-----------------------------------------------------------------------------
KfAges == 0 .. KfMinInterval

\* offer is the cursorPort of cfg.hello, the part of it a sender acts on.
ReceiverTypeOK ==
    rcv \in [connected : BOOLEAN,
             offer : Ports \cup {None},
             senderPv : Pvs \cup {None},
             params : ParamSets \cup {None},
             waitingForIdr : BOOLEAN,
             cursorSeq : CursorSeqs \cup {None},
             udpFlow : Flows \cup {None},
             udpAcked : BOOLEAN,
             rxAge : RxAges,
             pingIn : PingWaits,
             kfAge : KfAges \cup {None}]

Reset(connected, offer) ==
    [connected |-> connected, offer |-> offer, senderPv |-> None,
     params |-> None, waitingForIdr |-> TRUE, cursorSeq |-> None,
     udpFlow |-> None, udpAcked |-> FALSE, rxAge |-> 0,
     pingIn |-> FirstPingAfter, kfAge |-> None]

ReceiverInit == \E p \in Ports \cup {None} : rcv = Reset(FALSE, p)

\* Mutant: the cursor's floor survives.
ConnectKeepingFloor == rcv' = [Reset(TRUE, rcv.offer) EXCEPT !.cursorSeq = rcv.cursorSeq]

\* on_connected: everything starts over, and the decoder with it.  The reply
\* is a hello.
ReceiverConnect == rcv' = Reset(TRUE, rcv.offer)

HelloFrame == [type |-> "hello", pv |-> OurPv, cursorPort |-> rcv.offer]

ReceiverDisconnect == rcv' = [rcv EXCEPT !.connected = FALSE]

\* update_hello: a changed panel or a withdrawn cursor port.
UpdateHello(port) == rcv' = [rcv EXCEPT !.offer = port]

-----------------------------------------------------------------------------
(* request_kf: a floor keeps requests apart; a suppressed one is not kept. *)

KfDue == rcv.kfAge = None \/ rcv.kfAge = KfMinInterval

KfFrames == IF rcv.connected /\ KfDue THEN <<Kf>> ELSE << >>

KfAgeAfterRequest == IF rcv.connected /\ KfDue THEN 0 ELSE rcv.kfAge

\* The host's decoder failed on an access unit, or lost its state.
DecodeLost ==
    rcv' = [rcv EXCEPT !.waitingForIdr = TRUE, !.kfAge = KfAgeAfterRequest]

-----------------------------------------------------------------------------
(* on_bytes.                                                               *)

ReceiverHearPartial ==
    /\ rcv.connected
    /\ rcv' = [rcv EXCEPT !.rxAge = 0]

ReceiverHearBadFrame ==
    /\ rcv.connected
    /\ rcv' = [rcv EXCEPT !.rxAge = 0, !.connected = FALSE]

HearWelcome(m) ==
    /\ rcv.connected
    /\ rcv' = [rcv EXCEPT !.rxAge = 0, !.senderPv = m.pv]

\* CursorSeqTracker::accept: an update without a number always applies.
Newer(s) == s = None \/ rcv.cursorSeq = None \/ s > rcv.cursorSeq

\* Mutant: positions heard on TCP do not raise the floor.
FloorFromDatagrams(s) == rcv.connected /\ rcv' = [rcv EXCEPT !.rxAge = 0]

HearCursor(s) ==
    /\ rcv.connected
    /\ rcv' = [rcv EXCEPT
                 !.rxAge = 0,
                 !.cursorSeq = IF s # None /\ Newer(s) THEN s ELSE @]

ReceiverHearOther ==
    /\ rcv.connected
    /\ rcv' = [rcv EXCEPT !.rxAge = 0]

(* on_video.                                                               *)

\* ParameterSetTracker::observe: only a whole pair of sets counts.
NextParams(u) == IF u.ok /\ u.params # None THEN u.params ELSE rcv.params

\* Mutant: changed parameter sets go unnoticed.
NeverResets(u) == FALSE

ResetsDecoder(u) == rcv.params \notin {None, NextParams(u)}

\* Mutant: an IDR without parameter sets will do.
WaitingForAnyIdr(u) == (rcv.waitingForIdr \/ ResetsDecoder(u)) /\ ~u.idr

\* An access unit goes to the decoder when the stream it belongs to has its
\* parameter sets and has been entered by an IDR.
StillWaiting(u) ==
    /\ rcv.waitingForIdr \/ ResetsDecoder(u)
    /\ ~(u.idr /\ NextParams(u) # None)

\* Mutant: the wait is kept and not acted upon.
DecodableAnyway(u) == u.ok /\ NextParams(u) # None

Decodable(u) == u.ok /\ ~StillWaiting(u) /\ NextParams(u) # None

HearVideo(u) ==
    /\ rcv.connected
    /\ rcv' = [rcv EXCEPT
                 !.rxAge = 0,
                 !.params = NextParams(u),
                 !.waitingForIdr = ~u.ok \/ StillWaiting(u),
                 !.kfAge = IF Decodable(u) THEN @ ELSE KfAgeAfterRequest]

VideoReplies(u) == IF Decodable(u) THEN << >> ELSE KfFrames

ReceiverHears(m) ==
    \/ m.type = "welcome" /\ HearWelcome(m)
    \/ m.type = "cursor" /\ HearCursor(m.s)
    \/ m.type = "video" /\ HearVideo(m)
    \/ m.type \in PassedDown /\ ReceiverHearOther

-----------------------------------------------------------------------------
(* on_datagram: one cursor update on the UDP port.  A new flow starts the  *)
(* sequence over and owes an acknowledgement of its own.                   *)

NewFlow(flow) == rcv.udpFlow # flow

Applies(flow, s) == NewFlow(flow) \/ Newer(s)

AckDue(flow) == NewFlow(flow) \/ ~rcv.udpAcked

HearDatagram(flow, s) ==
    /\ rcv.connected
    /\ rcv' = [rcv EXCEPT
                 !.udpFlow = flow,
                 !.udpAcked = Applies(flow, s) \/ @,
                 !.cursorSeq = IF ~Applies(flow, s) THEN @
                               ELSE IF s # None THEN s
                               ELSE IF NewFlow(flow) THEN None ELSE @]

DatagramReplies(flow, s) ==
    IF Applies(flow, s) /\ AckDue(flow) THEN <<CursorAck>> ELSE << >>

-----------------------------------------------------------------------------
(* on_tick: liveness first, then the ping.                                 *)

ReceiverSilent == rcv.rxAge > LivenessTimeout

ReceiverTick ==
    /\ rcv.connected
    /\ rcv' = IF ReceiverSilent
              THEN [rcv EXCEPT !.connected = FALSE]
              ELSE [rcv EXCEPT !.pingIn = IF @ = 0 THEN PingInterval ELSE @]

ReceiverTickFrames ==
    IF ~ReceiverSilent /\ rcv.pingIn = 0
    THEN <<[type |-> "ping", t |-> TRUE]>>
    ELSE << >>

KfAged == IF rcv.kfAge \in {None, KfMinInterval} THEN rcv.kfAge ELSE rcv.kfAge + 1

ReceiverAged ==
    [rcv EXCEPT
       !.rxAge = Older(@, LivenessTimeout),
       !.pingIn = IF @ = 0 THEN 0 ELSE @ - 1,
       !.kfAge = KfAged]

ReceiverElapse == rcv' = ReceiverAged

-----------------------------------------------------------------------------
ReceiverNext ==
    \/ ReceiverConnect
    \/ ReceiverDisconnect
    \/ \E p \in Ports \cup {None} : UpdateHello(p)
    \/ DecodeLost
    \/ ReceiverHearPartial
    \/ ReceiverHearBadFrame
    \/ \E pv \in Pvs : HearWelcome(Welcome(pv))
    \/ \E s \in CursorSeqs \cup {None} : HearCursor(s)
    \/ \E u \in Units : HearVideo(u)
    \/ ReceiverHearOther
    \/ \E flow \in Flows, s \in CursorSeqs \cup {None} : HearDatagram(flow, s)
    \/ ReceiverTick
    \/ ReceiverElapse

ReceiverSpec == ReceiverInit /\ [][ReceiverNext]_rcv

-----------------------------------------------------------------------------
(* The receiver never waits for nothing and never decodes into the void:   *)
(* once it stops waiting for an IDR it knows the stream's parameter sets,  *)
(* and it keeps them until a new connection (on_video, on_connected).      *)
EnteredWithParams == ~rcv.waitingForIdr => rcv.params # None

(* A P frame goes to the decoder only in a stream that was entered with    *)
(* the parameter sets it has now: neither while the receiver waits, nor    *)
(* when the frame brings new sets itself (on_video, PROTOCOL.md 5.3).      *)
EntersOnIdr ==
    \A u \in Units :
        Decodable(u) /\ ~u.idr => ~rcv.waitingForIdr /\ NextParams(u) = rcv.params

(* The decoder enters every stream with its parameter sets known and with  *)
(* an IDR: after a loss, after sets that change within a connection, and   *)
(* on a new connection alike (on_video, on_connected).                     *)
DecoderEntry == EnteredWithParams /\ EntersOnIdr
=============================================================================
