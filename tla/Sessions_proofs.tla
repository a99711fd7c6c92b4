--------------------------- MODULE Sessions_proofs ---------------------------
(***************************************************************************)
(* Proofs about the two sessions, SenderSession and ReceiverSession, each  *)
(* against a peer that may send anything at any time: the types of their   *)
(* state, the discipline of the cursor channel's clock and sequence, and   *)
(* when an access unit may be handed to the decoder.  For every set of     *)
(* ports, versions, flows and parameter sets and every timeout.            *)
(*                                                                         *)
(* The ranges of the clocks are kept folded wherever a whole record is     *)
(* shown to be well typed; the first lemma of each half is all that is     *)
(* needed of them.                                                         *)
(***************************************************************************)
EXTENDS SenderSession, ReceiverSession, TLAPS

-----------------------------------------------------------------------------
(* The sender's half.                                                      *)

LEMMA SenderRanges ==
    /\ 0 \in RxAges /\ \A a \in RxAges : Older(a, LivenessTimeout) \in RxAges
    /\ 0 \in AckAges /\ \A a \in AckAges : Older(a, CursorAckTimeout) \in AckAges
    /\ PingInterval \in PingWaits
    /\ 0 \in PingWaits /\ \A a \in PingWaits : a # 0 => a - 1 \in PingWaits
    /\ 0 \in CursorSeqs /\ \A s \in CursorSeqs : s < MaxSeq => s + 1 \in CursorSeqs
BY WireAssumption, SenderAssumption DEF RxAges, AckAges, PingWaits, CursorSeqs, Older

LEMMA FreshTyped ==
    ASSUME NEW connected \in BOOLEAN, snd' = Fresh(connected)
    PROVE  SenderTypeOK'
BY SenderRanges DEF Fresh, SenderTypeOK, ImplicitPv

\* A hello is well formed, and so is what the session keeps of it.
LEMMA HelloTyped ==
    ASSUME NEW h \in Hellos
    PROVE  /\ EffectivePv(h.pv) \in Nat
           /\ PortOf(h) \in Ports \cup {None}
BY WireAssumption DEF Hellos, EffectivePv, ImplicitPv, PortOf

LEMMA HelloMessages ==
    ASSUME NEW m \in ReceiverMsgs, m.type = "hello"
    PROVE  m \in Hellos
BY DEF ReceiverMsgs, PassedUp

-----------------------------------------------------------------------------
\* One step of the sender's session, whichever handler takes it.
LEMMA SenderStepTyped ==
    ASSUME SenderTypeOK, [SenderNext]_snd
    PROVE  SenderTypeOK'
<1>1. CASE SenderConnect
  BY <1>1, FreshTyped DEF SenderConnect
<1>2. CASE SenderDisconnect
  BY <1>2 DEF SenderDisconnect, SenderTypeOK
<1>3. CASE HearPartial
  BY <1>3, SenderRanges DEF HearPartial, SenderTypeOK
<1>4. CASE HearBadFrame
  BY <1>4, SenderRanges DEF HearBadFrame, SenderTypeOK
<1>5. ASSUME NEW m \in ReceiverMsgs, SenderHears(m) PROVE SenderTypeOK'
  <2>1. CASE m.type = "hello" /\ HearHello(m)
    BY <2>1, HelloMessages, HelloTyped, SenderRanges DEF HearHello, ClockFor, SenderTypeOK
  <2>2. CASE HearKf \/ HearCursorAck \/ HearOther
    BY <2>2, SenderRanges DEF HearKf, HearCursorAck, HearOther, SenderTypeOK
  <2> QED
    BY <1>5, <2>1, <2>2 DEF SenderHears
<1>6. CASE SenderTick
  BY <1>6, SenderRanges DEF SenderTick, SenderTypeOK
<1>7. CASE SenderElapse
  <2>1. /\ Older(snd.rxAge, LivenessTimeout) \in RxAges
        /\ (IF snd.pingIn = 0 THEN 0 ELSE snd.pingIn - 1) \in PingWaits
        /\ (IF snd.udpAge = None THEN None ELSE Older(snd.udpAge, CursorAckTimeout))
             \in AckAges \cup {None}
    BY SenderRanges DEF SenderTypeOK
  <2> QED
    BY <1>7, <2>1 DEF SenderElapse, SenderAged, SenderTypeOK
<1>8. ASSUME NEW isIdr \in BOOLEAN, PushFrame(isIdr) PROVE SenderTypeOK'
  BY <1>8 DEF PushFrame, SenderTypeOK
<1>9. CASE CursorMove
  BY <1>9, SenderRanges DEF CursorMove, SenderTypeOK
<1>10. CASE UNCHANGED snd
  BY <1>10 DEF SenderTypeOK
<1> QED
  BY <1>1, <1>2, <1>3, <1>4, <1>5, <1>6, <1>7, <1>8, <1>9, <1>10
  DEF SenderNext

(* Every field keeps its type, whatever the receiver sends and whenever.   *)
THEOREM SenderTyped == SenderSpec => []SenderTypeOK
<1>1. SenderInit => SenderTypeOK
  BY SenderRanges DEF SenderInit, Fresh, SenderTypeOK, ImplicitPv
<1>2. SenderTypeOK /\ [SenderNext]_snd => SenderTypeOK'
  BY SenderStepTyped
<1> QED
  BY <1>1, <1>2, PTL DEF SenderSpec

-----------------------------------------------------------------------------
(* The cursor channel's clock never runs on without a port: an offer that  *)
(* was withdrawn or given up leaves no start time behind that would cut    *)
(* the next offer short.  Inductive as it stands, given the types.         *)
THEOREM ClockNeedsPort == SenderSpec => []NoClockWithoutPort
<1>1. SenderInit => NoClockWithoutPort
  BY DEF SenderInit, Fresh, NoClockWithoutPort
<1>2. /\ SenderTypeOK /\ NoClockWithoutPort
      /\ [SenderNext]_snd
      => NoClockWithoutPort'
  <2> SUFFICES ASSUME SenderTypeOK, NoClockWithoutPort, [SenderNext]_snd
               PROVE  NoClockWithoutPort'
    OBVIOUS
  <2>1. CASE SenderConnect
    BY <2>1 DEF SenderConnect, Fresh, NoClockWithoutPort
  <2>2. CASE SenderDisconnect \/ HearPartial \/ HearBadFrame
    BY <2>2 DEF SenderDisconnect, HearPartial, HearBadFrame, NoClockWithoutPort, SenderTypeOK
  <2>3. ASSUME NEW m \in ReceiverMsgs, SenderHears(m) PROVE NoClockWithoutPort'
    <3>1. CASE HearHello(m)
      BY <3>1 DEF HearHello, ClockFor, NoClockWithoutPort, SenderTypeOK
    <3>2. CASE HearKf \/ HearCursorAck \/ HearOther
      BY <3>2 DEF HearKf, HearCursorAck, HearOther, NoClockWithoutPort, SenderTypeOK
    <3> QED
      BY <2>3, <3>1, <3>2 DEF SenderHears
  <2>4. CASE SenderTick
    BY <2>4 DEF SenderTick, NoClockWithoutPort, SenderTypeOK
  <2>5. CASE SenderElapse
    BY <2>5 DEF SenderElapse, SenderAged, NoClockWithoutPort, SenderTypeOK
  <2>6. ASSUME NEW isIdr \in BOOLEAN, PushFrame(isIdr) PROVE NoClockWithoutPort'
    BY <2>6 DEF PushFrame, NoClockWithoutPort, SenderTypeOK
  <2>7. CASE CursorMove
    BY <2>7 DEF CursorMove, NoClockWithoutPort, SenderTypeOK
  <2>8. CASE UNCHANGED snd
    BY <2>8 DEF NoClockWithoutPort
  <2> QED
    BY <2>1, <2>2, <2>3, <2>4, <2>5, <2>6, <2>7, <2>8 DEF SenderNext
<1> QED
  BY <1>1, <1>2, SenderTyped, PTL DEF SenderSpec

(* Within a connection the cursor sequence never restarts.                 *)
THEOREM SequenceKept == SenderSpec => SequencePerConnection
<1>1. SenderTypeOK /\ [SenderNext]_snd
        => [snd'.cursorSeq >= snd.cursorSeq \/ SenderConnect]_snd
  <2> SUFFICES ASSUME SenderTypeOK, SenderNext, ~SenderConnect
               PROVE  snd'.cursorSeq >= snd.cursorSeq
    OBVIOUS
  <2>1. snd.cursorSeq \in Int
    BY DEF SenderTypeOK, CursorSeqs
  <2>2. ASSUME snd'.cursorSeq = snd.cursorSeq PROVE snd'.cursorSeq >= snd.cursorSeq
    BY <2>1, <2>2
  <2>3. ASSUME NEW m \in ReceiverMsgs, SenderHears(m)
        PROVE  snd'.cursorSeq = snd.cursorSeq
    <3>1. CASE HearHello(m)
      BY <3>1 DEF HearHello, ClockFor, SenderTypeOK
    <3>2. CASE HearKf \/ HearCursorAck \/ HearOther
      BY <3>2 DEF HearKf, HearCursorAck, HearOther, SenderTypeOK
    <3> QED
      BY <2>3, <3>1, <3>2 DEF SenderHears
  <2>4. ASSUME NEW isIdr \in BOOLEAN, PushFrame(isIdr)
        PROVE  snd'.cursorSeq = snd.cursorSeq
    BY <2>4 DEF PushFrame, SenderTypeOK
  <2>5. CASE CursorMove
    BY <2>1, <2>5 DEF CursorMove, SenderTypeOK
  <2>6. CASE SenderDisconnect \/ HearPartial \/ HearBadFrame
    BY <2>2, <2>6 DEF SenderDisconnect, HearPartial, HearBadFrame, SenderTypeOK
  <2>7. CASE SenderTick
    BY <2>2, <2>7 DEF SenderTick, SenderTypeOK
  <2>8. CASE SenderElapse
    BY <2>2, <2>8 DEF SenderElapse, SenderAged, SenderTypeOK
  <2> QED
    BY <2>2, <2>3, <2>4, <2>5, <2>6, <2>7, <2>8 DEF SenderNext
<1> QED
  BY <1>1, SenderTyped, PTL DEF SenderSpec, SequencePerConnection

(* Whatever hellos come when, no clock of an offer outlives it and the     *)
(* sequence never restarts within a connection.                            *)
THEOREM OfferIsKept == SenderSpec => CursorOfferKept
  BY ClockNeedsPort, SequenceKept, PTL DEF CursorOfferKept

-----------------------------------------------------------------------------
(* The receiver's half.                                                    *)

LEMMA ReceiverRanges ==
    /\ 0 \in RxAges /\ \A a \in RxAges : Older(a, LivenessTimeout) \in RxAges
    /\ PingInterval \in PingWaits /\ FirstPingAfter \in PingWaits
    /\ 0 \in PingWaits /\ \A a \in PingWaits : a # 0 => a - 1 \in PingWaits
    /\ 0 \in KfAges /\ \A a \in KfAges : a # KfMinInterval => a + 1 \in KfAges
BY WireAssumption, ReceiverAssumption DEF RxAges, PingWaits, KfAges, Older

LEMMA ResetTyped ==
    ASSUME NEW connected \in BOOLEAN, NEW offer \in Ports \cup {None}
    PROVE  Reset(connected, offer) \in
             [connected : BOOLEAN, offer : Ports \cup {None}, senderPv : Pvs \cup {None},
              params : ParamSets \cup {None}, waitingForIdr : BOOLEAN,
              cursorSeq : CursorSeqs \cup {None}, udpFlow : Flows \cup {None},
              udpAcked : BOOLEAN, rxAge : RxAges, pingIn : PingWaits,
              kfAge : KfAges \cup {None}]
BY ReceiverRanges DEF Reset

\* The floor's clock keeps its range, running or started over.
LEMMA KfClockTyped ==
    ASSUME ReceiverTypeOK
    PROVE  /\ KfAgeAfterRequest \in KfAges \cup {None}
           /\ KfAged \in KfAges \cup {None}
BY ReceiverRanges DEF ReceiverTypeOK, KfAgeAfterRequest, KfAged

LEMMA ParamsTyped ==
    ASSUME ReceiverTypeOK, NEW u \in Units
    PROVE  NextParams(u) \in ParamSets \cup {None}
BY DEF ReceiverTypeOK, Units, NextParams

-----------------------------------------------------------------------------
\* One step of the receiver's session, whichever handler takes it.
LEMMA ReceiverStepTyped ==
    ASSUME ReceiverTypeOK, [ReceiverNext]_rcv
    PROVE  ReceiverTypeOK'
<1>1. CASE ReceiverConnect
  <2>1. rcv.offer \in Ports \cup {None}
    BY DEF ReceiverTypeOK
  <2> QED
    BY <1>1, <2>1, ResetTyped DEF ReceiverConnect, ReceiverTypeOK
<1>2. CASE ReceiverDisconnect
  BY <1>2 DEF ReceiverDisconnect, ReceiverTypeOK
<1>3. ASSUME NEW p \in Ports \cup {None}, UpdateHello(p) PROVE ReceiverTypeOK'
  BY <1>3 DEF UpdateHello, ReceiverTypeOK
<1>4. CASE DecodeLost
  BY <1>4, KfClockTyped DEF DecodeLost, ReceiverTypeOK
<1>5. CASE ReceiverHearPartial \/ ReceiverHearOther
  BY <1>5, ReceiverRanges DEF ReceiverHearPartial, ReceiverHearOther, ReceiverTypeOK
<1>6. CASE ReceiverHearBadFrame
  BY <1>6, ReceiverRanges DEF ReceiverHearBadFrame, ReceiverTypeOK
<1>7. ASSUME NEW pv \in Pvs, HearWelcome(Welcome(pv)) PROVE ReceiverTypeOK'
  BY <1>7, ReceiverRanges DEF HearWelcome, Welcome, ReceiverTypeOK
<1>8. ASSUME NEW s \in CursorSeqs \cup {None}, HearCursor(s) PROVE ReceiverTypeOK'
  BY <1>8, ReceiverRanges DEF HearCursor, ReceiverTypeOK
<1>9. ASSUME NEW u \in Units, HearVideo(u) PROVE ReceiverTypeOK'
  <2> DEFINE waits == ~u.ok \/ StillWaiting(u)
             age == IF Decodable(u) THEN rcv.kfAge ELSE KfAgeAfterRequest
  <2>1. rcv' = [rcv EXCEPT !.rxAge = 0, !.params = NextParams(u),
                           !.waitingForIdr = waits, !.kfAge = age]
    BY <1>9 DEF HearVideo
  <2>2. waits \in BOOLEAN
    OBVIOUS
  <2>3. age \in KfAges \cup {None}
    BY KfClockTyped DEF ReceiverTypeOK
  <2>4. NextParams(u) \in ParamSets \cup {None}
    BY ParamsTyped
  <2> HIDE DEF waits, age
  <2> QED
    BY <2>1, <2>2, <2>3, <2>4, ReceiverRanges DEF ReceiverTypeOK
<1>10. ASSUME NEW flow \in Flows, NEW s \in CursorSeqs \cup {None}, HearDatagram(flow, s)
       PROVE  ReceiverTypeOK'
  <2> DEFINE acked == Applies(flow, s) \/ rcv.udpAcked
             seq == IF ~Applies(flow, s) THEN rcv.cursorSeq
                    ELSE IF s # None THEN s
                    ELSE IF NewFlow(flow) THEN None ELSE rcv.cursorSeq
  <2>1. rcv' = [rcv EXCEPT !.udpFlow = flow, !.udpAcked = acked, !.cursorSeq = seq]
    BY <1>10 DEF HearDatagram
  <2>2. acked \in BOOLEAN
    OBVIOUS
  <2>3. seq \in CursorSeqs \cup {None}
    BY DEF ReceiverTypeOK
  <2> HIDE DEF acked, seq
  <2> QED
    BY <2>1, <2>2, <2>3 DEF ReceiverTypeOK
<1>11. CASE ReceiverTick
  BY ZenonT(30), <1>11, ReceiverRanges DEF ReceiverTick, ReceiverTypeOK
<1>12. CASE ReceiverElapse
  <2>1. /\ Older(rcv.rxAge, LivenessTimeout) \in RxAges
        /\ (IF rcv.pingIn = 0 THEN 0 ELSE rcv.pingIn - 1) \in PingWaits
    BY ReceiverRanges DEF ReceiverTypeOK
  <2> QED
    BY <1>12, <2>1, KfClockTyped DEF ReceiverElapse, ReceiverAged, ReceiverTypeOK
<1>13. CASE UNCHANGED rcv
  BY <1>13 DEF ReceiverTypeOK
<1> QED
  BY <1>1, <1>2, <1>3, <1>4, <1>5, <1>6, <1>7, <1>8, <1>9, <1>10, <1>11, <1>12, <1>13
  DEF ReceiverNext

(* Every field keeps its type, whatever the sender sends and whenever.     *)
THEOREM ReceiverTyped == ReceiverSpec => []ReceiverTypeOK
<1>1. ReceiverInit => ReceiverTypeOK
  BY ResetTyped DEF ReceiverInit, ReceiverTypeOK
<1>2. ReceiverTypeOK /\ [ReceiverNext]_rcv => ReceiverTypeOK'
  BY ReceiverStepTyped
<1> QED
  BY <1>1, <1>2, PTL DEF ReceiverSpec

-----------------------------------------------------------------------------
\* One step of the receiver's session keeps what it knows of the stream.
LEMMA EnteredStep ==
    ASSUME ReceiverTypeOK, EnteredWithParams, [ReceiverNext]_rcv
    PROVE  EnteredWithParams'
<1>1. ASSUME rcv'.params = rcv.params, rcv'.waitingForIdr = rcv.waitingForIdr
      PROVE  EnteredWithParams'
  BY <1>1 DEF EnteredWithParams
<1>2. CASE ReceiverConnect
  BY <1>2 DEF ReceiverConnect, Reset, EnteredWithParams
<1>3. CASE DecodeLost
  BY <1>3 DEF DecodeLost, EnteredWithParams, ReceiverTypeOK
<1>4. ASSUME NEW u \in Units, HearVideo(u) PROVE EnteredWithParams'
  <2>1. /\ rcv'.params = NextParams(u)
        /\ rcv'.waitingForIdr = (~u.ok \/ StillWaiting(u))
    BY <1>4 DEF HearVideo, ReceiverTypeOK
  <2>2. rcv.params # None => NextParams(u) # None
    BY DEF NextParams
  <2> QED
    BY <2>1, <2>2 DEF EnteredWithParams, StillWaiting
<1>5. ASSUME NEW flow \in Flows, NEW s \in CursorSeqs \cup {None}, HearDatagram(flow, s)
      PROVE  EnteredWithParams'
  BY <1>1, <1>5 DEF HearDatagram, ReceiverTypeOK
<1>6. CASE ReceiverTick \/ ReceiverElapse
  BY <1>1, <1>6 DEF ReceiverTick, ReceiverElapse, ReceiverAged, ReceiverTypeOK
<1>7. ASSUME NEW pv \in Pvs, HearWelcome(Welcome(pv)) PROVE EnteredWithParams'
  BY <1>1, <1>7 DEF HearWelcome, ReceiverTypeOK
<1>8. ASSUME NEW s \in CursorSeqs \cup {None}, HearCursor(s) PROVE EnteredWithParams'
  BY <1>1, <1>8 DEF HearCursor, ReceiverTypeOK
<1>9. ASSUME NEW p \in Ports \cup {None}, UpdateHello(p) PROVE EnteredWithParams'
  BY <1>1, <1>9 DEF UpdateHello, ReceiverTypeOK
<1>10. CASE \/ ReceiverDisconnect \/ ReceiverHearPartial
            \/ ReceiverHearBadFrame \/ ReceiverHearOther
  BY <1>1, <1>10 DEF ReceiverDisconnect, ReceiverHearPartial, ReceiverHearBadFrame,
     ReceiverHearOther, ReceiverTypeOK
<1>11. CASE UNCHANGED rcv
  BY <1>11 DEF EnteredWithParams
<1> QED
  BY <1>2, <1>3, <1>4, <1>5, <1>6, <1>7, <1>8, <1>9, <1>10, <1>11 DEF ReceiverNext

(* What the decoder is fed has parameter sets to be decoded with.          *)
THEOREM Entered == ReceiverSpec => []EnteredWithParams
<1>1. ReceiverInit => EnteredWithParams
  BY DEF ReceiverInit, Reset, EnteredWithParams
<1>2. ReceiverTypeOK /\ EnteredWithParams /\ [ReceiverNext]_rcv => EnteredWithParams'
  BY EnteredStep
<1> QED
  BY <1>1, <1>2, ReceiverTyped, PTL DEF ReceiverSpec

\* By the definition of decode_vcl: a stream that is entered has its sets.
LEMMA EntryIsIdr ==
    ASSUME EnteredWithParams
    PROVE  EntersOnIdr
<1> SUFFICES ASSUME NEW u \in Units, Decodable(u), ~u.idr
             PROVE  ~rcv.waitingForIdr /\ NextParams(u) = rcv.params
  BY DEF EntersOnIdr
<1>1. ~rcv.waitingForIdr /\ ~ResetsDecoder(u)
  BY DEF Decodable, StillWaiting
<1>2. rcv.params # None
  BY <1>1 DEF EnteredWithParams
<1> QED
  BY <1>1, <1>2 DEF ResetsDecoder

(* The parameter sets of an entered stream are known, and no P frame is    *)
(* what it began with.                                                     *)
THEOREM EntryIsSound == ReceiverSpec => []DecoderEntry
<1>1. EnteredWithParams => DecoderEntry
  BY EntryIsIdr DEF DecoderEntry
<1> QED
  BY <1>1, Entered, PTL
=============================================================================
