-------------------------- MODULE CursorLink_proofs --------------------------
(***************************************************************************)
(* Proofs about CursorLink, for any number of sessions, positions and      *)
(* hellos, any loss, duplication and order of the datagrams, and whether   *)
(* the port is open or firewalled.                                         *)
(***************************************************************************)
EXTENDS CursorLink, Sessions_proofs, SequenceTheorems

-----------------------------------------------------------------------------
(* The types.                                                              *)

\* What the sender of this composition says on TCP.
Replies == {Welcome(OurPv)} \cup [type : {"updateRequired", "pong"}]
Updates == [type : {"cursor"}, s : CursorSeqs]

Datagrams == [flow : 1 .. MaxSessions, s : CursorSeqs]

Spent == [sessions : 0 .. MaxSessions, hellos : Nat, lost : Nat, copies : Nat, ticks : Nat]

LinkTyped ==
    /\ up \in Seq(ReceiverMsgs)
    /\ down \in Seq(Replies \cup Updates)
    /\ net \subseteq Datagrams
    /\ drawn \in [conn : Nat, flow : Nat, s : CursorSeqs]
    /\ spent \in Spent
    /\ snd.connected => spent.sessions # 0      \* a connection has its flow

CursorTyped == SenderTypeOK /\ ReceiverTypeOK /\ LinkTyped

LEMMA HelloFrameTyped ==
    ASSUME ReceiverTypeOK, NEW p \in Ports \cup {None}
    PROVE  /\ HelloFrame \in Hellos
           /\ [HelloFrame EXCEPT !.cursorPort = p] \in Hellos
BY WireAssumption DEF ReceiverTypeOK, HelloFrame, Hellos

LEMMA RepliesTyped ==
    ASSUME NEW m \in ReceiverMsgs
    PROVE  SenderReplies(m) \in Seq(Replies \cup Updates)
<1> DEFINE S == Replies \cup Updates
<1>1. /\ Welcome(OurPv) \in S
      /\ [type |-> "updateRequired"] \in S
      /\ [type |-> "pong"] \in S
  BY DEF Replies
<1> HIDE DEF S
<1>2. /\ << >> \in Seq(S) /\ <<Welcome(OurPv)>> \in Seq(S)
      /\ <<[type |-> "updateRequired"]>> \in Seq(S)
      /\ <<[type |-> "pong"]>> \in Seq(S)
  BY <1>1
<1>3. HelloReplies(m) \in Seq(S)
  BY <1>2, ConcatProperties DEF HelloReplies
<1>4. SenderReplies(m) \in {HelloReplies(m), <<[type |-> "pong"]>>, << >>}
  BY DEF SenderReplies
<1>5. SenderReplies(m) \in Seq(S)
  BY <1>2, <1>3, <1>4
<1> QED
  BY <1>5 DEF S

LEMMA Spends ==
    ASSUME LinkTyped, NEW what \in {"hellos", "lost", "copies", "ticks"}, Spend(what)
    PROVE  spent' \in Spent /\ spent'.sessions = spent.sessions
BY SMTT(30) DEF LinkTyped, Spend, Spent

\* What a message does to the receiver's session is a step of that session.
LEMMA ReceiverGetsSteps ==
    ASSUME NEW m \in Replies \cup Updates, ReceiverHears(m)
    PROVE  /\ m.type = "cursor" => m \in Updates /\ HearCursor(m.s)
           /\ m.type # "cursor" => (\E pv \in Pvs : HearWelcome(Welcome(pv))) \/ ReceiverHearOther
<1>1. m.type \in {"cursor", "welcome", "updateRequired", "pong"}
  BY DEF Replies, Updates, Welcome
<1>2. CASE m.type = "cursor"
  BY <1>2 DEF ReceiverHears, Replies, Updates, Welcome, PassedDown
<1>3. CASE m.type = "welcome"
  <2>1. m = Welcome(OurPv) /\ HearWelcome(m)
    BY <1>3 DEF ReceiverHears, Replies, Updates, Welcome, PassedDown
  <2> QED
    BY <1>3, <2>1, WireAssumption
<1>4. CASE m.type \in {"updateRequired", "pong"}
  BY <1>4 DEF ReceiverHears
<1> QED
  BY <1>1, <1>2, <1>3, <1>4

-----------------------------------------------------------------------------
\* One step of the link keeps what its two directions and its network carry.
LEMMA CursorStepTyped ==
    ASSUME CursorTyped, [CursorNext]_vars
    PROVE  CursorTyped'
<1> USE DEF CursorTyped
<1>1. CASE Dial
  <2>1. SenderTypeOK' /\ ReceiverTypeOK'
    BY <1>1, SenderStepTyped, ReceiverStepTyped DEF Dial, SenderNext, ReceiverNext
  <2>2. up' \in Seq(ReceiverMsgs)
    <3>1. HelloFrame \in ReceiverMsgs
      BY HelloFrameTyped DEF ReceiverMsgs
    <3> QED
      BY <1>1, <3>1 DEF Dial
  <2>3. spent' \in Spent /\ spent'.sessions # 0
    <3>1. spent.sessions + 1 \in 0 .. MaxSessions /\ spent.sessions + 1 # 0
      BY <1>1, CursorAssumption DEF Dial, LinkTyped, Spent
    <3>2. spent' = [spent EXCEPT !.sessions = spent.sessions + 1]
      BY <1>1 DEF Dial, Spend
    <3> QED
      BY <3>1, <3>2 DEF LinkTyped, Spent
  <2> QED
    BY <1>1, <2>1, <2>2, <2>3 DEF Dial, LinkTyped
<1>2. CASE HangUp
  <2>1. SenderTypeOK' /\ ReceiverTypeOK'
    BY <1>2, SenderStepTyped, ReceiverStepTyped DEF HangUp, SenderNext, ReceiverNext
  <2>2. ~snd'.connected
    BY <1>2 DEF HangUp, SenderDisconnect, SenderTypeOK
  <2> QED
    BY <1>2, <2>1, <2>2 DEF HangUp, LinkTyped
<1>3. CASE SenderGets
  <2>1. Head(up) \in ReceiverMsgs /\ Tail(up) \in Seq(ReceiverMsgs)
    BY <1>3, HeadTailProperties DEF SenderGets, LinkTyped
  <2>2. SenderTypeOK' /\ ReceiverTypeOK'
    BY <1>3, <2>1, SenderStepTyped DEF SenderGets, SenderNext, ReceiverTypeOK
  <2>3. down' \in Seq(Replies \cup Updates)
    BY <1>3, <2>1, RepliesTyped, ConcatProperties DEF SenderGets, LinkTyped
  <2>4. snd.connected
    BY <1>3 DEF SenderGets, SenderHears, HearHello, HearKf, HearCursorAck, HearOther
  <2> QED
    BY <1>3, <2>1, <2>2, <2>3, <2>4 DEF SenderGets, LinkTyped
<1>4. CASE Move
  <2>1. SenderTypeOK' /\ ReceiverTypeOK'
    BY <1>4, SenderStepTyped DEF Move, SenderNext, ReceiverTypeOK
  <2>2. snd'.cursorSeq \in CursorSeqs /\ snd.connected
    BY <1>4, <2>1 DEF SenderTypeOK, Move, CursorMove, ReadyForVideo
  <2>3. down' \in Seq(Replies \cup Updates)
    <3>1. [type |-> "cursor", s |-> snd'.cursorSeq] \in Updates
      BY <2>2 DEF Updates
    <3> QED
      BY <1>4, <3>1, AppendProperties DEF Move, LinkTyped
  <2>4. net' \subseteq Datagrams
    <3>1. ThisFlow \in 1 .. MaxSessions
      BY <2>2, CursorAssumption DEF ThisFlow, LinkTyped, Spent
    <3>2. [flow |-> ThisFlow, s |-> snd'.cursorSeq] \in Datagrams
      BY <2>2, <3>1 DEF Datagrams
    <3> QED
      BY <1>4, <3>2 DEF Move, LinkTyped
  <2> QED
    BY <1>4, <2>1, <2>2, <2>3, <2>4 DEF Move, LinkTyped
<1>5. CASE CursorClock
  <2>1. spent' \in Spent /\ spent'.sessions = spent.sessions
    BY <1>5, Spends DEF CursorClock
  <2>2. SenderTypeOK' /\ snd'.connected = snd.connected
    <3>1. SenderAged.udpAge \in AckAges \cup {None}
      BY SenderRanges DEF SenderTypeOK, SenderAged
    <3> QED
      BY <1>5, <3>1 DEF CursorClock, SenderTypeOK
  <2> QED
    BY <1>5, <2>1, <2>2 DEF CursorClock, LinkTyped, ReceiverTypeOK
<1>6. CASE GiveUp
  <2>1. SenderTypeOK' /\ ReceiverTypeOK' /\ snd.connected
    BY <1>6, SenderStepTyped DEF GiveUp, SenderNext, SenderTick, ReceiverTypeOK
  <2> QED
    BY <1>6, <2>1 DEF GiveUp, LinkTyped
<1>7. CASE ReceiverGets
  <2>1. Head(down) \in Replies \cup Updates /\ Tail(down) \in Seq(Replies \cup Updates)
    BY <1>7, HeadTailProperties DEF ReceiverGets, LinkTyped
  <2>2. ReceiverHears(Head(down))
    BY <1>7 DEF ReceiverGets
  <2>3. SenderTypeOK' /\ ReceiverTypeOK'
    BY <1>7, <2>1, <2>2, ReceiverGetsSteps, ReceiverStepTyped
    DEF ReceiverGets, ReceiverNext, Updates, SenderTypeOK
  <2>4. drawn' \in [conn : Nat, flow : Nat, s : CursorSeqs]
    BY <1>7, <2>1, <2>2, ReceiverGetsSteps DEF ReceiverGets, Draw, ThisFlow, LinkTyped, Spent, Updates
  <2> QED
    BY <1>7, <2>1, <2>3, <2>4 DEF ReceiverGets, LinkTyped
<1>8. CASE Arrive
  <2>1. PICK d \in net : ReceiverGetsDatagram(d) /\ (net' = net \ {d} \/ net' = net)
    BY <1>8 DEF Arrive
  <2>2. spent' \in Spent /\ spent'.sessions = spent.sessions
    BY <1>8, Spends DEF Arrive, LinkTyped
  <2>3. d \in Datagrams /\ d.flow \in Flows /\ d.s \in CursorSeqs
    BY <2>1, CursorAssumption DEF LinkTyped, Datagrams
  <2>4. SenderTypeOK' /\ ReceiverTypeOK'
    <3>1. CASE rcv.connected
      BY <1>8, <2>1, <2>3, <3>1, ReceiverStepTyped
      DEF Arrive, ReceiverGetsDatagram, ReceiverNext, SenderTypeOK
    <3>2. CASE ~rcv.connected
      BY <1>8, <2>1, <3>2 DEF Arrive, ReceiverGetsDatagram, SenderTypeOK, ReceiverTypeOK
    <3> QED
      BY <3>1, <3>2
  <2>5. up' \in Seq(ReceiverMsgs)
    <3>1. CursorAck \in ReceiverMsgs
      BY DEF CursorAck, ReceiverMsgs
    <3>2. DatagramReplies(d.flow, d.s) \in {<<CursorAck>>, << >>}
      BY DEF DatagramReplies
    <3>3. <<CursorAck>> \in Seq(ReceiverMsgs) /\ << >> \in Seq(ReceiverMsgs)
      BY <3>1
    <3>4. up' \in {up, up \o DatagramReplies(d.flow, d.s)}
      BY <2>1 DEF ReceiverGetsDatagram
    <3>5. up \in Seq(ReceiverMsgs)
      BY DEF LinkTyped
    <3> QED
      BY <3>2, <3>3, <3>4, <3>5, ConcatProperties
  <2>6. drawn' \in [conn : Nat, flow : Nat, s : CursorSeqs]
    BY <2>1, <2>3 DEF ReceiverGetsDatagram, Draw, LinkTyped, Spent, Datagrams
  <2> QED
    BY <1>8, <2>1, <2>2, <2>4, <2>5, <2>6 DEF Arrive, LinkTyped
<1>9. CASE Lose
  <2>1. spent' \in Spent /\ spent'.sessions = spent.sessions
    BY <1>9, Spends DEF Lose
  <2> QED
    BY <1>9, <2>1 DEF Lose, LinkTyped, SenderTypeOK, ReceiverTypeOK
<1>10. CASE HelloAgain
  <2>1. spent' \in Spent /\ spent'.sessions = spent.sessions
    BY <1>10, Spends DEF HelloAgain
  <2>2. PICK p \in Ports \cup {None} :
          UpdateHello(p) /\ up' = Append(up, [HelloFrame EXCEPT !.cursorPort = p])
    BY <1>10 DEF HelloAgain
  <2>3. SenderTypeOK' /\ ReceiverTypeOK'
    BY <1>10, <2>2, ReceiverStepTyped DEF HelloAgain, ReceiverNext, SenderTypeOK
  <2>4. up' \in Seq(ReceiverMsgs)
    <3>1. [HelloFrame EXCEPT !.cursorPort = p] \in ReceiverMsgs
      BY <2>2, HelloFrameTyped DEF ReceiverMsgs
    <3> QED
      BY <2>2, <3>1, AppendProperties DEF LinkTyped
  <2> QED
    BY <1>10, <2>1, <2>3, <2>4 DEF HelloAgain, LinkTyped
<1>11. CASE UNCHANGED vars
  BY <1>11 DEF vars, LinkTyped, SenderTypeOK, ReceiverTypeOK
<1> QED
  BY <1>1, <1>2, <1>3, <1>4, <1>5, <1>6, <1>7, <1>8, <1>9, <1>10, <1>11 DEF CursorNext

(* Both sessions and what is between them keep their types.                *)
THEOREM CursorLinkTyped == CursorSafety => []CursorTyped
<1>1. CursorInit => CursorTyped
  <2> SUFFICES ASSUME CursorInit PROVE CursorTyped
    OBVIOUS
  <2>1. SenderTypeOK
    BY SenderRanges DEF CursorInit, SenderInit, Fresh, SenderTypeOK, ImplicitPv
  <2>2. ReceiverTypeOK
    BY ResetTyped DEF CursorInit, ReceiverInit, ReceiverTypeOK
  <2>3. LinkTyped
    BY CursorAssumption, SenderRanges
    DEF CursorInit, SenderInit, Fresh, LinkTyped, Nothing, Spent
  <2> QED
    BY <2>1, <2>2, <2>3 DEF CursorTyped
<1>2. CursorTyped /\ [CursorNext]_vars => CursorTyped'
  BY CursorStepTyped
<1> QED
  BY <1>1, <1>2, PTL DEF CursorSafety

-----------------------------------------------------------------------------
(* An ack is for this connection.                                          *)

\* Why: until the receiver heard a datagram in this connection, nothing on the
\* way up acknowledges one; and what it may hear was sent in this connection or
\* before it.  The session is left by HangUp alone: with a fresh rxAge no tick
\* finds the receiver silent.
AckIsOurs ==
    /\ snd.rxAge = 0
    /\ \A d \in net : d.flow \in 1 .. ThisFlow
    /\ heard \subseteq 1 .. ThisFlow
    /\ snd.connected /\ snd.udpAcked => heard # {}
    /\ heard = {} => up \in Seq(Hellos)

LEMMA AckIsOursKept ==
    ASSUME CursorTyped, AckIsOurs, [CursorNext]_vars
    PROVE  AckIsOurs'
<1> USE DEF CursorTyped
<1>1. CASE Dial
  <2>1. HelloFrame \in Hellos
    BY HelloFrameTyped
  <2>2. <<HelloFrame>> \in Seq(Hellos)
    BY <2>1
  <2>3. snd' = Fresh(TRUE) /\ up' = <<HelloFrame>> /\ net' = net /\ heard' = {}
    BY <1>1 DEF Dial, SenderConnect
  <2>4. 1 .. ThisFlow \subseteq 1 .. ThisFlow'
    BY <1>1 DEF Dial, Spend, ThisFlow, LinkTyped, Spent
  <2> QED
    BY <2>2, <2>3, <2>4 DEF Fresh, AckIsOurs
<1>2. CASE HangUp
  <2>1. /\ snd'.rxAge = 0 /\ ~snd'.connected
        /\ net' \subseteq net /\ up' = << >>
    BY <1>2 DEF HangUp, SenderDisconnect, SenderTypeOK, AckIsOurs
  <2>2. UNCHANGED <<heard, spent>> /\ up' \in Seq(Hellos)
    BY <1>2, <2>1 DEF HangUp
  <2> QED
    BY <2>1, <2>2 DEF AckIsOurs, ThisFlow
<1>3. CASE SenderGets
  <2>1. /\ UNCHANGED <<net, heard, spent>> /\ up # << >> /\ up' = Tail(up)
        /\ SenderHears(Head(up))
    BY <1>3 DEF SenderGets
  <2>2. snd'.rxAge = 0 /\ snd.connected /\ snd'.connected
    BY <2>1 DEF SenderHears, HearHello, HearKf, HearCursorAck, HearOther, SenderTypeOK
  <2>3. CASE heard # {}
    BY <2>1, <2>2, <2>3 DEF AckIsOurs, ThisFlow
  <2>4. CASE heard = {}
    <3>1. Head(up) \in Hellos /\ up' \in Seq(Hellos)
      BY <2>1, <2>4, HeadTailProperties DEF AckIsOurs
    <3>2. HearHello(Head(up))
      BY <2>1, <3>1 DEF SenderHears, Hellos, PassedUp
    <3>3. ~snd'.udpAcked
      BY <2>2, <2>4, <3>2 DEF HearHello, SenderTypeOK, AckIsOurs
    <3> QED
      BY <2>1, <2>2, <3>1, <3>3 DEF AckIsOurs, ThisFlow
  <2> QED
    BY <2>3, <2>4
<1>4. CASE Move
  <2>1. /\ snd.connected /\ snd'.connected /\ snd'.rxAge = snd.rxAge
        /\ snd'.udpAcked = snd.udpAcked
    BY <1>4 DEF Move, CursorMove, ReadyForVideo, SenderTypeOK
  <2>2. \A d \in net' : d.flow \in 1 .. ThisFlow
    <3>1. ThisFlow \in 1 .. ThisFlow
      BY <2>1 DEF ThisFlow, LinkTyped, Spent
    <3> QED
      BY <1>4, <3>1 DEF Move, AckIsOurs
  <2>3. UNCHANGED <<heard, spent, up>>
    BY <1>4 DEF Move
  <2> QED
    BY <2>1, <2>2, <2>3 DEF AckIsOurs, ThisFlow
<1>5. CASE CursorClock
  <2>1. /\ snd'.connected = snd.connected /\ snd'.rxAge = snd.rxAge
        /\ snd'.udpAcked = snd.udpAcked
    BY <1>5 DEF CursorClock, SenderTypeOK
  <2>2. spent'.sessions = spent.sessions
    BY <1>5, Spends DEF CursorClock
  <2> QED
    BY <1>5, <2>1, <2>2 DEF CursorClock, AckIsOurs, ThisFlow
<1>6. CASE GiveUp
  <2>1. /\ snd'.connected = snd.connected /\ snd'.rxAge = snd.rxAge
        /\ snd'.udpAcked = snd.udpAcked
    <3>1. ~SenderSilent
      BY WireAssumption DEF SenderSilent, AckIsOurs
    <3>2. \E ping, port, age :
            snd' = [snd EXCEPT !.pingIn = ping, !.udpPort = port, !.udpAge = age]
      BY <1>6, <3>1 DEF GiveUp, SenderTick
    <3> QED
      BY <3>2 DEF SenderTypeOK
  <2> QED
    BY <1>6, <2>1 DEF GiveUp, AckIsOurs, ThisFlow
<1>7. CASE ReceiverGets
  BY <1>7 DEF ReceiverGets, AckIsOurs, ThisFlow
<1>8. CASE Arrive
  <2>1. PICK d \in net : ReceiverGetsDatagram(d) /\ (net' = net \ {d} \/ net' = net)
    BY <1>8 DEF Arrive
  <2>2. spent'.sessions = spent.sessions /\ UNCHANGED snd
    BY <1>8, Spends DEF Arrive, LinkTyped
  <2>3. CASE rcv.connected
    <3>1. heard' = heard \cup {d.flow} /\ d.flow \in 1 .. ThisFlow
      BY <2>1, <2>3 DEF ReceiverGetsDatagram, AckIsOurs
    <3>2. heard' # {} /\ heard' \subseteq 1 .. ThisFlow
      BY <3>1 DEF AckIsOurs
    <3>3. \A e \in net' : e.flow \in 1 .. ThisFlow
      BY <2>1 DEF AckIsOurs
    <3> QED
      BY <2>2, <3>2, <3>3 DEF AckIsOurs, ThisFlow
  <2>4. CASE ~rcv.connected
    BY <2>1, <2>2, <2>4 DEF ReceiverGetsDatagram, AckIsOurs, ThisFlow
  <2> QED
    BY <2>3, <2>4
<1>9. CASE Lose
  <2>1. spent'.sessions = spent.sessions
    BY <1>9, Spends DEF Lose
  <2> QED
    BY <1>9, <2>1 DEF Lose, AckIsOurs, ThisFlow
<1>10. CASE HelloAgain
  <2>1. spent'.sessions = spent.sessions
    BY <1>10, Spends DEF HelloAgain
  <2>2. PICK p \in Ports \cup {None} : up' = Append(up, [HelloFrame EXCEPT !.cursorPort = p])
    BY <1>10 DEF HelloAgain
  <2>3. heard = {} => up' \in Seq(Hellos)
    <3>1. [HelloFrame EXCEPT !.cursorPort = p] \in Hellos
      BY <2>2, HelloFrameTyped
    <3> QED
      BY <2>2, <3>1, AppendProperties DEF AckIsOurs
  <2> QED
    BY <1>10, <2>1, <2>3 DEF HelloAgain, AckIsOurs, ThisFlow
<1>11. CASE UNCHANGED vars
  BY <1>11 DEF vars, AckIsOurs, ThisFlow
<1> QED
  BY <1>1, <1>2, <1>3, <1>4, <1>5, <1>6, <1>7, <1>8, <1>9, <1>10, <1>11 DEF CursorNext

(* A sender stops mirroring positions onto TCP only when a datagram of     *)
(* this very session got through, or a late one of an earlier session      *)
(* did, however they are lost, duplicated, reordered or late and whatever  *)
(* hellos come: an ack is never carried over to another connection.        *)
THEOREM AckIsHonest == CursorSafety => []HonestAck
<1>1. CursorInit => AckIsOurs
  BY DEF CursorInit, SenderInit, Fresh, AckIsOurs
<1>2. CursorTyped /\ AckIsOurs /\ [CursorNext]_vars => AckIsOurs'
  BY AckIsOursKept
<1>3. CursorTyped /\ AckIsOurs => HonestAck
  <2>1. ASSUME CursorTyped, AckIsOurs, NEW flow \in heard
        PROVE  flow = ThisFlow \/ flow < ThisFlow
    BY <2>1 DEF AckIsOurs, CursorTyped, LinkTyped, Spent, ThisFlow
  <2> QED
    BY <2>1 DEF AckIsOurs, HonestAck, Acknowledged, CursorOnTcp, HeardOwn, HeardLate
<1> QED
  BY <1>1, <1>2, <1>3, CursorLinkTyped, PTL DEF CursorSafety

-----------------------------------------------------------------------------
(* The cursor on one flow.                                                 *)

\* What is drawn in this connection is where the receiver's floor stands.
FloorIsDrawn ==
    /\ drawn.conn <= spent.sessions
    /\ rcv.connected /\ drawn.conn = spent.sessions => rcv.cursorSeq = drawn.s

\* What the receiver draws is above its floor, or of another flow, and raises it.
Draws ==
    /\ rcv.connected /\ spent'.sessions = spent.sessions
    /\ drawn'.conn = spent.sessions
    /\ rcv'.cursorSeq = drawn'.s /\ drawn'.s \in CursorSeqs
    /\ rcv'.udpFlow = rcv.udpFlow => rcv.cursorSeq = None \/ drawn'.s > rcv.cursorSeq

DrawsNothing ==
    /\ UNCHANGED drawn /\ spent'.sessions = spent.sessions
    /\ rcv'.connected = rcv.connected /\ rcv'.cursorSeq = rcv.cursorSeq

LEMMA DrawsOrNot ==
    ASSUME CursorTyped, CursorNext
    PROVE  Dial \/ HangUp \/ Draws \/ DrawsNothing
<1> USE DEF CursorTyped
<1>1. CASE ReceiverGets
  <2> DEFINE m == Head(down)
  <2>1. m \in Replies \cup Updates /\ ReceiverHears(m) /\ UNCHANGED spent
    BY <1>1, HeadTailProperties DEF ReceiverGets, LinkTyped
  <2>2. IF m.type = "cursor" /\ Newer(m.s) THEN Draw(ThisFlow, m.s) ELSE UNCHANGED drawn
    BY <1>1 DEF ReceiverGets
  <2> HIDE DEF m
  <2>3. CASE m.type = "cursor"
    <3>1. m \in Updates /\ HearCursor(m.s)
      BY <2>1, <2>3, ReceiverGetsSteps
    <3>2. m.s \in CursorSeqs /\ m.s # None
      BY <3>1, WireAssumption DEF Updates, CursorSeqs
    <3>3. /\ rcv.connected /\ rcv'.connected
          /\ rcv'.cursorSeq = IF Newer(m.s) THEN m.s ELSE rcv.cursorSeq
      BY <3>1, <3>2 DEF HearCursor, ReceiverTypeOK
    <3>4. CASE Newer(m.s)
      BY <2>1, <2>2, <2>3, <3>2, <3>3, <3>4 DEF Draw, Newer, Draws
    <3>5. CASE ~Newer(m.s)
      BY <2>1, <2>2, <3>3, <3>5 DEF DrawsNothing
    <3> QED
      BY <3>4, <3>5
  <2>4. CASE m.type # "cursor"
    <3>1. (\E pv \in Pvs : HearWelcome(Welcome(pv))) \/ ReceiverHearOther
      BY <2>1, <2>4, ReceiverGetsSteps
    <3>2. rcv'.connected = rcv.connected /\ rcv'.cursorSeq = rcv.cursorSeq
      BY <3>1 DEF HearWelcome, ReceiverHearOther, ReceiverTypeOK
    <3> QED
      BY <2>1, <2>2, <2>4, <3>2 DEF DrawsNothing
  <2> QED
    BY <2>3, <2>4
<1>2. CASE Arrive
  <2>1. PICK d \in net : ReceiverGetsDatagram(d)
    BY <1>2 DEF Arrive
  <2>2. spent'.sessions = spent.sessions
    BY <1>2, Spends DEF Arrive, LinkTyped
  <2>3. CASE ~rcv.connected
    BY <2>1, <2>2, <2>3 DEF ReceiverGetsDatagram, DrawsNothing
  <2>4. CASE rcv.connected
    <3>1. d.s \in CursorSeqs /\ d.s # None
      BY <2>1, WireAssumption DEF LinkTyped, Datagrams, CursorSeqs
    <3>2. /\ HearDatagram(d.flow, d.s)
          /\ IF Applies(d.flow, d.s) THEN Draw(d.flow, d.s) ELSE UNCHANGED drawn
      BY <2>1, <2>4 DEF ReceiverGetsDatagram
    <3>3. /\ rcv'.connected /\ rcv'.udpFlow = d.flow
          /\ rcv'.cursorSeq = IF Applies(d.flow, d.s) THEN d.s ELSE rcv.cursorSeq
      BY <2>4, <3>1, <3>2 DEF HearDatagram, ReceiverTypeOK
    <3>4. CASE Applies(d.flow, d.s)
      BY <2>2, <2>4, <3>1, <3>2, <3>3, <3>4 DEF Draw, Applies, NewFlow, Newer, Draws
    <3>5. CASE ~Applies(d.flow, d.s)
      BY <2>2, <2>4, <3>2, <3>3, <3>5 DEF DrawsNothing
    <3> QED
      BY <3>4, <3>5
  <2> QED
    BY <2>3, <2>4
<1>3. CASE SenderGets \/ Move \/ CursorClock \/ GiveUp \/ Lose
  <2>1. UNCHANGED <<rcv, drawn>>
    BY <1>3 DEF SenderGets, Move, CursorClock, GiveUp, Lose
  <2>2. spent'.sessions = spent.sessions
    BY <1>3, Spends DEF SenderGets, Move, CursorClock, GiveUp, Lose
  <2> QED
    BY <2>1, <2>2 DEF DrawsNothing
<1>4. CASE HelloAgain
  <2>1. rcv'.connected = rcv.connected /\ rcv'.cursorSeq = rcv.cursorSeq
    BY <1>4 DEF HelloAgain, UpdateHello, ReceiverTypeOK
  <2>2. UNCHANGED drawn /\ spent'.sessions = spent.sessions
    BY <1>4, Spends DEF HelloAgain
  <2> QED
    BY <2>1, <2>2 DEF DrawsNothing
<1> QED
  BY <1>1, <1>2, <1>3, <1>4 DEF CursorNext

LEMMA FloorIsDrawnKept ==
    ASSUME CursorTyped, FloorIsDrawn, [CursorNext]_vars
    PROVE  FloorIsDrawn'
<1>1. drawn.conn \in Nat /\ spent.sessions \in Nat
  BY CursorAssumption DEF CursorTyped, LinkTyped, Spent
<1>2. CASE Dial
  <2>1. spent'.sessions = spent.sessions + 1 /\ UNCHANGED drawn
    BY <1>2 DEF Dial, Spend, CursorTyped, LinkTyped, Spent
  <2> QED
    BY <1>1, <2>1 DEF FloorIsDrawn
<1>3. CASE HangUp
  BY <1>3 DEF HangUp, ReceiverDisconnect, CursorTyped, ReceiverTypeOK, FloorIsDrawn
<1>4. CASE Draws
  BY <1>1, <1>4 DEF Draws, FloorIsDrawn
<1>5. CASE DrawsNothing
  BY <1>5 DEF DrawsNothing, FloorIsDrawn
<1>6. CASE UNCHANGED vars
  BY <1>6 DEF vars, FloorIsDrawn
<1> QED
  BY <1>2, <1>3, <1>4, <1>5, <1>6, DrawsOrNot

(* On one flow of one connection the cursor never goes back: whichever of  *)
(* TCP and UDP is slow, whatever is reordered or comes twice, and also     *)
(* when a datagram of another flow starts the sequence over in between.    *)
THEOREM CursorNeverGoesBack == CursorSafety => NeverBackOnAFlow
<1> DEFINE Forward ==
      rcv.connected /\ rcv'.connected /\ rcv'.udpFlow = rcv.udpFlow
      /\ drawn.conn = spent.sessions /\ drawn' # drawn
        => drawn'.s > drawn.s
<1>1. CursorInit => FloorIsDrawn
  BY DEF CursorInit, ReceiverInit, Reset, Nothing, FloorIsDrawn
<1>2. CursorTyped /\ FloorIsDrawn /\ [CursorNext]_vars => FloorIsDrawn'
  BY FloorIsDrawnKept
<1>3. CursorTyped /\ FloorIsDrawn /\ [CursorNext]_vars => [Forward]_vars
  <2> SUFFICES ASSUME CursorTyped, FloorIsDrawn, CursorNext,
                      rcv.connected, rcv'.udpFlow = rcv.udpFlow,
                      drawn.conn = spent.sessions, drawn' # drawn
               PROVE  drawn'.s > drawn.s
    BY DEF vars
  <2>1. Draws
    BY DrawsOrNot DEF Dial, HangUp, DrawsNothing
  <2>2. rcv.cursorSeq = drawn.s /\ drawn.s # None
    BY WireAssumption DEF FloorIsDrawn, CursorTyped, LinkTyped, CursorSeqs
  <2> QED
    BY <2>1, <2>2 DEF Draws
<1> QED
  BY <1>1, <1>2, <1>3, CursorLinkTyped, PTL DEF CursorSafety, NeverBackOnAFlow
=============================================================================
