------------------------ MODULE HeartbeatLink_proofs ------------------------
(***************************************************************************)
(* Proofs about HeartbeatLink, for every window, delay, build time, load   *)
(* and size of the sockets: hosts that are not kept from reading never     *)
(* take each other for dead.                                               *)
(***************************************************************************)
EXTENDS HeartbeatLink, Sessions_proofs, SequenceTheorems

-----------------------------------------------------------------------------
(* The types.                                                              *)

\* What the two hosts of this composition say.
Says == Hellos \cup [type : {"ping"}, t : {TRUE}] \cup [type : {"input"}]
Shown == [type : {"updateRequired", "streamConfig", "pong", "ping", "video"}]
Tells == {Welcome(OurPv)} \cup Shown

Ages == 0 .. MaxDelay

Under(S) == Seq([m : S, age : Ages])

Ends == {None, "timeout", "stopped", "left"}

HostStates(S, left) ==
    [at : {"select", "write", "build", "done"}, out : Seq(S), left : left,
     idle : BOOLEAN, end : Ends]

\* A host that is not writing has nothing in hand, and one batch is short.
InHand(h, most) ==
    /\ h.at = "write" => Len(h.out) \in 1 .. most
    /\ h.at # "write" => h.out = << >>
    /\ h.at # "done" => h.end = None

BeatTyped ==
    /\ SenderTypeOK /\ ReceiverTypeOK
    /\ up \in Under(Says) /\ down \in Under(Tells)
    /\ sh \in HostStates(Tells, 0 .. BuildTime)
    /\ rh \in HostStates(Says, {0})
    /\ wire \in {"up", "cut"}

BeatHosts ==
    /\ InHand(sh, 2) /\ InHand(rh, 1)
    /\ rh.at # "build"
    /\ sh.at # "done" => snd.connected
    /\ rh.at # "done" => rcv.connected
    /\ sh.left > 0 => snd.hello # None /\ sh.at # "select"
    /\ sh.at = "build" => snd.hello # None

\* The receiver says hello once, before anything else.
OneHello ==
    /\ \A i \in 1 .. Len(up) : up[i].m.type = "hello" => snd.hello = None /\ i = 1
    /\ \A i \in 1 .. Len(rh.out) : rh.out[i].type = "hello" => snd.hello = None /\ up = << >>

BeatOK == BeatTyped /\ BeatHosts /\ OneHello

-----------------------------------------------------------------------------
(* The queues.                                                             *)

LEMMA QueueFacts ==
    ASSUME NEW S, NEW q \in Under(S)
    PROVE  /\ Len(q) \in Nat
           /\ q = << >> <=> Len(q) = 0
           /\ q # << >> => Head(q) = q[1] /\ Len(q) >= 1
           /\ \A i \in 1 .. Len(q) : q[i].m \in S /\ q[i].age \in Ages
<1> DEFINE F == [m : S, age : Ages]
<1>1. q \in Seq(F)
  BY DEF Under
<1>2. \A f \in F : f.m \in S /\ f.age \in Ages
  OBVIOUS
<1>3. \A i \in 1 .. Len(q) : q[i] \in F
  BY <1>1, ElementOfSeq
<1> HIDE DEF F
<1>4. Len(q) \in Nat /\ (q = << >> <=> Len(q) = 0) /\ (q # << >> => Len(q) >= 1)
  BY <1>1, EmptySeq
<1>5. q # << >> => Head(q) = q[1]
  BY <1>1
<1> QED
  BY <1>2, <1>3, <1>4, <1>5

LEMMA SentFacts ==
    ASSUME NEW S, NEW q \in Under(S), NEW m \in S
    PROVE  /\ Sent(q, m) \in Under(S)
           /\ Len(Sent(q, m)) = Len(q) + 1
           /\ \A i \in 1 .. Len(q) : Sent(q, m)[i] = q[i]
           /\ Sent(q, m)[Len(q) + 1] = [m |-> m, age |-> 0]
<1> DEFINE F == [m : S, age : Ages]
<1>1. q \in Seq(F) /\ [m |-> m, age |-> 0] \in F
  BY HeartbeatAssumption DEF Under, Ages
<1> HIDE DEF F
<1>2. /\ Sent(q, m) \in Seq(F)
      /\ Len(Sent(q, m)) = Len(q) + 1
      /\ \A i \in 1 .. Len(q) : Sent(q, m)[i] = q[i]
      /\ Sent(q, m)[Len(q) + 1] = [m |-> m, age |-> 0]
  BY <1>1, AppendProperties DEF Sent
<1> QED
  BY <1>2 DEF F, Under

LEMMA TailFacts ==
    ASSUME NEW S, NEW q \in Under(S), q # << >>
    PROVE  /\ Tail(q) \in Under(S)
           /\ Len(Tail(q)) = Len(q) - 1
           /\ \A i \in 1 .. Len(Tail(q)) : Tail(q)[i] = q[i + 1] /\ i + 1 \in 1 .. Len(q)
<1>1. Len(q) \in Nat
  BY QueueFacts
<1> QED
  BY <1>1, HeadTailProperties DEF Under

LEMMA AgedFacts ==
    ASSUME NEW S, NEW q \in Under(S)
    PROVE  /\ Aged(q) \in Under(S)
           /\ Len(Aged(q)) = Len(q)
           /\ \A i \in 1 .. Len(q) :
                /\ Aged(q)[i].m = q[i].m
                /\ Aged(q)[i].age = IF q[i].age < MaxDelay THEN q[i].age + 1 ELSE q[i].age
<1> DEFINE F == [m : S, age : Ages]
           older(f) == [f EXCEPT !.age = IF f.age < MaxDelay THEN f.age + 1 ELSE f.age]
<1>1. q \in Seq(F)
  BY DEF Under
<1>2. ASSUME NEW f \in F
      PROVE  /\ older(f) \in F
             /\ older(f).m = f.m
             /\ older(f).age = IF f.age < MaxDelay THEN f.age + 1 ELSE f.age
  BY HeartbeatAssumption DEF Ages
<1>3. Aged(q) = [i \in 1 .. Len(q) |-> older(q[i])]
  <2>1. DOMAIN q = 1 .. Len(q)
    BY <1>1, LenProperties
  <2> QED
    BY <2>1 DEF Aged
<1>4. \A i \in 1 .. Len(q) : q[i] \in F
  BY <1>1, ElementOfSeq
<1> HIDE DEF F, older
<1>5. Aged(q) \in Seq(F) /\ Len(Aged(q)) = Len(q)
  <2>1. Len(q) \in Nat
    BY <1>1
  <2>2. [i \in 1 .. Len(q) |-> older(q[i])] \in Seq(F)
    BY <1>2, <1>4, <2>1, IsASeq
  <2> QED
    BY <1>3, <2>1, <2>2
<1>6. \A i \in 1 .. Len(q) : Aged(q)[i] = older(q[i])
  BY <1>3
<1>7. \A i \in 1 .. Len(q) :
        /\ Aged(q)[i].m = q[i].m
        /\ Aged(q)[i].age = IF q[i].age < MaxDelay THEN q[i].age + 1 ELSE q[i].age
  BY <1>2, <1>4, <1>6
<1> QED
  BY <1>5, <1>7 DEF F, Under

-----------------------------------------------------------------------------
(* The hosts.                                                              *)

LEMMA WritingFacts ==
    ASSUME NEW S, NEW L, NEW h \in HostStates(S, L), NEW f \in Seq(S),
           h.at = "select", h.out = << >>
    PROVE  /\ Writing(h, f) \in HostStates(S, L)
           /\ Writing(h, f).out = f
           /\ Writing(h, f).left = h.left
           /\ Writing(h, f).idle = h.idle
           /\ Writing(h, f).end = h.end
           /\ Writing(h, f).at = IF f = << >> THEN "select" ELSE "write"
BY DEF Writing, HostStates

LEMMA EndedFacts ==
    ASSUME NEW S, NEW L, NEW h \in HostStates(S, L), NEW why \in Ends
    PROVE  /\ Ended(h, why) \in HostStates(S, L)
           /\ Ended(h, why).at = "done"
           /\ Ended(h, why).out = << >>
           /\ Ended(h, why).left = h.left
<1>1. << >> \in Seq(S)
  OBVIOUS
<1> DEFINE e == [h EXCEPT !.at = "done", !.out = << >>]
<1>2. e \in HostStates(S, L) /\ e.at = "done" /\ e.out = << >> /\ e.left = h.left
  BY <1>1 DEF HostStates
<1>3. Ended(h, why) = [e EXCEPT !.end = why]
  BY DEF Ended
<1> HIDE DEF e
<1> QED
  BY <1>2, <1>3 DEF HostStates

LEMMA OneFrame ==
    ASSUME NEW S, NEW m \in S
    PROVE  /\ <<m>> \in Seq(S) /\ Len(<<m>>) = 1 /\ <<m>>[1] = m /\ <<m>> # << >>
           /\ Head(<<m>>) = m /\ Tail(<<m>>) = << >>
           /\ << >> \in Seq(S) /\ Len(<< >>) = 0
OBVIOUS

LEMMA ReplyFacts ==
    ASSUME NEW m \in Says
    PROVE  /\ SenderReplies(m) \in Seq(Tells)
           /\ Len(SenderReplies(m)) \in 0 .. 2 /\ Len(SenderReplies(m)) <= 2
           /\ m.type = "hello" => SenderReplies(m) # << >>
           /\ m.type # "hello" => Len(SenderReplies(m)) <= 1
           /\ m.type \in {"hello", "ping", "input"}
           /\ m \in ReceiverMsgs
<1>1. m.type \in {"hello", "ping", "input"} /\ m \in ReceiverMsgs
  BY DEF Says, Hellos, ReceiverMsgs, PassedUp
<1>2. /\ Welcome(OurPv) \in Tells
      /\ [type |-> "updateRequired"] \in Tells
      /\ [type |-> "pong"] \in Tells
  BY DEF Tells, Shown
<1>3. /\ HelloReplies(m) \in Seq(Tells) /\ HelloReplies(m) # << >>
      /\ Len(HelloReplies(m)) \in 0 .. 2 /\ Len(HelloReplies(m)) <= 2
  <2> DEFINE w == <<Welcome(OurPv)>>
             r == IF EffectivePv(m.pv) < MinReceiverPv THEN <<[type |-> "updateRequired"]>> ELSE << >>
  <2>1. w \in Seq(Tells) /\ Len(w) = 1
    BY <1>2, OneFrame
  <2>2. r \in Seq(Tells) /\ Len(r) \in 0 .. 1
    BY <1>2, OneFrame
  <2>3. HelloReplies(m) = w \o r
    BY DEF HelloReplies
  <2> HIDE DEF w, r
  <2>4. HelloReplies(m) \in Seq(Tells) /\ Len(HelloReplies(m)) = Len(w) + Len(r)
    BY <2>1, <2>2, <2>3, ConcatProperties
  <2>5. PICK n \in 0 .. 1 : n = Len(r)
    BY <2>2
  <2>6. Len(HelloReplies(m)) = 1 + n
    BY <2>1, <2>4, <2>5
  <2>7. HelloReplies(m) # << >>
    BY <2>4, <2>6, EmptySeq
  <2>8. Len(HelloReplies(m)) \in 0 .. 2 /\ Len(HelloReplies(m)) <= 2
    BY <2>6
  <2> QED
    BY <2>4, <2>7, <2>8
<1>4. CASE m.type = "hello"
  <2>1. SenderReplies(m) = HelloReplies(m)
    BY <1>4 DEF SenderReplies
  <2> QED
    BY <1>1, <1>3, <1>4, <2>1
<1>5. CASE m.type = "ping"
  <2>1. m.t
    BY <1>5 DEF Says, Hellos
  <2>2. SenderReplies(m) = <<[type |-> "pong"]>>
    BY <1>5, <2>1 DEF SenderReplies
  <2> QED
    BY <1>1, <1>2, <1>5, <2>2, OneFrame
<1>6. CASE m.type = "input"
  <2>1. SenderReplies(m) = << >>
    BY <1>6 DEF SenderReplies
  <2> QED
    BY <1>1, <1>6, <2>1, OneFrame
<1> QED
  BY <1>1, <1>4, <1>5, <1>6

-----------------------------------------------------------------------------
(* The sessions inside the hosts: what a handler does to the clocks.       *)

LEMMA HelloIsSome == None \notin Hellos
BY NoneIsNoHello

LEMMA SenderHearsFacts ==
    ASSUME SenderTypeOK, NEW m \in Says, SenderHears(m)
    PROVE  /\ SenderTypeOK'
           /\ snd.connected /\ snd'.connected
           /\ snd'.rxAge = 0
           /\ snd'.pingIn = snd.pingIn
           /\ m.type = "hello" => snd'.hello # None
           /\ m.type # "hello" => snd'.hello = snd.hello
<1>1. SenderTypeOK'
  BY ReplyFacts, SenderStepTyped DEF SenderNext
<1>2. CASE m.type = "hello" /\ HearHello(m)
  <2>1. m \in Hellos
    BY <1>2 DEF Says
  <2> QED
    BY <1>1, <1>2, <2>1, HelloIsSome DEF HearHello, SenderTypeOK
<1>3. CASE m.type # "hello" /\ (HearKf \/ HearCursorAck \/ HearOther)
  BY <1>1, <1>3 DEF HearKf, HearCursorAck, HearOther, SenderTypeOK
<1> QED
  BY <1>2, <1>3 DEF SenderHears, PassedUp

LEMMA SenderTickFacts ==
    ASSUME SenderTypeOK, SenderTick
    PROVE  /\ SenderTypeOK'
           /\ snd'.rxAge = snd.rxAge
           /\ snd'.hello = snd.hello
           /\ snd'.connected = ~SenderSilent
           /\ ~SenderSilent =>
                snd'.pingIn = IF snd.pingIn = 0 THEN PingInterval ELSE snd.pingIn
<1>1. SenderTypeOK'
  BY SenderStepTyped DEF SenderNext
<1> QED
  BY <1>1 DEF SenderTick, SenderTypeOK

LEMMA SenderElapseFacts ==
    ASSUME SenderTypeOK, SenderElapse
    PROVE  /\ SenderTypeOK'
           /\ snd'.rxAge = Older(snd.rxAge, LivenessTimeout)
           /\ snd'.hello = snd.hello
           /\ snd'.connected = snd.connected
           /\ snd'.pingIn = IF snd.pingIn = 0 THEN 0 ELSE snd.pingIn - 1
<1>1. SenderTypeOK'
  BY SenderStepTyped DEF SenderNext
<1> QED
  BY <1>1 DEF SenderElapse, SenderAged, SenderTypeOK

LEMMA SenderDisconnectFacts ==
    ASSUME SenderTypeOK, SenderDisconnect
    PROVE  SenderTypeOK' /\ snd'.hello = snd.hello
BY SenderStepTyped DEF SenderNext, SenderDisconnect, SenderTypeOK

LEMMA ReceiverHearsFacts ==
    ASSUME ReceiverTypeOK, NEW m \in Tells,
           IF m.type = "video" THEN ReceiverHearPartial ELSE ReceiverHears(m)
    PROVE  /\ ReceiverTypeOK'
           /\ rcv.connected /\ rcv'.connected
           /\ rcv'.rxAge = 0
           /\ rcv'.pingIn = rcv.pingIn
<1>1. ReceiverHearPartial \/ HearWelcome(Welcome(OurPv)) \/ ReceiverHearOther
  <2>1. CASE m.type = "video"
    BY <2>1
  <2>2. CASE m.type = "welcome"
    BY <2>2 DEF ReceiverHears, Tells, Shown, Welcome, PassedDown
  <2>3. CASE m.type \in {"updateRequired", "streamConfig", "pong", "ping"}
    BY <2>3 DEF ReceiverHears
  <2> QED
    BY <2>1, <2>2, <2>3 DEF Tells, Shown, Welcome
<1>2. ReceiverTypeOK'
  BY <1>1, ReceiverStepTyped, WireAssumption DEF ReceiverNext
<1> QED
  BY <1>1, <1>2 DEF ReceiverHearPartial, HearWelcome, ReceiverHearOther, ReceiverTypeOK

LEMMA ReceiverTickFacts ==
    ASSUME ReceiverTypeOK, ReceiverTick
    PROVE  /\ ReceiverTypeOK'
           /\ rcv'.rxAge = rcv.rxAge
           /\ rcv'.connected = ~ReceiverSilent
           /\ ~ReceiverSilent =>
                rcv'.pingIn = IF rcv.pingIn = 0 THEN PingInterval ELSE rcv.pingIn
<1>1. ReceiverTypeOK'
  BY ReceiverStepTyped DEF ReceiverNext
<1> QED
  BY <1>1 DEF ReceiverTick, ReceiverTypeOK

LEMMA ReceiverElapseFacts ==
    ASSUME ReceiverTypeOK, ReceiverElapse
    PROVE  /\ ReceiverTypeOK'
           /\ rcv'.rxAge = Older(rcv.rxAge, LivenessTimeout)
           /\ rcv'.connected = rcv.connected
           /\ rcv'.pingIn = IF rcv.pingIn = 0 THEN 0 ELSE rcv.pingIn - 1
<1>1. ReceiverTypeOK'
  BY ReceiverStepTyped DEF ReceiverNext
<1> QED
  BY <1>1 DEF ReceiverElapse, ReceiverAged, ReceiverTypeOK

-----------------------------------------------------------------------------
(* What each step does to the queues, the hosts and the clocks.            *)

\* Everything that is not said to change stays.
LEMMA SenderReadsFacts ==
    ASSUME BeatOK, SenderReads
    PROVE  /\ BeatOK'
           /\ up # << >> /\ up' = Tail(up) /\ down' = down
           /\ snd'.rxAge = 0 /\ snd'.pingIn = snd.pingIn
           /\ sh.at = "select" /\ sh.left = 0 /\ sh'.idle = sh.idle
           /\ sh'.at = IF sh'.out = << >> THEN "select" ELSE "write"
           /\ \/ snd.hello = None /\ snd'.hello # None
                 /\ Len(sh'.out) <= 2 /\ sh'.at = "write" /\ sh'.left = BuildTime
              \/ snd'.hello = snd.hello /\ Len(sh'.out) <= 1 /\ sh'.left = 0
<1> DEFINE m == Head(up).m
<1> USE DEF BeatOK
<1>1. sh.at = "select" /\ sh.out = << >> /\ sh.end = None /\ up # << >> /\ up' = Tail(up)
      /\ rcv' = rcv /\ down' = down /\ rh' = rh /\ wire' = wire
      /\ SenderHears(m)
  BY DEF SenderReads, BeatHosts, InHand
<1>2. m \in Says /\ m = up[1].m /\ 1 \in 1 .. Len(up)
  BY <1>1, QueueFacts DEF BeatTyped
<1>3. /\ SenderTypeOK' /\ snd'.connected
      /\ snd'.rxAge = 0 /\ snd'.pingIn = snd.pingIn
      /\ m.type = "hello" => snd'.hello # None
      /\ m.type # "hello" => snd'.hello = snd.hello
  BY <1>1, <1>2, SenderHearsFacts DEF BeatTyped
<1>4. /\ SenderReplies(m) \in Seq(Tells)
      /\ Len(SenderReplies(m)) \in 0 .. 2 /\ Len(SenderReplies(m)) <= 2
      /\ m.type = "hello" => SenderReplies(m) # << >>
      /\ m.type # "hello" => Len(SenderReplies(m)) <= 1
  BY <1>2, ReplyFacts
<1>5. m.type = "hello" => snd.hello = None
  BY <1>2 DEF OneHello
<1>6. sh.left = 0
  BY <1>1 DEF BeatHosts, BeatTyped, HostStates
<1> DEFINE w == Writing(sh, SenderReplies(m))
<1>7. /\ w \in HostStates(Tells, 0 .. BuildTime)
      /\ w.out = SenderReplies(m) /\ w.left = 0 /\ w.idle = sh.idle /\ w.end = None
      /\ w.at = IF w.out = << >> THEN "select" ELSE "write"
  BY <1>1, <1>4, <1>6, WritingFacts DEF BeatTyped
<1>8. sh' = IF m.type = "hello" THEN [w EXCEPT !.left = BuildTime] ELSE w
  BY <1>5 DEF SenderReads
<1> HIDE DEF m, w
<1>9. /\ sh' \in HostStates(Tells, 0 .. BuildTime)
      /\ sh'.out = SenderReplies(m) /\ sh'.idle = sh.idle /\ sh'.end = None
      /\ sh'.at = IF sh'.out = << >> THEN "select" ELSE "write"
      /\ sh'.left = IF m.type = "hello" THEN BuildTime ELSE 0
  BY <1>7, <1>8, HeartbeatAssumption DEF HostStates
<1>10. sh'.out = SenderReplies(m)
  BY <1>9
<1>11. /\ Len(sh'.out) \in 0 .. 2 /\ Len(sh'.out) <= 2
       /\ sh'.out = << >> <=> Len(sh'.out) = 0
       /\ m.type = "hello" => sh'.out # << >>
       /\ m.type # "hello" => Len(sh'.out) <= 1
  BY <1>4, <1>10, EmptySeq
<1>12. BeatTyped'
  BY <1>1, <1>3, <1>9, TailFacts DEF BeatTyped, ReceiverTypeOK
<1>13. BeatHosts'
  BY <1>1, <1>3, <1>5, <1>9, <1>11 DEF BeatHosts, InHand
<1>14. OneHello'
  <2>1. \A i \in 1 .. Len(up') : up'[i].m.type # "hello"
    <3> SUFFICES ASSUME NEW i \in 1 .. Len(up') PROVE up'[i].m.type # "hello"
      OBVIOUS
    <3>1. up'[i] = up[i + 1] /\ i + 1 \in 1 .. Len(up) /\ i + 1 # 1
      BY <1>1, TailFacts DEF BeatTyped
    <3> QED
      BY <3>1 DEF OneHello
  <2> QED
    BY <1>1, <2>1 DEF OneHello
<1>15. \/ snd.hello = None /\ snd'.hello # None
          /\ Len(sh'.out) <= 2 /\ sh'.at = "write" /\ sh'.left = BuildTime
       \/ snd'.hello = snd.hello /\ Len(sh'.out) <= 1 /\ sh'.left = 0
  <2>1. CASE m.type = "hello"
    <3>1. Len(sh'.out) <= 2
      BY <1>11
    <3>2. sh'.out # << >> /\ sh'.left = BuildTime
      BY <1>9, <1>11, <2>1
    <3> QED
      BY <1>3, <1>5, <1>9, <2>1, <3>1, <3>2
  <2>2. CASE m.type # "hello"
    <3>1. Len(sh'.out) <= 1 /\ sh'.left = 0
      BY <1>9, <1>11, <2>2
    <3> QED
      BY <1>3, <2>2, <3>1
  <2> QED
    BY <2>1, <2>2
<1> QED
  BY <1>1, <1>3, <1>6, <1>9, <1>12, <1>13, <1>14, <1>15

LEMMA SenderTicksFacts ==
    ASSUME BeatOK, SenderTicks
    PROVE  /\ BeatOK'
           /\ sh.at = "select" /\ up' = up /\ down' = down
           /\ SenderSilent => sh'.at = "done" /\ sh'.end = "timeout"
           /\ ~SenderSilent =>
                /\ sh'.end = None
                /\ sh.out = << >>
                /\ snd'.rxAge = snd.rxAge /\ snd'.hello = snd.hello
                /\ sh'.idle = sh.idle /\ sh'.left = sh.left
                /\ \/ snd.pingIn = 0 /\ snd'.pingIn = PingInterval
                      /\ sh'.at = "write" /\ Len(sh'.out) = 1
                   \/ snd'.pingIn = snd.pingIn /\ sh'.at = "select" /\ sh'.out = << >>
<1> USE DEF BeatOK
<1>1. sh.at = "select" /\ sh.out = << >> /\ sh.end = None /\ SenderTick
      /\ rcv' = rcv /\ up' = up /\ down' = down /\ rh' = rh /\ wire' = wire
      /\ sh' = IF SenderSilent THEN Ended(sh, "timeout") ELSE Writing(sh, SenderTickFrames)
  BY DEF SenderTicks, BeatHosts, InHand
<1>2. /\ SenderTypeOK' /\ snd'.rxAge = snd.rxAge /\ snd'.hello = snd.hello
      /\ snd'.connected = ~SenderSilent
      /\ ~SenderSilent =>
           snd'.pingIn = IF snd.pingIn = 0 THEN PingInterval ELSE snd.pingIn
  BY <1>1, SenderTickFacts DEF BeatTyped
<1>3. OneHello'
  BY <1>1, <1>2 DEF OneHello
<1>4. CASE SenderSilent
  <2>1. /\ sh' \in HostStates(Tells, 0 .. BuildTime) /\ sh'.at = "done"
        /\ sh'.out = << >> /\ sh'.left = sh.left /\ sh'.end = "timeout"
    <3>1. Ended(sh, "timeout").end = "timeout"
      BY DEF Ended, BeatTyped, HostStates
    <3> QED
      BY <1>1, <1>4, <3>1, EndedFacts DEF BeatTyped, Ends
  <2> QED
    BY <1>1, <1>2, <1>3, <1>4, <2>1 DEF BeatTyped, ReceiverTypeOK, BeatHosts, InHand
<1>5. CASE ~SenderSilent
  <2>1. [type |-> "ping"] \in Tells
    BY DEF Tells, Shown
  <2>2. /\ SenderTickFrames \in Seq(Tells)
        /\ snd.pingIn = 0 => Len(SenderTickFrames) = 1 /\ SenderTickFrames # << >>
        /\ snd.pingIn # 0 => SenderTickFrames = << >>
    BY <1>5, <2>1, OneFrame DEF SenderTickFrames
  <2>3. /\ sh' \in HostStates(Tells, 0 .. BuildTime)
        /\ sh'.out = SenderTickFrames /\ sh'.left = sh.left /\ sh'.idle = sh.idle
        /\ sh'.end = None
        /\ sh'.at = IF SenderTickFrames = << >> THEN "select" ELSE "write"
    BY <1>1, <1>5, <2>2, WritingFacts DEF BeatTyped
  <2>4. BeatTyped'
    BY <1>1, <1>2, <2>3 DEF BeatTyped, ReceiverTypeOK
  <2>5. BeatHosts'
    <3>1. InHand(sh', 2)
      BY <2>2, <2>3 DEF InHand
    <3>2. sh'.left > 0 => snd'.hello # None /\ sh'.at # "select"
      BY <1>1, <2>3 DEF BeatHosts
    <3> QED
      BY <1>1, <1>2, <1>5, <2>3, <3>1, <3>2 DEF BeatHosts
  <2> QED
    BY <1>1, <1>2, <1>3, <1>5, <2>2, <2>3, <2>4, <2>5
<1> QED
  BY <1>4, <1>5

LEMMA SenderShowsFacts ==
    ASSUME BeatOK, SenderShows
    PROVE  /\ BeatOK'
           /\ snd' = snd /\ up' = up /\ down' = down
           /\ sh.at = "select" /\ sh.out = << >> /\ sh.idle
           /\ sh'.at = "write" /\ Len(sh'.out) = 1 /\ ~sh'.idle /\ sh'.left = sh.left
<1> USE DEF BeatOK
<1>1. sh.at = "select" /\ sh.out = << >> /\ sh.end = None /\ sh.idle
      /\ snd' = snd /\ rcv' = rcv /\ up' = up /\ down' = down /\ rh' = rh /\ wire' = wire
  BY DEF SenderShows, BeatHosts, InHand
<1> DEFINE f == <<[type |-> "video"]>>
           w == Writing(sh, f)
<1>2. f \in Seq(Tells) /\ Len(f) = 1 /\ f # << >>
  <2>1. [type |-> "video"] \in Tells
    BY DEF Tells, Shown
  <2> QED
    BY <2>1, OneFrame
<1>3. sh' = [w EXCEPT !.idle = FALSE]
  BY DEF SenderShows
<1> HIDE DEF f
<1>4. w \in HostStates(Tells, 0 .. BuildTime)
      /\ w.out = f /\ w.left = sh.left /\ w.end = None /\ w.at = "write"
  BY <1>1, <1>2, WritingFacts DEF BeatTyped
<1> HIDE DEF w
<1>5. /\ sh' \in HostStates(Tells, 0 .. BuildTime)
      /\ sh'.out = f /\ sh'.left = sh.left /\ sh'.end = None
      /\ sh'.at = "write" /\ ~sh'.idle
  BY <1>3, <1>4 DEF HostStates
<1>6. Len(sh'.out) = 1
  BY <1>2, <1>5
<1>7. BeatTyped'
  BY <1>1, <1>5 DEF BeatTyped, SenderTypeOK, ReceiverTypeOK
<1>8. BeatHosts'
  BY <1>1, <1>5, <1>6 DEF BeatHosts, InHand
<1>9. OneHello'
  BY <1>1 DEF OneHello
<1> QED
  BY <1>1, <1>5, <1>6, <1>7, <1>8, <1>9

LEMMA SenderWritesFacts ==
    ASSUME BeatOK, SenderWrites
    PROVE  /\ BeatOK'
           /\ snd' = snd /\ up' = up
           /\ Head(sh.out) \in Tells /\ down' = Sent(down, Head(sh.out))
           /\ sh.at = "write" /\ sh'.idle = sh.idle /\ sh'.left = sh.left
           /\ Len(sh.out) \in 1 .. 2 /\ Len(sh'.out) = Len(sh.out) - 1
           /\ sh'.at = IF Len(sh.out) > 1 THEN "write"
                       ELSE IF sh.left > 0 THEN "build" ELSE "select"
<1> USE DEF BeatOK
<1>1. sh.at = "write" /\ Len(sh.out) \in 1 .. 2 /\ sh.end = None
      /\ snd' = snd /\ rcv' = rcv /\ up' = up /\ rh' = rh /\ wire' = wire
      /\ down' = Sent(down, Head(sh.out))
  BY DEF SenderWrites, BeatHosts, InHand
<1>2. sh.out # << >>
  BY <1>1
<1>3. /\ Head(sh.out) \in Tells /\ Tail(sh.out) \in Seq(Tells)
      /\ Len(Tail(sh.out)) = Len(sh.out) - 1
  BY <1>2, HeadTailProperties DEF BeatTyped, HostStates
<1> DEFINE next == IF Len(sh.out) > 1 THEN "write"
                   ELSE IF sh.left > 0 THEN "build" ELSE "select"
<1>4. sh' = [sh EXCEPT !.out = Tail(sh.out), !.at = next]
  BY <1>1 DEF SenderWrites
<1>5. next \in {"write", "build", "select"}
  OBVIOUS
<1> HIDE DEF next
<1>6. /\ sh' \in HostStates(Tells, 0 .. BuildTime)
      /\ sh'.out = Tail(sh.out) /\ sh'.at = next
      /\ sh'.left = sh.left /\ sh'.idle = sh.idle /\ sh'.end = None
  BY <1>1, <1>3, <1>4, <1>5 DEF BeatTyped, HostStates
<1>7. BeatTyped'
  <2>1. down' \in Under(Tells)
    BY <1>1, <1>3, SentFacts DEF BeatTyped
  <2> QED
    BY <1>1, <1>6, <2>1 DEF BeatTyped, SenderTypeOK, ReceiverTypeOK
<1>8. BeatHosts'
  <2>1. CASE Len(sh.out) = 1
    <3>1. sh'.out = << >>
      <4>1. Len(Tail(sh.out)) = 0
        BY <1>3, <2>1
      <4> QED
        BY <1>3, <1>6, <4>1, EmptySeq
    <3>2. sh'.at = IF sh.left > 0 THEN "build" ELSE "select"
      BY <1>6, <2>1 DEF next
    <3> QED
      BY <1>1, <1>6, <3>1, <3>2 DEF BeatHosts, InHand
  <2>2. CASE Len(sh.out) = 2
    <3>1. Len(sh'.out) = 1
      BY <1>3, <1>6, <2>2
    <3>2. sh'.at = "write"
      BY <1>6, <2>2 DEF next
    <3> QED
      BY <1>1, <1>6, <3>1, <3>2 DEF BeatHosts, InHand
  <2> QED
    BY <1>1, <2>1, <2>2
<1>9. OneHello'
  BY <1>1 DEF OneHello
<1> QED
  BY <1>1, <1>3, <1>6, <1>7, <1>8, <1>9 DEF next

LEMMA SenderBuiltFacts ==
    ASSUME BeatOK, SenderBuilt
    PROVE  /\ BeatOK'
           /\ snd' = snd /\ up' = up /\ down' = down
           /\ sh.at = "build" /\ sh.out = << >>
           /\ sh'.at = "write" /\ Len(sh'.out) = 1
           /\ sh'.idle = sh.idle /\ sh'.left = 0
<1> USE DEF BeatOK
<1>1. sh.at = "build" /\ sh.out = << >> /\ sh.end = None
      /\ snd' = snd /\ rcv' = rcv /\ up' = up /\ down' = down /\ rh' = rh /\ wire' = wire
  BY DEF SenderBuilt, BeatHosts, InHand
<1> DEFINE f == <<[type |-> "streamConfig"]>>
<1>2. f \in Seq(Tells) /\ Len(f) = 1 /\ f # << >>
  <2>1. [type |-> "streamConfig"] \in Tells
    BY DEF Tells, Shown
  <2> QED
    BY <2>1, OneFrame
<1>3. sh' = [Writing(sh, f) EXCEPT !.left = 0]
  BY DEF SenderBuilt
<1> HIDE DEF f
<1>4. sh' = [[sh EXCEPT !.at = "write", !.out = f] EXCEPT !.left = 0]
  BY <1>2, <1>3 DEF Writing
<1>5. /\ sh' \in HostStates(Tells, 0 .. BuildTime)
      /\ sh'.out = f /\ sh'.left = 0 /\ sh'.end = None
      /\ sh'.at = "write" /\ sh'.idle = sh.idle
  <2> DEFINE w == [sh EXCEPT !.at = "write", !.out = f]
  <2>1. w \in HostStates(Tells, 0 .. BuildTime)
        /\ w.out = f /\ w.end = None /\ w.at = "write" /\ w.idle = sh.idle
    BY <1>1, <1>2 DEF BeatTyped, HostStates
  <2>2. sh' = [w EXCEPT !.left = 0]
    BY <1>4
  <2> HIDE DEF w
  <2> QED
    BY <2>1, <2>2, HeartbeatAssumption DEF HostStates
<1>6. Len(sh'.out) = 1
  BY <1>2, <1>5
<1>7. BeatTyped'
  BY <1>1, <1>5 DEF BeatTyped, SenderTypeOK, ReceiverTypeOK
<1>8. BeatHosts'
  BY <1>1, <1>5, <1>6 DEF BeatHosts, InHand
<1>9. OneHello'
  BY <1>1 DEF OneHello
<1> QED
  BY <1>1, <1>5, <1>6, <1>7, <1>8, <1>9

\* The sender's host is through, by Ctrl+C or because the receiver left.
LEMMA SenderGoneFacts ==
    ASSUME BeatOK, SenderStops \/ SenderLeft
    PROVE  /\ BeatOK'
           /\ sh.at # "done" /\ sh'.at = "done" /\ sh'.end # "timeout"
           /\ UNCHANGED <<rcv, up, down, rh, wire>>
<1> USE DEF BeatOK
<1>1. /\ sh.at # "done" /\ SenderDisconnect
      /\ rcv' = rcv /\ up' = up /\ down' = down /\ rh' = rh /\ wire' = wire
  BY DEF SenderStops, SenderLeft
<1>2. PICK why \in {"stopped", "left"} : sh' = Ended(sh, why)
  BY DEF SenderStops, SenderLeft
<1>3. /\ sh' \in HostStates(Tells, 0 .. BuildTime)
      /\ sh'.at = "done" /\ sh'.out = << >> /\ sh'.left = sh.left
  BY <1>2, EndedFacts DEF BeatTyped, Ends
<1>4. sh'.end = why
  BY <1>2 DEF Ended, BeatTyped, HostStates
<1>5. SenderTypeOK' /\ snd'.hello = snd.hello
  BY <1>1, SenderDisconnectFacts DEF BeatTyped
<1>6. BeatTyped'
  BY <1>1, <1>3, <1>5 DEF BeatTyped, ReceiverTypeOK
<1>7. BeatHosts'
  BY <1>1, <1>3, <1>5 DEF BeatHosts, InHand
<1>8. OneHello'
  BY <1>1, <1>5 DEF OneHello
<1> QED
  BY <1>1, <1>3, <1>4, <1>6, <1>7, <1>8

LEMMA ReceiverReadsFacts ==
    ASSUME BeatOK, ReceiverReads
    PROVE  /\ BeatOK'
           /\ down # << >> /\ down' = Tail(down)
           /\ UNCHANGED <<snd, up, sh, rh>>
           /\ rcv'.rxAge = 0 /\ rcv'.pingIn = rcv.pingIn
<1> USE DEF BeatOK
<1>1. /\ down # << >> /\ down' = Tail(down)
      /\ snd' = snd /\ up' = up /\ sh' = sh /\ rh' = rh /\ wire' = wire
  BY DEF ReceiverReads
<1> DEFINE m == Head(down).m
<1>2. m \in Tells
  BY <1>1, QueueFacts DEF BeatTyped
<1>3. IF m.type = "video" THEN ReceiverHearPartial ELSE ReceiverHears(m)
  BY DEF ReceiverReads
<1> HIDE DEF m
<1>4. ReceiverTypeOK' /\ rcv'.connected /\ rcv'.rxAge = 0 /\ rcv'.pingIn = rcv.pingIn
  BY <1>2, <1>3, ReceiverHearsFacts DEF BeatTyped
<1>5. BeatTyped'
  BY <1>1, <1>4, TailFacts DEF BeatTyped, SenderTypeOK
<1>6. BeatHosts'
  BY <1>1, <1>4 DEF BeatHosts, InHand
<1>7. OneHello'
  BY <1>1 DEF OneHello
<1> QED
  BY <1>1, <1>4, <1>5, <1>6, <1>7

LEMMA ReceiverTicksFacts ==
    ASSUME BeatOK, ReceiverTicks
    PROVE  /\ BeatOK'
           /\ rh.at = "select" /\ UNCHANGED <<snd, up, down, sh, wire>>
           /\ ReceiverSilent => rh'.at = "done" /\ rh'.end = "timeout"
           /\ ~ReceiverSilent =>
                /\ rh'.end = None
                /\ rh.out = << >>
                /\ rcv'.rxAge = rcv.rxAge
                /\ rh'.idle = rh.idle
                /\ \/ rcv.pingIn = 0 /\ rcv'.pingIn = PingInterval
                      /\ rh'.at = "write" /\ Len(rh'.out) = 1
                   \/ rcv'.pingIn = rcv.pingIn /\ rh'.at = "select" /\ rh'.out = << >>
<1> USE DEF BeatOK
<1>1. rh.at = "select" /\ rh.out = << >> /\ rh.end = None /\ ReceiverTick
      /\ snd' = snd /\ up' = up /\ down' = down /\ sh' = sh /\ wire' = wire
      /\ rh' = IF ReceiverSilent THEN Ended(rh, "timeout") ELSE Writing(rh, ReceiverTickFrames)
  BY DEF ReceiverTicks, BeatHosts, InHand
<1>2. /\ ReceiverTypeOK' /\ rcv'.rxAge = rcv.rxAge
      /\ rcv'.connected = ~ReceiverSilent
      /\ ~ReceiverSilent =>
           rcv'.pingIn = IF rcv.pingIn = 0 THEN PingInterval ELSE rcv.pingIn
  BY <1>1, ReceiverTickFacts DEF BeatTyped
<1>3. CASE ReceiverSilent
  <2>1. /\ rh' \in HostStates(Says, {0}) /\ rh'.at = "done"
        /\ rh'.out = << >> /\ rh'.end = "timeout"
    <3>1. Ended(rh, "timeout").end = "timeout"
      BY DEF Ended, BeatTyped, HostStates
    <3> QED
      BY <1>1, <1>3, <3>1, EndedFacts DEF BeatTyped, Ends
  <2>2. OneHello'
    BY <1>1, <2>1 DEF OneHello
  <2> QED
    BY <1>1, <1>2, <1>3, <2>1, <2>2 DEF BeatTyped, SenderTypeOK, BeatHosts, InHand
<1>4. CASE ~ReceiverSilent
  <2> DEFINE p == [type |-> "ping", t |-> TRUE]
  <2>1. p \in Says /\ p.type # "hello"
    BY DEF Says
  <2>2. /\ ReceiverTickFrames \in Seq(Says)
        /\ rcv.pingIn = 0 => /\ Len(ReceiverTickFrames) = 1
                             /\ ReceiverTickFrames # << >>
                             /\ ReceiverTickFrames[1] = p
        /\ rcv.pingIn # 0 => ReceiverTickFrames = << >>
    BY <1>4, <2>1, OneFrame DEF ReceiverTickFrames
  <2> HIDE DEF p
  <2>3. /\ rh' \in HostStates(Says, {0})
        /\ rh'.out = ReceiverTickFrames /\ rh'.idle = rh.idle
        /\ rh'.end = None
        /\ rh'.at = IF ReceiverTickFrames = << >> THEN "select" ELSE "write"
    BY <1>1, <1>4, <2>2, WritingFacts DEF BeatTyped
  <2>4. BeatTyped'
    BY <1>1, <1>2, <2>3 DEF BeatTyped, SenderTypeOK
  <2>5. BeatHosts'
    <3>1. InHand(rh', 1)
      BY <2>2, <2>3 DEF InHand
    <3> QED
      BY <1>1, <1>2, <1>4, <2>3, <3>1 DEF BeatHosts
  <2>6. OneHello'
    <3>1. CASE rcv.pingIn = 0
      <4>1. Len(rh'.out) = 1 /\ rh'.out[1] = p
        BY <2>2, <2>3, <3>1
      <4> QED
        BY <1>1, <2>1, <4>1 DEF OneHello
    <3>2. CASE rcv.pingIn # 0
      BY <1>1, <2>2, <2>3, <3>2 DEF OneHello
    <3> QED
      BY <3>1, <3>2
  <2> QED
    BY <1>1, <1>2, <1>4, <2>2, <2>3, <2>4, <2>5, <2>6
<1> QED
  BY <1>3, <1>4

LEMMA ReceiverInputsFacts ==
    ASSUME BeatOK, ReceiverInputs
    PROVE  /\ BeatOK'
           /\ UNCHANGED <<snd, rcv, up, down, sh>>
           /\ rh.at = "select" /\ rh.out = << >> /\ rh.idle
           /\ rh'.at = "write" /\ Len(rh'.out) = 1 /\ ~rh'.idle
<1> USE DEF BeatOK
<1>1. rh.at = "select" /\ rh.out = << >> /\ rh.end = None /\ rh.idle
      /\ snd' = snd /\ rcv' = rcv /\ up' = up /\ down' = down /\ sh' = sh /\ wire' = wire
  BY DEF ReceiverInputs, BeatHosts, InHand
<1> DEFINE m == [type |-> "input"]
           f == <<m>>
           w == Writing(rh, f)
<1>2. m \in Says /\ m.type # "hello"
  BY DEF Says
<1>3. rh' = [w EXCEPT !.idle = FALSE]
  BY DEF ReceiverInputs
<1> HIDE DEF m
<1>4. f \in Seq(Says) /\ Len(f) = 1 /\ f # << >> /\ f[1] = m
  BY <1>2, OneFrame
<1> HIDE DEF f
<1>5. w \in HostStates(Says, {0})
      /\ w.out = f /\ w.end = None /\ w.at = "write"
  BY <1>1, <1>4, WritingFacts DEF BeatTyped
<1> HIDE DEF w
<1>6. /\ rh' \in HostStates(Says, {0})
      /\ rh'.out = f /\ rh'.end = None /\ rh'.at = "write" /\ ~rh'.idle
  BY <1>3, <1>5 DEF HostStates
<1>7. Len(rh'.out) = 1
  BY <1>4, <1>6
<1>8. BeatTyped'
  BY <1>1, <1>6 DEF BeatTyped, SenderTypeOK, ReceiverTypeOK
<1>9. BeatHosts'
  BY <1>1, <1>6, <1>7 DEF BeatHosts, InHand
<1>10. OneHello'
  <2>1. rh'.out[1] = m
    BY <1>4, <1>6
  <2>2. \A i \in 1 .. Len(rh'.out) : rh'.out[i].type # "hello"
    BY <1>2, <1>7, <2>1
  <2> QED
    BY <1>1, <2>2 DEF OneHello
<1> QED
  BY <1>1, <1>6, <1>7, <1>8, <1>9, <1>10

LEMMA ReceiverWritesFacts ==
    ASSUME BeatOK, ReceiverWrites
    PROVE  /\ BeatOK'
           /\ UNCHANGED <<snd, rcv, down, sh>>
           /\ Head(rh.out) \in Says /\ up' = Sent(up, Head(rh.out))
           /\ rh.at = "write" /\ rh'.at = "select" /\ rh'.idle = rh.idle
           /\ Len(rh.out) = 1 /\ rh'.out = << >>
<1> USE DEF BeatOK
<1>1. rh.at = "write" /\ Len(rh.out) \in 1 .. 1 /\ rh.end = None
      /\ snd' = snd /\ rcv' = rcv /\ down' = down /\ sh' = sh /\ wire' = wire
      /\ up' = Sent(up, Head(rh.out))
  BY DEF ReceiverWrites, BeatHosts, InHand
<1>2. Len(rh.out) = 1 /\ rh.out # << >>
  BY <1>1
<1>3. /\ Head(rh.out) \in Says /\ Tail(rh.out) \in Seq(Says)
      /\ Len(Tail(rh.out)) = Len(rh.out) - 1 /\ Head(rh.out) = rh.out[1]
  BY <1>2, HeadTailProperties DEF BeatTyped, HostStates
<1>4. Tail(rh.out) = << >>
  <2>1. Len(Tail(rh.out)) = 0
    BY <1>2, <1>3
  <2> QED
    BY <1>3, <2>1, EmptySeq
<1>5. rh' = [rh EXCEPT !.out = << >>, !.at = "select"]
  <2> DEFINE next == IF Len(rh.out) > 1 THEN rh.at ELSE "select"
  <2>1. next = "select"
    BY <1>2
  <2>2. rh' = [rh EXCEPT !.out = Tail(rh.out), !.at = next]
    BY DEF ReceiverWrites
  <2> HIDE DEF next
  <2> QED
    BY <1>4, <2>1, <2>2
<1>6. /\ rh' \in HostStates(Says, {0})
      /\ rh'.out = << >> /\ rh'.at = "select" /\ rh'.idle = rh.idle /\ rh'.end = None
  BY <1>1, <1>3, <1>4, <1>5 DEF BeatTyped, HostStates
<1>7. BeatTyped'
  <2>1. up' \in Under(Says)
    BY <1>1, <1>3, SentFacts DEF BeatTyped
  <2> QED
    BY <1>1, <1>6, <2>1 DEF BeatTyped, SenderTypeOK, ReceiverTypeOK
<1>8. BeatHosts'
  BY <1>1, <1>6 DEF BeatHosts, InHand
<1>9. OneHello'
  <2> SUFFICES ASSUME NEW i \in 1 .. Len(up'), up'[i].m.type = "hello"
               PROVE  snd.hello = None /\ i = 1
    BY <1>1, <1>6 DEF OneHello
  <2>1. Len(up) \in Nat /\ Len(up') = Len(up) + 1 /\ (up = << >> <=> Len(up) = 0)
    BY <1>1, <1>3, SentFacts, QueueFacts DEF BeatTyped
  <2>2. CASE i \in 1 .. Len(up)
    <3>1. up'[i] = up[i]
      BY <1>1, <1>3, <2>2, SentFacts DEF BeatTyped
    <3> QED
      BY <2>2, <3>1 DEF OneHello
  <2>3. CASE i = Len(up) + 1
    <3>1. up'[i].m = rh.out[1]
      <4>1. up'[i] = [m |-> Head(rh.out), age |-> 0]
        BY <1>1, <1>3, <2>3, SentFacts DEF BeatTyped
      <4> QED
        BY <1>3, <4>1
    <3>2. snd.hello = None /\ up = << >>
      BY <1>2, <3>1 DEF OneHello
    <3> QED
      BY <2>1, <2>3, <3>2
  <2> QED
    BY <2>1, <2>2, <2>3
<1> QED
  BY <1>1, <1>2, <1>3, <1>6, <1>7, <1>8, <1>9

LEMMA ReceiverGoneFacts ==
    ASSUME BeatOK, ReceiverStops \/ ReceiverLeft
    PROVE  /\ BeatOK'
           /\ rh.at # "done" /\ rh'.at = "done" /\ rh'.end # "timeout"
           /\ UNCHANGED <<snd, up, down, sh, wire>>
<1> USE DEF BeatOK
<1>1. /\ rh.at # "done" /\ ReceiverDisconnect
      /\ snd' = snd /\ up' = up /\ down' = down /\ sh' = sh /\ wire' = wire
  BY DEF ReceiverStops, ReceiverLeft
<1>2. PICK why \in {"stopped", "left"} : rh' = Ended(rh, why)
  BY DEF ReceiverStops, ReceiverLeft
<1>3. /\ rh' \in HostStates(Says, {0})
      /\ rh'.at = "done" /\ rh'.out = << >>
  BY <1>2, EndedFacts DEF BeatTyped, Ends
<1>4. rh'.end = why
  BY <1>2 DEF Ended, BeatTyped, HostStates
<1>5. ReceiverTypeOK'
  BY <1>1, ReceiverStepTyped DEF BeatTyped, ReceiverNext
<1>6. BeatTyped'
  BY <1>1, <1>3, <1>5 DEF BeatTyped, SenderTypeOK
<1>7. BeatHosts'
  BY <1>1, <1>3 DEF BeatHosts, InHand
<1>8. OneHello'
  BY <1>1, <1>3 DEF OneHello
<1> QED
  BY <1>1, <1>3, <1>4, <1>6, <1>7, <1>8

LEMMA ElapsesFacts ==
    ASSUME BeatOK, Elapses
    PROVE  /\ BeatOK'
           /\ up' = Aged(up) /\ down' = Aged(down) /\ wire' = wire
           /\ snd'.rxAge = Older(snd.rxAge, LivenessTimeout)
           /\ rcv'.rxAge = Older(rcv.rxAge, LivenessTimeout)
           /\ snd'.pingIn = IF snd.pingIn = 0 THEN 0 ELSE snd.pingIn - 1
           /\ rcv'.pingIn = IF rcv.pingIn = 0 THEN 0 ELSE rcv.pingIn - 1
           /\ snd'.hello = snd.hello
           /\ sh'.idle /\ rh'.idle
           /\ sh'.at = sh.at /\ sh'.out = sh.out /\ sh'.end = sh.end
           /\ rh'.at = rh.at /\ rh'.out = rh.out /\ rh'.end = rh.end
           /\ sh'.left = IF sh.at = "build" THEN sh.left - 1 ELSE sh.left
           /\ sh.at = "build" => sh.left > 0
<1> USE DEF BeatOK
<1>1. SenderElapse /\ ReceiverElapse /\ up' = Aged(up) /\ down' = Aged(down) /\ wire' = wire
  BY DEF Elapses
<1>2. /\ SenderTypeOK'
      /\ snd'.rxAge = Older(snd.rxAge, LivenessTimeout)
      /\ snd'.hello = snd.hello /\ snd'.connected = snd.connected
      /\ snd'.pingIn = IF snd.pingIn = 0 THEN 0 ELSE snd.pingIn - 1
  BY <1>1, SenderElapseFacts DEF BeatTyped
<1>3. /\ ReceiverTypeOK'
      /\ rcv'.rxAge = Older(rcv.rxAge, LivenessTimeout)
      /\ rcv'.connected = rcv.connected
      /\ rcv'.pingIn = IF rcv.pingIn = 0 THEN 0 ELSE rcv.pingIn - 1
  BY <1>1, ReceiverElapseFacts DEF BeatTyped
<1>4. sh.at = "build" => sh.left > 0
  BY DEF Elapses, SenderPrompt
<1> DEFINE l == IF sh.at = "build" THEN sh.left - 1 ELSE sh.left
<1>5. l \in 0 .. BuildTime /\ (l > 0 => sh.left > 0)
  <2>1. sh.left \in 0 .. BuildTime
    BY DEF BeatTyped, HostStates
  <2> QED
    BY <1>4, <2>1, HeartbeatAssumption
<1>6. sh' = [sh EXCEPT !.idle = TRUE, !.left = l] /\ rh' = [rh EXCEPT !.idle = TRUE]
  BY DEF Elapses
<1> HIDE DEF l
<1>7. /\ sh' \in HostStates(Tells, 0 .. BuildTime)
      /\ sh'.at = sh.at /\ sh'.out = sh.out /\ sh'.end = sh.end
      /\ sh'.left = l /\ sh'.idle
  BY <1>5, <1>6 DEF BeatTyped, HostStates
<1>8. /\ rh' \in HostStates(Says, {0})
      /\ rh'.at = rh.at /\ rh'.out = rh.out /\ rh'.end = rh.end /\ rh'.idle
  BY <1>6 DEF BeatTyped, HostStates
<1>9. BeatTyped'
  BY <1>1, <1>2, <1>3, <1>7, <1>8, AgedFacts DEF BeatTyped
<1>10. BeatHosts'
  BY <1>2, <1>3, <1>5, <1>7, <1>8 DEF BeatHosts, InHand
<1>11. OneHello'
  <2>1. Len(up') = Len(up) /\ \A i \in 1 .. Len(up) : up'[i].m = up[i].m
    BY <1>1, AgedFacts DEF BeatTyped
  <2>2. up' = << >> <=> up = << >>
    BY <1>9, <2>1, QueueFacts DEF BeatTyped
  <2> QED
    BY <1>2, <1>8, <2>1, <2>2 DEF OneHello
<1> QED
  BY <1>1, <1>2, <1>3, <1>4, <1>7, <1>8, <1>9, <1>10, <1>11 DEF l

-----------------------------------------------------------------------------
(* The invariant: while both hosts are alive and the network delivers.     *)

Alive == Connected /\ sh.at # "done" /\ rh.at # "done"

\* Each has heard from the other lately enough for what is under way, or is
\* about to be, to come in time; in a build the clocks run with it.
ReceiverWithin ==
    /\ down # << >> => rcv.rxAge + (MaxDelay - down[1].age) <= LivenessTimeout
    /\ down = << >> =>
         /\ sh.at = "select" => rcv.rxAge + snd.pingIn + MaxDelay <= LivenessTimeout
         /\ sh.at = "write" => rcv.rxAge + MaxDelay <= LivenessTimeout
         /\ sh.at = "build" => rcv.rxAge + sh.left <= BuildTime

SenderWithin ==
    /\ up # << >> => snd.rxAge + (MaxDelay - up[1].age) <= LivenessTimeout
    /\ up = << >> =>
         /\ rh.at = "select" => snd.rxAge + rcv.pingIn + MaxDelay <= LivenessTimeout
         /\ rh.at = "write" => snd.rxAge + MaxDelay <= LivenessTimeout
    /\ sh.left > 0 \/ sh.at = "build" => snd.rxAge + sh.left <= BuildTime

\* What the build has taken so far.
BuiltWithin ==
    sh.left > 0 \/ sh.at = "build" => BuildTime - sh.left + MaxDelay <= LivenessTimeout

Within == ReceiverWithin /\ SenderWithin /\ BuiltWithin

-----------------------------------------------------------------------------
Ranged ==
    /\ sh.left \in 0 .. BuildTime
    /\ snd.rxAge \in Nat /\ rcv.rxAge \in Nat
    /\ snd.pingIn \in 0 .. PingInterval /\ rcv.pingIn \in 0 .. PingInterval

LEMMA Ranges ==
    ASSUME BeatOK
    PROVE  Ranged
BY WireAssumption DEF BeatOK, BeatTyped, HostStates, SenderTypeOK, ReceiverTypeOK, RxAges,
                      PingWaits, Ranged

\* Time is the only thing that keeps a host too long.
LEMMA HeldFacts ==
    ASSUME HeartbeatNext, ~held'
    PROVE  ~held /\ (Elapses => ~TooLong)
<1>1. CASE Elapses
  BY <1>1 DEF Elapses
<1>2. CASE ~Elapses
  BY <1>2
  DEF HeartbeatNext, SenderHost, ReceiverHost, SenderReads, SenderTicks, SenderShows,
      SenderWrites, SenderBuilt, SenderStops, SenderLeft, ReceiverReads, ReceiverTicks,
      ReceiverInputs, ReceiverWrites, ReceiverStops, ReceiverLeft, Cut
<1> QED
  BY <1>1, <1>2

LEMMA ElapsesPrompt ==
    ASSUME BeatOK, Alive, Elapses, ~TooLong
    PROVE  /\ rh.at = "select"
           /\ sh.at \in {"select", "build"}
           /\ snd.pingIn # 0 \/ sh.at = "build"
           /\ rcv.pingIn # 0
           /\ down # << >> => down[1].age < MaxDelay
           /\ up # << >> => up[1].age < MaxDelay \/ sh.at = "build"
<1>1. /\ sh.at \in {"select", "write", "build"} /\ rh.at \in {"select", "write"}
      /\ Connected
  BY DEF Alive, BeatOK, BeatTyped, BeatHosts, HostStates
<1>2. SenderPrompt /\ ReceiverPrompt
  BY DEF Elapses
<1>3. sh.at # "write" /\ rh.at = "select"
  BY <1>1 DEF TooLong
<1>4. rcv.pingIn # 0 /\ ~(down # << >> /\ Head(down).age = MaxDelay)
  BY <1>1, <1>2, <1>3 DEF ReceiverPrompt
<1>5. sh.at = "select" => snd.pingIn # 0 /\ ~(up # << >> /\ Head(up).age = MaxDelay)
  BY <1>1, <1>2 DEF SenderPrompt
<1>6. ASSUME NEW S, NEW q \in Under(S), q # << >>, Head(q).age # MaxDelay
      PROVE  q[1].age < MaxDelay
  <2>1. q[1].age \in 0 .. MaxDelay /\ Head(q) = q[1]
    BY <1>6, QueueFacts DEF Ages
  <2> QED
    BY <1>6, <2>1, HeartbeatAssumption
<1> QED
  BY <1>1, <1>3, <1>4, <1>5, <1>6 DEF BeatOK, BeatTyped

-----------------------------------------------------------------------------
(* Every step keeps within the windows.                                    *)

LEMMA OldestSent ==
    ASSUME NEW S, NEW q \in Under(S), NEW m \in S
    PROVE  /\ Sent(q, m) # << >>
           /\ Sent(q, m)[1].age = IF q = << >> THEN 0 ELSE q[1].age
<1>1. Len(q) \in Nat /\ Len(Sent(q, m)) = Len(q) + 1 /\ Sent(q, m) \in Under(S)
  BY QueueFacts, SentFacts
<1>2. Sent(q, m) # << >>
  BY <1>1, QueueFacts
<1>3. CASE q = << >>
  <2>1. Sent(q, m)[1] = [m |-> m, age |-> 0]
    <3>1. Len(q) + 1 = 1
      BY <1>3, QueueFacts
    <3> QED
      BY <3>1, SentFacts
  <2> QED
    BY <1>2, <1>3, <2>1
<1>4. CASE q # << >>
  <2>1. 1 \in 1 .. Len(q)
    BY <1>4, QueueFacts
  <2>2. \A i \in 1 .. Len(q) : Sent(q, m)[i] = q[i]
    BY SentFacts
  <2>3. Sent(q, m)[1] = q[1]
    BY <2>1, <2>2
  <2> QED
    BY <1>2, <1>4, <2>3
<1> QED
  BY <1>3, <1>4

LEMMA OldestAged ==
    ASSUME NEW S, NEW q \in Under(S)
    PROVE  /\ Aged(q) = << >> <=> q = << >>
           /\ q # << >> /\ q[1].age < MaxDelay => Aged(q)[1].age = q[1].age + 1
           /\ q # << >> /\ ~(q[1].age < MaxDelay) => Aged(q)[1].age = q[1].age
<1>1. Len(Aged(q)) = Len(q) /\ Aged(q) \in Under(S)
  BY AgedFacts
<1>2. Aged(q) = << >> <=> q = << >>
  BY <1>1, QueueFacts
<1>3. q # << >> => 1 \in 1 .. Len(q)
  BY QueueFacts
<1> QED
  BY <1>2, <1>3, AgedFacts

\* The oldest of a queue, where there is one.
LEMMA OldestAge ==
    ASSUME NEW S, NEW q \in Under(S), q # << >>
    PROVE  q[1].age \in 0 .. MaxDelay
BY QueueFacts DEF Ages

LEMMA SenderReadsWithin ==
    ASSUME BeatOK, ReceiverWithin, SenderWithin, BuiltWithin, Alive', SenderReads
    PROVE  ReceiverWithin' /\ SenderWithin' /\ BuiltWithin'
<1>1. /\ up' = Tail(up) /\ down' = down /\ snd'.rxAge = 0 /\ snd'.pingIn = snd.pingIn
      /\ sh.at = "select" /\ sh'.at \in {"select", "write"}
      /\ sh'.left \in {0, BuildTime}
      /\ up # << >> /\ up' \in Under(Says)
  BY SenderReadsFacts, TailFacts DEF BeatOK, BeatTyped
<1>2. rcv' = rcv /\ rh' = rh
  BY DEF SenderReads
<1>3. /\ snd.pingIn \in 0 .. PingInterval /\ rcv.pingIn \in 0 .. PingInterval
      /\ rcv.rxAge \in Nat
  BY Ranges DEF Ranged
<1>4. ReceiverWithin'
  <2>1. CASE down # << >>
    BY <1>1, <1>2, <2>1 DEF ReceiverWithin
  <2>2. CASE down = << >>
    <3>1. rcv.rxAge + snd.pingIn + MaxDelay <= LivenessTimeout
      BY <1>1, <2>2 DEF ReceiverWithin
    <3>2. rcv.rxAge + MaxDelay <= LivenessTimeout
      BY <1>3, <3>1, WireAssumption, HeartbeatAssumption
    <3> QED
      BY <1>1, <1>2, <2>2, <3>1, <3>2 DEF ReceiverWithin
  <2> QED
    BY <2>1, <2>2
<1>5. SenderWithin'
  <2>1. ASSUME up' # << >> PROVE 0 + (MaxDelay - up'[1].age) <= LivenessTimeout
    <3>1. up'[1].age \in 0 .. MaxDelay
      BY <1>1, <2>1, OldestAge
    <3> QED
      BY <3>1, WireAssumption, HeartbeatAssumption
  <2>2. /\ 0 + rcv.pingIn + MaxDelay <= LivenessTimeout
        /\ 0 + MaxDelay <= LivenessTimeout
    BY <1>3, WireAssumption, HeartbeatAssumption
  <2>3. 0 + sh'.left <= BuildTime
    BY <1>1, HeartbeatAssumption
  <2> QED
    BY <1>1, <1>2, <2>1, <2>2, <2>3 DEF SenderWithin
<1>6. BuiltWithin'
  BY <1>1, WireAssumption, HeartbeatAssumption DEF BuiltWithin
<1> QED
  BY <1>4, <1>5, <1>6

LEMMA SenderActsWithin ==
    ASSUME BeatOK, ReceiverWithin, SenderWithin, BuiltWithin, Alive',
           SenderTicks \/ SenderShows \/ SenderBuilt
    PROVE  ReceiverWithin' /\ SenderWithin' /\ BuiltWithin'
<1>1. up' = up /\ down' = down /\ rcv' = rcv /\ rh' = rh
  BY DEF SenderTicks, SenderShows, SenderBuilt
<1>2. /\ snd.pingIn \in 0 .. PingInterval /\ sh.left \in 0 .. BuildTime
      /\ snd.rxAge \in Nat /\ rcv.rxAge \in Nat
  BY Ranges DEF Ranged
<1>3. /\ snd'.rxAge = snd.rxAge
      /\ sh'.left > 0 \/ sh'.at = "build" => sh.left > 0 /\ sh'.left = sh.left
      /\ \/ sh'.at = "write"
            /\ \/ sh.at = "select"
               \/ sh.at = "build"
         \/ sh'.at = "select" /\ sh.at = "select" /\ snd'.pingIn = snd.pingIn
  <2>1. CASE SenderTicks
    BY <2>1, SenderTicksFacts DEF Alive
  <2>2. CASE SenderShows
    BY <2>2, SenderShowsFacts
  <2>3. CASE SenderBuilt
    BY <2>3, SenderBuiltFacts
  <2> QED
    BY <2>1, <2>2, <2>3
<1>4. SenderWithin' /\ BuiltWithin'
  BY <1>1, <1>3 DEF SenderWithin, BuiltWithin
<1>5. ReceiverWithin'
  <2>1. CASE down # << >>
    BY <1>1, <2>1 DEF ReceiverWithin
  <2>2. CASE down = << >> /\ sh'.at = "select"
    BY <1>1, <1>3, <2>2 DEF ReceiverWithin
  <2>3. CASE down = << >> /\ sh'.at = "write"
    <3>1. CASE sh.at = "select"
      <4>1. rcv.rxAge + snd.pingIn + MaxDelay <= LivenessTimeout
        BY <2>3, <3>1 DEF ReceiverWithin
      <4>2. rcv.rxAge + MaxDelay <= LivenessTimeout
        BY <1>2, <4>1, WireAssumption, HeartbeatAssumption
      <4> QED
        BY <1>1, <2>3, <4>2 DEF ReceiverWithin
    <3>2. CASE sh.at = "build"
      <4>1. /\ rcv.rxAge + sh.left <= BuildTime
            /\ BuildTime - sh.left + MaxDelay <= LivenessTimeout
        BY <2>3, <3>2 DEF ReceiverWithin, BuiltWithin
      <4>2. rcv.rxAge + MaxDelay <= LivenessTimeout
        BY <1>2, <4>1, WireAssumption, HeartbeatAssumption
      <4> QED
        BY <1>1, <2>3, <4>2 DEF ReceiverWithin
    <3> QED
      BY <1>3, <2>3, <3>1, <3>2
  <2> QED
    BY <1>3, <2>1, <2>2, <2>3
<1> QED
  BY <1>4, <1>5

LEMMA SenderWritesWithin ==
    ASSUME BeatOK, ReceiverWithin, SenderWithin, BuiltWithin, SenderWrites
    PROVE  ReceiverWithin' /\ SenderWithin' /\ BuiltWithin'
<1>1. /\ snd' = snd /\ up' = up /\ sh.at = "write" /\ sh'.left = sh.left
      /\ Head(sh.out) \in Tells /\ down' = Sent(down, Head(sh.out))
      /\ sh'.at = "build" => sh.left > 0
  BY SenderWritesFacts
<1>2. rcv' = rcv /\ rh' = rh
  BY DEF SenderWrites
<1>3. SenderWithin' /\ BuiltWithin'
  BY <1>1, <1>2 DEF SenderWithin, BuiltWithin
<1>4. down' # << >> /\ down'[1].age = IF down = << >> THEN 0 ELSE down[1].age
  BY <1>1, OldestSent DEF BeatOK, BeatTyped
<1>5. CASE down # << >>
  BY <1>2, <1>3, <1>4, <1>5 DEF ReceiverWithin
<1>6. CASE down = << >>
  <2>1. rcv.rxAge + MaxDelay <= LivenessTimeout /\ rcv.rxAge \in Nat
    BY <1>1, <1>6, Ranges DEF ReceiverWithin, Ranged
  <2>2. rcv.rxAge + (MaxDelay - 0) <= LivenessTimeout
    BY <2>1, HeartbeatAssumption
  <2> QED
    BY <1>2, <1>3, <1>4, <1>6, <2>2 DEF ReceiverWithin
<1> QED
  BY <1>5, <1>6

LEMMA ReceiverReadsWithin ==
    ASSUME BeatOK, ReceiverWithin, SenderWithin, BuiltWithin, ReceiverReads
    PROVE  ReceiverWithin' /\ SenderWithin' /\ BuiltWithin'
<1>1. /\ down # << >> /\ down' = Tail(down) /\ down' \in Under(Tells)
      /\ snd' = snd /\ up' = up /\ sh' = sh /\ rh' = rh
      /\ rcv'.rxAge = 0 /\ rcv'.pingIn = rcv.pingIn
  BY ReceiverReadsFacts, TailFacts DEF BeatOK, BeatTyped
<1>2. SenderWithin' /\ BuiltWithin'
  BY <1>1 DEF SenderWithin, BuiltWithin
<1>3. ASSUME down' # << >> PROVE 0 + (MaxDelay - down'[1].age) <= LivenessTimeout
  <2>1. down'[1].age \in 0 .. MaxDelay
    BY <1>1, <1>3, OldestAge
  <2> QED
    BY <2>1, WireAssumption, HeartbeatAssumption
<1>4. /\ 0 + snd.pingIn + MaxDelay <= LivenessTimeout
      /\ 0 + MaxDelay <= LivenessTimeout
      /\ 0 + sh.left <= BuildTime
  <2>1. snd.pingIn \in 0 .. PingInterval /\ sh.left \in 0 .. BuildTime
    BY Ranges DEF Ranged
  <2> QED
    BY <2>1, WireAssumption, HeartbeatAssumption
<1> QED
  BY <1>1, <1>2, <1>3, <1>4 DEF ReceiverWithin

LEMMA ReceiverActsWithin ==
    ASSUME BeatOK, ReceiverWithin, SenderWithin, BuiltWithin, Alive',
           ReceiverTicks \/ ReceiverInputs
    PROVE  ReceiverWithin' /\ SenderWithin' /\ BuiltWithin'
<1>1. snd' = snd /\ up' = up /\ down' = down /\ sh' = sh
  BY DEF ReceiverTicks, ReceiverInputs
<1>2. rcv.pingIn \in 0 .. PingInterval /\ snd.rxAge \in Nat
  BY Ranges DEF Ranged
<1>3. /\ rcv'.rxAge = rcv.rxAge /\ rh.at = "select"
      /\ \/ rh'.at = "write"
         \/ rh'.at = "select" /\ rcv'.pingIn = rcv.pingIn
  <2>1. CASE ReceiverTicks
    BY <2>1, ReceiverTicksFacts DEF Alive
  <2>2. CASE ReceiverInputs
    BY <2>2, ReceiverInputsFacts
  <2> QED
    BY <2>1, <2>2
<1>4. ReceiverWithin' /\ BuiltWithin'
  BY <1>1, <1>3 DEF ReceiverWithin, BuiltWithin
<1>5. SenderWithin'
  <2>1. CASE up # << >>
    BY <1>1, <2>1 DEF SenderWithin
  <2>2. CASE up = << >>
    <3>1. snd.rxAge + rcv.pingIn + MaxDelay <= LivenessTimeout
      BY <1>3, <2>2 DEF SenderWithin
    <3>2. snd.rxAge + MaxDelay <= LivenessTimeout
      BY <1>2, <3>1, WireAssumption, HeartbeatAssumption
    <3> QED
      BY <1>1, <1>3, <2>2, <3>1, <3>2 DEF SenderWithin
  <2> QED
    BY <2>1, <2>2
<1> QED
  BY <1>4, <1>5

LEMMA ReceiverWritesWithin ==
    ASSUME BeatOK, ReceiverWithin, SenderWithin, BuiltWithin, ReceiverWrites
    PROVE  ReceiverWithin' /\ SenderWithin' /\ BuiltWithin'
<1>1. /\ snd' = snd /\ rcv' = rcv /\ down' = down /\ sh' = sh
      /\ Head(rh.out) \in Says /\ up' = Sent(up, Head(rh.out)) /\ rh.at = "write"
  BY ReceiverWritesFacts
<1>2. ReceiverWithin' /\ BuiltWithin'
  BY <1>1 DEF ReceiverWithin, BuiltWithin
<1>3. up' # << >> /\ up'[1].age = IF up = << >> THEN 0 ELSE up[1].age
  BY <1>1, OldestSent DEF BeatOK, BeatTyped
<1>4. CASE up # << >>
  BY <1>1, <1>2, <1>3, <1>4 DEF SenderWithin
<1>5. CASE up = << >>
  <2>1. snd.rxAge + MaxDelay <= LivenessTimeout /\ snd.rxAge \in Nat
    BY <1>1, <1>5, Ranges DEF SenderWithin, Ranged
  <2>2. snd.rxAge + (MaxDelay - 0) <= LivenessTimeout
    BY <2>1, HeartbeatAssumption
  <2> QED
    BY <1>1, <1>2, <1>3, <1>5, <2>2 DEF SenderWithin
<1> QED
  BY <1>4, <1>5

LEMMA ElapsesWithin ==
    ASSUME BeatOK, ReceiverWithin, SenderWithin, BuiltWithin, Alive, Elapses, ~TooLong
    PROVE  ReceiverWithin' /\ SenderWithin' /\ BuiltWithin'
<1>1. /\ up' = Aged(up) /\ down' = Aged(down)
      /\ snd'.rxAge = Older(snd.rxAge, LivenessTimeout)
      /\ rcv'.rxAge = Older(rcv.rxAge, LivenessTimeout)
      /\ snd'.pingIn = IF snd.pingIn = 0 THEN 0 ELSE snd.pingIn - 1
      /\ rcv'.pingIn = IF rcv.pingIn = 0 THEN 0 ELSE rcv.pingIn - 1
      /\ sh'.at = sh.at /\ rh'.at = rh.at
      /\ sh'.left = IF sh.at = "build" THEN sh.left - 1 ELSE sh.left
      /\ sh.at = "build" => sh.left > 0
  BY ElapsesFacts
<1>2. /\ rh.at = "select" /\ sh.at \in {"select", "build"}
      /\ snd.pingIn # 0 \/ sh.at = "build"
      /\ rcv.pingIn # 0
      /\ down # << >> => down[1].age < MaxDelay
      /\ up # << >> => up[1].age < MaxDelay \/ sh.at = "build"
  BY ElapsesPrompt
<1>3. /\ snd.pingIn \in 0 .. PingInterval /\ rcv.pingIn \in 0 .. PingInterval
      /\ sh.left \in 0 .. BuildTime
      /\ snd.rxAge \in Nat /\ rcv.rxAge \in Nat
  BY Ranges DEF Ranged
<1>4. \A a \in Nat : Older(a, LivenessTimeout) \in Nat /\ Older(a, LivenessTimeout) <= a + 1
  BY WireAssumption DEF Older
<1>5. PICK r \in Nat : r = rcv'.rxAge /\ r <= rcv.rxAge + 1
  BY <1>1, <1>3, <1>4
<1>6. PICK s \in Nat : s = snd'.rxAge /\ s <= snd.rxAge + 1
  BY <1>1, <1>3, <1>4
<1>7. ReceiverWithin'
  <2>1. CASE down # << >>
    <3>1. PICK a \in 0 .. MaxDelay : a = down[1].age
      BY <2>1, OldestAge DEF BeatOK, BeatTyped
    <3>2. down' # << >> /\ down'[1].age = a + 1
      BY <1>1, <1>2, <2>1, <3>1, OldestAged DEF BeatOK, BeatTyped
    <3>3. rcv.rxAge + (MaxDelay - a) <= LivenessTimeout
      BY <2>1, <3>1 DEF ReceiverWithin
    <3>4. r + (MaxDelay - (a + 1)) <= LivenessTimeout
      BY <1>3, <1>5, <3>3, WireAssumption, HeartbeatAssumption
    <3> QED
      BY <1>5, <3>2, <3>4 DEF ReceiverWithin
  <2>2. CASE down = << >>
    <3>1. down' = << >>
      BY <1>1, <2>2, OldestAged DEF BeatOK, BeatTyped
    <3>2. CASE sh.at = "select"
      <4>1. PICK p \in Int : p = snd.pingIn /\ snd'.pingIn = p - 1
        BY <1>1, <1>2, <1>3, <3>2, WireAssumption
      <4>2. rcv.rxAge + p + MaxDelay <= LivenessTimeout
        BY <2>2, <3>2, <4>1 DEF ReceiverWithin
      <4>3. r + (p - 1) + MaxDelay <= LivenessTimeout
        BY <1>3, <1>5, <4>2, WireAssumption, HeartbeatAssumption
      <4> QED
        BY <1>1, <1>5, <3>1, <3>2, <4>1, <4>3 DEF ReceiverWithin
    <3>3. CASE sh.at = "build"
      <4>1. PICK l \in Int : l = sh.left /\ sh'.left = l - 1
        BY <1>1, <1>3, <3>3, HeartbeatAssumption
      <4>2. rcv.rxAge + l <= BuildTime
        BY <2>2, <3>3, <4>1 DEF ReceiverWithin
      <4>3. r + (l - 1) <= BuildTime
        BY <1>3, <1>5, <4>2, WireAssumption, HeartbeatAssumption
      <4> QED
        BY <1>1, <1>5, <3>1, <3>3, <4>1, <4>3 DEF ReceiverWithin
    <3> QED
      BY <1>2, <3>2, <3>3
  <2> QED
    BY <2>1, <2>2
<1>8. sh.at = "build" => /\ snd.rxAge + sh.left <= BuildTime
                        /\ s + sh'.left <= BuildTime
                        /\ BuildTime - sh'.left + MaxDelay <= LivenessTimeout
                        /\ s + MaxDelay <= LivenessTimeout
  <2> SUFFICES ASSUME sh.at = "build"
               PROVE  /\ snd.rxAge + sh.left <= BuildTime
                      /\ s + sh'.left <= BuildTime
                      /\ BuildTime - sh'.left + MaxDelay <= LivenessTimeout
                      /\ s + MaxDelay <= LivenessTimeout
    OBVIOUS
  <2>1. PICK l \in Int : l = sh.left /\ sh'.left = l - 1 /\ l > 0
    BY <1>1, <1>3, HeartbeatAssumption
  <2>2. snd.rxAge + l <= BuildTime
    BY <2>1 DEF SenderWithin
  <2>3. s + (l - 1) <= BuildTime
    BY <1>3, <1>6, <2>1, <2>2, HeartbeatAssumption
  <2>4. ~(BuildTime - l >= LivenessTimeout - MaxDelay)
    BY <2>1 DEF TooLong
  <2>5. BuildTime - (l - 1) + MaxDelay <= LivenessTimeout
    BY <2>1, <2>4, WireAssumption, HeartbeatAssumption
  <2>6. s + MaxDelay <= LivenessTimeout
    BY <2>1, <2>3, <2>5, WireAssumption, HeartbeatAssumption
  <2> QED
    BY <2>1, <2>2, <2>3, <2>5, <2>6
<1>9. sh'.left > 0 \/ sh'.at = "build" => snd'.rxAge + sh'.left <= BuildTime
  <2>1. sh.at = "select" => ~(sh.left > 0)
    BY DEF BeatOK, BeatHosts
  <2> QED
    BY <1>1, <1>2, <1>6, <1>8, <2>1
<1>10. SenderWithin'
  <2>1. CASE up # << >>
    <3>1. PICK a \in 0 .. MaxDelay : a = up[1].age
      BY <2>1, OldestAge DEF BeatOK, BeatTyped
    <3>2. CASE a < MaxDelay
      <4>1. up' # << >> /\ up'[1].age = a + 1
        BY <1>1, <2>1, <3>1, <3>2, OldestAged DEF BeatOK, BeatTyped
      <4>2. snd.rxAge + (MaxDelay - a) <= LivenessTimeout
        BY <2>1, <3>1 DEF SenderWithin
      <4>3. s + (MaxDelay - (a + 1)) <= LivenessTimeout
        BY <1>3, <1>6, <4>2, WireAssumption, HeartbeatAssumption
      <4> QED
        BY <1>6, <1>9, <4>1, <4>3 DEF SenderWithin
    <3>3. CASE ~(a < MaxDelay)
      <4>1. up' # << >> /\ up'[1].age = a
        BY <1>1, <2>1, <3>1, <3>3, OldestAged DEF BeatOK, BeatTyped
      <4>2. s + MaxDelay <= LivenessTimeout
        BY <1>2, <1>8, <2>1, <3>1, <3>3
      <4>3. s + (MaxDelay - a) <= LivenessTimeout
        BY <3>3, <4>2, WireAssumption, HeartbeatAssumption
      <4> QED
        BY <1>6, <1>9, <4>1, <4>3 DEF SenderWithin
    <3> QED
      BY <3>2, <3>3
  <2>2. CASE up = << >>
    <3>1. up' = << >>
      BY <1>1, <2>2, OldestAged DEF BeatOK, BeatTyped
    <3>2. PICK p \in Int : p = rcv.pingIn /\ rcv'.pingIn = p - 1
      BY <1>1, <1>2, <1>3, WireAssumption
    <3>3. snd.rxAge + p + MaxDelay <= LivenessTimeout
      BY <1>2, <2>2, <3>2 DEF SenderWithin
    <3>4. s + (p - 1) + MaxDelay <= LivenessTimeout
      BY <1>3, <1>6, <3>3, WireAssumption, HeartbeatAssumption
    <3> QED
      BY <1>1, <1>2, <1>6, <1>9, <3>1, <3>2, <3>4 DEF SenderWithin
  <2> QED
    BY <2>1, <2>2
<1>11. BuiltWithin'
  <2>1. sh.at = "select" => ~(sh.left > 0)
    BY DEF BeatOK, BeatHosts
  <2> QED
    BY <1>1, <1>2, <1>8, <2>1 DEF BuiltWithin
<1> QED
  BY <1>7, <1>10, <1>11

-----------------------------------------------------------------------------
(* The theorems.                                                           *)

BeatInv == BeatOK /\ (Alive /\ ~held => Within)

\* A host that waits in its select! while both are alive has been heard from.
LEMMA HeardInTime ==
    ASSUME BeatInv, Alive, ~held
    PROVE  /\ sh.at = "select" => ~SenderSilent
           /\ rh.at = "select" => ~ReceiverSilent
<1>1. /\ snd.rxAge \in Nat /\ rcv.rxAge \in Nat
      /\ snd.pingIn \in 0 .. PingInterval /\ rcv.pingIn \in 0 .. PingInterval
  BY Ranges DEF Ranged, BeatInv
<1>2. ReceiverWithin /\ SenderWithin /\ BuiltWithin
  BY DEF BeatInv, Within
<1>3. /\ sh.at \in {"select", "write", "build"}
      /\ rh.at \in {"select", "write"}
  BY DEF Alive, BeatInv, BeatOK, BeatTyped, BeatHosts, HostStates
<1>4. ASSUME sh.at = "select" PROVE ~SenderSilent
  <2>1. CASE up # << >>
    <3>1. PICK a \in 0 .. MaxDelay : a = up[1].age
      BY <2>1, OldestAge DEF BeatInv, BeatOK, BeatTyped
    <3>2. snd.rxAge + (MaxDelay - a) <= LivenessTimeout
      BY <1>2, <2>1, <3>1 DEF SenderWithin
    <3> QED
      BY <1>1, <3>2, WireAssumption, HeartbeatAssumption DEF SenderSilent
  <2>2. CASE up = << >>
    <3>1. \/ snd.rxAge + rcv.pingIn + MaxDelay <= LivenessTimeout
          \/ snd.rxAge + MaxDelay <= LivenessTimeout
      BY <1>2, <1>3, <2>2 DEF SenderWithin
    <3> QED
      BY <1>1, <3>1, WireAssumption, HeartbeatAssumption DEF SenderSilent
  <2> QED
    BY <2>1, <2>2
<1>5. ASSUME rh.at = "select" PROVE ~ReceiverSilent
  <2>1. CASE down # << >>
    <3>1. PICK a \in 0 .. MaxDelay : a = down[1].age
      BY <2>1, OldestAge DEF BeatInv, BeatOK, BeatTyped
    <3>2. rcv.rxAge + (MaxDelay - a) <= LivenessTimeout
      BY <1>2, <2>1, <3>1 DEF ReceiverWithin
    <3> QED
      BY <1>1, <3>2, WireAssumption, HeartbeatAssumption DEF ReceiverSilent
  <2>2. CASE down = << >>
    <3>1. PICK l \in Nat : l = sh.left
      BY Ranges, HeartbeatAssumption DEF Ranged, BeatInv
    <3>2. \/ rcv.rxAge + snd.pingIn + MaxDelay <= LivenessTimeout
          \/ rcv.rxAge + MaxDelay <= LivenessTimeout
          \/ rcv.rxAge + l <= BuildTime /\ BuildTime - l + MaxDelay <= LivenessTimeout
      BY <1>2, <1>3, <2>2, <3>1 DEF ReceiverWithin, BuiltWithin
    <3> QED
      BY <1>1, <3>2, WireAssumption, HeartbeatAssumption DEF ReceiverSilent
  <2> QED
    BY <2>1, <2>2
<1> QED
  BY <1>4, <1>5

LEMMA OKInit ==
    ASSUME HeartbeatInit
    PROVE  BeatOK
<1>1. /\ snd = Fresh(TRUE) /\ rcv = Reset(TRUE, None)
      /\ up = << >> /\ down = << >> /\ wire = "up"
      /\ sh = Host("select", << >>) /\ rh = Host("write", <<HelloFrame>>)
  BY DEF HeartbeatInit
<1>2. SenderTypeOK
  BY <1>1, SenderRanges DEF Fresh, SenderTypeOK, ImplicitPv
<1>3. ReceiverTypeOK
  BY <1>1, ReceiverRanges DEF Reset, ReceiverTypeOK
<1>4. HelloFrame \in Says /\ HelloFrame.type = "hello"
  BY <1>1, WireAssumption DEF HelloFrame, Says, Hellos, Reset
<1>5. Len(up) = 0 /\ Len(down) = 0 /\ up \in Under(Says) /\ down \in Under(Tells)
  BY <1>1 DEF Under
<1>6. /\ sh \in HostStates(Tells, 0 .. BuildTime)
      /\ sh.at = "select" /\ sh.out = << >> /\ sh.left = 0 /\ sh.end = None /\ sh.idle
  BY <1>1, HeartbeatAssumption DEF Host, HostStates, Ends
<1>7. <<HelloFrame>> \in Seq(Says) /\ Len(<<HelloFrame>>) = 1
  BY <1>4, OneFrame
<1>8. /\ rh \in HostStates(Says, {0})
      /\ rh.at = "write" /\ rh.out = <<HelloFrame>> /\ rh.end = None /\ rh.idle
  BY <1>1, <1>7 DEF Host, HostStates, Ends
<1>9. snd.hello = None /\ snd.connected /\ rcv.connected /\ snd.rxAge = 0 /\ rcv.rxAge = 0
      /\ snd.pingIn = PingInterval /\ rcv.pingIn = FirstPingAfter
  BY <1>1 DEF Fresh, Reset
<1>10. Len(rh.out) = 1
  BY <1>7, <1>8
<1>11. BeatTyped
  BY <1>1, <1>2, <1>3, <1>5, <1>6, <1>8 DEF BeatTyped
<1>12. BeatHosts
  BY <1>6, <1>8, <1>9, <1>10 DEF BeatHosts, InHand
<1>13. OneHello
  <2>1. \A i \in 1 .. Len(up) : FALSE
    BY <1>5
  <2>2. snd.hello = None /\ up = << >>
    BY <1>1, <1>9
  <2> QED
    BY <2>1, <2>2 DEF OneHello
<1> QED
  BY <1>11, <1>12, <1>13 DEF BeatOK

LEMMA BeatInit ==
    ASSUME HeartbeatInit
    PROVE  BeatInv
<1>1. /\ down = << >> /\ up = << >> /\ Len(up) = 0 /\ Len(down) = 0
      /\ sh = Host("select", << >>) /\ rh = Host("write", <<HelloFrame>>)
  BY DEF HeartbeatInit
<1>2. sh.at = "select" /\ sh.left = 0 /\ rh.at = "write"
  BY <1>1 DEF Host
<1>3. snd.rxAge = 0 /\ rcv.rxAge = 0 /\ snd.pingIn = PingInterval
  BY DEF HeartbeatInit, Fresh, Reset
<1>4. BuiltWithin
  BY <1>2 DEF BuiltWithin
<1>5. /\ 0 + PingInterval + MaxDelay <= LivenessTimeout
      /\ 0 + MaxDelay <= LivenessTimeout
  BY WireAssumption, HeartbeatAssumption
<1>6. ~(sh.left > 0)
  BY <1>2
<1>7. ReceiverWithin
  BY <1>1, <1>2, <1>3, <1>5 DEF ReceiverWithin
<1>8. SenderWithin
  BY <1>1, <1>2, <1>3, <1>5, <1>6 DEF SenderWithin
<1> QED
  BY <1>4, <1>7, <1>8, OKInit DEF BeatInv, Within

LEMMA BeatOKStep ==
    ASSUME BeatOK, HeartbeatNext
    PROVE  BeatOK'
<1>1. CASE SenderReads
  BY <1>1, SenderReadsFacts
<1>2. CASE SenderTicks
  BY <1>2, SenderTicksFacts
<1>3. CASE SenderShows
  BY <1>3, SenderShowsFacts
<1>4. CASE SenderWrites
  BY <1>4, SenderWritesFacts
<1>5. CASE SenderBuilt
  BY <1>5, SenderBuiltFacts
<1>6. CASE SenderStops \/ SenderLeft
  BY <1>6, SenderGoneFacts
<1>7. CASE ReceiverReads
  BY <1>7, ReceiverReadsFacts
<1>8. CASE ReceiverTicks
  BY <1>8, ReceiverTicksFacts
<1>9. CASE ReceiverInputs
  BY <1>9, ReceiverInputsFacts
<1>10. CASE ReceiverWrites
  BY <1>10, ReceiverWritesFacts
<1>11. CASE ReceiverStops \/ ReceiverLeft
  BY <1>11, ReceiverGoneFacts
<1>12. CASE Elapses
  BY <1>12, ElapsesFacts
<1>13. CASE Cut
  <2>1. /\ wire' = "cut"
        /\ UNCHANGED <<snd, rcv, up, down, sh, rh>>
    BY <1>13 DEF Cut
  <2>2. BeatTyped'
    BY <2>1 DEF BeatOK, BeatTyped, SenderTypeOK, ReceiverTypeOK
  <2>3. BeatHosts' /\ OneHello'
    BY <2>1 DEF BeatOK, BeatHosts, InHand, OneHello
  <2> QED
    BY <2>2, <2>3 DEF BeatOK
<1> QED
  BY <1>1, <1>2, <1>3, <1>4, <1>5, <1>6, <1>7, <1>8, <1>9, <1>10, <1>11, <1>12, <1>13
  DEF HeartbeatNext, SenderHost, ReceiverHost

\* A connection once cut stays cut, and a host that is done stays done.
LEMMA NoneReturns ==
    ASSUME BeatOK, HeartbeatNext
    PROVE  /\ Connected' => Connected
           /\ sh.at = "done" => sh'.at = "done"
           /\ rh.at = "done" => rh'.at = "done"
<1>1. Connected' => Connected
  BY DEF Connected, HeartbeatNext, SenderHost, ReceiverHost, SenderReads, SenderTicks,
         SenderShows, SenderWrites, SenderBuilt, SenderStops, SenderLeft, ReceiverReads,
         ReceiverTicks, ReceiverInputs, ReceiverWrites, ReceiverStops, ReceiverLeft, Cut, Elapses
<1>2. CASE Elapses
  BY <1>1, <1>2, ElapsesFacts
<1>3. CASE ~Elapses
  BY <1>1, <1>3
  DEF HeartbeatNext, SenderHost, ReceiverHost, SenderReads, SenderTicks, SenderShows,
      SenderWrites, SenderBuilt, SenderStops, SenderLeft, ReceiverReads, ReceiverTicks,
      ReceiverInputs, ReceiverWrites, ReceiverStops, ReceiverLeft, Cut
<1> QED
  BY <1>2, <1>3

LEMMA AliveBefore ==
    ASSUME BeatOK, HeartbeatNext, Alive'
    PROVE  Alive
BY NoneReturns DEF Alive

LEMMA BeatStep ==
    ASSUME BeatInv, HeartbeatNext
    PROVE  BeatInv'
<1>1. BeatOK /\ BeatOK'
  BY BeatOKStep DEF BeatInv
<1>2. ASSUME Alive', ~held' PROVE Within'
  <2>1. Alive /\ ReceiverWithin /\ SenderWithin /\ BuiltWithin
    BY <1>1, <1>2, AliveBefore, HeldFacts DEF BeatInv, Within
  <2>2. CASE SenderReads
    BY <1>1, <1>2, <2>1, <2>2, SenderReadsWithin DEF Within
  <2>3. CASE SenderTicks \/ SenderShows \/ SenderBuilt
    BY <1>1, <1>2, <2>1, <2>3, SenderActsWithin DEF Within
  <2>4. CASE SenderWrites
    BY <1>1, <2>1, <2>4, SenderWritesWithin DEF Within
  <2>5. CASE ReceiverReads
    BY <1>1, <2>1, <2>5, ReceiverReadsWithin DEF Within
  <2>6. CASE ReceiverTicks \/ ReceiverInputs
    BY <1>1, <1>2, <2>1, <2>6, ReceiverActsWithin DEF Within
  <2>7. CASE ReceiverWrites
    BY <1>1, <2>1, <2>7, ReceiverWritesWithin DEF Within
  <2>8. CASE Elapses
    BY <1>1, <1>2, <2>1, <2>8, ElapsesWithin, HeldFacts DEF Within
  <2>9. CASE SenderStops \/ SenderLeft
    BY <1>1, <1>2, <2>9, SenderGoneFacts DEF Alive
  <2>10. CASE ReceiverStops \/ ReceiverLeft
    BY <1>1, <1>2, <2>10, ReceiverGoneFacts DEF Alive
  <2>11. CASE Cut
    BY <1>2, <2>11 DEF Cut, Alive, Connected
  <2> QED
    BY <2>2, <2>3, <2>4, <2>5, <2>6, <2>7, <2>8, <2>9, <2>10, <2>11
    DEF HeartbeatNext, SenderHost, ReceiverHost
<1> QED
  BY <1>1, <1>2 DEF BeatInv

LEMMA OKStutter ==
    ASSUME BeatOK, UNCHANGED vars
    PROVE  BeatOK'
BY DEF vars, BeatOK, BeatTyped, SenderTypeOK, ReceiverTypeOK, BeatHosts, InHand, OneHello

LEMMA BeatStutter ==
    ASSUME BeatInv, UNCHANGED vars
    PROVE  BeatInv'
<1>1. UNCHANGED <<snd, rcv, up, down, sh, rh, wire, held>>
  BY DEF vars
<1>2. BeatOK'
  BY OKStutter DEF BeatInv
<1>3. ReceiverWithin' <=> ReceiverWithin
  BY <1>1 DEF ReceiverWithin
<1>4. SenderWithin' <=> SenderWithin
  BY <1>1 DEF SenderWithin
<1>5. BuiltWithin' <=> BuiltWithin
  BY <1>1 DEF BuiltWithin
<1>6. Alive' <=> Alive
  BY <1>1 DEF Alive, Connected
<1> QED
  BY <1>1, <1>2, <1>3, <1>4, <1>5, <1>6 DEF BeatInv, Within

\* Only a tick of a silent session ends a host with "timeout".
LEMMA TimeoutCause ==
    ASSUME BeatOK, HeartbeatNext
    PROVE  /\ sh'.end = "timeout" /\ sh.end # "timeout" =>
                sh.at = "select" /\ SenderSilent /\ rh' = rh
           /\ rh'.end = "timeout" /\ rh.end # "timeout" =>
                rh.at = "select" /\ ReceiverSilent /\ sh' = sh
<1>1. BeatOK'
  BY BeatOKStep
<1>2. /\ sh'.at # "done" => sh'.end # "timeout"
      /\ rh'.at # "done" => rh'.end # "timeout"
  BY <1>1, HeartbeatAssumption DEF BeatOK, BeatHosts, InHand
<1>3. CASE SenderReads \/ SenderShows \/ SenderBuilt \/ SenderWrites
  <2>1. sh'.at # "done"
    BY <1>3, SenderReadsFacts, SenderShowsFacts, SenderBuiltFacts, SenderWritesFacts
  <2>2. rh' = rh
    BY <1>3 DEF SenderReads, SenderShows, SenderBuilt, SenderWrites
  <2> QED
    BY <1>2, <2>1, <2>2
<1>4. CASE SenderTicks
  <2>1. sh.at = "select" /\ rh' = rh
    BY <1>4 DEF SenderTicks
  <2>2. ~SenderSilent => sh'.end = None
    BY <1>4, SenderTicksFacts
  <2> QED
    BY <2>1, <2>2, HeartbeatAssumption
<1>5. CASE SenderStops \/ SenderLeft
  BY <1>5, SenderGoneFacts
<1>6. CASE ReceiverReads
  BY <1>6, ReceiverReadsFacts
<1>7. CASE ReceiverInputs \/ ReceiverWrites
  <2>1. rh'.at # "done" /\ sh' = sh
    BY <1>7, ReceiverInputsFacts, ReceiverWritesFacts
  <2> QED
    BY <1>2, <2>1
<1>8. CASE ReceiverTicks
  <2>1. rh.at = "select" /\ sh' = sh
    BY <1>8, ReceiverTicksFacts
  <2>2. ~ReceiverSilent => rh'.end = None
    BY <1>8, ReceiverTicksFacts
  <2> QED
    BY <2>1, <2>2, HeartbeatAssumption
<1>9. CASE ReceiverStops \/ ReceiverLeft
  BY <1>9, ReceiverGoneFacts
<1>10. CASE Cut
  BY <1>10 DEF Cut
<1>11. CASE Elapses
  BY <1>11, ElapsesFacts
<1> QED
  BY <1>3, <1>4, <1>5, <1>6, <1>7, <1>8, <1>9, <1>10, <1>11
  DEF HeartbeatNext, SenderHost, ReceiverHost

LEMMA TimeoutStep ==
    ASSUME BeatInv, HeartbeatNext, NoFalseTimeout
    PROVE  NoFalseTimeout'
<1>1. BeatOK
  BY DEF BeatInv
<1>2. ASSUME Connected', ~held', sh'.end = "timeout" PROVE rh'.at = "done"
  <2>1. Connected /\ ~held
    BY <1>1, <1>2, NoneReturns, HeldFacts
  <2>2. CASE sh.end = "timeout"
    BY <1>1, <2>1, <2>2, NoneReturns DEF NoFalseTimeout
  <2>3. CASE sh.end # "timeout"
    <3>1. sh.at = "select" /\ SenderSilent /\ rh' = rh
      BY <1>1, <1>2, <2>3, TimeoutCause
    <3>2. ~Alive
      BY <2>1, <3>1, HeardInTime
    <3> QED
      BY <2>1, <3>1, <3>2 DEF Alive
  <2> QED
    BY <2>2, <2>3
<1>3. ASSUME Connected', ~held', rh'.end = "timeout" PROVE sh'.at = "done"
  <2>1. Connected /\ ~held
    BY <1>1, <1>3, NoneReturns, HeldFacts
  <2>2. CASE rh.end = "timeout"
    BY <1>1, <2>1, <2>2, NoneReturns DEF NoFalseTimeout
  <2>3. CASE rh.end # "timeout"
    <3>1. rh.at = "select" /\ ReceiverSilent /\ sh' = sh
      BY <1>1, <1>3, <2>3, TimeoutCause
    <3>2. ~Alive
      BY <2>1, <3>1, HeardInTime
    <3> QED
      BY <2>1, <3>1, <3>2 DEF Alive
  <2> QED
    BY <2>2, <2>3
<1> QED
  BY <1>2, <1>3 DEF NoFalseTimeout

\* Whatever the windows and the sockets are, every message in flight is one of
\* the two ends' own, a host has at most one short batch in hand, and the
\* receiver's hello is its first frame and its only one (read, write_all
\* and select! of both hosts).
THEOREM HeartbeatTyped == HeartbeatSpec => []BeatOK
<1>1. HeartbeatInit => BeatOK
  BY OKInit
<1>2. BeatOK /\ [HeartbeatNext]_vars => BeatOK'
  BY BeatOKStep, OKStutter
<1> QED
  BY <1>1, <1>2, PTL DEF HeartbeatSpec

\* While both hosts are alive and the network delivers within what a peer's
\* window leaves beside a ping, neither takes the other for dead, unless one
\* of them was kept from its select!: in a write to a full socket, or in a
\* build that outlasts the window.  Whatever the windows, the sockets' sizes,
\* the time a build takes and the load are (on_tick of both sessions, select!
\* of both hosts).
THEOREM HostsStayAlive == HeartbeatSpec => []NoFalseTimeout
<1>1. HeartbeatInit => BeatInv
  BY BeatInit
<1>2. HeartbeatInit => NoFalseTimeout
  BY HeartbeatAssumption DEF HeartbeatInit, Host, NoFalseTimeout
<1>3. BeatInv /\ NoFalseTimeout /\ HeartbeatNext => BeatInv' /\ NoFalseTimeout'
  BY BeatStep, TimeoutStep
<1>4. BeatInv /\ UNCHANGED vars => BeatInv'
  BY BeatStutter
<1>5. NoFalseTimeout /\ UNCHANGED vars => NoFalseTimeout'
  BY DEF NoFalseTimeout, Connected, vars
<1>6. BeatInv /\ NoFalseTimeout /\ [HeartbeatNext]_vars => (BeatInv /\ NoFalseTimeout)'
  BY <1>3, <1>4, <1>5
<1> QED
  BY <1>1, <1>2, <1>6, PTL DEF HeartbeatSpec
=============================================================================
