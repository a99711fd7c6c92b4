------------------------- MODULE ReceiverHost_proofs -------------------------
(***************************************************************************)
(* Proofs about what the receiver's host does beside its session.          *)
(*                                                                         *)
(* SleepWatch, for any number of sleeps: the sender is told of each that   *)
(* waited for it.  Adoption, for any senders, probes and connections: one  *)
(* sender at a time is served, and it has the cursor's port.               *)
(***************************************************************************)
EXTENDS Adoption, SleepWatch, Sessions_proofs, SequenceTheorems, TLAPS

-----------------------------------------------------------------------------
(* The sleep.                                                              *)

Machines == [state : {"awake", "preparing", "asleep"}, sleeps : Nat, hurried : BOOLEAN]
Watchers == [at : {"listen", "wait", "take", "gone"}, lock : BOOLEAN,
             signals : Seq(BOOLEAN), request : Nat]
Loops == [at : {"runs", "writes", "says", "over"}, sender : {"none", "before", "after"},
          events : Seq(Nat), done : SUBSET Nat]

\* A loop that is over has no sender, and no request is answered before it is made.
RequestsMade ==
    loop.events \in Seq(1 .. watcher.request) /\ loop.done \subseteq 1 .. watcher.request

SleepTyped ==
    /\ machine \in Machines /\ watcher \in Watchers /\ loop \in Loops
    /\ loop.at = "over" => loop.sender = "none"
    /\ RequestsMade

LEMMA SleepStepTyped ==
    ASSUME SleepTyped, [SleepNext]_sleepVars
    PROVE  SleepTyped'
<1> USE DEF SleepTyped
<1>0. ASSUME watcher'.request = watcher.request, loop'.events = loop.events,
             loop'.done = loop.done
      PROVE  RequestsMade'
  BY <1>0 DEF RequestsMade
<1>ends. ASSUME WatcherEnds
         PROVE  watcher' \in Watchers /\ watcher'.request = watcher.request
  <2>1. << >> \in Seq(BOOLEAN)
    OBVIOUS
  <2> QED
    BY <1>ends, <2>1 DEF WatcherEnds, Watchers
<1>1. CASE Prepares
  <2>1. Append(watcher.signals, TRUE) \in Seq(BOOLEAN)
    BY AppendProperties DEF Watchers
  <2>2. machine' \in Machines
    BY <1>1 DEF Prepares, Machines
  <2>3. watcher' \in Watchers /\ watcher'.request = watcher.request
    BY <1>1, <2>1 DEF Prepares, Watchers
  <2>4. /\ loop' \in Loops /\ loop'.at = loop.at
        /\ loop'.events = loop.events /\ loop'.done = loop.done
        /\ loop.sender = "none" => loop'.sender = "none"
    BY <1>1 DEF Prepares, Loops
  <2> QED
    BY <1>0, <2>2, <2>3, <2>4
<1>2. CASE Suspends \/ SuspendsAnyway
  BY <1>0, <1>2 DEF Suspends, SuspendsAnyway, Machines
<1>3. CASE Wakes
  <2>1. Append(watcher.signals, FALSE) \in Seq(BOOLEAN)
    BY AppendProperties DEF Watchers
  <2>2. watcher' \in Watchers /\ watcher'.request = watcher.request
    BY <1>3, <2>1 DEF Wakes, Watchers
  <2> QED
    BY <1>0, <1>3, <2>2 DEF Wakes, Machines
<1>4. CASE HearsSleep /\ loop.at = "over"
  BY <1>0, <1>4, <1>ends DEF HearsSleep
<1>5. CASE HearsSleep /\ loop.at # "over"
  <2> DEFINE r == watcher.request + 1
  <2>1. /\ watcher' = [watcher EXCEPT !.at = "wait", !.request = r, !.signals = Tail(@)]
        /\ loop' = [loop EXCEPT !.events = Append(@, r)]
        /\ UNCHANGED machine
    BY <1>5 DEF HearsSleep
  <2>2. Tail(watcher.signals) \in Seq(BOOLEAN)
    BY <1>5, HeadTailProperties DEF HearsSleep, Watchers
  <2>3. r \in Nat /\ 1 .. watcher.request \subseteq 1 .. r /\ r \in 1 .. r
    BY DEF Watchers
  <2> HIDE DEF r
  <2>4. loop.events \in Seq(1 .. r)
    BY <2>3, SeqMonotonic DEF RequestsMade
  <2>5. Append(loop.events, r) \in Seq(1 .. r)
    BY <2>3, <2>4, AppendProperties
  <2>6. Append(loop.events, r) \in Seq(Nat)
    BY <2>3, AppendProperties DEF Loops
  <2>7. watcher' \in Watchers /\ watcher'.request = r
    BY <2>1, <2>2, <2>3 DEF Watchers
  <2>8. /\ loop' \in Loops /\ loop'.events = Append(loop.events, r)
        /\ loop'.done = loop.done /\ loop'.at = loop.at /\ loop'.sender = loop.sender
    BY <2>1, <2>6 DEF Loops
  <2>9. RequestsMade'
    BY <2>3, <2>5, <2>7, <2>8 DEF RequestsMade
  <2> QED
    BY <2>1, <2>7, <2>8, <2>9
<1>6. CASE LetsSleep \/ WaitsNoLonger
  <2>1. watcher' = [watcher EXCEPT !.at = "listen", !.lock = FALSE]
    BY <1>6 DEF LetsSleep, WaitsNoLonger
  <2>2. watcher' \in Watchers /\ watcher'.request = watcher.request
    BY <2>1 DEF Watchers
  <2>3. machine' \in Machines /\ UNCHANGED loop
    BY <1>6 DEF LetsSleep, WaitsNoLonger, Machines
  <2> QED
    BY <1>0, <2>2, <2>3
<1>7. CASE HearsWake
  <2>1. Tail(watcher.signals) \in Seq(BOOLEAN)
    BY <1>7, HeadTailProperties DEF HearsWake, Watchers
  <2>2. CASE watcher.lock
    <3>1. watcher' = [watcher EXCEPT !.at = "listen", !.signals = Tail(watcher.signals)]
      BY <1>7, <2>2 DEF HearsWake
    <3> HIDE DEF HearsWake
    <3>2. watcher' \in Watchers /\ watcher'.request = watcher.request
      BY <2>1, <3>1 DEF Watchers
    <3> QED
      BY <1>0, <1>7, <3>2 DEF HearsWake
  <2>3. CASE ~watcher.lock
    <3>1. watcher' = [watcher EXCEPT !.at = "take", !.signals = Tail(watcher.signals)]
      BY <1>7, <2>3 DEF HearsWake
    <3>2. watcher' \in Watchers /\ watcher'.request = watcher.request
      BY <2>1, <3>1 DEF Watchers
    <3> QED
      BY <1>0, <1>7, <3>2 DEF HearsWake
  <2> QED
    BY <2>2, <2>3
<1>8. CASE TakesLock
  <2>1. CASE machine.state = "preparing"
    BY <1>0, <1>8, <2>1, <1>ends DEF TakesLock
  <2>2. CASE machine.state # "preparing"
    <3>1. watcher' = [watcher EXCEPT !.at = "listen", !.lock = TRUE]
      BY <1>8, <2>2 DEF TakesLock
    <3>2. watcher' \in Watchers /\ watcher'.request = watcher.request
      BY <3>1 DEF Watchers
    <3> QED
      BY <1>0, <1>8, <3>2 DEF TakesLock
  <2> QED
    BY <2>1, <2>2
<1>9. CASE BusFails
  BY <1>0, <1>9, <1>ends DEF BusFails, Machines
<1>10. CASE LoopSteps
  <2>1. CASE TakesPowerEvent
    <3>1. /\ Head(loop.events) \in Nat /\ Head(loop.events) \in 1 .. watcher.request
          /\ Tail(loop.events) \in Seq(Nat) /\ Tail(loop.events) \in Seq(1 .. watcher.request)
      BY <2>1, HeadTailProperties DEF TakesPowerEvent, Loops, RequestsMade
    <3> QED
      BY <1>10, <2>1, <3>1 DEF LoopSteps, TakesPowerEvent, AnswersPower, Loops, RequestsMade
  <2>2. CASE Said
    <3>1. CASE loop.events = << >>
      <4>1. loop' = [loop EXCEPT !.at = "runs", !.sender = "none"]
        BY <2>2, <3>1 DEF Said, Loops
      <4> QED
        BY <1>0, <1>10, <4>1 DEF LoopSteps, Loops
    <3>2. CASE loop.events # << >>
      <4>1. /\ Head(loop.events) \in Nat /\ Head(loop.events) \in 1 .. watcher.request
            /\ Tail(loop.events) \in Seq(Nat) /\ Tail(loop.events) \in Seq(1 .. watcher.request)
        BY <3>2, HeadTailProperties DEF Loops, RequestsMade
      <4>2. loop' = [loop EXCEPT !.at = "runs", !.sender = "none",
                       !.events = Tail(loop.events),
                       !.done = loop.done \cup {Head(loop.events)}]
        BY <2>2, <3>2 DEF Said
      <4> QED
        BY <1>10, <4>1, <4>2 DEF LoopSteps, Loops, RequestsMade
    <3> QED
      BY <3>1, <3>2
  <2>3. CASE LoopWrites \/ SenderConnects \/ SenderGoes
    <3>1. /\ loop' \in Loops /\ loop'.at # "over"
          /\ loop'.events = loop.events /\ loop'.done = loop.done
      <4>1. CASE LoopWrites
        BY <4>1 DEF LoopWrites, Loops
      <4>2. CASE SenderConnects
        BY <4>2 DEF SenderConnects, Loops
      <4>3. CASE SenderGoes
        BY <4>3 DEF SenderGoes, Loops
      <4> QED
        BY <2>3, <4>1, <4>2, <4>3
    <3> QED
      BY <1>0, <1>10, <3>1 DEF LoopSteps
  <2>4. CASE ReceiverCloses
    <3>1. << >> \in Seq(Nat) /\ << >> \in Seq(1 .. watcher.request)
      OBVIOUS
    <3> QED
      BY <1>10, <2>4, <3>1 DEF LoopSteps, ReceiverCloses, Loops, RequestsMade
  <2> QED
    BY <1>10, <2>1, <2>2, <2>3, <2>4 DEF LoopSteps
<1>11. CASE UNCHANGED sleepVars
  BY <1>0, <1>11 DEF sleepVars
<1> QED
  BY <1>1, <1>2, <1>3, <1>4, <1>5, <1>6, <1>7, <1>8, <1>9, <1>10, <1>11
  DEF SleepNext, Watches

\* Where the watcher is while a sleep that need not hurry is prepared: it has
\* yet to hear of it, it waits for the answer, it has let the machine sleep,
\* or it found the loop over.
Prepared ==
    \/ watcher.at = "listen" /\ watcher.signals = <<TRUE>> /\ watcher.lock
    \/ /\ watcher.at = "wait" /\ watcher.signals = << >> /\ watcher.lock
       /\ DoneWith => loop.sender # "before"
    \/ watcher.at = "listen" /\ watcher.signals = << >> /\ loop.sender # "before"
    \/ watcher.at = "gone" /\ loop.at = "over"

\* While the machine is awake, the last thing it said is that it woke up.
LastIsWake == watcher.signals # << >> => watcher.signals[Len(watcher.signals)] = FALSE

SleepInv ==
    /\ machine.state = "preparing" /\ ~machine.hurried => Prepared
    /\ machine.state = "asleep" /\ ~machine.hurried => loop.sender # "before"
    /\ machine.state = "awake" =>
         /\ LastIsWake
         /\ CaughtUp => watcher.lock
         /\ watcher.at = "wait" => watcher.signals # << >>

LEMMA LastOfAppend ==
    ASSUME NEW S, NEW s \in Seq(S), NEW e \in S
    PROVE  Append(s, e) # << >> /\ Append(s, e)[Len(Append(s, e))] = e
BY AppendProperties

LEMMA LastOfTail ==
    ASSUME NEW S, NEW s \in Seq(S), s # << >>
    PROVE  /\ Len(s) = 1 => Tail(s) = << >> /\ s[Len(s)] = Head(s)
           /\ Len(s) # 1 => Tail(s) # << >> /\ Tail(s)[Len(Tail(s))] = s[Len(s)]
<1>1. Len(s) \in Nat \ {0} /\ Head(s) = s[1]
  BY EmptySeq
<1>2. /\ Tail(s) \in Seq(S) /\ Len(Tail(s)) = Len(s) - 1
      /\ \A i \in 1 .. Len(Tail(s)) : Tail(s)[i] = s[i + 1]
  BY HeadTailProperties
<1>3. CASE Len(s) = 1
  <2>1. Len(Tail(s)) = 0
    BY <1>2, <1>3
  <2>2. Tail(s) = << >>
    BY <1>2, <2>1, EmptySeq
  <2> QED
    BY <1>1, <1>3, <2>2
<1>4. CASE Len(s) # 1
  BY <1>1, <1>2, <1>4, EmptySeq
<1> QED
  BY <1>3, <1>4

\* The receiver's sleep: the watcher and the loop keep what they may promise.
LEMMA SleepStepInv ==
    ASSUME SleepTyped, SleepInv, [SleepNext]_sleepVars
    PROVE  SleepInv'
<1> USE DEF SleepTyped, SleepInv
<1>1. CASE Prepares
  <2>1. machine.state = "awake" /\ machine'.state = "preparing" /\ machine'.hurried = ~CaughtUp
    BY <1>1 DEF Prepares
  <2>2. ASSUME CaughtUp PROVE Prepared'
    <3>1. watcher' = [watcher EXCEPT !.signals = <<TRUE>>]
      BY <1>1, <2>2 DEF Prepares, CaughtUp
    <3> QED
      BY <2>1, <2>2, <3>1 DEF CaughtUp, Prepared, Watchers
  <2> QED
    BY <2>1, <2>2
<1>2. CASE Suspends \/ SuspendsAnyway
  BY <1>2 DEF Suspends, SuspendsAnyway, Prepared, Machines, Loops
<1>3. CASE Wakes
  <2>1. /\ watcher'.signals = Append(watcher.signals, FALSE)
        /\ watcher.signals \in Seq(BOOLEAN) /\ machine'.state = "awake"
    BY <1>3 DEF Wakes, Watchers, Machines
  <2>2. watcher'.signals # << >> /\ watcher'.signals[Len(watcher'.signals)] = FALSE
    <3> DEFINE old == watcher.signals
    <3>1. old \in Seq(BOOLEAN) /\ FALSE \in BOOLEAN
      BY <2>1
    <3> HIDE DEF old
    <3>2. Append(old, FALSE) # << >> /\ Append(old, FALSE)[Len(Append(old, FALSE))] = FALSE
      BY <3>1, LastOfAppend, Zenon
    <3> QED
      BY <2>1, <3>2, Zenon DEF old
  <2> QED
    BY <2>1, <2>2 DEF LastIsWake, CaughtUp
<1>4. CASE LoopSteps
  <2>1. UNCHANGED <<machine, watcher>>
    BY <1>4 DEF LoopSteps
  <2>2. (loop'.sender = "before" => loop.sender = "before") /\ loop.at # "over"
    BY <1>4 DEF LoopSteps, TakesPowerEvent, AnswersPower, Said, LoopWrites,
                SenderConnects, SenderGoes, ReceiverCloses, Loops
  <2>3. loop'.sender = "before" => loop'.done = loop.done
    BY <1>4 DEF LoopSteps, TakesPowerEvent, AnswersPower, Said, LoopWrites,
                SenderConnects, SenderGoes, ReceiverCloses, Loops
  <2> QED
    BY <2>1, <2>2, <2>3 DEF Prepared, DoneWith, LastIsWake, CaughtUp
<1>5. ASSUME Watches, machine.state = "awake"
      PROVE  SleepInv'
  <2>1. machine'.state = "awake"
    BY <1>5 DEF Watches, HearsSleep, LetsSleep, WaitsNoLonger, HearsWake, TakesLock, BusFails, Machines
  <2>2. CASE WatcherEnds
    <3>1. watcher'.at = "gone" /\ watcher'.signals = << >>
      BY <2>2 DEF WatcherEnds, Watchers
    <3> QED
      BY <2>1, <3>1 DEF LastIsWake, CaughtUp
  <2>3. CASE ~WatcherEnds /\ watcher.signals # << >> /\ watcher'.signals = Tail(watcher.signals)
    <3>1. watcher.signals \in Seq(BOOLEAN)
      BY DEF Watchers
    <3>2. CASE Len(watcher.signals) = 1
      <4>1. watcher'.signals = << >> /\ Head(watcher.signals) = FALSE
        BY <1>5, <2>3, <3>1, <3>2, LastOfTail DEF LastIsWake
      <4>2. HearsWake
        <5>1. ~HearsSleep
          BY <4>1 DEF HearsSleep
        <5>2. ~(LetsSleep \/ WaitsNoLonger)
          BY <2>3, <4>1 DEF LetsSleep, WaitsNoLonger, Watchers
        <5>3. CASE TakesLock \/ BusFails
          <6>1. WatcherEnds
            BY <2>3, <4>1, <5>3 DEF TakesLock, BusFails, Watchers
          <6> QED
            BY <2>3, <6>1
        <5> QED
          BY <1>5, <5>1, <5>2, <5>3 DEF Watches
      <4>3. /\ watcher'.at = IF watcher.lock THEN "listen" ELSE "take"
            /\ watcher'.lock = watcher.lock
        BY <4>2 DEF HearsWake, Watchers
      <4> QED
        BY <2>1, <4>1, <4>3 DEF LastIsWake, CaughtUp
    <3>3. CASE Len(watcher.signals) # 1
      <4>1. /\ watcher'.signals # << >>
            /\ watcher'.signals[Len(watcher'.signals)] = watcher.signals[Len(watcher.signals)]
        BY <2>3, <3>1, <3>3, LastOfTail
      <4> QED
        BY <1>5, <2>1, <2>3, <4>1 DEF LastIsWake, CaughtUp
    <3> QED
      BY <3>2, <3>3
  <2>4. CASE LetsSleep \/ WaitsNoLonger
    <3>1. watcher'.signals = watcher.signals /\ watcher.signals # << >> /\ watcher'.at = "listen"
      BY <1>5, <2>4 DEF LetsSleep, WaitsNoLonger, Watchers
    <3> QED
      BY <1>5, <2>1, <3>1 DEF LastIsWake, CaughtUp
  <2>5. CASE TakesLock /\ ~WatcherEnds
    <3>1. watcher'.signals = watcher.signals /\ watcher'.lock /\ watcher'.at = "listen"
      BY <2>5 DEF TakesLock, Watchers
    <3> QED
      BY <1>5, <2>1, <3>1 DEF LastIsWake, CaughtUp
  <2>6. ASSUME HearsSleep \/ HearsWake, ~WatcherEnds
        PROVE  watcher.signals # << >> /\ watcher'.signals = Tail(watcher.signals)
    BY <2>6 DEF HearsSleep, HearsWake, Watchers
  <2> QED
    BY <1>5, <2>2, <2>3, <2>4, <2>5, <2>6 DEF Watches, BusFails
<1>6. ASSUME Watches, machine.state = "preparing"
      PROVE  SleepInv'
  <2>1. machine'.state = "preparing" /\ (~machine'.hurried => ~machine.hurried)
    BY <1>6 DEF Watches, HearsSleep, LetsSleep, WaitsNoLonger, HearsWake, TakesLock, BusFails, Machines
  <2>2. SUFFICES ASSUME ~machine'.hurried, Prepared PROVE Prepared'
    BY <1>6, <2>1
  <2>3. CASE HearsSleep
    <3>1. CASE loop.at = "over"
      BY <2>3, <3>1 DEF HearsSleep, WatcherEnds, Prepared, Watchers
    <3>2. CASE loop.at # "over"
      <4>1. watcher.signals = <<TRUE>> /\ watcher.lock
        BY <2>2, <2>3 DEF Prepared, HearsSleep
      <4>2. /\ watcher' = [watcher EXCEPT !.at = "wait", !.request = watcher.request + 1,
                                          !.signals = << >>]
            /\ loop'.done = loop.done
        <5>1. Tail(<<TRUE>>) = << >>
          OBVIOUS
        <5> QED
          BY <2>3, <3>2, <4>1, <5>1 DEF HearsSleep, Loops
      <4>3. watcher'.request = watcher.request + 1 /\ watcher.request \in Nat
        BY <4>2 DEF Watchers
      <4>4. ~DoneWith'
        BY <4>2, <4>3 DEF DoneWith, RequestsMade
      <4> QED
        BY <4>1, <4>2, <4>4 DEF Prepared, Watchers
    <3> QED
      BY <3>1, <3>2
  <2>4. CASE LetsSleep
    BY <2>2, <2>4 DEF LetsSleep, Prepared, Watchers
  <2>5. CASE HearsWake
    <3>1. watcher.signals # <<TRUE>>
      <4>1. Head(<<TRUE>>) = TRUE
        <5>1. \A e : Head(<<e>>) = e
          OBVIOUS
        <5> QED
          BY <5>1, Zenon
      <4> QED
        BY <2>5, <4>1, Zenon DEF HearsWake
    <3> QED
      BY <2>2, <2>5, <3>1 DEF HearsWake, Prepared
  <2>6. CASE TakesLock
    BY <2>2, <2>6 DEF TakesLock, Prepared
  <2>7. CASE WaitsNoLonger \/ BusFails
    BY <1>6, <2>2, <2>7 DEF WaitsNoLonger, BusFails, Machines
  <2> QED
    BY <1>6, <2>3, <2>4, <2>5, <2>6, <2>7 DEF Watches
<1>7. CASE UNCHANGED sleepVars
  BY <1>7 DEF sleepVars, Prepared, DoneWith, LastIsWake, CaughtUp
<1> QED
  BY <1>1, <1>2, <1>3, <1>4, <1>5, <1>6, <1>7 DEF SleepNext, Machines

\* A sender that was connected hears sleeping before the machine stops, unless
\* the loop or the watcher took too long, and a watcher that has caught up with
\* the last wake holds its lock, for every number of sleeps.
THEOREM SenderHearsSleeping == SleepSpec => []SleepIsSaid
<1>1. SleepInit => SleepTyped /\ SleepInv
  <2> SUFFICES ASSUME SleepInit PROVE SleepTyped /\ SleepInv
    OBVIOUS
  <2>1. /\ << >> \in Seq(BOOLEAN) /\ << >> \in Seq(Nat)
        /\ << >> \in Seq(1 .. watcher.request)
    OBVIOUS
  <2> QED
    BY <2>1 DEF SleepInit, SleepTyped, SleepInv, Machines, Watchers, Loops, RequestsMade,
                LastIsWake, CaughtUp
<1>2. SleepTyped /\ SleepInv /\ [SleepNext]_sleepVars => (SleepTyped /\ SleepInv)'
  BY SleepStepTyped, SleepStepInv
<1>3. SleepInv => SleepIsSaid
  BY DEF SleepInv, SleepIsSaid
<1> QED
  BY <1>1, <1>2, <1>3, PTL DEF SleepSpec
-----------------------------------------------------------------------------
(* One sender at a time.                                                   *)

Processes == Rivals \cup Probes
Unoffering == {h \in Hellos : h.cursorPort = None}
Words == Hellos \cup [type : {"sleeping", "closing"}]
Connections ==
    [by : Processes \cup {None}, at : {"backlog", "newcomer", "current", "hungup", "dropped"},
     up : Seq({Welcome(OurPv)}), down : Seq(Words), quiet : BOOLEAN]
Places == {"start", "dial", "wait", "open", "drive", "backoff", "bailed", "stopped"}

AdoptionTyped ==
    /\ ReceiverTypeOK /\ rcv.offer # None
    /\ conn \in [Conns -> Connections]
    /\ pc \in [Processes -> Places]
    /\ port \in [Rivals -> Ports \cup {None}]

Connected(p) == pc[p] \in {"wait", "open", "drive"}

\* A process has one connection while it is connected, and none before and
\* after; what it was offered does not outlive the connection.
OneEach ==
    /\ \A c, d \in Conns : conn[c].by = conn[d].by /\ conn[c].by # None => c = d
    /\ \A p \in Processes : Connected(p) => \E c \in Conns : conn[c].by = p
    /\ \A c \in Conns : conn[c].by # None => Connected(conn[c].by)
    /\ \A p \in Rivals : port[p] # None => pc[p] \in {"open", "drive"}

\* Nothing was said yet on a connection that is not accepted,
Unheard(c) ==
    /\ conn[c].up = << >> /\ conn[c].down = << >>
    /\ conn[c].by \in Rivals => pc[conn[c].by] = "wait"

\* a newcomer is not offered the cursor port,
Provisionally(c) ==
    /\ conn[c].down \in Seq(Unoffering)
    /\ conn[c].by \in Rivals => port[conn[c].by] = None

\* and the last hello said to a sender that is served, read or not, offers it;
\* what it answered is under way or was heard.
InFull(c) ==
    /\ conn[c].down \in Seq(Hellos)
    /\ conn[c].by \in Rivals =>
         /\ IF conn[c].down = << >> THEN port[conn[c].by] # None
            ELSE conn[c].down[Len(conn[c].down)].cursorPort # None
         /\ pc[conn[c].by] \in {"open", "drive"} /\ conn[c].up = << >> => rcv.senderPv # None

Greeted(c) ==
    /\ conn[c].at = "backlog" => Unheard(c)
    /\ conn[c].at = "newcomer" => Provisionally(c)
    /\ conn[c].at = "current" => InFull(c)

AdoptionInv == AdoptionTyped /\ OneEach /\ OneSession /\ \A c \in Conns : Greeted(c)

-----------------------------------------------------------------------------
\* Letting go of a connection, at either end.
LEMMA NoConnTyped == NoConn \in Connections
<1>1. << >> \in Seq({Welcome(OurPv)}) /\ << >> \in Seq(Words)
  OBVIOUS
<1> QED
  BY <1>1 DEF NoConn, Connections

LEMMA LetGoIs ==
    ASSUME AdoptionTyped, NEW c \in Conns, NEW how \in {"hungup", "dropped"}
    PROVE  /\ LetGo(c, how) \in Connections
           /\ LetGo(c, how).by = conn[c].by
           /\ LetGo(c, how).at \in {"hungup", "dropped"}
<1>1. CASE conn[c].by = None
  BY <1>1, NoConnTyped DEF LetGo, NoConn
<1>2. CASE conn[c].by # None
  <2>1. << >> \in Seq({Welcome(OurPv)})
    OBVIOUS
  <2>2. conn[c] \in Connections /\ LetGo(c, how) = [conn[c] EXCEPT !.at = how, !.up = << >>]
    BY <1>2 DEF LetGo, AdoptionTyped
  <2> QED
    BY <2>1, <2>2 DEF Connections
<1> QED
  BY <1>1, <1>2

LEMMA SenderLetsGoIs ==
    ASSUME AdoptionTyped, NEW c \in Conns
    PROVE  /\ SenderLetsGo(c) \in Connections
           /\ SenderLetsGo(c).by = None
           /\ SenderLetsGo(c).down = << >>
           /\ \/ SenderLetsGo(c).at = conn[c].at /\ SenderLetsGo(c).up = conn[c].up
              \/ conn[c].at \in {"hungup", "dropped"} /\ SenderLetsGo(c).at = "dropped"
<1>1. CASE conn[c].at \in {"hungup", "dropped"}
  BY <1>1, NoConnTyped DEF SenderLetsGo, NoConn
<1>2. CASE conn[c].at \notin {"hungup", "dropped"}
  <2>1. << >> \in Seq(Words)
    OBVIOUS
  <2>2. /\ conn[c] \in Connections
        /\ SenderLetsGo(c) = [conn[c] EXCEPT !.by = None, !.down = << >>]
    BY <1>2 DEF SenderLetsGo, AdoptionTyped
  <2> QED
    BY <2>1, <2>2 DEF Connections
<1> QED
  BY <1>1, <1>2

LEMMA GreetingTyped ==
    ASSUME AdoptionTyped
    PROVE  HelloFrame \in Hellos /\ HelloFrame.cursorPort # None /\ Provisional \in Unoffering
<1>1. rcv.offer \in Ports \cup {None} /\ rcv.offer # None /\ OurPv \in Pvs
  BY WireAssumption DEF AdoptionTyped, ReceiverTypeOK
<1> QED
  BY <1>1 DEF HelloFrame, Provisional, Hellos, Unoffering

-----------------------------------------------------------------------------
\* A step of the receiver: who is at the far end of a connection, where the
\* senders are and what they were offered stays.
LEMMA HostStep ==
    ASSUME AdoptionInv, UNCHANGED <<pc, port>>,
           conn' \in [Conns -> Connections], ReceiverTypeOK', rcv'.offer # None,
           \A d \in Conns : conn'[d].by = conn[d].by,
           OneSession', \A d \in Conns : Greeted(d)'
    PROVE  AdoptionInv'
<1>1. OneEach'
  BY DEF AdoptionInv, OneEach, Connected
<1>2. AdoptionTyped'
  BY DEF AdoptionInv, AdoptionTyped
<1> QED
  BY <1>1, <1>2 DEF AdoptionInv

\* A connection that a step leaves alone, or ends.
LEMMA GreetedStill ==
    ASSUME NEW d \in Conns, Greeted(d), UNCHANGED <<pc, port>>,
           \/ conn'[d] = conn[d] /\ (conn[d].at # "current" \/ rcv'.senderPv = rcv.senderPv)
           \/ conn'[d].at \in {"hungup", "dropped"}
    PROVE  Greeted(d)'
BY DEF Greeted, Unheard, Provisionally, InFull

LEMMA Waiting ==
    ASSUME AdoptionInv, NEW c \in Conns, conn[c].at = "backlog", conn[c].by \in Rivals
    PROVE  pc[conn[c].by] = "wait" /\ port[conn[c].by] = None
BY DEF AdoptionInv, OneEach, Greeted, Unheard

LEMMA Accepts ==
    ASSUME AdoptionInv, NEW c \in Conns, Accept(c)
    PROVE  AdoptionInv'
<1>0. AdoptionTyped /\ OneEach /\ OneSession /\ \A d \in Conns : Greeted(d)
  BY DEF AdoptionInv
<1>1. conn[c] \in Connections /\ conn[c].at = "backlog" /\ UNCHANGED <<pc, port>>
  BY <1>0 DEF Accept, AdoptionTyped, sender
<1>2. CASE At("current") # {}
  <2>1. conn' = [conn EXCEPT ![c].at = "newcomer", ![c].down = <<Provisional>>] /\ UNCHANGED rcv
    BY <1>0, <1>2 DEF Accept, Greets
  <2>2. <<Provisional>> \in Seq(Unoffering) /\ <<Provisional>> \in Seq(Words)
    <3>1. Provisional \in Unoffering /\ Provisional \in Words
      BY <1>0, GreetingTyped DEF Unoffering, Words
    <3> QED
      BY <3>1
  <2>3. /\ conn' \in [Conns -> Connections]
        /\ conn'[c].by = conn[c].by /\ conn'[c].at = "newcomer" /\ conn'[c].down = <<Provisional>>
        /\ \A d \in Conns \ {c} : conn'[d] = conn[d]
    <3> DEFINE k == [conn[c] EXCEPT !.at = "newcomer", !.down = <<Provisional>>]
    <3>1. k \in Connections /\ k.by = conn[c].by /\ k.at = "newcomer" /\ k.down = <<Provisional>>
      BY <1>0, <1>1, <2>2 DEF Connections
    <3>2. conn' = [conn EXCEPT ![c] = k] /\ conn \in [Conns -> Connections]
      BY <1>0, <2>1 DEF AdoptionTyped
    <3> HIDE DEF k
    <3> QED
      BY <3>1, <3>2
  <2>4. Greeted(c)'
    BY <1>0, <1>1, <2>2, <2>3, Waiting DEF Greeted, Provisionally
  <2>5. \A d \in Conns \ {c} : Greeted(d)'
    BY <1>0, <1>1, <2>1, <2>3, GreetedStill
  <2>6. OneSession'
    BY <1>0, <1>1, <2>1, <2>3 DEF OneSession, At
  <2> QED
    BY <1>0, <1>1, <2>1, <2>3, <2>4, <2>5, <2>6, HostStep DEF AdoptionTyped, ReceiverTypeOK
<1>3. CASE At("current") = {}
  <2> DEFINE k == [conn[c] EXCEPT !.at = "current", !.down = <<HelloFrame>>]
  <2>1. conn' = Cleared(c, k) /\ ReceiverConnect
    BY <1>0, <1>3 DEF Accept, Greets
  <2>2. HelloFrame \in Hellos /\ HelloFrame.cursorPort # None
    BY <1>0, GreetingTyped
  <2>3. <<HelloFrame>> \in Seq(Hellos) /\ <<HelloFrame>> \in Seq(Words)
    <3>1. HelloFrame \in Hellos /\ HelloFrame \in Words
      BY <1>0, <2>2 DEF Words
    <3> QED
      BY <3>1
  <2>4. k \in Connections /\ k.by = conn[c].by /\ k.at = "current" /\ k.down = <<HelloFrame>>
    BY <1>0, <1>1, <2>3 DEF Connections
  <2> HIDE DEF k
  <2>5. \A d \in Conns :
          /\ conn'[d] \in Connections /\ conn'[d].by = conn[d].by
          /\ d = c => conn'[d] = k
          /\ d # c => conn'[d] = conn[d] \/ conn'[d].at \in {"hungup", "dropped"}
    BY <1>0, <2>1, <2>4, LetGoIs DEF Cleared, AdoptionTyped
  <2>6. conn' \in [Conns -> Connections]
    BY <1>0, <2>1, <2>5 DEF Cleared
  <2>7. ReceiverTypeOK' /\ rcv'.offer = rcv.offer /\ rcv'.connected = TRUE
    <3>1. ReceiverTypeOK'
      BY <1>0, <2>1, ReceiverStepTyped DEF AdoptionTyped, ReceiverNext
    <3> QED
      BY <1>0, <2>1, <3>1 DEF ReceiverConnect, Reset
  <2>8. Greeted(c)'
    <3>1. \A h : <<h>>[Len(<<h>>)] = h /\ <<h>> # << >>
      OBVIOUS
    <3>2. conn'[c].down # << >> /\ conn'[c].down[Len(conn'[c].down)] = HelloFrame
      BY SMTT(30), <2>4, <2>5, <3>1
    <3>3. conn[c].by \in Rivals => pc[conn[c].by] = "wait"
      BY <1>1, Waiting
    <3> QED
      BY <1>1, <2>2, <2>3, <2>4, <2>5, <3>2, <3>3 DEF Greeted, InFull
  <2>9. \A d \in Conns \ {c} : Greeted(d)'
    BY <1>0, <1>1, <1>3, <2>5, GreetedStill DEF At
  <2>10. OneSession'
    BY <1>0, <1>3, <2>4, <2>5, <2>7 DEF OneSession, At
  <2> QED
    BY <1>0, <1>1, <2>5, <2>6, <2>7, <2>8, <2>9, <2>10, HostStep DEF AdoptionTyped
<1> QED
  BY <1>0, <1>2, <1>3

LEMMA Adopts ==
    ASSUME AdoptionInv, NEW c \in Conns, NewcomerSpeaks(c)
    PROVE  AdoptionInv'
<1>0. AdoptionTyped /\ OneEach /\ OneSession /\ \A d \in Conns : Greeted(d)
  BY DEF AdoptionInv
<1> DEFINE k == [conn[c] EXCEPT !.at = "current", !.up = Tail(@), !.down = GreetedAgain(c)]
<1>1. /\ conn[c] \in Connections /\ conn[c].at = "newcomer" /\ conn[c].up # << >>
      /\ UNCHANGED <<pc, port>> /\ rcv' = Proved(Head(conn[c].up))
      /\ conn' = [d \in Conns |-> IF conn[d].at = "current" THEN LetGo(d, "hungup")
                                  ELSE Cleared(c, k)[d]]
  BY <1>0 DEF NewcomerSpeaks, AdoptionTyped, sender
<1>2. Tail(conn[c].up) \in Seq({Welcome(OurPv)}) /\ Head(conn[c].up).pv = OurPv
  <2>1. conn[c].up \in Seq({Welcome(OurPv)})
    BY <1>1 DEF Connections
  <2>2. Tail(conn[c].up) \in Seq({Welcome(OurPv)}) /\ Head(conn[c].up) \in {Welcome(OurPv)}
    BY <1>1, <2>1, HeadTailProperties
  <2> QED
    BY <2>2 DEF Welcome
<1>3. /\ GreetedAgain(c) \in Seq(Hellos) /\ GreetedAgain(c) \in Seq(Words) /\ GreetedAgain(c) # << >>
      /\ GreetedAgain(c)[Len(GreetedAgain(c))].cursorPort # None
  <2>1. HelloFrame \in Hellos /\ HelloFrame.cursorPort # None
    BY <1>0, GreetingTyped
  <2>2. conn[c].down \in Seq(Hellos)
    <3>1. conn[c].down \in Seq(Unoffering) /\ Unoffering \subseteq Hellos
      BY <1>0, <1>1 DEF Greeted, Provisionally, Unoffering
    <3> QED
      BY <3>1, SeqMonotonic
  <2>3. GreetedAgain(c) \in Seq(Hellos) /\ Hellos \subseteq Words
    BY <2>1, <2>2, AppendProperties DEF GreetedAgain, Words
  <2>4. GreetedAgain(c) \in Seq(Words)
    BY <2>3, SeqMonotonic
  <2> QED
    BY <2>1, <2>2, <2>3, <2>4, LastOfAppend DEF GreetedAgain
<1>4. k \in Connections /\ k.by = conn[c].by /\ k.at = "current" /\ k.down = GreetedAgain(c)
  <2> HIDE DEF k
  <2>1. k = [conn[c] EXCEPT !.at = "current", !.up = Tail(conn[c].up), !.down = GreetedAgain(c)]
    BY DEF k
  <2> QED
    BY <1>1, <1>2, <1>3, <2>1 DEF Connections
<1> HIDE DEF k
<1>5. \A d \in Conns :
        /\ conn'[d] \in Connections /\ conn'[d].by = conn[d].by
        /\ d = c => conn'[d] = k
        /\ d # c => \/ conn'[d].at \in {"hungup", "dropped"}
                    \/ conn'[d] = conn[d] /\ conn[d].at # "current"
  BY <1>0, <1>1, <1>4, LetGoIs DEF Cleared, AdoptionTyped
<1>6. conn' \in [Conns -> Connections]
  BY <1>1, <1>5
<1>7. /\ ReceiverTypeOK' /\ rcv'.offer = rcv.offer
      /\ rcv'.connected = TRUE /\ rcv'.senderPv # None
  <2>1. rcv.offer \in Ports \cup {None} /\ OurPv \in Pvs /\ OurPv # None
    BY <1>0, WireAssumption DEF AdoptionTyped, ReceiverTypeOK
  <2>2. rcv' = [Reset(TRUE, rcv.offer) EXCEPT !.senderPv = OurPv]
    BY <1>1, <1>2 DEF Proved
  <2> DEFINE fresh == Reset(TRUE, rcv.offer)
  <2>3. fresh.offer = rcv.offer /\ fresh.connected = TRUE
    BY DEF Reset
  <2>4. /\ fresh \in [connected : BOOLEAN, offer : Ports \cup {None}, senderPv : Pvs \cup {None},
                     params : ParamSets \cup {None}, waitingForIdr : BOOLEAN,
                     cursorSeq : CursorSeqs \cup {None}, udpFlow : Flows \cup {None},
                     udpAcked : BOOLEAN, rxAge : RxAges, pingIn : PingWaits,
                     kfAge : KfAges \cup {None}]
        /\ rcv' = [fresh EXCEPT !.senderPv = OurPv]
    BY <2>1, <2>2, ResetTyped
  <2> HIDE DEF fresh
  <2> QED
    BY <1>0, <2>1, <2>3, <2>4 DEF ReceiverTypeOK, AdoptionTyped
<1>8. \A d \in Conns : Greeted(d)'
  <2>1. Greeted(c)'
    BY <1>3, <1>4, <1>5, <1>7 DEF Greeted, InFull
  <2>2. \A d \in Conns \ {c} : Greeted(d)'
    BY <1>0, <1>1, <1>5, GreetedStill
  <2> QED
    BY <2>1, <2>2
<1>9. OneSession'
  BY <1>4, <1>5, <1>7 DEF OneSession, At
<1> QED
  BY <1>0, <1>1, <1>5, <1>6, <1>7, <1>8, <1>9, HostStep DEF AdoptionTyped

\* The served connection is heard.
LEMMA Listens ==
    ASSUME AdoptionInv, NEW c \in Conns, CurrentSpeaks(c)
    PROVE  AdoptionInv'
<1>0. AdoptionTyped /\ OneEach /\ OneSession /\ \A d \in Conns : Greeted(d)
  BY DEF AdoptionInv
<1>1. /\ conn[c] \in Connections /\ conn[c].at = "current" /\ conn[c].up # << >>
      /\ UNCHANGED <<pc, port>> /\ ReceiverHears(Head(conn[c].up))
      /\ conn' = [conn EXCEPT ![c] = [conn[c] EXCEPT !.up = Tail(conn[c].up)]]
  BY <1>0 DEF CurrentSpeaks, AdoptionTyped, sender
<1>2. Tail(conn[c].up) \in Seq({Welcome(OurPv)}) /\ Head(conn[c].up) = Welcome(OurPv)
  <2>1. conn[c].up \in Seq({Welcome(OurPv)})
    BY <1>1 DEF Connections
  <2> QED
    BY <1>1, <2>1, HeadTailProperties
<1>3. HearWelcome(Welcome(OurPv))
  BY <1>1, <1>2 DEF ReceiverHears, Welcome, PassedDown
<1>4. /\ ReceiverTypeOK' /\ rcv'.offer = rcv.offer
      /\ rcv'.connected = rcv.connected /\ rcv'.senderPv # None
  <2>1. OurPv \in Pvs /\ OurPv # None
    BY WireAssumption
  <2>2. ReceiverTypeOK'
    BY <1>0, <1>3, <2>1, ReceiverStepTyped DEF AdoptionTyped, ReceiverNext
  <2> QED
    BY <1>0, <1>3, <2>1, <2>2 DEF HearWelcome, Welcome, AdoptionTyped, ReceiverTypeOK
<1> DEFINE k == [conn[c] EXCEPT !.up = Tail(conn[c].up)]
<1>5. /\ k \in Connections /\ k.by = conn[c].by /\ k.at = conn[c].at
      /\ k.down = conn[c].down
  BY <1>1, <1>2 DEF Connections
<1> HIDE DEF k
<1>6. /\ conn' \in [Conns -> Connections] /\ conn'[c] = k
      /\ \A d \in Conns \ {c} : conn'[d] = conn[d]
  BY <1>0, <1>1, <1>5 DEF AdoptionTyped, k
<1>7. \A d \in Conns : Greeted(d)'
  <2>1. Greeted(c)'
    BY <1>0, <1>1, <1>4, <1>5, <1>6 DEF Greeted, InFull
  <2>2. \A d \in Conns \ {c} : Greeted(d)'
    BY <1>0, <1>1, <1>6, GreetedStill DEF OneSession, At
  <2> QED
    BY <2>1, <2>2
<1>8. OneSession'
  BY <1>0, <1>4, <1>5, <1>6 DEF OneSession, At
<1> QED
  BY <1>0, <1>1, <1>4, <1>5, <1>6, <1>7, <1>8, HostStep DEF AdoptionTyped

\* Connections end, and the served one among them ends the session.
LEMMA Ending ==
    ASSUME AdoptionInv, UNCHANGED <<pc, port>>, conn' \in [Conns -> Connections],
           \A d \in Conns : /\ conn'[d].by = conn[d].by
                            /\ conn'[d] = conn[d] \/ conn'[d].at \in {"hungup", "dropped"},
           \/ /\ UNCHANGED rcv
              /\ \A d \in Conns : conn[d].at = "current" => conn'[d] = conn[d]
           \/ /\ ReceiverDisconnect
              /\ \A d \in Conns : conn[d].at = "current" => conn'[d].at \in {"hungup", "dropped"}
    PROVE  AdoptionInv'
<1>0. AdoptionTyped /\ OneEach /\ OneSession /\ \A d \in Conns : Greeted(d)
  BY DEF AdoptionInv
<1>1. ReceiverTypeOK' /\ rcv'.offer = rcv.offer /\ rcv'.senderPv = rcv.senderPv
  BY <1>0 DEF AdoptionTyped, ReceiverTypeOK, ReceiverDisconnect
<1>2. \A d \in Conns : Greeted(d)'
  BY <1>0, <1>1, GreetedStill
<1>3. OneSession'
  <2>1. CASE UNCHANGED rcv /\ \A d \in Conns : conn[d].at = "current" => conn'[d] = conn[d]
    BY <1>0, <2>1 DEF OneSession, At
  <2>2. CASE /\ ReceiverDisconnect
             /\ \A d \in Conns : conn[d].at = "current" => conn'[d].at \in {"hungup", "dropped"}
    <3>1. rcv'.connected = FALSE
      BY <1>0, <2>2 DEF ReceiverDisconnect, AdoptionTyped, ReceiverTypeOK
    <3>2. \A d \in Conns : conn'[d].at # "current"
      BY <2>2
    <3> QED
      BY <3>1, <3>2 DEF OneSession, At
  <2> QED
    BY <2>1, <2>2
<1> QED
  BY <1>0, <1>1, <1>2, <1>3, HostStep DEF AdoptionTyped

LEMMA Goes ==
    ASSUME AdoptionInv, NEW c \in Conns, NewcomerGoes(c) \/ CurrentGoes(c)
    PROVE  AdoptionInv'
<1>0. AdoptionTyped /\ OneSession
  BY DEF AdoptionInv
<1>1. conn' = [conn EXCEPT ![c] = LetGo(c, "dropped")] /\ UNCHANGED <<pc, port>>
  BY DEF NewcomerGoes, CurrentGoes, sender
<1>2. /\ conn' \in [Conns -> Connections] /\ conn'[c].by = conn[c].by
      /\ conn'[c].at \in {"hungup", "dropped"} /\ \A d \in Conns \ {c} : conn'[d] = conn[d]
  BY <1>0, <1>1, LetGoIs DEF AdoptionTyped
<1>3. CASE NewcomerGoes(c)
  BY <1>1, <1>2, <1>3, Ending DEF NewcomerGoes
<1>4. CASE CurrentGoes(c)
  <2>1. conn[c].at = "current" /\ ReceiverDisconnect
    BY <1>4 DEF CurrentGoes
  <2>2. \A d \in Conns : conn[d].at = "current" => d = c
    BY <1>0, <2>1 DEF OneSession, At
  <2> QED
    BY <1>1, <1>2, <2>1, <2>2, Ending
<1> QED
  BY <1>3, <1>4

LEMMA GoodbyeIs ==
    ASSUME AdoptionTyped, NEW c \in Conns, NEW what \in {"sleeping", "closing"}
    PROVE  /\ SaysGoodbye(c, what) \in Connections
           /\ SaysGoodbye(c, what).by = conn[c].by
           /\ SaysGoodbye(c, what).at \in {"hungup", "dropped"}
<1>1. LastWord(c, what) \in Seq(Words)
  <2>1. conn[c].down \in Seq(Words) /\ << >> \in Seq(Words)
    BY DEF AdoptionTyped, Connections
  <2>2. [type |-> what] \in Words
    BY DEF Words
  <2> QED
    BY <2>1, <2>2, AppendProperties DEF LastWord
<1>2. LetGo(c, "hungup") \in Connections
  BY LetGoIs
<1> QED
  BY <1>1, <1>2, LetGoIs DEF SaysGoodbye, Connections

LEMMA LastWords ==
    ASSUME AdoptionInv, Sleeps \/ Shuts
    PROVE  AdoptionInv'
<1>0. AdoptionTyped /\ OneSession
  BY DEF AdoptionInv
<1>1. CASE Sleeps
  <2>1. PICK c \in At("current") : FallsAsleep(c)
    BY <1>1 DEF Sleeps
  <2>2. c \in Conns /\ conn' = [conn EXCEPT ![c] = SaysGoodbye(c, "sleeping")]
    BY <2>1 DEF FallsAsleep, At
  <2>3. /\ conn' \in [Conns -> Connections] /\ conn'[c].by = conn[c].by
        /\ conn'[c].at \in {"hungup", "dropped"} /\ \A d \in Conns \ {c} : conn'[d] = conn[d]
    BY <1>0, <2>2, GoodbyeIs DEF AdoptionTyped
  <2>4. ReceiverDisconnect /\ \A d \in Conns : conn[d].at = "current" => d = c
    BY <1>0, <2>1 DEF OneSession, At, FallsAsleep
  <2>5. UNCHANGED <<pc, port>>
    BY <1>1 DEF Sleeps, sender
  <2> QED
    BY <2>3, <2>4, <2>5, Ending
<1>2. CASE Shuts
  <2>1. \A d \in Conns : /\ conn'[d] \in Connections /\ conn'[d].by = conn[d].by
                         /\ conn'[d].at \in {"hungup", "dropped"}
    BY <1>0, <1>2, GoodbyeIs, LetGoIs DEF Shuts
  <2>2. conn' \in [Conns -> Connections] /\ ReceiverDisconnect /\ UNCHANGED <<pc, port>>
    BY <1>2, <2>1 DEF Shuts, sender
  <2> QED
    BY <2>1, <2>2, Ending
<1> QED
  BY <1>1, <1>2

LEMMA Quietens ==
    ASSUME AdoptionInv, NEW c \in Conns, GoesQuiet(c)
    PROVE  AdoptionInv'
<1>0. AdoptionTyped /\ OneEach /\ OneSession /\ \A d \in Conns : Greeted(d)
  BY DEF AdoptionInv
<1>1. /\ UNCHANGED <<rcv, pc, port>> /\ conn[c] \in Connections
      /\ conn' = [conn EXCEPT ![c] = [conn[c] EXCEPT !.quiet = TRUE]]
  BY <1>0 DEF GoesQuiet, sender, AdoptionTyped
<1>2. /\ conn' \in [Conns -> Connections]
      /\ \A d \in Conns : /\ conn'[d].by = conn[d].by /\ conn'[d].at = conn[d].at
                          /\ conn'[d].up = conn[d].up /\ conn'[d].down = conn[d].down
  BY <1>0, <1>1 DEF AdoptionTyped, Connections
<1>3. \A d \in Conns : Greeted(d)'
  BY <1>0, <1>1, <1>2 DEF Greeted, Unheard, Provisionally, InFull
<1>4. OneSession'
  BY <1>0, <1>1, <1>2 DEF OneSession, At
<1> QED
  BY <1>0, <1>1, <1>2, <1>3, <1>4, HostStep DEF AdoptionTyped, ReceiverTypeOK

-----------------------------------------------------------------------------
\* A step of a process on the connection it has.
LEMMA OwnConnection ==
    ASSUME AdoptionInv, NEW p \in Processes, Connected(p)
    PROVE  ConnOf(p) \in Conns /\ conn[ConnOf(p)].by = p
BY DEF AdoptionInv, OneEach, ConnOf

LEMMA StaysConnected ==
    ASSUME AdoptionInv, NEW p \in Processes, NEW c \in Conns, conn[c].by = p, UNCHANGED rcv,
           NEW k \in Connections, k.by = p, k.at = conn[c].at, conn' = [conn EXCEPT ![c] = k],
           NEW where \in {"wait", "open", "drive"}, pc' = [pc EXCEPT ![p] = where],
           port' \in [Rivals -> Ports \cup {None}],
           \A q \in Rivals \ {p} : port'[q] = port[q],
           p \in Rivals /\ port'[p] # None => where \in {"open", "drive"},
           Greeted(c)'
    PROVE  AdoptionInv'
<1>0. AdoptionTyped /\ OneEach /\ OneSession /\ \A d \in Conns : Greeted(d)
  BY DEF AdoptionInv
<1>1. p # None
  BY AdoptionAssumption DEF Processes
<1>2. /\ conn' \in [Conns -> Connections] /\ conn'[c] = k
      /\ \A d \in Conns \ {c} : conn'[d] = conn[d] /\ conn[d].by # p
  BY <1>0, <1>1 DEF AdoptionTyped, OneEach
<1>3. /\ pc' \in [Processes -> Places] /\ pc'[p] = where
      /\ \A q \in Processes \ {p} : pc'[q] = pc[q]
  BY <1>0 DEF AdoptionTyped, Places
<1>4. AdoptionTyped'
  BY <1>0, <1>2, <1>3 DEF AdoptionTyped, ReceiverTypeOK
<1>5. OneEach'
  <2>1. \A d \in Conns : conn'[d].by = conn[d].by
    BY <1>2
  <2>2. \A q \in Processes : Connected(q)' <=> Connected(q)
    <3>1. Connected(p) /\ Connected(p)'
      BY <1>0, <1>1, <1>3 DEF OneEach, Connected
    <3> QED
      BY <1>3, <3>1 DEF Connected
  <2>3. \A d \in Conns : conn[d].by # None => conn[d].by \in Processes
    BY <1>0 DEF AdoptionTyped, Connections
  <2>4. \A q \in Rivals : port'[q] # None => pc'[q] \in {"open", "drive"}
    BY <1>0, <1>3 DEF OneEach, Processes
  <2> QED
    BY <1>0, <2>1, <2>2, <2>3, <2>4 DEF OneEach
<1>6. OneSession'
  BY <1>0, <1>2 DEF OneSession, At
<1>7. ASSUME NEW d \in Conns \ {c} PROVE Greeted(d)'
  BY <1>0, <1>2, <1>3, <1>7 DEF Greeted, Unheard, Provisionally, InFull, Processes
<1> QED
  BY <1>4, <1>5, <1>6, <1>7 DEF AdoptionInv

LEMMA Leaves ==
    ASSUME AdoptionInv, NEW p \in Processes, NEW c \in Conns, conn[c].by = p, UNCHANGED rcv,
           conn' = [conn EXCEPT ![c] = SenderLetsGo(c)],
           NEW where \in Places \ {"wait", "open", "drive"}, pc' = [pc EXCEPT ![p] = where],
           port' \in [Rivals -> Ports \cup {None}],
           \A q \in Rivals \ {p} : port'[q] = port[q],
           p \in Rivals => port'[p] = None
    PROVE  AdoptionInv'
<1>0. AdoptionTyped /\ OneEach /\ OneSession /\ \A d \in Conns : Greeted(d)
  BY DEF AdoptionInv
<1>1. p # None /\ None \notin Rivals
  BY AdoptionAssumption DEF Processes
<1>2. /\ conn' \in [Conns -> Connections] /\ conn'[c] = SenderLetsGo(c)
      /\ \A d \in Conns \ {c} : conn'[d] = conn[d] /\ conn[d].by # p
  BY <1>0, <1>1, SenderLetsGoIs DEF AdoptionTyped, OneEach
<1>3. /\ pc' \in [Processes -> Places] /\ pc'[p] = where
      /\ \A q \in Processes \ {p} : pc'[q] = pc[q]
  BY <1>0 DEF AdoptionTyped, Places
<1>4. AdoptionTyped'
  BY <1>0, <1>2, <1>3 DEF AdoptionTyped, ReceiverTypeOK
<1>5. /\ conn'[c].by = None /\ conn'[c].down = << >>
      /\ \/ conn'[c].at = conn[c].at /\ conn'[c].up = conn[c].up
         \/ conn[c].at \in {"hungup", "dropped"} /\ conn'[c].at = "dropped"
  BY <1>0, <1>2, SenderLetsGoIs
<1>6. OneEach'
  <2>1. ~Connected(p)' /\ \A q \in Processes \ {p} : Connected(q)' <=> Connected(q)
    BY <1>3 DEF Connected
  <2>2. \A d \in Conns : conn[d].by # None => conn[d].by \in Processes
    BY <1>0 DEF AdoptionTyped, Connections
  <2>3. \A q \in Rivals : port'[q] # None => pc'[q] \in {"open", "drive"}
    BY <1>0, <1>3 DEF OneEach, Processes
  <2>4. \A q \in Processes \ {p} : Connected(q) => \E d \in Conns \ {c} : conn[d].by = q
    BY <1>0 DEF OneEach
  <2>5. \A d, e \in Conns : conn'[d].by = conn'[e].by /\ conn'[d].by # None => d = e
    BY <1>0, <1>2, <1>5 DEF OneEach
  <2>6. (\A d \in Conns : conn[d].by # None => Connected(conn[d].by))'
    <3>1. \A d \in Conns \ {c} : conn[d].by # None => pc'[conn'[d].by] \in {"wait", "open", "drive"}
      BY <1>0, <1>2, <1>3, <2>2 DEF OneEach, Connected
    <3> QED
      BY <1>2, <1>5, <3>1 DEF Connected
  <2>7. \A q \in Processes : Connected(q)' => \E d \in Conns : conn'[d].by = q
    BY <1>2, <2>1, <2>4
  <2> QED
    BY <2>3, <2>5, <2>6, <2>7 DEF OneEach
<1>7. OneSession'
  BY <1>0, <1>2, <1>5 DEF OneSession, At
<1>8. Greeted(c)'
  <2>1. << >> \in Seq(Unoffering) /\ << >> \in Seq(Hellos)
    OBVIOUS
  <2> QED
    BY <1>0, <1>1, <1>5, <2>1 DEF Greeted, Unheard, Provisionally, InFull
<1>9. ASSUME NEW d \in Conns \ {c} PROVE Greeted(d)'
  BY <1>0, <1>2, <1>3, <1>9 DEF Greeted, Unheard, Provisionally, InFull, Processes
<1> QED
  BY <1>4, <1>6, <1>7, <1>8, <1>9 DEF AdoptionInv

\* A step of a process that is not connected, before and after.
LEMMA StaysAway ==
    ASSUME AdoptionInv, NEW p \in Processes, ~Connected(p), UNCHANGED <<rcv, conn, port>>,
           NEW where \in Places \ {"wait", "open", "drive"}, pc' = [pc EXCEPT ![p] = where]
    PROVE  AdoptionInv'
<1>0. AdoptionTyped /\ OneEach /\ OneSession /\ \A d \in Conns : Greeted(d)
  BY DEF AdoptionInv
<1>1. /\ pc' \in [Processes -> Places] /\ pc'[p] = where
      /\ \A q \in Processes \ {p} : pc'[q] = pc[q]
  BY <1>0 DEF AdoptionTyped, Places
<1>2. \A d \in Conns : conn[d].by # None => conn[d].by \in Processes \ {p}
  BY <1>0 DEF AdoptionTyped, Connections, OneEach
<1>3. AdoptionTyped' /\ OneSession'
  BY <1>0, <1>1 DEF AdoptionTyped, ReceiverTypeOK, OneSession, At
<1>4. OneEach'
  <2>1. \A q \in Processes : Connected(q)' <=> Connected(q)
    BY <1>1 DEF Connected
  <2>2. \A q \in Rivals : port'[q] # None => pc'[q] \in {"open", "drive"}
    BY <1>0, <1>1 DEF OneEach, Connected, Processes
  <2> QED
    BY <1>0, <1>2, <2>1, <2>2 DEF OneEach
<1>5. ASSUME NEW d \in Conns PROVE Greeted(d)'
  <2>1. conn[d].by \in Rivals => pc'[conn[d].by] = pc[conn[d].by]
    BY <1>1, <1>2, AdoptionAssumption
  <2> QED
    BY <1>0, <2>1 DEF Greeted, Unheard, Provisionally, InFull
<1> QED
  BY <1>3, <1>4, <1>5 DEF AdoptionInv

LEMMA Dials ==
    ASSUME AdoptionInv, NEW p \in Processes, Dial(p)
    PROVE  AdoptionInv'
<1>0. AdoptionTyped /\ OneEach /\ OneSession /\ \A d \in Conns : Greeted(d)
  BY DEF AdoptionInv
<1>c. PICK c \in Conns : Free(c) /\ c = CHOOSE d \in Conns : Free(d)
  BY DEF Dial
<1> DEFINE k == [NoConn EXCEPT !.by = p, !.at = "backlog"]
<1>1. conn[c] = NoConn
  BY <1>c DEF Free
<1>2. /\ conn' = [conn EXCEPT ![c] = k] /\ pc[p] = "dial" /\ pc' = [pc EXCEPT ![p] = "wait"]
      /\ UNCHANGED <<rcv, port>>
  BY <1>c DEF Dial
<1>3. /\ k \in Connections /\ k.by = p /\ k.at = "backlog" /\ k.up = << >> /\ k.down = << >>
  <2>1. NoConn \in Connections /\ NoConn.up = << >> /\ NoConn.down = << >>
    BY NoConnTyped DEF NoConn
  <2> QED
    BY <2>1 DEF Connections
<1>4. conn[c].at = "dropped" /\ conn[c].by = None
  BY <1>1 DEF NoConn
<1> HIDE DEF k
<1>5. /\ conn' \in [Conns -> Connections] /\ conn'[c] = k
      /\ \A d \in Conns \ {c} : conn'[d] = conn[d]
  BY <1>0, <1>1, <1>2, <1>3 DEF AdoptionTyped
<1>6. /\ pc' \in [Processes -> Places] /\ pc'[p] = "wait"
      /\ \A q \in Processes \ {p} : pc'[q] = pc[q]
  BY <1>0, <1>2 DEF AdoptionTyped, Places
<1>7. AdoptionTyped'
  BY <1>0, <1>2, <1>5, <1>6 DEF AdoptionTyped, ReceiverTypeOK
<1>8. p # None /\ \A d \in Conns : conn[d].by # None => conn[d].by \in Processes \ {p}
  BY <1>0, <1>2, AdoptionAssumption DEF AdoptionTyped, Connections, OneEach, Connected, Processes
<1>9. OneEach'
  <2>1. Connected(p)' /\ \A q \in Processes \ {p} : Connected(q)' <=> Connected(q)
    BY <1>6 DEF Connected
  <2>2. \A q \in Rivals : port'[q] # None => pc'[q] \in {"open", "drive"}
    BY <1>0, <1>2, <1>6 DEF OneEach, Processes
  <2>3. \A d, e \in Conns : conn'[d].by = conn'[e].by /\ conn'[d].by # None => d = e
    BY <1>0, <1>3, <1>5, <1>8 DEF OneEach
  <2>4. \A d \in Conns : conn'[d].by # None => pc'[conn'[d].by] \in {"wait", "open", "drive"}
    BY <1>0, <1>3, <1>5, <1>6, <1>8 DEF OneEach, Connected
  <2>5. \A q \in Processes : Connected(q)' => \E d \in Conns : conn'[d].by = q
    <3>1. ASSUME NEW q \in Processes \ {p}, Connected(q)
          PROVE  \E d \in Conns \ {c} : conn[d].by = q
      BY <1>0, <1>4, <3>1, AdoptionAssumption DEF OneEach, Processes
    <3> QED
      BY <1>1, <1>3, <1>5, <2>1, <3>1
  <2> QED
    BY <2>2, <2>3, <2>4, <2>5 DEF OneEach, Connected
<1>10. OneSession'
  BY <1>0, <1>2, <1>3, <1>4, <1>5 DEF OneSession, At
<1>11. Greeted(c)'
  BY <1>3, <1>5, <1>6 DEF Greeted, Unheard
<1>12. ASSUME NEW d \in Conns \ {c} PROVE Greeted(d)'
  <2>1. conn[d].by \in Rivals => pc'[conn[d].by] = pc[conn[d].by]
    BY <1>6, <1>8, AdoptionAssumption
  <2> QED
    BY <1>0, <1>2, <1>5, <2>1 DEF Greeted, Unheard, Provisionally, InFull
<1> QED
  BY <1>7, <1>9, <1>10, <1>11, <1>12 DEF AdoptionInv

\* The answer to a hello: what the hello offers is what the sender has now.
LEMMA GreetedByReply ==
    ASSUME AdoptionInv, NEW p \in Rivals, NEW c \in Conns, conn[c].by = p, UNCHANGED rcv,
           conn[c].down # << >>, Head(conn[c].down).type = "hello",
           conn' = [conn EXCEPT ![c] = Reply(c)],
           port' = [port EXCEPT ![p] = Head(conn[c].down).cursorPort]
    PROVE  /\ Reply(c) \in Connections /\ Reply(c).by = p /\ Reply(c).at = conn[c].at
           /\ port' \in [Rivals -> Ports \cup {None}]
           /\ \A q \in Rivals \ {p} : port'[q] = port[q]
           /\ Greeted(c)'
<1>0. AdoptionTyped /\ Greeted(c)
  BY DEF AdoptionInv
<1> DEFINE first == Head(conn[c].down)
           rest == Tail(conn[c].down)
           said == Append(conn[c].up, Welcome(OurPv))
<1>1. conn[c] \in Connections /\ Reply(c) = [conn[c] EXCEPT !.down = rest, !.up = said]
  BY <1>0 DEF AdoptionTyped, Reply
<1>2. rest \in Seq(Words) /\ first \in Words
  <2>1. conn[c].down \in Seq(Words)
    BY <1>1 DEF Connections
  <2> QED
    BY <2>1, HeadTailProperties
<1>3. said \in Seq({Welcome(OurPv)}) /\ said # << >>
  <2>1. conn[c].up \in Seq({Welcome(OurPv)})
    BY <1>1 DEF Connections
  <2> QED
    BY <2>1, LastOfAppend, AppendProperties
<1>4. first.cursorPort \in Ports \cup {None}
  BY <1>2 DEF Words, Hellos
<1>5. conn[c].at = "newcomer" => rest \in Seq(Unoffering) /\ first.cursorPort = None
  <2> SUFFICES ASSUME conn[c].at = "newcomer"
               PROVE  rest \in Seq(Unoffering) /\ first \in Unoffering
    BY DEF Unoffering
  <2>1. conn[c].down \in Seq(Unoffering)
    BY <1>0 DEF Greeted, Provisionally
  <2> QED
    BY <2>1, HeadTailProperties
<1>6. conn[c].at = "current" =>
        /\ rest \in Seq(Hellos)
        /\ IF rest = << >> THEN first.cursorPort # None ELSE rest[Len(rest)].cursorPort # None
  <2> SUFFICES ASSUME conn[c].at = "current"
               PROVE  /\ rest \in Seq(Hellos)
                      /\ IF rest = << >> THEN first.cursorPort # None
                         ELSE rest[Len(rest)].cursorPort # None
    OBVIOUS
  <2>1. conn[c].down \in Seq(Hellos) /\ conn[c].down[Len(conn[c].down)].cursorPort # None
    BY <1>0 DEF Greeted, InFull
  <2>2. rest \in Seq(Hellos) /\ Len(rest) = Len(conn[c].down) - 1 /\ Len(conn[c].down) \in Nat
    BY <2>1, HeadTailProperties
  <2>3. CASE Len(conn[c].down) = 1
    BY <2>1, <2>2, <2>3, LastOfTail
  <2>4. CASE Len(conn[c].down) # 1
    BY <2>1, <2>2, <2>4, LastOfTail
  <2> QED
    BY <2>3, <2>4
<1> HIDE DEF first, rest, said
<1>7. Reply(c) \in Connections /\ Reply(c).by = p /\ Reply(c).at = conn[c].at
      /\ Reply(c).down = rest /\ Reply(c).up = said
  BY <1>1, <1>2, <1>3 DEF Connections
<1>8. /\ port' \in [Rivals -> Ports \cup {None}] /\ port'[p] = first.cursorPort
      /\ \A q \in Rivals \ {p} : port'[q] = port[q]
  BY <1>0, <1>4 DEF AdoptionTyped, first
<1>9. conn'[c] = Reply(c)
  BY <1>0 DEF AdoptionTyped
<1>10. conn[c].at # "backlog"
  BY <1>0 DEF Greeted, Unheard
<1>11. Greeted(c)'
  BY <1>3, <1>5, <1>6, <1>7, <1>8, <1>9, <1>10 DEF Greeted, Provisionally, InFull
<1> QED
  BY <1>7, <1>8, <1>11

LEMMA EndsIs ==
    ASSUME AdoptionTyped, NEW p \in Rivals, NEW where, SessionEnds(p, where)
    PROVE  /\ pc' = [pc EXCEPT ![p] = where]
           /\ port' \in [Rivals -> Ports \cup {None}] /\ port'[p] = None
           /\ \A q \in Rivals \ {p} : port'[q] = port[q]
BY DEF SessionEnds, AdoptionTyped

LEMMA SenderSteps ==
    ASSUME AdoptionInv, NEW p \in Rivals, Sender(p) \/ Stops(p)
    PROVE  AdoptionInv'
<1>0. AdoptionTyped /\ OneEach /\ \A d \in Conns : Greeted(d)
  BY DEF AdoptionInv
<1>p. p \in Processes /\ p # None /\ p \notin Probes
  BY AdoptionAssumption DEF Processes
<1>c. Connected(p) => ConnOf(p) \in Conns /\ conn[ConnOf(p)].by = p
  BY <1>p, OwnConnection
<1>1. CASE Starts(p) \/ Redials(p)
  <2>1. PICK where \in {"bailed", "dial"} : pc' = [pc EXCEPT ![p] = where]
    BY <1>1 DEF Starts, Redials
  <2>2. ~Connected(p) /\ UNCHANGED <<rcv, conn, port>> /\ where \in Places \ {"wait", "open", "drive"}
    BY <1>1 DEF Starts, Redials, Connected, Places
  <2> QED
    BY <1>p, <2>1, <2>2, StaysAway
<1>2. CASE HearsHello(p)
  <2>c. PICK c \in Conns : c = ConnOf(p)
    BY <1>2, <1>c DEF HearsHello, Hears, Connected
  <2>1. /\ Connected(p) /\ c \in Conns /\ conn[c].by = p /\ UNCHANGED rcv
        /\ conn[c].down # << >> /\ Head(conn[c].down).type = "hello"
    BY <1>2, <1>c, <2>c DEF HearsHello, Hears, Connected
  <2>2. CASE Conflict(p)
    <3>1. SessionEnds(p, "bailed") /\ conn' = [conn EXCEPT ![c] = SenderLetsGo(c)]
      BY <1>2, <2>2, <2>c DEF HearsHello
    <3> QED
      BY <1>0, <1>p, <2>1, <3>1, EndsIs, Leaves DEF Places
  <2>3. CASE ~Conflict(p)
    <3>1. /\ pc' = [pc EXCEPT ![p] = "open"]
          /\ port' = [port EXCEPT ![p] = Head(conn[c].down).cursorPort]
          /\ conn' = [conn EXCEPT ![c] = Reply(c)]
      BY <1>2, <2>3, <2>c DEF HearsHello
    <3> QED
      BY <1>p, <2>1, <3>1, GreetedByReply, StaysConnected
  <2> QED
    BY <2>2, <2>3
<1>3. CASE HearsHelloAgain(p)
  <2>c. PICK c \in Conns : c = ConnOf(p)
    BY <1>3, <1>c DEF HearsHelloAgain, Hears, Connected
  <2>1. /\ Connected(p) /\ pc[p] = "drive"
        /\ c \in Conns /\ conn[c].by = p /\ UNCHANGED <<rcv, pc>>
        /\ conn[c].down # << >> /\ Head(conn[c].down).type = "hello"
        /\ port' = [port EXCEPT ![p] = Head(conn[c].down).cursorPort]
        /\ conn' = [conn EXCEPT ![c] = Reply(c)]
    BY <1>3, <1>c, <2>c DEF HearsHelloAgain, Hears, Connected
  <2>2. pc' = [pc EXCEPT ![p] = "drive"]
    BY <1>0, <2>1 DEF AdoptionTyped
  <2> QED
    BY ZenonT(30), <1>p, <2>1, <2>2, GreetedByReply, StaysConnected
<1>4. CASE Opens(p)
  <2>c. PICK c \in Conns : c = ConnOf(p)
    BY <1>4, <1>c DEF Opens, Connected
  <2>1. pc[p] = "open" /\ Connected(p) /\ c \in Conns /\ conn[c].by = p /\ UNCHANGED rcv
    BY <1>4, <1>c, <2>c DEF Opens, Connected
  <2>2. CASE lock # None
    <3>1. SessionEnds(p, "bailed") /\ conn' = [conn EXCEPT ![c] = SenderLetsGo(c)]
      BY <1>4, <2>2, <2>c DEF Opens
    <3> QED
      BY <1>0, <1>p, <2>1, <3>1, EndsIs, Leaves DEF Places
  <2>3. CASE lock = None
    <3>1. pc' = [pc EXCEPT ![p] = "drive"] /\ UNCHANGED <<port, conn>>
      BY <1>4, <2>3 DEF Opens
    <3>2. conn[c] \in Connections /\ conn' = [conn EXCEPT ![c] = conn[c]]
      BY <1>0, <2>1, <3>1 DEF AdoptionTyped
    <3>3. Greeted(c)'
      BY <1>0, <2>1, <3>1 DEF Greeted, Unheard, Provisionally, InFull, AdoptionTyped
    <3>4. port' \in [Rivals -> Ports \cup {None}]
      BY <1>0, <3>1 DEF AdoptionTyped
    <3> QED
      BY <1>p, <2>1, <3>1, <3>2, <3>3, <3>4, StaysConnected
  <2> QED
    BY <2>2, <2>3
<1>5. CASE HearsSleeping(p)
  <2>c. PICK c \in Conns : c = ConnOf(p)
    BY <1>5, <1>c DEF HearsSleeping, Hears, Connected, sender
  <2>1. /\ pc[p] \in {"wait", "drive"} /\ Connected(p) /\ c \in Conns /\ conn[c].by = p
        /\ UNCHANGED <<rcv, pc, port>>
        /\ conn[c].down # << >> /\ Head(conn[c].down).type = "sleeping"
        /\ conn' = [conn EXCEPT ![c] = [conn[c] EXCEPT !.down = Tail(@)]]
    BY <1>5, <1>c, <2>c DEF HearsSleeping, Hears, Connected, sender
  <2>2. conn[c].at \in {"hungup", "dropped"}
    <3>1. \A S : conn[c].down \in Seq(S) => Head(conn[c].down) \in S
      BY <2>1, HeadTailProperties
    <3>2. conn[c].down \notin Seq(Hellos) /\ conn[c].down \notin Seq(Unoffering)
      BY <2>1, <3>1 DEF Hellos, Unoffering
    <3>3. conn[c].at \notin {"backlog", "newcomer", "current"}
      BY <1>0, <2>1, <3>2 DEF Greeted, Unheard, Provisionally, InFull
    <3> QED
      BY <1>0, <2>1, <3>3 DEF AdoptionTyped, Connections
  <2> DEFINE k == [conn[c] EXCEPT !.down = Tail(@)]
  <2>3. k \in Connections /\ k.by = p /\ k.at = conn[c].at
    <3>1. conn[c] \in Connections /\ conn[c].down \in Seq(Words)
      BY <1>0, <2>1 DEF AdoptionTyped, Connections
    <3>2. Tail(conn[c].down) \in Seq(Words)
      BY <2>1, <3>1, HeadTailProperties
    <3> QED
      BY <2>1, <3>1, <3>2 DEF Connections
  <2>4. conn' = [conn EXCEPT ![c] = k]
    BY <2>1
  <2> HIDE DEF k
  <2>5. conn'[c].at \in {"hungup", "dropped"}
    BY <1>0, <2>1, <2>2, <2>3, <2>4 DEF AdoptionTyped
  <2>6. Greeted(c)'
    BY <2>5 DEF Greeted
  <2>7. pc' = [pc EXCEPT ![p] = pc[p]] /\ port' \in [Rivals -> Ports \cup {None}]
    BY <1>0, <2>1 DEF AdoptionTyped
  <2>8. port'[p] # None => pc[p] \in {"open", "drive"}
    BY <1>0, <2>1 DEF OneEach
  <2> QED
    BY <1>p, <2>1, <2>3, <2>4, <2>6, <2>7, <2>8, StaysConnected
<1>6. CASE HearsClosing(p) \/ Loses(p)
  <2>c. PICK c \in Conns : c = ConnOf(p)
    BY <1>6, <1>c DEF HearsClosing, Loses, Connected
  <2>1. PICK where \in {"stopped", "backoff"} : SessionEnds(p, where)
    BY <1>6 DEF HearsClosing, Loses
  <2>2. /\ Connected(p) /\ c \in Conns /\ conn[c].by = p /\ UNCHANGED rcv
        /\ conn' = [conn EXCEPT ![c] = SenderLetsGo(c)]
    BY <1>6, <1>c, <2>c DEF HearsClosing, Loses, Connected
  <2> QED
    BY <1>0, <1>p, <2>1, <2>2, EndsIs, Leaves DEF Places
<1>7. CASE Stops(p)
  <2>1. /\ SessionEnds(p, "stopped") /\ UNCHANGED rcv
        /\ conn' = [d \in Conns |-> IF conn[d].by = p THEN SenderLetsGo(d) ELSE conn[d]]
    BY <1>7 DEF Stops
  <2>2. CASE Connected(p)
    <3>c. PICK c \in Conns : c = ConnOf(p)
      BY <1>c, <2>2
    <3>1. c \in Conns /\ conn[c].by = p /\ \A d \in Conns : conn[d].by = p => d = c
      BY <1>0, <1>c, <1>p, <2>2, <3>c DEF OneEach
    <3>2. conn' = [conn EXCEPT ![c] = SenderLetsGo(c)]
      BY <1>0, <2>1, <3>1 DEF AdoptionTyped
    <3> QED
      BY <1>0, <1>p, <2>1, <3>1, <3>2, EndsIs, Leaves DEF Places
  <2>3. CASE ~Connected(p)
    <3>1. UNCHANGED conn
      BY <1>0, <1>p, <2>1, <2>3 DEF OneEach, AdoptionTyped
    <3>2. UNCHANGED port
      <4>1. port[p] = None
        BY <1>0, <2>3 DEF OneEach, Connected
      <4> QED
        BY <1>0, <2>1, <4>1, EndsIs DEF AdoptionTyped
    <3> QED
      BY <1>0, <1>p, <2>1, <2>3, <3>1, <3>2, EndsIs, StaysAway DEF Places
  <2> QED
    BY <2>2, <2>3
<1>8. CASE Dial(p)
  BY <1>8, <1>p, Dials
<1> QED
  BY <1>1, <1>2, <1>3, <1>4, <1>5, <1>6, <1>7, <1>8 DEF Sender

LEMMA AdoptionStep == AdoptionInv /\ [AdoptionNext]_vars => AdoptionInv'
<1> SUFFICES ASSUME AdoptionInv, [AdoptionNext]_vars PROVE AdoptionInv'
  OBVIOUS
<1>1. CASE ReceiverHost \/ Sleeps \/ Shuts
  BY <1>1, Accepts, Adopts, Goes, Listens, LastWords DEF ReceiverHost
<1>2. ASSUME NEW p \in Rivals, Sender(p) \/ Stops(p) PROVE AdoptionInv'
  BY <1>2, SenderSteps
<1>3. ASSUME NEW p \in Probes, Dial(p) \/ ProbeLeaves(p) PROVE AdoptionInv'
  <2>1. p \in Processes /\ p \notin Rivals
    BY AdoptionAssumption DEF Processes
  <2>2. CASE Dial(p)
    BY <2>1, <2>2, Dials
  <2>3. CASE ProbeLeaves(p)
    <3>1. /\ Connected(p) /\ UNCHANGED <<rcv, port>> /\ pc' = [pc EXCEPT ![p] = "dial"]
          /\ conn' = [conn EXCEPT ![ConnOf(p)] = SenderLetsGo(ConnOf(p))]
      BY <2>3 DEF ProbeLeaves, Connected
    <3>2. port' \in [Rivals -> Ports \cup {None}]
      BY <3>1 DEF AdoptionInv, AdoptionTyped
    <3> QED
      BY <2>1, <3>1, <3>2, OwnConnection, Leaves DEF Places
  <2> QED
    BY <1>3, <2>2, <2>3
<1>4. ASSUME NEW c \in Conns, GoesQuiet(c) PROVE AdoptionInv'
  BY <1>4, Quietens
<1>5. CASE UNCHANGED vars
  BY <1>5 DEF vars, AdoptionInv, AdoptionTyped, ReceiverTypeOK, OneEach, Connected, OneSession, At,
              Greeted, Unheard, Provisionally, InFull
<1> QED
  BY <1>1, <1>2, <1>3, <1>4, <1>5 DEF AdoptionNext

\* The receiver serves one connection at a time, offers its cursor port to the
\* one it serves and to no other, and has heard what that one said while it was
\* a newcomer: for any senders, probes and number of connections, however often
\* the machine sleeps, the hosts stop and connections go quiet.
THEOREM OneIsServed == AdoptionSpec => []OneServed
<1>1. AdoptionInit => AdoptionInv
  <2> SUFFICES ASSUME AdoptionInit PROVE AdoptionInv
    OBVIOUS
  <2>1. (CHOOSE p \in Ports : TRUE) \in Ports /\ None \notin Ports
    <3>1. PICK p \in Ports : TRUE
      BY AdoptionAssumption
    <3>2. (CHOOSE q \in Ports : TRUE) \in Ports
      BY <3>1
    <3>3. \A n \in Nat : n \in Int
      OBVIOUS
    <3>4. None \notin Ports
      BY <3>3, WireAssumption
    <3> QED
      BY <3>2, <3>4
  <2>2. ReceiverTypeOK /\ rcv.offer # None /\ rcv.connected = FALSE
    <3>1. rcv = Reset(FALSE, CHOOSE p \in Ports : TRUE)
      BY DEF AdoptionInit
    <3>2. ReceiverTypeOK
      BY <2>1, <3>1, ResetTyped DEF ReceiverTypeOK
    <3> QED
      BY <2>1, <3>1, <3>2 DEF Reset
  <2>3. conn \in [Conns -> Connections] /\ \A c \in Conns : conn[c].by = None /\ conn[c].at = "dropped"
    BY NoConnTyped DEF AdoptionInit, NoConn
  <2>4. /\ pc \in [Processes -> Places] /\ \A p \in Processes : pc[p] \in {"start", "dial"}
        /\ port \in [Rivals -> Ports \cup {None}] /\ \A p \in Rivals : port[p] = None
    BY DEF AdoptionInit, Processes, Places
  <2> QED
    BY <2>2, <2>3, <2>4 DEF AdoptionInv, AdoptionTyped, OneEach, Connected, OneSession, At, Greeted
<1>2. AdoptionInv /\ [AdoptionNext]_vars => AdoptionInv'
  BY AdoptionStep
<1>3. AdoptionInv => OneServed
  <2> SUFFICES ASSUME AdoptionInv PROVE OneServed
    OBVIOUS
  <2>0. AdoptionTyped /\ OneSession /\ \A c \in Conns : Greeted(c)
    BY DEF AdoptionInv
  <2>1. OneOffer
    <3> SUFFICES ASSUME NEW c \in Conns, conn[c].at = "newcomer" PROVE ~Offered(c)
      BY DEF OneOffer, At
    <3>1. conn[c].down \in Seq(Unoffering) /\ (conn[c].by \in Rivals => port[conn[c].by] = None)
      BY <2>0 DEF Greeted, Provisionally
    <3>2. \A i \in DOMAIN conn[c].down : conn[c].down[i] \in Unoffering
      BY <3>1, ElementOfSeq, LenProperties
    <3> QED
      BY <3>1, <3>2 DEF Offered, Unoffering
  <2>2. ServedIsOffered
    <3> SUFFICES ASSUME NEW c \in Conns, conn[c].at = "current", conn[c].by \in Rivals
                 PROVE  Offered(c)
      BY DEF ServedIsOffered, At
    <3>1. CASE conn[c].down = << >>
      BY <2>0, <3>1 DEF Greeted, InFull, Offered
    <3>2. CASE conn[c].down # << >>
      <4> DEFINE i == Len(conn[c].down)
      <4>1. conn[c].down \in Seq(Hellos) /\ conn[c].down[i].cursorPort # None
        BY <2>0, <3>2 DEF Greeted, InFull
      <4>2. i \in 1 .. Len(conn[c].down) /\ DOMAIN conn[c].down = 1 .. Len(conn[c].down)
        BY <3>2, <4>1, EmptySeq, LenProperties
      <4>3. conn[c].down[i] \in Hellos
        BY <4>1, <4>2, ElementOfSeq
      <4> QED
        BY <4>1, <4>2, <4>3 DEF Offered, Hellos
    <3> QED
      BY <3>1, <3>2
  <2>3. SpokenIsHeard
    BY <2>0 DEF SpokenIsHeard, At, Greeted, InFull
  <2> QED
    BY <2>0, <2>1, <2>2, <2>3 DEF OneServed
<1> QED
  BY <1>1, <1>2, <1>3, PTL DEF AdoptionSpec
=============================================================================
