------------------------------ MODULE Adoption ------------------------------
(***************************************************************************)
(* One sender at a time (PROTOCOL.md section 1): the connections of one    *)
(* receiver.  The receiver's host is run in od-receiver/src/lib.rs around  *)
(* the ReceiverSession it drives; the senders are processes of one         *)
(* desktop, run and session in od-sender/src/session.rs, that share the    *)
(* lock of the output they would drive.  A probe is a dialer that never    *)
(* says anything: the loser of a sender's dial race, or a reachability     *)
(* probe.                                                                  *)
(*                                                                         *)
(* Of the stream only welcome matters here: it is the first thing a sender *)
(* says.  The lock is taken and probed in one step each (OutputLock has    *)
(* the system calls).  Clocks are left out: a timeout fires only on a      *)
(* connection that went quiet, or on a newcomer with nothing to say, which *)
(* is what HeartbeatLink checks of the timed code.                         *)
(***************************************************************************)
EXTENDS ReceiverSession

CONSTANTS
    Rivals, Probes,    \* the processes that dial
    Conns,              \* bound: connections at a time
    MaxNaps, MaxCuts,   \* bounds: how often the receiver's machine goes to
                        \* sleep, and a connection goes quiet
    MayStop, MayShut    \* may the user stop a sender, close the receiver?

ASSUME AdoptionAssumption ==
    /\ None \notin Rivals \cup Probes
    /\ Rivals \cap Probes = {}
    /\ Ports # {}

VARIABLES
    conn,       \* the connections, both ends
    pc, port,   \* of each sender: where it is, and the port hello offered
    lock,       \* the sender that holds the output's lock
    receiver,   \* the receiver's host: "up" or "down"
    naps, cuts

vars == <<rcv, conn, pc, port, lock, receiver, naps, cuts>>
sender == <<pc, port, lock>>
bounds == <<naps, cuts>>

-----------------------------------------------------------------------------
\* by: the process at the far end, None once it closed.  at: where the
\* receiver has it, "hungup" after a FIN, "dropped" without one.
NoConn == [by |-> None, at |-> "dropped", up |-> << >>, down |-> << >>, quiet |-> FALSE]

Free(c) == conn[c] = NoConn

At(where) == {c \in Conns : conn[c].at = where}

ConnOf(p) == CHOOSE c \in Conns : conn[c].by = p

\* The connection is over once both ends let go of it.
SenderLetsGo(c) ==
    IF conn[c].at \in {"hungup", "dropped"} THEN NoConn
    ELSE [conn[c] EXCEPT !.by = None, !.down = << >>]

LetGo(c, how) ==
    IF conn[c].by = None THEN NoConn
    ELSE [conn[c] EXCEPT !.at = how, !.up = << >>]

\* newcomers.clear(), beside one connection that is changed itself.
Cleared(c, new) ==
    [d \in Conns |-> IF d = c THEN new
                     ELSE IF conn[d].at = "newcomer" THEN LetGo(d, "dropped")
                     ELSE conn[d]]

AdoptionInit ==
    /\ rcv = Reset(FALSE, CHOOSE p \in Ports : TRUE)
    /\ conn = [c \in Conns |-> NoConn]
    /\ pc = [p \in Rivals \cup Probes |-> IF p \in Rivals THEN "start" ELSE "dial"]
    /\ port = [p \in Rivals |-> None]
    /\ lock = None
    /\ receiver = "up"
    /\ naps = 0 /\ cuts = 0

-----------------------------------------------------------------------------
(* The receiver's host: one branch of its select!, with what it sends.     *)

\* Mutant: a newcomer is greeted like any sender.
ProvisionalInFull == HelloFrame

\* A UDP flow started now could not be told apart from the live sender's.
Provisional == [HelloFrame EXCEPT !.cursorPort = None]

\* Mutant: the newest connection wins at once.
NewestIsServed(c) ==
    /\ conn' = [d \in Conns |->
                  IF d = c THEN [conn[c] EXCEPT !.at = "current", !.down = <<HelloFrame>>]
                  ELSE IF conn[d].at = "current" THEN LetGo(d, "hungup") ELSE conn[d]]
    /\ ReceiverConnect

Greets(c) ==
    IF At("current") # {}
    THEN /\ conn' = [conn EXCEPT ![c].at = "newcomer", ![c].down = <<Provisional>>]
         /\ UNCHANGED rcv
    ELSE /\ conn' = Cleared(c, [conn[c] EXCEPT !.at = "current", !.down = <<HelloFrame>>])
         /\ ReceiverConnect

Accept(c) ==
    /\ receiver = "up"
    /\ conn[c].at = "backlog"
    /\ Greets(c)
    /\ UNCHANGED <<sender, receiver, bounds>>

\* Mutant: the bytes that proved a newcomer are not handed on.
BytesLost(m) == Reset(TRUE, rcv.offer)

\* Connected, then the bytes that proved the newcomer.
Proved(m) == [Reset(TRUE, rcv.offer) EXCEPT !.senderPv = m.pv]

\* Mutant: an adopted newcomer is not greeted again.
NotGreetedAgain(c) == conn[c].down

GreetedAgain(c) == Append(conn[c].down, HelloFrame)

\* The newcomer's first bytes: the race is decided, rival newcomers go, and
\* the old connection is hung up.
NewcomerSpeaks(c) ==
    /\ receiver = "up"
    /\ conn[c].at = "newcomer" /\ ~conn[c].quiet
    /\ conn[c].up # << >>
    /\ LET adopted == [conn[c] EXCEPT !.at = "current", !.up = Tail(@),
                                      !.down = GreetedAgain(c)]
           others == Cleared(c, adopted)
       IN  conn' = [d \in Conns |-> IF conn[d].at = "current" THEN LetGo(d, "hungup")
                                    ELSE others[d]]
    /\ rcv' = Proved(Head(conn[c].up))
    /\ UNCHANGED <<sender, receiver, bounds>>

\* Mutant: the end of a newcomer's stream goes unnoticed.
NewcomerStays(c) == FALSE

\* It closed, or stayed silent for NEWCOMER_PROVES_WITHIN.
NewcomerGoes(c) ==
    /\ receiver = "up"
    /\ conn[c].at = "newcomer"
    /\ \/ ~conn[c].quiet /\ conn[c].up = << >> /\ conn[c].by = None
       \/ conn[c].quiet
       \/ conn[c].by \in Probes
    /\ conn' = [conn EXCEPT ![c] = LetGo(c, "dropped")]
    /\ UNCHANGED <<rcv, sender, receiver, bounds>>

CurrentSpeaks(c) ==
    /\ receiver = "up"
    /\ conn[c].at = "current" /\ ~conn[c].quiet
    /\ conn[c].up # << >>
    /\ ReceiverHears(Head(conn[c].up))
    /\ conn' = [conn EXCEPT ![c].up = Tail(@)]
    /\ UNCHANGED <<sender, receiver, bounds>>

\* End of stream or a failed write, or silence for LIVENESS_TIMEOUT.
CurrentGoes(c) ==
    /\ receiver = "up"
    /\ conn[c].at = "current"
    /\ \/ ~conn[c].quiet /\ conn[c].up = << >> /\ conn[c].by = None
       \/ conn[c].quiet
       \/ conn[c].by \in Probes
    /\ conn' = [conn EXCEPT ![c] = LetGo(c, "dropped")]
    /\ ReceiverDisconnect
    /\ UNCHANGED <<sender, receiver, bounds>>

LastWord(c, what) ==
    IF conn[c].by = None THEN << >> ELSE Append(conn[c].down, [type |-> what])

\* Mutant: the socket is closed right after the message.
SaysGoodbyeCurtly(c, what) ==
    [LetGo(c, "dropped") EXCEPT !.down = LastWord(c, what)]

\* A courtesy message and a FIN.  hang_up goes on reading what the sender
\* writes, so the message is not lost to a reset.
SaysGoodbye(c, what) ==
    [LetGo(c, "hungup") EXCEPT !.down = LastWord(c, what)]

\* Mutant: the session is not told.
FallsAsleepConnected(c) == conn' = [conn EXCEPT ![c] = SaysGoodbye(c, "sleeping")] /\ UNCHANGED rcv

FallsAsleep(c) == conn' = [conn EXCEPT ![c] = SaysGoodbye(c, "sleeping")] /\ ReceiverDisconnect

\* PowerEvent::Sleeping: the newcomers are not touched.
Sleeps ==
    /\ receiver = "up"
    /\ naps < MaxNaps
    /\ \E c \in At("current") : FallsAsleep(c)
    /\ naps' = naps + 1
    /\ UNCHANGED <<sender, receiver, cuts>>

\* shutdown: a live sender is told, the listener and everything else close.
Shuts ==
    /\ MayShut
    /\ receiver = "up"
    /\ receiver' = "down"
    /\ conn' = [c \in Conns |-> IF conn[c].at = "current" THEN SaysGoodbye(c, "closing")
                                ELSE LetGo(c, "dropped")]
    /\ ReceiverDisconnect
    /\ UNCHANGED <<sender, bounds>>

ReceiverHost ==
    \E c \in Conns : \/ Accept(c) \/ NewcomerSpeaks(c) \/ NewcomerGoes(c)
                     \/ CurrentSpeaks(c) \/ CurrentGoes(c)

-----------------------------------------------------------------------------
(* A sender: run, and the session it holds while connected.                *)

\* pre_dial_conflict, when the receiver's id is known beforehand.
Starts(p) ==
    /\ pc[p] = "start"
    /\ \E known \in BOOLEAN :
          pc' = [pc EXCEPT ![p] = IF known /\ lock # None THEN "bailed" ELSE "dial"]
    /\ UNCHANGED <<rcv, conn, port, lock, receiver, bounds>>

Dial(p) ==
    /\ pc[p] = "dial"
    /\ receiver = "up"
    /\ \E c \in Conns : Free(c)
    /\ conn' = [conn EXCEPT ![CHOOSE c \in Conns : Free(c)] =
                  [NoConn EXCEPT !.by = p, !.at = "backlog"]]
    /\ pc' = [pc EXCEPT ![p] = "wait"]
    /\ UNCHANGED <<rcv, port, lock, receiver, bounds>>

\* Mutant: the display is left behind with its lock.
SessionEndsLocked(p, where) ==
    /\ pc' = [pc EXCEPT ![p] = where]
    /\ port' = [port EXCEPT ![p] = None]
    /\ UNCHANGED lock

\* The process ends its session: the display closes and frees the lock.
SessionEnds(p, where) ==
    /\ pc' = [pc EXCEPT ![p] = where]
    /\ port' = [port EXCEPT ![p] = None]
    /\ lock' = IF lock = p THEN None ELSE lock

Hears(p, what) ==
    /\ conn[ConnOf(p)].by = p /\ ~conn[ConnOf(p)].quiet
    /\ conn[ConnOf(p)].down # << >>
    /\ Head(conn[ConnOf(p)].down).type = what

Conflict(p) == lock \notin {None, p}

Reply(c) == [conn[c] EXCEPT !.down = Tail(@), !.up = Append(@, Welcome(OurPv))]

\* The first hello.  lock_conflict comes before welcome: a receiver another
\* sender drives is left alone.
HearsHello(p) ==
    /\ pc[p] = "wait"
    /\ Hears(p, "hello")
    /\ LET c == ConnOf(p)
       IN  IF Conflict(p)
           THEN /\ SessionEnds(p, "bailed")
                /\ conn' = [conn EXCEPT ![c] = SenderLetsGo(c)]
           ELSE /\ pc' = [pc EXCEPT ![p] = "open"]
                /\ port' = [port EXCEPT ![p] = Head(conn[c].down).cursorPort]
                /\ conn' = [conn EXCEPT ![c] = Reply(c)]
                /\ UNCHANGED lock
    /\ UNCHANGED <<rcv, receiver, bounds>>

\* apply: open takes the lock first, or the session ends in a conflict after
\* all.
Opens(p) ==
    /\ pc[p] = "open"
    /\ IF lock # None
       THEN /\ SessionEnds(p, "bailed")
            /\ conn' = [conn EXCEPT ![ConnOf(p)] = SenderLetsGo(ConnOf(p))]
       ELSE /\ pc' = [pc EXCEPT ![p] = "drive"]
            /\ lock' = p
            /\ UNCHANGED <<port, conn>>
    /\ UNCHANGED <<rcv, receiver, bounds>>

\* A hello while driving: the plan is the one applied, Debounce rebuilds
\* nothing.
HearsHelloAgain(p) ==
    /\ pc[p] = "drive"
    /\ Hears(p, "hello")
    /\ port' = [port EXCEPT ![p] = Head(conn[ConnOf(p)].down).cursorPort]
    /\ conn' = [conn EXCEPT ![ConnOf(p)] = Reply(ConnOf(p))]
    /\ UNCHANGED <<rcv, pc, lock, receiver, bounds>>

HearsSleeping(p) ==
    /\ pc[p] \in {"wait", "drive"}
    /\ Hears(p, "sleeping")
    /\ conn' = [conn EXCEPT ![ConnOf(p)].down = Tail(@)]
    /\ UNCHANGED <<rcv, sender, receiver, bounds>>

HearsClosing(p) ==
    /\ pc[p] \in {"wait", "drive"}
    /\ Hears(p, "closing")
    /\ SessionEnds(p, "stopped")
    /\ conn' = [conn EXCEPT ![ConnOf(p)] = SenderLetsGo(ConnOf(p))]
    /\ UNCHANGED <<rcv, receiver, bounds>>

\* End of stream, a write into a connection that was dropped, or silence.
Loses(p) ==
    /\ pc[p] \in {"wait", "drive"}
    /\ LET c == ConnOf(p)
       IN  /\ \/ conn[c].at \in {"hungup", "dropped"} /\ conn[c].down = << >>
              \/ conn[c].at = "dropped" /\ pc[p] = "drive"
              \/ conn[c].quiet
           /\ conn' = [conn EXCEPT ![c] = SenderLetsGo(c)]
    /\ SessionEnds(p, "backoff")
    /\ UNCHANGED <<rcv, receiver, bounds>>

\* Backoff waits half a second at least; open follows welcome at once.
Redials(p) ==
    /\ pc[p] = "backoff"
    /\ \A q \in Rivals : pc[q] # "open"
    /\ pc' = [pc EXCEPT ![p] = "dial"]
    /\ UNCHANGED <<rcv, conn, port, lock, receiver, bounds>>

\* Ctrl+C, or disconnect.
Stops(p) ==
    /\ MayStop
    /\ pc[p] \in {"wait", "drive", "backoff", "dial"}
    /\ SessionEnds(p, "stopped")
    /\ conn' = [c \in Conns |-> IF conn[c].by = p THEN SenderLetsGo(c) ELSE conn[c]]
    /\ UNCHANGED <<rcv, receiver, bounds>>

Sender(p) ==
    \/ Starts(p) \/ Dial(p) \/ HearsHello(p) \/ Opens(p) \/ HearsHelloAgain(p)
    \/ HearsSleeping(p) \/ HearsClosing(p) \/ Loses(p) \/ Redials(p)

\* A probe that got its answer, or the loser of a race, closes again.
ProbeLeaves(p) ==
    /\ pc[p] = "wait"
    /\ pc' = [pc EXCEPT ![p] = "dial"]
    /\ conn' = [conn EXCEPT ![ConnOf(p)] = SenderLetsGo(ConnOf(p))]
    /\ UNCHANGED <<rcv, port, lock, receiver, bounds>>

-----------------------------------------------------------------------------
GoesQuiet(c) ==
    /\ cuts < MaxCuts
    /\ conn[c].at \in {"newcomer", "current"}
    /\ ~conn[c].quiet
    /\ conn' = [conn EXCEPT ![c].quiet = TRUE]
    /\ cuts' = cuts + 1
    /\ UNCHANGED <<rcv, sender, receiver, naps>>

AdoptionNext ==
    \/ ReceiverHost \/ Sleeps \/ Shuts
    \/ \E p \in Rivals : Sender(p) \/ Stops(p)
    \/ \E p \in Probes : Dial(p) \/ ProbeLeaves(p)
    \/ \E c \in Conns : GoesQuiet(c)

\* The hosts run, and a sender that can go on does.
AdoptionSpec ==
    /\ AdoptionInit /\ [][AdoptionNext]_vars
    /\ WF_vars(ReceiverHost)
    /\ \A c \in Conns : WF_vars(Accept(c)) /\ WF_vars(NewcomerGoes(c)) /\ WF_vars(NewcomerSpeaks(c))
    /\ \A p \in Rivals : WF_vars(Sender(p))

-----------------------------------------------------------------------------
(* The session is connected exactly while the host has a socket for it,    *)
(* and there is never more than one (run: every branch that sets or takes  *)
(* current).                                                               *)
OneSession ==
    /\ \A c, d \in At("current") : c = d
    /\ rcv.connected <=> At("current") # {}

(* Among the connections the receiver still listens to, only the one it    *)
(* serves was offered the cursor port, so that a UDP flow can be told to   *)
(* be its sender's (run, accept: "A UDP flow started now could not be told *)
(* apart from the live sender's").                                         *)
Offered(c) ==
    \/ \E i \in DOMAIN conn[c].down :
          conn[c].down[i].type = "hello" /\ conn[c].down[i].cursorPort # None
    \/ conn[c].by \in Rivals /\ port[conn[c].by] # None

OneOffer == \A c \in At("newcomer") : ~Offered(c)

(* A sender that is served learns the receiver's cursor port, also one     *)
(* that was greeted as a newcomer first (run, "The full hello follows").   *)
ServedIsOffered == \A c \in At("current") : conn[c].by \in Rivals => Offered(c)

(* The welcome by which a newcomer proved itself is not lost: a sender     *)
(* that has spoken and is served was heard, or what it said is under way   *)
(* (run, "so none of them are lost").                                      *)
SpokenIsHeard ==
    \A c \in At("current") :
        conn[c].by \in Rivals /\ pc[conn[c].by] \in {"open", "drive"} /\ conn[c].up = << >>
          => rcv.senderPv # None

Served(p) == pc[p] = "drive" /\ \E c \in At("current") : conn[c].by = p

EndsItself(p) ==
    \/ pc'[p] = "stopped" \/ naps' # naps \/ receiver' # receiver
    \/ conn[ConnOf(p)].quiet

AdoptsSpeaker ==
    \E c \in Conns : conn[c].up # << >> /\ conn[c].at # "current" /\ conn'[c].at = "current"

(* A live session ends only by its own doing, its sender stops, its        *)
(* connection goes quiet, the receiver's machine sleeps or shuts down, or  *)
(* by a connection that has spoken: a probe or the loser of a dial race    *)
(* never ends it (PROTOCOL.md 1, "the live session is untouched"; run, the *)
(* newcomers of accept).                                                   *)
LiveLeftAlone ==
    [][\A p \in Rivals :
         Served(p) /\ ~Served(p)' => EndsItself(p) \/ AdoptsSpeaker]_vars

(* Nor does another sender of the same desktop: "a receiver another sender *)
(* drives is left alone" (session.rs:1107).                                *)
DrivenLeftAlone ==
    [][\A p \in Rivals : Served(p) /\ ~Served(p)' => EndsItself(p)]_vars

(* closing reaches a sender that reads: once it is under way, the sender   *)
(* ends for good and does not redial (run, hang_up).                       *)
ClosingReached ==
    [][\A p \in Rivals :
         /\ pc[p] = "drive" /\ pc'[p] = "backoff"
         /\ ~conn[ConnOf(p)].quiet
         => \A i \in DOMAIN conn[ConnOf(p)].down : conn[ConnOf(p)].down[i].type # "closing"]_vars

(* No newcomer stays one: it proves itself, leaves or is dropped.          *)
NewcomersLeave == \A c \in Conns : conn[c].at = "newcomer" ~> conn[c].at # "newcomer"

(* The receiver serves one connection at a time, offers its cursor port to *)
(* the one it serves and to no other, and has heard what that one said     *)
(* while it was a newcomer (adopt, the select loop of Host::run): a        *)
(* newcomer that is dropped or adopted leaves nothing of the other behind. *)
OneServed == OneSession /\ OneOffer /\ ServedIsOffered /\ SpokenIsHeard
=============================================================================
