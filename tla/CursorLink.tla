----------------------------- MODULE CursorLink -----------------------------
(***************************************************************************)
(* The cursor of a session: positions leave SenderSession::cursor as UDP   *)
(* datagrams, mirrored onto TCP until the receiver acknowledges the flow,  *)
(* and meet again in ReceiverSession's sequence tracker (PROTOCOL.md       *)
(* section 6.3).  The hosts are session in od-sender/src/session.rs, which *)
(* binds one UDP socket per session, and run in od-receiver/src/lib.rs,    *)
(* whose one UDP socket outlives every connection.                         *)
(*                                                                         *)
(* TCP is one FIFO per direction; a datagram in the network may overtake,  *)
(* be overtaken, be duplicated or be lost.  A position is its sequence     *)
(* number in its session.  Pings keep the session alive and are left out;  *)
(* of the clocks only the one of the cursor channel runs.                  *)
(***************************************************************************)
EXTENDS SenderSession, ReceiverSession, FiniteSets

CONSTANTS
    MaxSessions,    \* bound: connections, one sender flow each
    MaxHellos,      \* bound: hellos sent again, with or without a port
    MaxLost,        \* bound: datagrams lost
    MaxCopies,      \* bound: datagrams duplicated
    MaxLate,        \* bound: datagrams that outlive their connection
    MaxTicks,       \* bound: ticks of the cursor channel's clock
    Networks        \* may the UDP port be open, may it be firewalled?

ASSUME CursorAssumption ==
    /\ MaxSessions \in Nat /\ 1 .. MaxSessions \subseteq Flows
    /\ {MaxHellos, MaxLost, MaxCopies, MaxLate, MaxTicks} \subseteq Nat
    /\ Networks \subseteq BOOLEAN

VARIABLES
    up, down,       \* the two directions of the TCP connection
    net,            \* datagrams under way
    newest,         \* the sender's newest position, and whether TCP carried it
    drawn,          \* the position the receiver drew last, and when
    heard,          \* history: flows the receiver heard in this connection
    open,           \* the UDP port is not firewalled
    spent           \* how much of each bound is used

vars == <<snd, rcv, up, down, net, newest, drawn, heard, open, spent>>

-----------------------------------------------------------------------------
\* The sender's socket of the current session, as the receiver tells flows
\* apart: by source address.
ThisFlow == spent.sessions

Nothing == [conn |-> 0, flow |-> 0, s |-> 0]

CursorInit ==
    /\ SenderInit /\ ReceiverInit
    /\ up = << >> /\ down = << >> /\ net = {}
    /\ newest = [s |-> 0, tcp |-> TRUE]
    /\ drawn = Nothing
    /\ heard = {}
    /\ open \in Networks
    /\ spent = [sessions |-> 0, hellos |-> 0, lost |-> 0, copies |-> 0, ticks |-> 0]

Spend(what) == spent' = [spent EXCEPT ![what] = @ + 1]

\* Another connection: a redial, or another sender adopted over this one.
Dial ==
    /\ ~snd.connected
    /\ spent.sessions < MaxSessions
    /\ Spend("sessions")
    /\ SenderConnect /\ ReceiverConnect
    /\ up' = <<HelloFrame>>
    /\ newest' = [s |-> 0, tcp |-> TRUE]
    /\ heard' = {}
    /\ UNCHANGED <<down, net, drawn, open>>

\* What is under way may outlive the connection, as does the socket it goes to.
HangUp ==
    /\ snd.connected
    /\ spent.sessions < MaxSessions
    /\ SenderDisconnect /\ ReceiverDisconnect
    /\ up' = << >> /\ down' = << >>
    /\ \E late \in SUBSET net : Cardinality(late) <= MaxLate /\ net' = late
    /\ UNCHANGED <<newest, drawn, heard, spent, open>>

-----------------------------------------------------------------------------
SenderGets ==
    /\ up # << >>
    /\ SenderHears(Head(up))
    /\ down' = down \o SenderReplies(Head(up))
    /\ up' = Tail(up)
    /\ UNCHANGED <<rcv, net, newest, drawn, heard, spent, open>>

\* cursor_out and the actions it returns: a datagram, a frame, or both.
Move ==
    /\ CursorMove
    /\ LET s == snd'.cursorSeq
       IN  /\ net' = IF CursorOnUdp THEN net \cup {[flow |-> ThisFlow, s |-> s]} ELSE net
           /\ down' = IF CursorOnTcp THEN Append(down, [type |-> "cursor", s |-> s]) ELSE down
           /\ newest' = [s |-> s, tcp |-> CursorOnTcp]
    /\ UNCHANGED <<rcv, up, drawn, heard, spent, open>>

\* The ack is late: time passes, and on a tick the flow is given up.
CursorClock ==
    /\ snd.connected
    /\ SenderAged.udpAge # snd.udpAge
    /\ spent.ticks < MaxTicks
    /\ Spend("ticks")
    /\ snd' = [snd EXCEPT !.udpAge = SenderAged.udpAge]
    /\ UNCHANGED <<rcv, up, down, net, newest, drawn, heard, open>>

GiveUp ==
    /\ SenderTick
    /\ snd' # snd
    /\ UNCHANGED <<rcv, up, down, net, newest, drawn, heard, spent, open>>

-----------------------------------------------------------------------------
Draw(flow, s) == drawn' = [conn |-> spent.sessions, flow |-> flow, s |-> s]

ReceiverGets ==
    /\ down # << >>
    /\ LET m == Head(down)
       IN  /\ ReceiverHears(m)
           /\ IF m.type = "cursor" /\ Newer(m.s) THEN Draw(ThisFlow, m.s) ELSE UNCHANGED drawn
    /\ down' = Tail(down)
    /\ UNCHANGED <<snd, up, net, newest, heard, spent, open>>

\* Between two connections the socket is read all the same, for nothing.
ReceiverGetsDatagram(d) ==
    IF rcv.connected
    THEN /\ HearDatagram(d.flow, d.s)
         /\ up' = up \o DatagramReplies(d.flow, d.s)
         /\ IF Applies(d.flow, d.s) THEN Draw(d.flow, d.s) ELSE UNCHANGED drawn
         /\ heard' = heard \cup {d.flow}
    ELSE UNCHANGED <<rcv, up, drawn, heard>>

Arrive ==
    /\ open
    /\ \E d \in net :
         /\ ReceiverGetsDatagram(d)
         /\ \/ net' = net \ {d} /\ UNCHANGED spent
            \/ spent.copies < MaxCopies /\ Spend("copies") /\ UNCHANGED net
    /\ UNCHANGED <<snd, down, newest, open>>

\* Lost on the way, or dropped by a full socket buffer.
Lose ==
    /\ spent.lost < MaxLost
    /\ Spend("lost")
    /\ \E d \in net : net' = net \ {d}
    /\ UNCHANGED <<snd, rcv, up, down, newest, drawn, heard, open>>

\* update_hello on the live connection: the same port, another, or none.
HelloAgain ==
    /\ rcv.connected
    /\ spent.hellos < MaxHellos
    /\ Spend("hellos")
    /\ \E p \in Ports \cup {None} :
         /\ UpdateHello(p)
         /\ up' = Append(up, [HelloFrame EXCEPT !.cursorPort = p])
    /\ UNCHANGED <<snd, down, net, newest, drawn, heard, open>>

-----------------------------------------------------------------------------
CursorNext ==
    \/ Dial \/ HangUp
    \/ SenderGets \/ Move \/ CursorClock \/ GiveUp
    \/ ReceiverGets \/ Arrive \/ Lose \/ HelloAgain

CursorSafety == CursorInit /\ [][CursorNext]_vars

\* TCP delivers, and so does the network whatever it does not lose.
CursorSpec ==
    /\ CursorSafety
    /\ WF_vars(Dial) /\ WF_vars(SenderGets) /\ WF_vars(ReceiverGets)
    /\ SF_vars(Arrive /\ net' # net)

-----------------------------------------------------------------------------
(* On one flow of one connection the cursor never goes back, whichever of  *)
(* the two paths is slow, however datagrams are reordered or duplicated    *)
(* (CursorSeqTracker::accept in on_control and on_datagram).               *)
NeverBackOnAFlow ==
    [][rcv.connected /\ rcv'.connected /\ rcv'.udpFlow = rcv.udpFlow
       /\ drawn.conn = spent.sessions /\ drawn' # drawn
         => drawn'.s > drawn.s]_vars

\* Datagrams the receiver heard in the connection there is now.
HeardOwn == ThisFlow \in heard
HeardLate == \E flow \in heard : flow < ThisFlow

Acknowledged == snd.connected /\ CursorOnUdp /\ ~CursorOnTcp

(* A sender that stopped mirroring positions onto TCP has had a datagram   *)
(* of this very session through, unless a late one of an earlier session   *)
(* reached the receiver in this one: an ack is not carried over to another *)
(* connection, where the UDP port may be firewalled (SenderEvent::Connected, *)
(* on_connected and the hello branch of on_control).                       *)
HonestAck == Acknowledged => HeardOwn \/ HeardLate

(* The same without the late ones: "a new flow restarts the sequence and   *)
(* needs its own cursorAck" (receiver.rs:370).  This does not hold: the    *)
(* receiver tells flows apart by address and cannot tell which of them is  *)
(* its sender's, so that a late datagram of the flow before is taken for a *)
(* new one and acknowledged to the present sender.                         *)
OwnAck == Acknowledged => HeardOwn

\* No datagram is lost between the two and none comes late from an earlier
\* connection, the ack is in time, and the offer of the port is not withdrawn.
Undisturbed ==
    ~open \/ (~HeardLate /\ spent.lost = 0 /\ spent.ticks = 0 /\ spent.hellos = 0)

(* When the pointer comes to rest, the receiver draws it where it rests:   *)
(* through a firewall by the mirror on TCP alone, before and after the     *)
(* flow is given up; and through an open port, of which the sender relies  *)
(* on the network once the flow is acknowledged (cursor, on_tick).         *)
PointerRests ==
    <>[](Undisturbed /\ rcv.connected /\ snd.hello # None /\ newest.s # 0
           => drawn = [conn |-> spent.sessions, flow |-> ThisFlow, s |-> newest.s])

(* A position that TCP carried too is drawn, however late its datagram     *)
(* comes: when nothing is under way any more, it is where the receiver  *)
(* has the cursor.  PROTOCOL.md, section 6.3: "a lost or late datagram     *)
(* costs nothing: the next one supersedes it".                             *)
MirroredPositionKept ==
    Undisturbed /\ rcv.connected /\ newest.tcp /\ up = << >> /\ down = << >> /\ net = {} =>
        newest.s = 0 \/ drawn.s = newest.s

(* The receiver's pointer follows the sender's: it ends up where that one  *)
(* rests, whichever of the two ways its position took, and before that no  *)
(* datagram that comes late takes it back from a position TCP carried too  *)
(* (cursor, HearDatagram of the receiver session).                         *)
PointerFollows == PointerRests /\ []MirroredPositionKept
=============================================================================
