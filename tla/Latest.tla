------------------------------- MODULE Latest -------------------------------
(***************************************************************************)
(* The one-slot channel from the capture thread to the encoder thread, as  *)
(* od-sender/src/latest.rs implements it with a mutex and a condition      *)
(* variable.  A thread holds the mutex from one step to another; waiting   *)
(* gives it up and goes to sleep at once, and may end for no reason.       *)
(***************************************************************************)
EXTENDS Option

CONSTANT Values

ASSUME LatestAssumption ==
    None \notin Values /\ None \notin {"tx", "rx"}

VARIABLES
    value, senderAlive, \* State, behind the mutex
    mutex,              \* the thread that holds it
    tx, rx,             \* where send or drop, and recv_timeout, are
    item,               \* the value send was called with last
    result,             \* what recv_timeout returned last
    sent                \* history: the value the last finished send stored

channelVars == <<value, senderAlive, mutex, tx, rx, item, result, sent>>

\* A thread that sends has a value, and the mutex is held by the thread that
\* is between lock and unlock.
LatestTypeOK ==
    /\ value \in Values \cup {None}
    /\ senderAlive \in BOOLEAN
    /\ mutex \in {"tx", "rx", None}
    /\ tx \in {"idle", "locking", "locked", "notify", "dropping", "closing", "last", "gone"}
    /\ rx \in {"idle", "locking", "locked", "waiting", "woken", "done"}
    /\ item \in Values \cup {None}
    /\ result \in Values \cup {None}
    /\ sent \in Values \cup {None}
    /\ tx \in {"locking", "locked"} => item # None
    /\ mutex = "tx" <=> tx \in {"locked", "closing"}
    /\ mutex = "rx" <=> rx = "locked"

LatestInit ==
    /\ value = None /\ senderAlive = TRUE
    /\ mutex = None
    /\ tx = "idle" /\ rx = "idle"
    /\ item = None /\ result = None /\ sent = None

-----------------------------------------------------------------------------
(* Sender::send, and Drop.                                                 *)

Send(v) ==
    /\ tx = "idle"
    /\ tx' = "locking" /\ item' = v
    /\ UNCHANGED <<value, senderAlive, mutex, rx, result, sent>>

Drop ==
    /\ tx = "idle"
    /\ tx' = "dropping"
    /\ UNCHANGED <<value, senderAlive, mutex, rx, item, result, sent>>

TxLocks ==
    /\ tx \in {"locking", "dropping"}
    /\ mutex = None
    /\ mutex' = "tx"
    /\ tx' = IF tx = "locking" THEN "locked" ELSE "closing"
    /\ UNCHANGED <<value, senderAlive, rx, item, result, sent>>

\* Mutant: a value not yet received is kept.
KeepsOldest ==
    /\ tx = "locked"
    /\ value' = IF value = None THEN item ELSE value
    /\ mutex' = None
    /\ tx' = "notify"
    /\ sent' = item
    /\ UNCHANGED <<senderAlive, rx, item, result>>

Stores ==
    /\ tx = "locked"
    /\ value' = item
    /\ mutex' = None
    /\ tx' = "notify"
    /\ sent' = item
    /\ UNCHANGED <<senderAlive, rx, item, result>>

SenderGone ==
    /\ tx = "closing"
    /\ senderAlive' = FALSE
    /\ mutex' = None
    /\ tx' = "last"
    /\ UNCHANGED <<value, rx, item, result, sent>>

\* Mutant: a receiver that is waiting is left to its timeout.
NotifiesNobody ==
    /\ tx \in {"notify", "last"}
    /\ tx' = IF tx = "notify" THEN "idle" ELSE "gone"
    /\ UNCHANGED <<value, senderAlive, mutex, rx, item, result, sent>>

NotifyOne ==
    /\ tx \in {"notify", "last"}
    /\ tx' = IF tx = "notify" THEN "idle" ELSE "gone"
    /\ rx' = IF rx = "waiting" THEN "woken" ELSE rx
    /\ UNCHANGED <<value, senderAlive, mutex, item, result, sent>>

Tx == TxLocks \/ Stores \/ SenderGone \/ NotifyOne

-----------------------------------------------------------------------------
(* Receiver::recv_timeout.                                                 *)

Receive ==
    /\ rx = "idle"
    /\ rx' = "locking"
    /\ UNCHANGED <<value, senderAlive, mutex, tx, item, result, sent>>

RxLocks ==
    /\ rx \in {"locking", "woken"}
    /\ mutex = None
    /\ mutex' = "rx"
    /\ rx' = "locked"
    /\ UNCHANGED <<value, senderAlive, tx, item, result, sent>>

Returns(r, where) ==
    /\ result' = r
    /\ rx' = where
    /\ mutex' = None

Takes ==
    /\ rx = "locked"
    /\ value # None
    /\ Returns(value, "idle")
    /\ value' = None
    /\ UNCHANGED <<senderAlive, tx, item, sent>>

\* Mutant: the sender's end is looked at first.
EndsFirst ==
    /\ rx = "locked"
    /\ ~senderAlive
    /\ Returns(None, "done")
    /\ UNCHANGED <<value, senderAlive, tx, item, sent>>

Disconnects ==
    /\ rx = "locked"
    /\ value = None /\ ~senderAlive
    /\ Returns(None, "done")
    /\ UNCHANGED <<value, senderAlive, tx, item, sent>>

RunsOut ==
    /\ rx = "locked"
    /\ value = None /\ senderAlive
    /\ Returns(None, "idle")
    /\ UNCHANGED <<value, senderAlive, tx, item, sent>>

Waits ==
    /\ rx = "locked"
    /\ value = None /\ senderAlive
    /\ rx' = "waiting"
    /\ mutex' = None
    /\ UNCHANGED <<value, senderAlive, tx, item, result, sent>>

\* The wait timed out, or ended for no reason.
WakesUp ==
    /\ rx = "waiting"
    /\ rx' = "woken"
    /\ UNCHANGED <<value, senderAlive, mutex, tx, item, result, sent>>

Rx == Receive \/ RxLocks \/ Takes \/ Disconnects \/ Waits

-----------------------------------------------------------------------------
LatestNext == (\E v \in Values : Send(v)) \/ Drop \/ Tx \/ Rx \/ RunsOut \/ WakesUp

\* Both threads run, and nobody keeps a mutex from a thread for ever.  Time
\* may run out but need not: the wake-ups are to do without it.
LatestSpec ==
    /\ LatestInit /\ [][LatestNext]_channelVars
    /\ WF_channelVars(Tx) /\ WF_channelVars(Rx) /\ SF_channelVars(TxLocks) /\ SF_channelVars(RxLocks)

-----------------------------------------------------------------------------
(* The condition variable's way of doing it is a newest-wins slot: each    *)
(* return of recv_timeout is one the slot could give at that moment.       *)
Slot == INSTANCE NewestSlot WITH slot <- value, newest <- sent, open <- senderAlive, given <- result

NewestWins == Slot!SlotSpec

(* No wake-up is lost: a picture that is stored reaches the encoder, or a  *)
(* newer one does, without help from the timeout (send notifies after it   *)
(* stored; recv_timeout waits only after it looked).                       *)
Delivered == \A v \in Values : value = v ~> value # v \/ result = v

(* The encoder thread learns that capture is gone (Drop, recv_timeout).    *)
EndIsSeen == ~senderAlive ~> rx = "done"

(* What send stored and what Drop told, the encoder thread comes to see.   *)
NothingForgotten == Delivered /\ EndIsSeen
=============================================================================
