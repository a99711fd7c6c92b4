----------------------------- MODULE NewestSlot -----------------------------
(***************************************************************************)
(* What the channel between capture and encoder promises (the comment at   *)
(* the head of od-sender/src/latest.rs): a slot in which the newest value  *)
(* wins, and whose last value is still delivered when the sender is gone.  *)
(***************************************************************************)
CONSTANTS Values, None

VARIABLES slot, newest, open, given

\* newest: the last value sent.  given: what recv_timeout returned last.
SlotInit == slot = None /\ newest = None /\ open = TRUE /\ given = None

Put(v) == open /\ slot' = v /\ newest' = v /\ UNCHANGED <<open, given>>

Close == open /\ open' = FALSE /\ UNCHANGED <<slot, newest, given>>

Take ==
    /\ slot # None /\ slot = newest
    /\ given' = slot /\ slot' = None
    /\ UNCHANGED <<newest, open>>

Disconnected == slot = None /\ ~open /\ given' = None /\ UNCHANGED <<slot, newest, open>>

TimedOut == slot = None /\ open /\ given' = None /\ UNCHANGED <<slot, newest, open>>

SlotNext == (\E v \in Values : Put(v)) \/ Close \/ Take \/ Disconnected \/ TimedOut

SlotSpec == SlotInit /\ [][SlotNext]_<<slot, newest, open, given>>

=============================================================================
