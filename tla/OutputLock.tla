----------------------------- MODULE OutputLock -----------------------------
(***************************************************************************)
(* One sender per virtual output: the lock file of od-sender               *)
(* (backend/lock.rs), one system call at a time.  Senders probe it before  *)
(* they answer a hello and take it when they open the display (session.rs, *)
(* lock_conflict and Backend::open); a disconnect probes every lock and    *)
(* interrupts the process recorded in those it does not get                *)
(* (disconnect.rs).  flock belongs to the open file: it goes with the      *)
(* process, the pid in the file stays.                                     *)
(***************************************************************************)
EXTENDS Option, FiniteSets

CONSTANTS
    Senders, Tools,     \* processes: od-sender run, od-sender disconnect
    MayCrash            \* may a sender be killed?

ASSUME LockAssumption ==
    /\ Senders # {}
    /\ Senders \cap Tools = {}
    /\ None \notin Senders \cup Tools
    /\ MayCrash \in BOOLEAN

VARIABLES
    at,         \* what each process is about to do
    opening,    \* the senders that want the lock to keep it
    holder,     \* the process whose open file has the flock
    pid,        \* the content of the file
    target      \* what a disconnect read, the process it will interrupt

lockVars == <<at, opening, holder, pid, target>>

Processes == Senders \cup Tools

Places == {"try", "locked", "cleared", "holds", "refused", "drive", "kill", "bailed", "dead"}

\* A disconnect that kills has somebody to kill.
LockTypeOK ==
    /\ at \in [Processes -> Places]
    /\ opening \subseteq Senders
    /\ holder \in Processes \cup {None}
    /\ pid \in Processes \cup {None}
    /\ target \in [Tools -> Processes \cup {None}]
    /\ \A t \in Tools : at[t] = "kill" => target[t] # None

LockInit ==
    /\ at = [p \in Processes |-> "try"]
    /\ opening = {}
    /\ holder = None
    /\ pid = None
    /\ target = [t \in Tools |-> None]

Goes(p, where) == at' = [at EXCEPT ![p] = where]

LetsGo(p) == IF holder = p THEN None ELSE holder

-----------------------------------------------------------------------------
(* try_lock.                                                               *)

\* Mutant: the file is truncated as it is opened.
TruncatingFlock(p) ==
    /\ at[p] = "try"
    /\ pid' = None
    /\ IF holder = None
       THEN holder' = p /\ Goes(p, "locked")
       ELSE UNCHANGED holder /\ Goes(p, "refused")
    /\ UNCHANGED <<opening, target>>

Flock(p) ==
    /\ at[p] = "try"
    /\ IF holder = None
       THEN holder' = p /\ Goes(p, "locked")
       ELSE UNCHANGED holder /\ Goes(p, "refused")
    /\ UNCHANGED <<opening, pid, target>>

SetLen(p) ==
    /\ at[p] = "locked"
    /\ Goes(p, "cleared")
    /\ pid' = None
    /\ UNCHANGED <<opening, holder, target>>

WritePid(p) ==
    /\ at[p] = "cleared"
    /\ Goes(p, "holds")
    /\ pid' = p
    /\ UNCHANGED <<opening, holder, target>>

-----------------------------------------------------------------------------
(* A sender.                                                               *)

\* Mutant: the probe is kept until the session ends.
ProbeKept(p) ==
    /\ at[p] = "holds" /\ p \notin opening
    /\ Goes(p, "try")
    /\ opening' = opening \cup {p}
    /\ UNCHANGED <<holder, pid, target>>

\* lock_conflict: the lock was free, the probe is dropped.
Checked(p) ==
    /\ at[p] = "holds" /\ p \notin opening
    /\ Goes(p, "try")
    /\ opening' = opening \cup {p}
    /\ holder' = LetsGo(p)
    /\ UNCHANGED <<pid, target>>

\* open: the display keeps the lock.
Drives(p) ==
    /\ at[p] = "holds" /\ p \in opening
    /\ Goes(p, "drive")
    /\ UNCHANGED <<opening, holder, pid, target>>

\* SessionEnd::LockConflict: stop and do not redial.
Bails(p) ==
    /\ at[p] = "refused"
    /\ Goes(p, "bailed")
    /\ UNCHANGED <<opening, holder, pid, target>>

\* Mutant: the display outlives its session, and the lock with it.
EndsLocked(p) ==
    /\ at[p] = "drive"
    /\ Goes(p, "try")
    /\ opening' = opening \ {p}
    /\ UNCHANGED <<holder, pid, target>>

\* The session ends, the display is closed, and the sender dials again.
Ends(p) ==
    /\ at[p] = "drive"
    /\ Goes(p, "try")
    /\ opening' = opening \ {p}
    /\ holder' = LetsGo(p)
    /\ UNCHANGED <<pid, target>>

\* Killed: the system closes the file, its content stays.
Crash(p) ==
    /\ MayCrash
    /\ at[p] # "bailed"
    /\ Goes(p, "dead")
    /\ opening' = opening \ {p}
    /\ holder' = LetsGo(p)
    /\ UNCHANGED <<pid, target>>

SenderSteps(p) == Flock(p) \/ SetLen(p) \/ WritePid(p) \/ Checked(p) \/ Drives(p) \/ Bails(p)

-----------------------------------------------------------------------------
(* disconnect.                                                             *)

\* The lock was free: no sender behind it.
NobodyThere(t) ==
    /\ at[t] = "holds"
    /\ Goes(t, "dead")
    /\ holder' = LetsGo(t)
    /\ UNCHANGED <<opening, pid, target>>

HolderPid(t) ==
    /\ at[t] = "refused"
    /\ Goes(t, IF pid = None THEN "dead" ELSE "kill")
    /\ target' = [target EXCEPT ![t] = pid]
    /\ UNCHANGED <<opening, holder, pid>>

\* SIGINT: a process that lives ends in good order.
Kill(t) ==
    /\ at[t] = "kill"
    /\ at' = [p \in Processes |-> IF p \in {t, target[t]} THEN "dead" ELSE at[p]]
    /\ opening' = opening \ {target[t]}
    /\ holder' = LetsGo(target[t])
    /\ UNCHANGED <<pid, target>>

ToolSteps(t) ==
    Flock(t) \/ SetLen(t) \/ WritePid(t) \/ NobodyThere(t) \/ HolderPid(t) \/ Kill(t)

-----------------------------------------------------------------------------
LockNext ==
    \/ \E p \in Senders : SenderSteps(p) \/ Ends(p) \/ Crash(p)
    \/ \E t \in Tools : ToolSteps(t)

\* Whether a disconnect is run at all is the user's choice.
LockSpec ==
    /\ LockInit /\ [][LockNext]_lockVars
    /\ \A p \in Senders : WF_lockVars(SenderSteps(p))
    /\ \A t \in Tools : WF_lockVars(at[t] # "try" /\ ToolSteps(t))

-----------------------------------------------------------------------------
(* A sender that drives the output is the one the lock file names, so that *)
(* a second sender reports it and disconnect finds it, whoever probed the  *)
(* lock before or tries to now (try_lock, disconnect's running).           *)
DriverRecorded ==
    \A p \in Senders : at[p] = "drive" => holder = p /\ pid = p

Undisturbed == \A p \in Processes : IF p \in Tools THEN at[p] = "try" ELSE at[p] # "dead"

(* Senders that refuse each other do not all give up: as long as nobody    *)
(* runs a disconnect and no sender is killed, one sender is always left    *)
(* (run, LockConflict).                                                    *)
OneIsLeft == Undisturbed => \E p \in Senders : at[p] # "bailed"

(* The lock file tells the truth while senders race for it, are refused,   *)
(* crash or are told to leave, and the race leaves a winner (try_lock,     *)
(* lock_conflict, disconnect's running).                                   *)
LockKept == DriverRecorded /\ OneIsLeft

(* And it gets the output: again and again some sender drives it.          *)
SomeoneDrives == []Undisturbed => []<>(\E p \in Senders : at[p] = "drive")
=============================================================================
