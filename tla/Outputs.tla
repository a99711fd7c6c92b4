------------------------------ MODULE Outputs ------------------------------
(***************************************************************************)
(* The outputs the sender makes on Sway and on Hyprland (backend/wlroots   *)
(* and backend/hyprland in linux/crates/od-sender) and captures through    *)
(* wayland/display.rs: opened, sized, resized, closed or left behind, and  *)
(* cleaned up after senders that died.                                     *)
(*                                                                         *)
(* Sway names an output itself, so a file records which one is a display's *)
(* and in which run of Sway; on Hyprland the output has the display's      *)
(* name.  Every call over IPC is a step of its own, because the user, the  *)
(* compositor and the clean command come in between; a call to a           *)
(* compositor that has been restarted fails.  A display's lock is taken    *)
(* and let go in one step here: OutputLock has it call by call.            *)
(***************************************************************************)
EXTENDS Option, Naturals, FiniteSets

CONSTANTS
    Kinds,          \* compositors: "sway", "hyprland"
    Drivers,        \* senders
    Displays,       \* a display is its lock's name, od-<id>
    MaxRuns,        \* bound: runs of the compositor
    MaxMade         \* bound: outputs made in one run

ASSUME OutputsAssumption ==
    /\ Kinds \subseteq {"sway", "hyprland"}
    /\ MaxRuns \in Nat \ {0} /\ MaxMade \in Nat
    /\ "clean" \notin Drivers \cup {None} /\ "user" \notin Displays
    /\ \A d \in Displays : d \notin Nat

VARIABLES
    wm,             \* the compositor and its outputs
    record,         \* the record file of each display
    lockOf,         \* who has the lock of each display
    drv,            \* the senders
    tidy            \* the clean command

outputsVars == <<wm, record, lockOf, drv, tidy>>

Runs == 1 .. MaxRuns
OutputNames == (1 .. MaxMade) \cup Displays
Recording == [output : OutputNames, run : Runs]

ASSUME NoneIsNothing == None \notin Nat \cup Displays \cup Drivers \cup Recording

Sway == wm.kind = "sway"
Existing == {o.name : o \in wm.outputs}

Working == {"look", "list", "find", "create", "diff", "save", "layout", "apply",
            "open", "remove"}

OutputsTypeOK ==
    /\ wm \in [kind : Kinds, run : Runs, made : 0 .. MaxMade,
               outputs : SUBSET [name : OutputNames, by : Displays \cup {"user"}],
               sockets : SUBSET Runs]           \* those whose file exists
    /\ record \in [Displays -> Recording \cup {None}]
    /\ lockOf \in [Displays -> Drivers \cup {"clean", None}]
    /\ drv \in [Drivers ->
         [at : Working \cup {"off"},
          display : Displays \cup {None},
          output : OutputNames \cup {None},
          run : Runs,                           \* whose socket it has
          before : SUBSET OutputNames,          \* create_output's first list
          tries : 0 .. 2, fresh : BOOLEAN,      \* outman: attempts, serial
          mine : BOOLEAN,                       \* remove it if setup fails
          captured : SUBSET {"frames", "cursor"}]]
    /\ tidy \in [todo : SUBSET [display : Displays, record : Recording \cup {None}],
                 holds : Displays \cup {None},
                 record : Recording \cup {None}]

Off(run) == [at |-> "off", display |-> None, output |-> None, run |-> run, before |-> {},
             tries |-> 0, fresh |-> FALSE, mine |-> FALSE, captured |-> {}]
Resting == [todo |-> {}, holds |-> None, record |-> None]

OutputsInit ==
    /\ wm \in [kind : Kinds, run : {1}, made : {0}, outputs : {{}}, sockets : {{1}}]
    /\ record = [d \in Displays |-> None]
    /\ lockOf = [d \in Displays |-> None]
    /\ drv = [s \in Drivers |-> Off(1)]
    /\ tidy = Resting

-----------------------------------------------------------------------------
Answers(s) == drv[s].run = wm.run
Step(s, next) == drv' = [drv EXCEPT ![s] = next]
Goto(s, at) == [drv[s] EXCEPT !.at = at]

\* A layout that changes cancels the configurations made for the one before.
Stale(d) == [s \in Drivers |-> [d[s] EXCEPT !.fresh = FALSE]]

Made(name, by) ==
    wm' = [wm EXCEPT !.outputs = @ \cup {[name |-> name, by |-> by]},
                     !.made = IF name \in Nat THEN @ + 1 ELSE @]
Without(name) == {o \in wm.outputs : o.name # name}
Unplugged(name) == wm' = [wm EXCEPT !.outputs = Without(name)]

Unlock(d) == lockOf' = [lockOf EXCEPT ![d] = None]

\* The open or close that ends: whatever is left, the lock goes.
EndOf(s) == Step(s, Off(drv[s].run)) /\ Unlock(drv[s].display)

-----------------------------------------------------------------------------
(* Opening: WlrootsBackend::open and HyprlandBackend::open.                *)

Begin(s) ==
    /\ drv[s].at = "off"
    /\ \E d \in Displays :
         /\ lockOf[d] = None
         /\ lockOf' = [lockOf EXCEPT ![d] = s]
         /\ Step(s, [Off(wm.run) EXCEPT !.at = "look", !.display = d])
    /\ UNCHANGED <<wm, record, tidy>>

\* The output a dead sender left for this display.
Leftover(s) ==
    LET r == record[drv[s].display] IN
    /\ r # None
    /\ r.run = drv[s].run
    /\ Answers(s)
    /\ r.output \in Existing

Look(s) ==
    /\ drv[s].at = "look"
    /\ IF Sway
       THEN Step(s, IF Leftover(s)
                    THEN [Goto(s, "save") EXCEPT !.output = record[drv[s].display].output]
                    ELSE Goto(s, "list"))
       ELSE /\ Answers(s)
            /\ Step(s, [Goto(s, "find") EXCEPT
                          !.output = drv[s].display,
                          !.mine = drv[s].display \notin Existing])
    /\ UNCHANGED <<wm, record, lockOf, tidy>>

\* create_output: the names before.
List(s) ==
    /\ drv[s].at = "list"
    /\ Answers(s)
    /\ Step(s, [Goto(s, "create") EXCEPT !.before = Existing])
    /\ UNCHANGED <<wm, record, lockOf, tidy>>

\* Hyprland's reconfigure: the output, if need be made again.
Find(s) ==
    /\ drv[s].at = "find"
    /\ Answers(s)
    /\ Step(s, Goto(s, IF drv[s].output \in Existing THEN "layout" ELSE "create"))
    /\ UNCHANGED <<wm, record, lockOf, tidy>>

Create(s) ==
    /\ drv[s].at = "create"
    /\ Answers(s)
    /\ IF Sway
       THEN /\ wm.made < MaxMade
            /\ Made(wm.made + 1, drv[s].display)
            /\ drv' = Stale([drv EXCEPT ![s].at = "diff"])
       ELSE /\ Made(drv[s].display, drv[s].display)
            /\ drv' = Stale([drv EXCEPT ![s].at = "layout"])
    /\ UNCHANGED <<record, lockOf, tidy>>

\* create_output: exactly one name is new.
Diff(s) ==
    /\ drv[s].at = "diff"
    /\ Answers(s)
    /\ \E n \in Existing :
         /\ Existing \ drv[s].before = {n}
         /\ Step(s, [Goto(s, "save") EXCEPT !.output = n, !.before = {}])
    /\ UNCHANGED <<wm, record, lockOf, tidy>>

\* Mutant: the file is written once the output works.
SaveLater(s) ==
    /\ drv[s].at = "save"
    /\ Step(s, [Goto(s, "layout") EXCEPT !.mine = TRUE])
    /\ UNCHANGED <<wm, record, lockOf, tidy>>

Save(s) ==
    /\ drv[s].at = "save"
    /\ record' = [record EXCEPT ![drv[s].display] =
                    [output |-> drv[s].output, run |-> drv[s].run]]
    /\ Step(s, [Goto(s, "layout") EXCEPT !.mine = TRUE])
    /\ UNCHANGED <<wm, lockOf, tidy>>

\* Written in part, or not at all: the output stays.
SaveFails(s) ==
    /\ drv[s].at = "save"
    /\ \/ record' = [record EXCEPT ![drv[s].display] = None]
       \/ UNCHANGED record
    /\ EndOf(s)
    /\ UNCHANGED <<wm, tidy>>

\* Before there is anything to remove, an error just lets the lock go.  On
\* Sway that is also the error of create_output after it made an output.
GivesUp(s) ==
    /\ \/ drv[s].at \in {"look", "list", "diff"}
       \/ drv[s].at = "create" /\ Sway
    /\ EndOf(s)
    /\ UNCHANGED <<wm, record, tidy>>

-----------------------------------------------------------------------------
(* Sizing: outman::apply, HyprlandIpc::configure.                          *)

Serial(s) ==
    /\ drv[s].at = "layout"
    /\ Answers(s)
    /\ drv[s].output \in Existing
    /\ Step(s, [Goto(s, "apply") EXCEPT !.fresh = TRUE])
    /\ UNCHANGED <<wm, record, lockOf, tidy>>

Cancelled(s) ==
    /\ drv[s].at = "apply"
    /\ Sway /\ ~drv[s].fresh
    /\ drv[s].tries < 2
    /\ Step(s, [Goto(s, "layout") EXCEPT !.tries = @ + 1])
    /\ UNCHANGED <<wm, record, lockOf, tidy>>

Applied(s) ==
    /\ drv[s].at = "apply"
    /\ Answers(s)
    /\ Sway => drv[s].fresh
    /\ drv[s].output \in Existing
    /\ drv' = Stale([drv EXCEPT ![s].at = "open", ![s].tries = 0, ![s].mine = TRUE])
    /\ UNCHANGED <<wm, record, lockOf, tidy>>

\* Refused, too late, cancelled once too often, or the output is gone.
SizingFails(s) ==
    /\ \/ drv[s].at \in {"layout", "apply"}
       \/ drv[s].at \in {"find", "create"} /\ ~Sway
    /\ IF drv[s].mine
       THEN Step(s, [Goto(s, "remove") EXCEPT !.tries = 0, !.fresh = FALSE])
            /\ UNCHANGED lockOf
       ELSE EndOf(s)
    /\ UNCHANGED <<wm, record, tidy>>

-----------------------------------------------------------------------------
(* An open display: CapturedDisplay.                                       *)

Captures(s, captured) ==
    /\ drv[s].at = "open"
    /\ Step(s, [drv[s] EXCEPT !.captured = captured])
    /\ UNCHANGED <<wm, record, lockOf, tidy>>

\* Stopped first; the new thread may fail to start.
StartCapture(s) ==
    \E started \in SUBSET {"frames"} : Captures(s, (drv[s].captured \ {"frames"}) \cup started)

StartCursor(s) ==
    \E started \in SUBSET {"cursor"} : Captures(s, (drv[s].captured \ {"cursor"}) \cup started)

StopCapture(s) == Captures(s, {})

\* Mutant: the cursor's thread goes on.
ReconfigureUnderCapture(s) ==
    /\ drv[s].at = "open"
    /\ Step(s, [Goto(s, IF Sway THEN "layout" ELSE "find") EXCEPT !.captured = @ \ {"frames"}])
    /\ UNCHANGED <<wm, record, lockOf, tidy>>

Reconfigure(s) ==
    /\ drv[s].at = "open"
    /\ Step(s, [Goto(s, IF Sway THEN "layout" ELSE "find") EXCEPT !.captured = {}])
    /\ UNCHANGED <<wm, record, lockOf, tidy>>

\* Closed, or dropped on an error of the session or of a resize.
Close(s) ==
    /\ drv[s].at = "open"
    /\ Step(s, [Goto(s, "remove") EXCEPT !.captured = {}])
    /\ UNCHANGED <<wm, record, lockOf, tidy>>

CloseKeeping(s) ==
    /\ drv[s].at = "open"
    /\ EndOf(s)
    /\ UNCHANGED <<wm, record, tidy>>

RemoveOutput(s) ==
    /\ drv[s].at = "remove"
    /\ Answers(s)
    /\ drv[s].output \in Existing
    /\ Unplugged(drv[s].output)
    /\ record' = [record EXCEPT ![drv[s].display] = None]
    /\ drv' = Stale([drv EXCEPT ![s] = Off(drv[s].run)])
    /\ Unlock(drv[s].display)
    /\ UNCHANGED tidy

RemoveFails(s) ==
    /\ drv[s].at = "remove"
    /\ EndOf(s)
    /\ UNCHANGED <<wm, record, tidy>>

Killed(s) ==
    /\ drv[s].at # "off"
    /\ EndOf(s)
    /\ UNCHANGED <<wm, record, tidy>>

-----------------------------------------------------------------------------
(* The clean command.                                                      *)

\* The records, or the outputs named od-*, as they are at the start.
CleanBegins ==
    /\ tidy = Resting
    /\ tidy' = [tidy EXCEPT !.todo =
                  {[display |-> d, record |-> record[d]] :
                     d \in {e \in Displays : IF Sway THEN record[e] # None ELSE e \in Existing}}]
    /\ UNCHANGED <<wm, record, lockOf, drv>>

\* Mutant: the lock is not looked at.
CleanTakesAny ==
    /\ tidy.holds = None
    /\ \E t \in tidy.todo :
         tidy' = [tidy EXCEPT !.todo = @ \ {t}, !.holds = t.display, !.record = t.record]
    /\ UNCHANGED <<wm, record, lockOf, drv>>

CleanTakes ==
    /\ tidy.holds = None
    /\ \E t \in tidy.todo :
         IF lockOf[t.display] = None
         THEN /\ lockOf' = [lockOf EXCEPT ![t.display] = "clean"]
              /\ tidy' = [tidy EXCEPT !.todo = @ \ {t}, !.holds = t.display, !.record = t.record]
         ELSE tidy' = [tidy EXCEPT !.todo = @ \ {t}] /\ UNCHANGED lockOf
    /\ UNCHANGED <<wm, record, drv>>

Forgotten(d) == record' = [record EXCEPT ![d] = None]
CleanGoesOn == tidy' = [tidy EXCEPT !.holds = None, !.record = None] /\ Unlock(tidy.holds)

\* The output is of this run, so it goes, with its record.
CleanRemoves ==
    /\ tidy.holds # None
    /\ LET o == IF Sway THEN tidy.record.output ELSE tidy.holds IN
       /\ Sway => tidy.record.run = wm.run
       /\ o \in Existing
       /\ Unplugged(o)
    /\ Forgotten(tidy.holds)
    /\ drv' = Stale(drv)
    /\ CleanGoesOn

\* Its output, or its whole Sway, is gone; a Sway that runs is left alone.
CleanForgets ==
    /\ tidy.holds # None
    /\ Sway
    /\ IF tidy.record.run = wm.run
       THEN tidy.record.output \notin Existing /\ Forgotten(tidy.holds)
       ELSE IF tidy.record.run \in wm.sockets THEN UNCHANGED record ELSE Forgotten(tidy.holds)
    /\ CleanGoesOn
    /\ UNCHANGED <<wm, drv>>

\* An error of the compositor ends it, as does being killed.
CleanEnds ==
    /\ tidy # Resting
    /\ tidy' = Resting
    /\ lockOf' = [d \in Displays |-> IF lockOf[d] = "clean" THEN None ELSE lockOf[d]]
    /\ UNCHANGED <<wm, record, drv>>

-----------------------------------------------------------------------------
(* The user and the compositor.                                            *)

UserMakes ==
    /\ Sway
    /\ wm.made < MaxMade
    /\ Made(wm.made + 1, "user")
    /\ drv' = Stale(drv)
    /\ UNCHANGED <<record, lockOf, tidy>>

\* Any output, but for one whose sender is just looking for its name.
UserUnplugs ==
    /\ \E o \in wm.outputs :
         /\ \A s \in Drivers : drv[s].at # "diff"
         /\ Unplugged(o.name)
    /\ drv' = Stale(drv)
    /\ UNCHANGED <<record, lockOf, tidy>>

\* A new run has a new socket; one that crashed leaves its own behind.
\* What was captured is gone with it.
Restart ==
    /\ wm.run < MaxRuns
    /\ \E left \in SUBSET {wm.run} :
         wm' = [wm EXCEPT !.run = @ + 1, !.made = 0, !.outputs = {},
                          !.sockets = (@ \ {wm.run}) \cup left \cup {wm.run + 1}]
    /\ drv' = [s \in Drivers |-> [drv[s] EXCEPT !.captured = {}, !.fresh = FALSE]]
    /\ UNCHANGED <<record, lockOf, tidy>>

-----------------------------------------------------------------------------
DriverSteps(s) ==
    \/ Begin(s) \/ Look(s) \/ List(s) \/ Find(s) \/ Create(s) \/ Diff(s)
    \/ Save(s) \/ SaveFails(s) \/ GivesUp(s)
    \/ Serial(s) \/ Cancelled(s) \/ Applied(s) \/ SizingFails(s)
    \/ StartCapture(s) \/ StartCursor(s) \/ StopCapture(s)
    \/ Reconfigure(s) \/ Close(s) \/ CloseKeeping(s)
    \/ RemoveOutput(s) \/ RemoveFails(s) \/ Killed(s)

CleanSteps == CleanBegins \/ CleanTakes \/ CleanRemoves \/ CleanForgets \/ CleanEnds

OutputsNext ==
    \/ \E s \in Drivers : DriverSteps(s)
    \/ CleanSteps
    \/ UserMakes \/ UserUnplugs \/ Restart

OutputsSpec == OutputsInit /\ [][OutputsNext]_outputsVars

-----------------------------------------------------------------------------
(* Properties.                                                             *)

\* Only the user unplugs an output the user made; a sender and clean unplug
\* those of senders, and none that another sender has or that is captured
\* (record.rs: "Only outputs named in a record are ever unplugged"; display.rs:
\* neither method is called while a capture of the output is running).
UnplugsOwn ==
    [][\A o \in wm.outputs \ wm'.outputs :
         (\E s \in Drivers : DriverSteps(s)) \/ CleanSteps =>
           /\ o.by \in Displays
           /\ \A s \in Drivers :
                drv[s].output = o.name /\ drv[s].run = wm.run
                  => drv[s].captured = {} /\ drv'[s].at = "off"]_outputsVars

\* As long as a sender has an output its record says so: whenever it is
\* killed, the next sender finds the output, and clean does.
OpenIsRecorded ==
    Sway => \A s \in Drivers :
      drv[s].at \in {"layout", "apply", "open", "remove"} =>
        record[drv[s].display] = [output |-> drv[s].output, run |-> drv[s].run]

\* An output a sender recorded keeps its record for as long as it exists.
\* This does not hold: clean forgets the records of the outputs it could not
\* unplug.
LeftoverIsRecorded ==
    [][\A d \in Displays :
         LET r == record[d] IN
         /\ r # None
         /\ r.run = wm'.run
         /\ r.output \in {o.name : o \in wm'.outputs}
         /\ ~ \E s \in Drivers : SaveFails(s)
         => record'[d] = r]_outputsVars

\* However senders, their crashes, the user and clean interleave, no output
\* is lost to a sender that does not own it, and none a sender has is lost
\* track of (reconcile, Recording, clean).
OutputsKept == []OpenIsRecorded /\ UnplugsOwn
=============================================================================
