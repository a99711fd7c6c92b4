--------------------------- MODULE Backends_proofs --------------------------
(***************************************************************************)
(* Proofs about what a sender shares a desktop with, and whom it dials.    *)
(*                                                                         *)
(* OutputLock, for any number of senders and disconnects: both safety      *)
(* properties rest on one fact, that a process that got past flock is the  *)
(* holder until it lets go, so at most one is, and nobody else writes the  *)
(* file meanwhile.  Detect, for every registry a compositor may offer and  *)
(* every build.  Outputs, for any senders, displays and restarts of the    *)
(* compositor: what a sender takes for its output was made for its         *)
(* display, of which it has the lock.  KwinLayout, for one display of any  *)
(* widths and sides: whoever moved the user's screens knows it and has the *)
(* stream that keeps the output there.  GnomeMonitor, for any displays: a  *)
(* layout is applied only if it was planned for what the user has now.     *)
(* Discovery, for any number of receivers and any times: who answers       *)
(* before the deadline is in the list, or under the name that was asked    *)
(* for ends the browse at once.                                            *)
(***************************************************************************)
EXTENDS OutputLock, Detect, Discovery, Outputs, KwinLayout, GnomeMonitor, TLAPS

Inside == {"locked", "cleared", "holds", "drive"}

\* The processes past flock are the holder, and once one of them wrote its
\* pid the file keeps it.
Exclusive ==
    /\ \A p \in Processes :
          /\ at[p] \in Inside => holder = p
          /\ at[p] \in {"holds", "drive"} => pid = p
    /\ holder # None => at[holder] \in Inside

-----------------------------------------------------------------------------
(* The state of a lock, its file and the processes at it has its type, and *)
(* a disconnect that kills has a pid to kill (try_lock, running).          *)
THEOREM LockTyped == LockSpec => []LockTypeOK
<1>1. LockInit => LockTypeOK
  BY LockAssumption DEF LockInit, LockTypeOK, Places, Processes
<1>2. LockTypeOK /\ [LockNext]_lockVars => LockTypeOK'
  <2> SUFFICES ASSUME LockTypeOK, [LockNext]_lockVars PROVE LockTypeOK'
    OBVIOUS
  <2> USE LockAssumption DEF Goes, LetsGo
  <2>1. ASSUME NEW p \in Processes, Flock(p) PROVE LockTypeOK'
    BY <2>1 DEF LockTypeOK, Flock, Places, Processes
  <2>2. ASSUME NEW p \in Processes, SetLen(p) PROVE LockTypeOK'
    BY <2>2 DEF LockTypeOK, SetLen, Places, Processes
  <2>3. ASSUME NEW p \in Processes, WritePid(p) PROVE LockTypeOK'
    BY <2>3 DEF LockTypeOK, WritePid, Places, Processes
  <2>4. ASSUME NEW p \in Senders, Checked(p) PROVE LockTypeOK'
    BY <2>4 DEF LockTypeOK, Checked, Places, Processes
  <2>5. ASSUME NEW p \in Senders, Drives(p) \/ Bails(p) PROVE LockTypeOK'
    BY <2>5 DEF LockTypeOK, Drives, Bails, Places, Processes
  <2>6. ASSUME NEW p \in Senders, Ends(p) \/ Crash(p) PROVE LockTypeOK'
    BY <2>6 DEF LockTypeOK, Ends, Crash, Places, Processes
  <2>7. ASSUME NEW t \in Tools, NobodyThere(t) PROVE LockTypeOK'
    BY <2>7 DEF LockTypeOK, NobodyThere, Places, Processes
  <2>8. ASSUME NEW t \in Tools, HolderPid(t) PROVE LockTypeOK'
    BY <2>8 DEF LockTypeOK, HolderPid, Places, Processes
  <2>9. ASSUME NEW t \in Tools, Kill(t) PROVE LockTypeOK'
    BY <2>9 DEF LockTypeOK, Kill, Places, Processes
  <2>10. CASE UNCHANGED lockVars
    BY <2>10 DEF LockTypeOK, lockVars
  <2> QED
    BY <2>1, <2>2, <2>3, <2>4, <2>5, <2>6, <2>7, <2>8, <2>9, <2>10
    DEF LockNext, SenderSteps, ToolSteps, Processes
<1> QED
  BY <1>1, <1>2, PTL DEF LockSpec

-----------------------------------------------------------------------------
\* A step keeps the processes past flock apart.
LEMMA ExclusiveKept ==
    ASSUME LockTypeOK, Exclusive, [LockNext]_lockVars PROVE Exclusive'
<1> USE LockAssumption DEF Goes, LetsGo, Inside
<1>1. ASSUME NEW p \in Processes, Flock(p) PROVE Exclusive'
  BY <1>1 DEF LockTypeOK, Exclusive, Flock, Processes
<1>2. ASSUME NEW p \in Processes, SetLen(p) PROVE Exclusive'
  BY <1>2 DEF LockTypeOK, Exclusive, SetLen, Processes
<1>3. ASSUME NEW p \in Processes, WritePid(p) PROVE Exclusive'
  BY <1>3 DEF LockTypeOK, Exclusive, WritePid, Processes
<1>4. ASSUME NEW p \in Senders, Checked(p) PROVE Exclusive'
  BY <1>4 DEF LockTypeOK, Exclusive, Checked, Processes
<1>5. ASSUME NEW p \in Senders, Drives(p) \/ Bails(p) PROVE Exclusive'
  BY <1>5 DEF LockTypeOK, Exclusive, Drives, Bails, Processes
<1>6. ASSUME NEW p \in Senders, Ends(p) \/ Crash(p) PROVE Exclusive'
  BY <1>6 DEF LockTypeOK, Exclusive, Ends, Crash, Processes
<1>7. ASSUME NEW t \in Tools, NobodyThere(t) PROVE Exclusive'
  BY <1>7 DEF LockTypeOK, Exclusive, NobodyThere, Processes
<1>8. ASSUME NEW t \in Tools, HolderPid(t) PROVE Exclusive'
  BY <1>8 DEF LockTypeOK, Exclusive, HolderPid, Processes
<1>9. ASSUME NEW t \in Tools, Kill(t) PROVE Exclusive'
  BY <1>9 DEF LockTypeOK, Exclusive, Kill, Processes
<1>10. CASE UNCHANGED lockVars
  BY <1>10 DEF Exclusive, lockVars
<1> QED
  BY <1>1, <1>2, <1>3, <1>4, <1>5, <1>6, <1>7, <1>8, <1>9, <1>10
  DEF LockNext, SenderSteps, ToolSteps, Processes

LEMMA LockIsExclusive == LockSpec => []Exclusive
<1>1. LockInit => Exclusive
  BY LockAssumption DEF LockInit, Exclusive, Processes, Inside
<1> QED
  BY <1>1, ExclusiveKept, LockTyped, PTL DEF LockSpec

(* However many senders and disconnects probe the lock and whenever        *)
(* senders are killed, the lock file names the sender that drives the      *)
(* output (try_lock writes it only past flock).                            *)
THEOREM DriverIsRecorded == LockSpec => []DriverRecorded
<1>1. Exclusive => DriverRecorded
  BY DEF Exclusive, DriverRecorded, Inside, Processes
<1> QED
  BY <1>1, LockIsExclusive, PTL

-----------------------------------------------------------------------------
\* The senders that have not been refused.
Left == \E p \in Senders : at[p] \notin {"refused", "bailed"}

\* What disturbs the senders is never undone.
LEMMA DisturbedForGood ==
    ASSUME LockTypeOK, [LockNext]_lockVars, Undisturbed' PROVE Undisturbed
<1> USE LockAssumption DEF Goes
<1>1. ASSUME NEW p \in Processes, Flock(p) \/ SetLen(p) \/ WritePid(p) PROVE Undisturbed
  BY <1>1 DEF Undisturbed, LockTypeOK, Flock, SetLen, WritePid, Processes
<1>2. ASSUME NEW p \in Senders, Checked(p) \/ Drives(p) \/ Bails(p) \/ Ends(p) \/ Crash(p)
      PROVE  Undisturbed
  BY <1>2 DEF Undisturbed, LockTypeOK, Checked, Drives, Bails, Ends, Crash, Processes
<1>3. ASSUME NEW t \in Tools, NobodyThere(t) \/ HolderPid(t) PROVE Undisturbed
  BY <1>3 DEF Undisturbed, LockTypeOK, NobodyThere, HolderPid, Processes
<1>4. ASSUME NEW t \in Tools, Kill(t) PROVE Undisturbed
  BY <1>4 DEF Undisturbed, LockTypeOK, Kill, Processes
<1>5. CASE UNCHANGED lockVars
  BY <1>5 DEF Undisturbed, lockVars
<1> QED
  BY <1>1, <1>2, <1>3, <1>4, <1>5 DEF LockNext, SenderSteps, ToolSteps, Processes

\* A sender that is refused leaves the one that refused it.
LEMMA LeftKept ==
    ASSUME LockTypeOK, Exclusive, Left, Undisturbed, [LockNext]_lockVars, Undisturbed'
    PROVE  Left'
<1> USE LockAssumption DEF Goes, Left
<1>1. ASSUME NEW p \in Senders, Flock(p) PROVE Left'
  <2>1. CASE holder = None
    BY <1>1, <2>1 DEF Flock, LockTypeOK, Processes
  <2>2. CASE holder # None
    <3>1. holder \in Senders /\ holder # p
      BY <1>1, <2>2 DEF Flock, LockTypeOK, Exclusive, Undisturbed, Inside, Processes
    <3>2. at'[holder] = at[holder]
      BY <1>1, <3>1 DEF Flock, LockTypeOK, Processes
    <3> QED
      BY <2>2, <3>1, <3>2 DEF Exclusive, Inside
  <2> QED
    BY <2>1, <2>2
<1>2. ASSUME NEW p \in Senders, Bails(p) PROVE Left'
  BY <1>2 DEF Bails, LockTypeOK, Processes
<1>3. ASSUME NEW p \in Senders,
             SetLen(p) \/ WritePid(p) \/ Checked(p) \/ Drives(p) \/ Ends(p)
      PROVE  Left'
  BY <1>3 DEF SetLen, WritePid, Checked, Drives, Ends, LockTypeOK, Processes
<1>4. ASSUME NEW p \in Senders, Crash(p) PROVE Left'
  BY <1>4 DEF Crash, Undisturbed, LockTypeOK, Processes
<1>5. ASSUME NEW t \in Tools, Flock(t) PROVE Left'
  BY <1>5 DEF Flock, Undisturbed, LockTypeOK, Processes
<1>6. ASSUME NEW t \in Tools,
             SetLen(t) \/ WritePid(t) \/ NobodyThere(t) \/ HolderPid(t) \/ Kill(t)
      PROVE  Left'
  BY <1>6 DEF SetLen, WritePid, NobodyThere, HolderPid, Kill, Undisturbed, Processes
<1>7. CASE UNCHANGED lockVars
  BY <1>7 DEF lockVars
<1> QED
  BY <1>1, <1>2, <1>3, <1>4, <1>5, <1>6, <1>7 DEF LockNext, SenderSteps, ToolSteps

(* As long as no disconnect is run and no sender is killed, senders that   *)
(* meet at the lock do not all give up: whoever refuses the last one goes  *)
(* on (lock_conflict, run).                                                *)
THEOREM OneStays == LockSpec => []OneIsLeft
<1> DEFINE Inv == Undisturbed => Left
<1>1. LockInit => Inv
  BY LockAssumption DEF LockInit, Left, Processes
<1>2. LockTypeOK /\ Exclusive /\ Inv /\ [LockNext]_lockVars => Inv'
  BY DisturbedForGood, LeftKept
<1>3. Inv => OneIsLeft
  BY DEF Left, OneIsLeft
<1> HIDE DEF Inv
<1> QED
  BY <1>1, <1>2, <1>3, LockTyped, LockIsExclusive, PTL DEF LockSpec

(* Both: the driver is the one the file names, and senders alone do not    *)
(* all give up.                                                            *)
THEOREM LockIsKept == LockSpec => []LockKept
<1>1. DriverRecorded /\ OneIsLeft => LockKept
  BY DEF LockKept
<1> QED
  BY <1>1, DriverIsRecorded, OneStays, PTL

-----------------------------------------------------------------------------
(* Detect.                                                                 *)

-----------------------------------------------------------------------------
(* What the walk finds, by what it was asked.                              *)

LEMMA SwayServed ==
    ASSUME NEW env, NEW s, SwayDecision(env, s) # None
    PROVE  SwayDecision(env, s) = "wlroots" /\ s # None /\ {"ext", "source"} \subseteq s
  BY DEF SwayDecision, OrRefused, WlrootsServes

LEMMA FoundIsCreated ==
    ASSUME NEW env, NEW s
    PROVE  /\ Found(env, s) \in {"hyprland", "wlroots", "kde", "gnome", None}
           /\ Found(env, s) = "wlroots" => Found(env, s) = SwayDecision(env, s)
<1>1. CASE env.hyprland
  BY <1>1, DetectAssumption DEF Found
<1>2. CASE ~env.hyprland /\ env.sway # "unset"
  <2>1. Found(env, s) = SwayDecision(env, s)
    BY <1>2 DEF Found
  <2> QED
    BY <2>1, DetectAssumption DEF SwayDecision, OrRefused
<1>3. CASE ~env.hyprland /\ env.sway = "unset"
  <2>1. Found(env, s) \in {KdeDecision(s), GnomeDecision, None}
    BY <1>3 DEF Found
  <2> QED
    BY <2>1, DetectAssumption DEF KdeDecision, GnomeDecision, OrRefused
<1> QED
  BY <1>1, <1>2, <1>3

\* --output alone, or with --backend adopt.
Adopting(ask) == ask.output /\ ask.backend \in {None, "adopt"}

LEMMA AdoptedIsCaptured ==
    ASSUME NEW env, NEW ask, NEW s, Adopting(ask)
    PROVE  \/ Named(env, ask, s) = None
           \/ Named(env, ask, s) = "adopt" /\ s # None /\ HasCapture(s)
  BY DetectAssumption DEF Adopting, Named, OrRefused, CanAdopt

LEMMA NamedIsNamed ==
    ASSUME NEW env, NEW ask, NEW s, ~Adopting(ask)
    PROVE  /\ Named(env, ask, s) \in {ask.backend, None}
           /\ Named(env, ask, s) # "adopt"
           /\ Named(env, ask, s) = "wlroots" => Named(env, ask, s) = SwayDecision(env, s)
<1> USE DetectAssumption DEF Adopting
<1>1. CASE ask.backend = "hyprland"
  BY <1>1 DEF Named, OrRefused
<1>2. CASE ask.backend = "wlroots"
  BY <1>2 DEF Named, SwayDecision, OrRefused
<1>3. CASE ask.backend = "kde"
  BY <1>3 DEF Named, KdeDecision, OrRefused
<1>4. CASE ask.backend = "gnome"
  BY <1>4 DEF Named, GnomeDecision, OrRefused
<1>5. CASE ask.backend \notin {"hyprland", "wlroots", "kde", "gnome"}
  BY <1>5 DEF Named
<1> QED
  BY <1>1, <1>2, <1>3, <1>4, <1>5

-----------------------------------------------------------------------------
(* What is decided and how it is captured.                                 *)

LEMMA DecidedCanBeCaptured ==
    ASSUME NEW env, NEW ask, NEW s,
           Decide(env, ask, s) \in {"wlroots", "adopt"}
    PROVE  s # None /\ HasCapture(s)
<1> USE DetectAssumption
<1>1. CASE ask.backend = None /\ ~ask.output
  <2>1. Decide(env, ask, s) = Found(env, s)
    BY <1>1 DEF Decide
  <2>2. SwayDecision(env, s) = "wlroots"
    BY <2>1, FoundIsCreated
  <2> QED
    BY <2>2, SwayServed DEF HasCapture
<1>2. CASE ~(ask.backend = None /\ ~ask.output)
  <2>1. Decide(env, ask, s) = Named(env, ask, s)
    BY <1>2 DEF Decide
  <2>2. CASE Adopting(ask)
    BY <2>1, <2>2, AdoptedIsCaptured
  <2>3. CASE ~Adopting(ask)
    <3>1. SwayDecision(env, s) = "wlroots"
      BY <2>1, <2>3, NamedIsNamed
    <3> QED
      BY <3>1, SwayServed DEF HasCapture
  <2> QED
    BY <2>2, <2>3
<1> QED
  BY <1>1, <1>2

LEMMA AutoIsNotRefused ==
    ASSUME NEW s, s # None, HasCapture(s), NEW version,
           NEW backend \in {"wlroots", "adopt"}
    PROVE  ChooseCapture(backend, version, "auto", s) # None
<1>1. CapturePreference(backend, version) = None
  BY DEF CapturePreference
<1>2. OfferedPaths(s) # {} /\ OfferedPaths(s) \subseteq {"ext", "wlr"}
  BY DEF OfferedPaths, HasCapture
<1> QED
  BY <1>1, <1>2, DetectAssumption DEF ChooseCapture, SelectPath, OtherPath

LEMMA AskedIsKept ==
    ASSUME NEW env, NEW ask, NEW s
    PROVE  /\ ask.backend # None => Decide(env, ask, s) \in {ask.backend, None}
           /\ ask.output /\ ask.backend = None => Decide(env, ask, s) \in {"adopt", None}
<1>1. CASE Adopting(ask)
  BY <1>1, AdoptedIsCaptured DEF Adopting, Decide
<1>2. CASE ~Adopting(ask)
  BY <1>2, NamedIsNamed DEF Adopting, Decide
<1> QED
  BY <1>1, <1>2

LEMMA CrashingIsSpared ==
    ASSUME NEW s, NEW version, version # "safe",
           ChooseCapture("hyprland", version, "auto", s) = "ext"
    PROVE  s # None /\ "wlr" \notin s
<1>1. CapturePreference("hyprland", version) = "wlr"
  BY DEF CapturePreference
<1>2. "wlr" \notin OfferedPaths(s)
  BY <1>1, DetectAssumption DEF ChooseCapture, SelectPath
<1> QED
  BY <1>2 DEF OfferedPaths, Paths

-----------------------------------------------------------------------------
(* Whatever a compositor offers and the user asks for, what the walk       *)
(* accepted is not refused for its capture, what was named is not replaced *)
(* by another, and a Hyprland that would crash is spared.                  *)
THEOREM BackendAlwaysFits == DetectSpec => []BackendFits
<1>1. DetectInit => BackendFits
  BY DEF DetectInit, BackendFits
<1>2. BackendFits /\ [DetectNext]_walk => BackendFits'
  <2> SUFFICES ASSUME BackendFits, Detects PROVE BackendFits'
    BY DEF DetectNext, BackendFits, IsAuto
  <2>1. PICK env \in Environments, ask \in Asks, s \in Registries \cup {None}, version \in Versions :
          walk' = Walked(env, ask, s, version,
                    IF Connects(Decide(env, ask, s), version) THEN Decide(env, ask, s) ELSE None)
    BY DEF Detects
  <2> DEFINE found == IF Connects(Decide(env, ask, s), version) THEN Decide(env, ask, s) ELSE None
             path == IF CapturesOnWayland(found) THEN ChooseCapture(found, version, ask.capture, s)
                     ELSE None
             refused == CapturesOnWayland(found) /\ path = None
  <2>2. /\ walk'.ask = ask /\ walk'.registry = s /\ walk'.version = version
        /\ walk'.found = found /\ walk'.path = path
        /\ walk'.backend = IF refused THEN None ELSE found
    BY <2>1 DEF Walked
  <2>3. found \in {Decide(env, ask, s), None}
    OBVIOUS
  <2> HIDE DEF found
  <2>4. found \in {"wlroots", "adopt"} /\ ask.capture = "auto" => walk'.backend = found
    BY <2>2, <2>3, DecidedCanBeCaptured, AutoIsNotRefused, DetectAssumption
  <2>5. /\ ask.backend # None => walk'.backend \in {ask.backend, None}
        /\ ask.output /\ ask.backend = None => walk'.backend \in {"adopt", None}
    BY <2>2, <2>3, AskedIsKept
  <2>6. walk'.backend = "hyprland" /\ version # "safe" /\ ask.capture = "auto" /\ path = "ext"
          => s # None /\ "wlr" \notin s
    BY <2>2, CrashingIsSpared, DetectAssumption DEF CapturesOnWayland
  <2> QED
    BY <2>2, <2>4, <2>5, <2>6 DEF BackendFits, IsAuto
<1> QED
  BY <1>1, <1>2, PTL DEF DetectSpec

-----------------------------------------------------------------------------
(* Outputs.                                                                *)

DriverStates ==
    [at : Working \cup {"off"}, display : Displays \cup {None}, output : OutputNames \cup {None},
     run : Runs, before : SUBSET OutputNames, tries : 0 .. 2, fresh : BOOLEAN, mine : BOOLEAN,
     captured : SUBSET {"frames", "cursor"}]

Compositors ==
    [kind : Kinds, run : Runs, made : 0 .. MaxMade,
     outputs : SUBSET [name : OutputNames, by : Displays \cup {"user"}], sockets : SUBSET Runs]

Todos == [display : Displays, record : Recording \cup {None}]

\* Output o, of run r, belongs to display d: no output there is goes by that
\* name and was made by somebody else.
Claim(d, o, r) ==
    IF Sway
    THEN /\ r \in Runs /\ r <= wm.run
         /\ r = wm.run => o \in 1 .. wm.made /\ \A x \in wm.outputs : x.name = o => x.by = d
    ELSE o = d

RecordHolds(d, r) == r # None => Claim(d, r.output, r.run)

\* Sway numbers its outputs in each run; Hyprland's have their display's name.
WmHolds ==
    /\ wm \in Compositors
    /\ \A x \in wm.outputs : IF Sway THEN x.name \in 1 .. wm.made
                             ELSE x.name = x.by /\ x.by \in Displays
    /\ \A x, y \in wm.outputs : x.name = y.name => x = y

\* What a sender that looks for its output is to find is there.
NewIsThere(v) == \E x \in wm.outputs : x.by = v.display /\ x.name \notin v.before

HasOutput == {"save", "layout", "apply", "open", "remove"}

\* A sender at a display has its lock, and what it takes for its output is.
DriverHolds(s) ==
    LET v == drv[s] IN
    /\ v \in DriverStates
    /\ v.at = "off" => v.output = None
    /\ v.at # "off" => v.display # None /\ lockOf[v.display] = s
    /\ v.captured # {} => v.at = "open"
    /\ v.output # None => Claim(v.display, v.output, v.run)
    /\ v.at \in HasOutput => v.output # None
    /\ Sway /\ v.run = wm.run =>
         /\ v.at \in {"create", "diff"} => v.before \subseteq 1 .. wm.made
         /\ v.at = "diff" => NewIsThere(v)
    /\ v.run <= wm.run
    /\ Sway /\ v.at \in HasOutput \ {"save"} =>
         record[v.display] = [output |-> v.output, run |-> v.run]
    /\ IF Sway THEN v.at # "find"
       ELSE v.at \notin {"list", "diff"} /\ (v.at \in {"find", "create"} => v.output # None)

RecordsHold ==
    /\ record \in [Displays -> Recording \cup {None}]
    /\ \A d \in Displays : RecordHolds(d, record[d])

\* The clean command has the lock of the display it is at.
TidyHolds ==
    /\ tidy \in [todo : SUBSET Todos, holds : Displays \cup {None}, record : Recording \cup {None}]
    /\ \A t \in tidy.todo : RecordHolds(t.display, t.record) /\ (Sway => t.record # None)
    /\ tidy.holds # None =>
         /\ lockOf[tidy.holds] = "clean"
         /\ RecordHolds(tidy.holds, tidy.record) /\ (Sway => tidy.record # None)

OutputsInv ==
    /\ WmHolds /\ RecordsHold /\ TidyHolds
    /\ lockOf \in [Displays -> Drivers \cup {"clean", None}]
    /\ drv \in [Drivers -> DriverStates]
    /\ \A s \in Drivers : DriverHolds(s)

-----------------------------------------------------------------------------
(* The compositor.                                                         *)

\* What a step, be it a restart, leaves of it.
WmKept ==
    /\ WmHolds' /\ wm'.kind = wm.kind
    /\ \/ wm'.run = wm.run /\ wm.made <= wm'.made
       \/ wm'.run > wm.run
    /\ \A d, o, r : Claim(d, o, r) => Claim(d, o, r)'

LEMMA WmStays ==
    ASSUME WmHolds, UNCHANGED wm
    PROVE  WmKept /\ \A v : NewIsThere(v) => NewIsThere(v)'
<1>1. WmHolds' /\ wm.made <= wm'.made
  BY DEF WmHolds, Compositors, Sway
<1> QED
  BY <1>1 DEF WmKept, Claim, Sway, NewIsThere

\* A new output has a name that was none before, or Hyprland's.
LEMMA MadeKeeps ==
    ASSUME WmHolds, NEW name, NEW by \in Displays \cup {"user"}, Made(name, by),
           IF Sway THEN wm.made < MaxMade /\ name = wm.made + 1 ELSE name = by /\ by \in Displays
    PROVE  /\ WmKept /\ \A v : NewIsThere(v) => NewIsThere(v)'
           /\ [name |-> name, by |-> by] \in wm'.outputs
           /\ Sway => name \in 1 .. wm'.made
<1> USE OutputsAssumption
<1> DEFINE x == [name |-> name, by |-> by]
<1>1. wm.made \in Nat /\ wm.run \in Runs /\ wm.made <= MaxMade
  BY DEF WmHolds, Compositors
<1>2. /\ name \in OutputNames
      /\ Sway => name \in Nat
      /\ ~Sway => name \notin Nat
  BY <1>1 DEF OutputNames
<1>3. wm' = [wm EXCEPT !.outputs = @ \cup {x}, !.made = IF name \in Nat THEN @ + 1 ELSE @]
  BY DEF Made
<1>4. /\ wm'.outputs = wm.outputs \cup {x} /\ wm'.kind = wm.kind /\ wm'.run = wm.run
      /\ wm'.made = (IF Sway THEN wm.made + 1 ELSE wm.made)
      /\ wm'.made \in 0 .. MaxMade /\ wm' \in Compositors
  <2>1. x \in [name : OutputNames, by : Displays \cup {"user"}]
    BY <1>2
  <2> DEFINE outs == wm.outputs \cup {x}
             made == IF Sway THEN wm.made + 1 ELSE wm.made
  <2>2. outs \in SUBSET [name : OutputNames, by : Displays \cup {"user"}]
    BY <2>1 DEF WmHolds, Compositors
  <2>3. made \in 0 .. MaxMade
    BY <1>1
  <2>4. wm' = [wm EXCEPT !.outputs = outs, !.made = made]
    BY <1>2, <1>3
  <2> HIDE DEF outs, made, x
  <2>5. wm' \in Compositors /\ wm'.outputs = outs /\ wm'.made = made
        /\ wm'.kind = wm.kind /\ wm'.run = wm.run
    BY <2>2, <2>3, <2>4 DEF WmHolds, Compositors
  <2> QED
    BY <2>3, <2>5 DEF outs, made
<1>5. Sway' <=> Sway
  BY <1>4 DEF Sway
<1>6. \A y \in wm.outputs : Sway => y.name \in 1 .. wm.made
  BY DEF WmHolds
<1>7. x.name = name /\ x.by = by
  OBVIOUS
<1> HIDE DEF x
<1>8. WmHolds'
  <2>1. \A y \in wm.outputs : y.name = x.name => y = x
    <3>1. CASE Sway
      BY <1>1, <1>6, <1>7, <3>1
    <3>2. CASE ~Sway
      BY <1>4, <1>7, <3>2 DEF WmHolds, Compositors
    <3> QED
      BY <3>1, <3>2
  <2> QED
    BY <1>1, <1>4, <1>5, <1>7, <2>1 DEF WmHolds
<1>9. \A d, o, r : Claim(d, o, r) => Claim(d, o, r)'
  BY <1>1, <1>4, <1>5, <1>7 DEF Claim
<1>10. \A v : NewIsThere(v) => NewIsThere(v)'
  BY <1>4 DEF NewIsThere
<1> QED
  BY <1>1, <1>4, <1>5, <1>8, <1>9, <1>10 DEF WmKept, x

\* An output that goes takes only those of its name.
LEMMA UnpluggedKeeps ==
    ASSUME WmHolds, NEW name, Unplugged(name)
    PROVE  /\ WmKept /\ wm.outputs \ wm'.outputs = {x \in wm.outputs : x.name = name}
           /\ \A v : (\A x \in wm.outputs : x.name = name => x.by # v.display) =>
                       (NewIsThere(v) => NewIsThere(v)')
<1>1. wm' = [wm EXCEPT !.outputs = Without(name)]
  BY DEF Unplugged
<1>2. Without(name) \subseteq wm.outputs
  BY DEF Without
<1>3. /\ wm' \in Compositors /\ wm'.kind = wm.kind /\ wm'.run = wm.run /\ wm'.made = wm.made
      /\ wm'.outputs = Without(name)
  BY <1>1, <1>2 DEF WmHolds, Compositors
<1>4. (Sway' <=> Sway) /\ wm.made <= wm'.made
  BY <1>3 DEF Sway, WmHolds, Compositors
<1>5. WmHolds'
  BY <1>2, <1>3, <1>4 DEF WmHolds
<1>6. \A d, o, r : Claim(d, o, r) => Claim(d, o, r)'
  BY <1>2, <1>3, <1>4 DEF Claim
<1>7. ASSUME NEW v, \A x \in wm.outputs : x.name = name => x.by # v.display, NewIsThere(v)
      PROVE  NewIsThere(v)'
  BY <1>3, <1>7 DEF NewIsThere, Without
<1>8. wm.outputs \ wm'.outputs = {x \in wm.outputs : x.name = name}
  BY <1>3 DEF Without
<1> QED
  BY <1>3, <1>4, <1>5, <1>6, <1>7, <1>8 DEF WmKept

-----------------------------------------------------------------------------
(* The senders.                                                            *)

Alike(v, w) ==
    /\ w.at = v.at /\ w.display = v.display /\ w.output = v.output
    /\ w.run = v.run /\ w.before = v.before /\ w.captured \in {v.captured, {}}

\* A sender that does nothing, while its lock and its record are let be.
LEMMA Bystander ==
    ASSUME OutputsInv, WmKept, NEW q \in Drivers,
           drv'[q] \in DriverStates, Alike(drv[q], drv'[q]),
           drv[q].at = "diff" /\ wm'.run = wm.run =>
               \A v : v = drv[q] /\ NewIsThere(v) => NewIsThere(v)',
           drv[q].at # "off" => /\ lockOf'[drv[q].display] = lockOf[drv[q].display]
                                /\ record'[drv[q].display] = record[drv[q].display]
    PROVE  DriverHolds(q)'
<1> USE NoneIsNothing
<1>0. DriverHolds(q) /\ drv[q] \in DriverStates
  BY DEF OutputsInv
<1>1. PICK v \in DriverStates : v = drv[q]
  BY <1>0
<1>2. PICK w \in DriverStates : w = drv'[q]
  OBVIOUS
<1>3. /\ Sway' <=> Sway
      /\ (wm'.run = wm.run /\ wm.made <= wm'.made) \/ wm'.run > wm.run
      /\ {wm.made, wm'.made, wm.run, wm'.run, v.run} \subseteq Nat
  BY <1>1 DEF WmKept, Sway, WmHolds, Compositors, OutputsInv, DriverStates, Runs
<1>4. Alike(v, w) /\ (v.at = "diff" /\ wm'.run = wm.run => (NewIsThere(v) => NewIsThere(v)'))
  BY <1>1, <1>2
<1>5. NewIsThere(w)' <=> NewIsThere(v)'
  BY <1>4 DEF NewIsThere, Alike
<1>6. w.output # None => Claim(w.display, w.output, w.run)'
  <2>1. v.output # None => Claim(v.display, v.output, v.run)'
    BY <1>0, <1>1 DEF DriverHolds, WmKept
  <2> QED
    BY <1>4, <2>1 DEF Alike, Claim
<1>7. /\ w.at = "off" => w.output = None
      /\ w.at # "off" => w.display # None /\ lockOf'[w.display] = q
      /\ w.captured # {} => w.at = "open"
      /\ w.at \in HasOutput => w.output # None
      /\ w.run <= wm.run /\ w.run = v.run
      /\ Sway /\ w.at \in HasOutput \ {"save"} =>
           record'[w.display] = [output |-> w.output, run |-> w.run]
      /\ IF Sway THEN w.at # "find"
         ELSE w.at \notin {"list", "diff"} /\ (w.at \in {"find", "create"} => w.output # None)
  BY <1>0, <1>1, <1>4 DEF DriverHolds, Alike, HasOutput
<1>8. Sway /\ w.run = wm'.run =>
        /\ w.at \in {"create", "diff"} => w.before \subseteq 1 .. wm'.made
        /\ w.at = "diff" => NewIsThere(w)'
  <2> SUFFICES ASSUME Sway, w.run = wm'.run
               PROVE  /\ w.at \in {"create", "diff"} => w.before \subseteq 1 .. wm'.made
                      /\ w.at = "diff" => NewIsThere(w)'
    OBVIOUS
  <2>1. v.run = wm.run /\ wm'.run = wm.run /\ 1 .. wm.made \subseteq 1 .. wm'.made
    BY <1>3, <1>7
  <2>2. /\ v.at \in {"create", "diff"} => v.before \subseteq 1 .. wm.made
        /\ v.at = "diff" => NewIsThere(v)
    BY <1>0, <1>1, <2>1 DEF DriverHolds
  <2> QED
    BY <1>4, <1>5, <2>1, <2>2 DEF Alike
<1> QED
  BY <1>2, <1>3, <1>5, <1>6, <1>7, <1>8 DEF DriverHolds, NewIsThere, Claim

\* A step of one sender: it writes under its lock and nowhere else.
LEMMA DriverMoves ==
    ASSUME OutputsInv, WmKept, UNCHANGED tidy, NEW s \in Drivers,
           drv' \in [Drivers -> DriverStates], \A q \in Drivers \ {s} : Alike(drv[q], drv'[q]),
           \A q \in Drivers \ {s} : drv[q].at = "diff" =>
               \A v : v = drv[q] /\ NewIsThere(v) => NewIsThere(v)',
           lockOf' \in [Displays -> Drivers \cup {"clean", None}],
           \A d \in Displays : lockOf'[d] = lockOf[d] \/ lockOf[d] \in {s, None},
           record' \in [Displays -> Recording \cup {None}],
           \A d \in Displays : \/ record'[d] = record[d]
                               \/ lockOf[d] = s /\ RecordHolds(d, record[d])',
           DriverHolds(s)'
    PROVE  OutputsInv'
<1> USE NoneIsNothing, OutputsAssumption
<1>0. /\ WmHolds /\ RecordsHold /\ TidyHolds
      /\ lockOf \in [Displays -> Drivers \cup {"clean", None}]
      /\ drv \in [Drivers -> DriverStates]
      /\ \A q \in Drivers : DriverHolds(q)
  BY DEF OutputsInv
<1>k. (Sway' <=> Sway) /\ \A d, r : RecordHolds(d, r) => RecordHolds(d, r)'
  BY DEF WmKept, Sway, RecordHolds
<1>1. RecordsHold'
  <2> SUFFICES ASSUME NEW d \in Displays PROVE RecordHolds(d, record[d])'
    BY DEF RecordsHold
  <2>1. CASE record'[d] = record[d]
    <3>1. PICK r : r = record[d]
      OBVIOUS
    <3>2. RecordHolds(d, r)'
      BY <1>0, <1>k, <3>1 DEF RecordsHold
    <3> QED
      BY <2>1, <3>1, <3>2 DEF RecordHolds
  <2> QED
    BY <2>1
<1>2. TidyHolds'
  <2>1. tidy.holds # None => lockOf'[tidy.holds] = "clean"
    BY <1>0 DEF TidyHolds
  <2>2. ASSUME NEW t \in tidy.todo
        PROVE  RecordHolds(t.display, t.record)' /\ (Sway' => t.record # None)
    BY <1>0, <1>k, <2>2 DEF TidyHolds
  <2>3. PICK d, r : d = tidy.holds /\ r = tidy.record
    OBVIOUS
  <2>4. d # None => RecordHolds(d, r)' /\ (Sway' => r # None)
    BY <1>0, <1>k, <2>3 DEF TidyHolds
  <2> QED
    BY <1>0, <2>1, <2>2, <2>3, <2>4 DEF TidyHolds, RecordHolds
<1>3. ASSUME NEW q \in Drivers \ {s} PROVE DriverHolds(q)'
  <2>1. drv[q] \in DriverStates /\ DriverHolds(q)
    BY <1>0
  <2>2. drv[q].at # "off" => /\ drv[q].display \in Displays /\ lockOf[drv[q].display] = q
    BY <2>1 DEF DriverHolds, DriverStates
  <2>3. drv[q].at # "off" => /\ lockOf'[drv[q].display] = lockOf[drv[q].display]
                             /\ record'[drv[q].display] = record[drv[q].display]
    BY <2>2
  <2>4. drv[q].at = "diff" => \A v : v = drv[q] /\ NewIsThere(v) => NewIsThere(v)'
    OBVIOUS
  <2> QED
    BY <2>1, <2>3, <2>4, Bystander
<1> QED
  BY <1>0, <1>1, <1>2, <1>3 DEF OutputsInv, WmKept

LEMMA StepIs ==
    ASSUME OutputsInv, NEW s \in Drivers, NEW next \in DriverStates, Step(s, next)
    PROVE  /\ drv' \in [Drivers -> DriverStates] /\ drv'[s] = next
           /\ \A q \in Drivers \ {s} : Alike(drv[q], drv'[q])
BY DEF OutputsInv, Step, Alike

\* The same where the layout changes.
LEMMA StaleIs ==
    ASSUME OutputsInv, NEW s \in Drivers, NEW next \in DriverStates,
           drv' = Stale([drv EXCEPT ![s] = next])
    PROVE  /\ drv' \in [Drivers -> DriverStates]
           /\ Alike(next, drv'[s]) /\ drv'[s].captured = next.captured
           /\ \A q \in Drivers \ {s} : Alike(drv[q], drv'[q])
<1> DEFINE d == [drv EXCEPT ![s] = next]
<1>1. d \in [Drivers -> DriverStates] /\ d[s] = next /\ \A q \in Drivers \ {s} : d[q] = drv[q]
  BY DEF OutputsInv
<1> HIDE DEF d
<1>2. drv' = [q \in Drivers |-> [d[q] EXCEPT !.fresh = FALSE]]
  BY DEF Stale, d
<1>3. ASSUME NEW v \in DriverStates
      PROVE  [v EXCEPT !.fresh = FALSE] \in DriverStates /\ Alike(v, [v EXCEPT !.fresh = FALSE])
             /\ [v EXCEPT !.fresh = FALSE].captured = v.captured
  BY DEF DriverStates, Alike
<1> QED
  BY ZenonT(30), <1>1, <1>2, <1>3

LEMMA OffIs ==
    ASSUME NEW run \in Runs
    PROVE  /\ Off(run) \in DriverStates /\ Off(run).at = "off" /\ Off(run).output = None
           /\ Off(run).captured = {} /\ Off(run).run = run /\ Off(run).display = None
BY DEF Off, DriverStates

\* A step of a sender at a display by which nothing else changes.
LEMMA OwnStep ==
    ASSUME OutputsInv, NEW s \in Drivers, drv[s].at # "off", NEW next \in DriverStates,
           Step(s, next), UNCHANGED <<wm, record, lockOf, tidy>>,
           next.at # "off", next.display = drv[s].display, next.run = drv[s].run,
           next.captured # {} => next.at = "open",
           next.output # None => Claim(next.display, next.output, next.run),
           next.at \in HasOutput => next.output # None,
           ~Sway => /\ next.at \notin {"list", "diff"}
                    /\ next.at \in {"find", "create"} => next.output # None,
           Sway => /\ next.at \notin {"find", "diff"}
                   /\ next.at = "create" /\ next.run = wm.run => next.before \subseteq 1 .. wm.made
                   /\ next.at \in HasOutput \ {"save"} =>
                        record[next.display] = [output |-> next.output, run |-> next.run]
    PROVE  OutputsInv'
<1>0. /\ WmHolds /\ RecordsHold /\ DriverHolds(s)
      /\ lockOf \in [Displays -> Drivers \cup {"clean", None}]
  BY DEF OutputsInv
<1>1. /\ drv' \in [Drivers -> DriverStates] /\ drv'[s] = next
      /\ \A q \in Drivers \ {s} : Alike(drv[q], drv'[q])
  BY StepIs
<1>2. WmKept /\ \A v : NewIsThere(v) => NewIsThere(v)'
  BY <1>0, WmStays
<1>3. (Sway' <=> Sway) /\ (next.output # None => Claim(next.display, next.output, next.run)')
  BY <1>2 DEF WmKept, Sway
<1>4. DriverHolds(s)'
  BY <1>0, <1>1, <1>3 DEF DriverHolds, Claim
<1> QED
  BY <1>0, <1>1, <1>2, <1>4, DriverMoves DEF RecordsHold

\* The open or close that ends.
LEMMA EndStep ==
    ASSUME OutputsInv, NEW s \in Drivers, drv[s].at # "off", EndOf(s), UNCHANGED <<wm, tidy>>,
           record' = record \/ record' = [record EXCEPT ![drv[s].display] = None]
    PROVE  OutputsInv'
<1>0. /\ WmHolds /\ RecordsHold /\ DriverHolds(s)
      /\ lockOf \in [Displays -> Drivers \cup {"clean", None}]
  BY DEF OutputsInv
<1>1. /\ drv[s].display \in Displays /\ lockOf[drv[s].display] = s
      /\ drv[s].run \in Runs /\ drv[s].run <= wm.run
  BY <1>0 DEF DriverHolds, DriverStates
<1>2. /\ drv' \in [Drivers -> DriverStates] /\ drv'[s] = Off(drv[s].run)
      /\ \A q \in Drivers \ {s} : Alike(drv[q], drv'[q])
  BY <1>1, OffIs, StepIs DEF EndOf
<1>3. WmKept /\ \A v : NewIsThere(v) => NewIsThere(v)'
  BY <1>0, WmStays
<1>4. /\ lockOf' \in [Displays -> Drivers \cup {"clean", None}]
      /\ \A d \in Displays : lockOf'[d] = lockOf[d] \/ lockOf[d] = s
  BY <1>0, <1>1 DEF EndOf, Unlock
<1>5. /\ record' \in [Displays -> Recording \cup {None}]
      /\ \A d \in Displays : record'[d] = record[d] \/ (d = drv[s].display /\ record'[d] = None)
  BY <1>0, <1>1 DEF RecordsHold
<1>6. DriverHolds(s)'
  BY <1>1, <1>2, <1>3, OffIs DEF DriverHolds, WmKept, HasOutput
<1>7. \A d \in Displays : record'[d] = None => RecordHolds(d, record[d])'
  BY DEF RecordHolds
<1> QED
  BY <1>1, <1>2, <1>3, <1>4, <1>5, <1>6, <1>7, DriverMoves

LEMMA Begins ==
    ASSUME OutputsInv, NEW s \in Drivers, Begin(s)
    PROVE  OutputsInv'
<1>0. /\ WmHolds /\ RecordsHold /\ DriverHolds(s)
      /\ lockOf \in [Displays -> Drivers \cup {"clean", None}] /\ wm.run \in Runs
  BY DEF OutputsInv, WmHolds, Compositors
<1>1. PICK d \in Displays :
        /\ lockOf[d] = None /\ lockOf' = [lockOf EXCEPT ![d] = s]
        /\ Step(s, [Off(wm.run) EXCEPT !.at = "look", !.display = d])
  BY DEF Begin
<1>2. PICK next : next = [Off(wm.run) EXCEPT !.at = "look", !.display = d]
  OBVIOUS
<1>3. /\ next \in DriverStates /\ next.at = "look" /\ next.display = d /\ next.output = None
      /\ next.captured = {} /\ next.run = wm.run
  <2>1. PICK k \in DriverStates : /\ k = Off(wm.run)
                                  /\ k.output = None /\ k.captured = {} /\ k.run = wm.run
    BY <1>0, OffIs
  <2>2. next = [k EXCEPT !.at = "look", !.display = d]
    BY <1>2, <2>1
  <2> QED
    BY <2>1, <2>2 DEF DriverStates, Working
<1>4. /\ drv' \in [Drivers -> DriverStates] /\ drv'[s] = next
      /\ \A q \in Drivers \ {s} : Alike(drv[q], drv'[q])
  BY <1>1, <1>2, <1>3, StepIs
<1>5. WmKept /\ \A v : NewIsThere(v) => NewIsThere(v)'
  BY <1>0, WmStays DEF Begin
<1>6. /\ lockOf' \in [Displays -> Drivers \cup {"clean", None}] /\ lockOf'[d] = s
      /\ \A e \in Displays : lockOf'[e] = lockOf[e] \/ lockOf[e] = None
  BY <1>0, <1>1
<1>7. wm'.run = wm.run /\ wm.run \in Nat /\ d # None
  BY <1>0, NoneIsNothing DEF Runs, Begin
<1>8. DriverHolds(s)'
  BY <1>3, <1>4, <1>5, <1>6, <1>7 DEF DriverHolds, WmKept, HasOutput
<1> QED
  BY <1>0, <1>4, <1>5, <1>6, <1>8, DriverMoves DEF Begin, RecordsHold

\* Looking for an output, or for its name.
LEMMA Looks ==
    ASSUME OutputsInv, NEW s \in Drivers, Look(s) \/ List(s) \/ Find(s)
    PROVE  OutputsInv'
<1>0. WmHolds /\ RecordsHold /\ DriverHolds(s) /\ drv[s] \in DriverStates
  BY DEF OutputsInv, DriverHolds
<1>1. PICK v \in DriverStates : v = drv[s]
  BY <1>0
<1>2. Existing \subseteq OutputNames /\ (Sway => Existing \subseteq 1 .. wm.made)
  BY <1>0 DEF Existing, WmHolds, Compositors
<1>3. v.at # "off" => v.display \in Displays
  BY <1>0, <1>1 DEF DriverHolds, DriverStates
<1>4. CASE Look(s) /\ Sway /\ Leftover(s)
  <2>1. PICK r : r = record[v.display]
    OBVIOUS
  <2>2. v.at = "look" /\ v.display \in Displays /\ r # None /\ r.run = v.run
    BY <1>1, <1>3, <1>4, <2>1 DEF Look, Leftover
  <2>3. r \in Recording /\ Claim(v.display, r.output, r.run)
    BY <1>0, <2>1, <2>2 DEF RecordsHold, RecordHolds
  <2>4. PICK next : next = [[v EXCEPT !.at = "save"] EXCEPT !.output = r.output]
    OBVIOUS
  <2>5. /\ next \in DriverStates /\ next.at = "save" /\ next.output = r.output
        /\ next.display = v.display /\ next.run = v.run /\ next.captured = v.captured
    BY <2>3, <2>4 DEF DriverStates, Recording, Working
  <2>6. Step(s, next)
    BY <1>1, <1>4, <2>1, <2>4 DEF Look, Goto
  <2>7. v.captured = {} /\ next.output # None
    BY <1>0, <1>1, <2>2, <2>3, <2>5, NoneIsNothing DEF DriverHolds, Recording, OutputNames
  <2> QED
    BY <1>1, <1>4, <2>2, <2>3, <2>5, <2>6, <2>7, OwnStep DEF Look
<1>5. CASE Look(s) /\ ~Sway
  <2>1. PICK mine \in BOOLEAN : mine = (drv[s].display \notin Existing)
    OBVIOUS
  <2>2. PICK next : next = [[v EXCEPT !.at = "find"] EXCEPT !.output = v.display, !.mine = mine]
    OBVIOUS
  <2>3. v.at = "look" /\ v.display \in Displays
    BY <1>1, <1>3, <1>5 DEF Look
  <2>4. /\ next \in DriverStates /\ next.at = "find" /\ next.output = v.display
        /\ next.display = v.display /\ next.run = v.run /\ next.captured = v.captured
    BY <2>2, <2>3 DEF DriverStates, Working, OutputNames
  <2>5. Step(s, next)
    BY <1>1, <1>5, <2>1, <2>2 DEF Look, Goto
  <2>6. v.captured = {} /\ next.output # None
    BY <1>0, <1>1, <2>3, <2>4, NoneIsNothing DEF DriverHolds
  <2> QED
    BY <1>1, <1>5, <2>3, <2>4, <2>5, <2>6, OwnStep DEF Look, Claim, HasOutput
<1>6. CASE Look(s) /\ Sway /\ ~Leftover(s)
  <2>1. PICK next : next = [v EXCEPT !.at = "list"]
    OBVIOUS
  <2>2. /\ next \in DriverStates /\ next.at = "list" /\ next.output = v.output
        /\ next.display = v.display /\ next.run = v.run /\ next.captured = v.captured
    BY <2>1 DEF DriverStates, Working
  <2>3. Step(s, next) /\ v.at = "look"
    BY <1>1, <1>6, <2>1 DEF Look, Goto
  <2> QED
    BY <1>0, <1>1, <1>6, <2>2, <2>3, OwnStep DEF Look, DriverHolds, HasOutput
<1>7. CASE List(s)
  <2>1. PICK next : next = [[v EXCEPT !.at = "create"] EXCEPT !.before = Existing]
    OBVIOUS
  <2>2. /\ next \in DriverStates /\ next.at = "create" /\ next.output = v.output
        /\ next.display = v.display /\ next.run = v.run /\ next.captured = v.captured
        /\ next.before = Existing
    BY <1>2, <2>1 DEF DriverStates, Working
  <2>3. Step(s, next) /\ v.at = "list"
    BY <1>1, <1>7, <2>1 DEF List, Goto
  <2> QED
    BY <1>0, <1>1, <1>2, <1>7, <2>2, <2>3, OwnStep DEF List, DriverHolds, HasOutput
<1>8. CASE Find(s)
  <2>0. PICK place \in {"layout", "create"} :
          place = IF drv[s].output \in Existing THEN "layout" ELSE "create"
    OBVIOUS
  <2>1. PICK next : next = [v EXCEPT !.at = place]
    OBVIOUS
  <2>2. /\ next \in DriverStates /\ next.at = place /\ next.output = v.output
        /\ next.display = v.display /\ next.run = v.run /\ next.captured = v.captured
    BY <2>1 DEF DriverStates, Working
  <2>3. Step(s, next) /\ v.at = "find"
    BY <1>1, <1>8, <2>0, <2>1 DEF Find, Goto
  <2> QED
    BY <1>0, <1>1, <1>8, <2>2, <2>3, OwnStep DEF Find, DriverHolds, HasOutput
<1> QED
  BY <1>4, <1>5, <1>6, <1>7, <1>8

\* The one name that is new is the output this sender made.
LEMMA Diffs ==
    ASSUME OutputsInv, NEW s \in Drivers, Diff(s)
    PROVE  OutputsInv'
<1>0. WmHolds /\ DriverHolds(s) /\ drv[s] \in DriverStates
  BY DEF OutputsInv, DriverHolds
<1>1. PICK v \in DriverStates : v = drv[s]
  BY <1>0
<1>2. v.at = "diff" /\ v.run = wm.run /\ Sway /\ v.captured = {} /\ v.display \in Displays
  BY <1>0, <1>1 DEF Diff, Answers, DriverHolds, DriverStates
<1>3. PICK n \in Existing :
        /\ Existing \ v.before = {n}
        /\ Step(s, [[v EXCEPT !.at = "save"] EXCEPT !.output = n, !.before = {}])
  BY <1>1 DEF Diff, Goto
<1>4. PICK x \in wm.outputs : x.by = v.display /\ x.name \notin v.before
  BY <1>0, <1>1, <1>2 DEF DriverHolds, NewIsThere
<1>5. x.name = n
  BY <1>3, <1>4 DEF Existing
<1>6. n \in 1 .. wm.made /\ n \in OutputNames /\ wm.run \in Nat /\ wm.run \in Runs
  BY <1>0, <1>2, <1>4, <1>5 DEF WmHolds, Compositors, Runs
<1>7. Claim(v.display, n, v.run)
  BY <1>0, <1>2, <1>4, <1>5, <1>6 DEF Claim, WmHolds
<1>8. PICK next : next = [[v EXCEPT !.at = "save"] EXCEPT !.output = n, !.before = {}]
  OBVIOUS
<1>9. /\ next \in DriverStates /\ next.at = "save" /\ next.output = n
      /\ next.display = v.display /\ next.run = v.run /\ next.captured = v.captured
  BY <1>6, <1>8 DEF DriverStates, Working
<1>10. n # None
  BY <1>6, NoneIsNothing
<1> QED
  BY <1>1, <1>2, <1>3, <1>7, <1>8, <1>9, <1>10, OwnStep DEF Diff

LEMMA Creates ==
    ASSUME OutputsInv, NEW s \in Drivers, Create(s)
    PROVE  OutputsInv'
<1>0. /\ WmHolds /\ RecordsHold /\ DriverHolds(s) /\ drv[s] \in DriverStates
      /\ lockOf \in [Displays -> Drivers \cup {"clean", None}]
  BY DEF OutputsInv, DriverHolds
<1>1. PICK v \in DriverStates : v = drv[s]
  BY <1>0
<1>2. /\ v.at = "create" /\ v.run = wm.run /\ v.captured = {} /\ v.display \in Displays
      /\ lockOf[v.display] = s
  BY <1>0, <1>1 DEF Create, Answers, DriverHolds, DriverStates
<1>3. PICK place, name :
        IF Sway THEN wm.made < MaxMade /\ name = wm.made + 1 /\ place = "diff"
        ELSE name = v.display /\ place = "layout"
  BY <1>1, <1>2 DEF Create
<1>4. Made(name, v.display) /\ drv' = Stale([drv EXCEPT ![s] = [v EXCEPT !.at = place]])
  BY <1>1, <1>3 DEF Create
<1>5. /\ WmKept /\ \A u : NewIsThere(u) => NewIsThere(u)'
      /\ [name |-> name, by |-> v.display] \in wm'.outputs
      /\ Sway => name \in 1 .. wm'.made
  BY <1>0, <1>2, <1>3, <1>4, MadeKeeps
<1>6. PICK next \in DriverStates :
        /\ next = [v EXCEPT !.at = place] /\ next.at = place /\ next.output = v.output
        /\ next.display = v.display /\ next.run = v.run /\ next.captured = {}
        /\ next.before = v.before
  <2>1. place \in Working \cup {"off"}
    BY <1>3 DEF Working
  <2>2. PICK n : n = [v EXCEPT !.at = place]
    OBVIOUS
  <2>3. n \in DriverStates /\ n.at = place /\ n.output = v.output /\ n.display = v.display
        /\ n.run = v.run /\ n.captured = v.captured /\ n.before = v.before
    BY <2>1, <2>2 DEF DriverStates
  <2> QED
    BY <1>2, <2>2, <2>3
<1>7. /\ drv' \in [Drivers -> DriverStates]
      /\ Alike(next, drv'[s]) /\ drv'[s].captured = {}
      /\ \A q \in Drivers \ {s} : Alike(drv[q], drv'[q])
  BY <1>4, <1>6, StaleIs
<1>8. PICK w \in DriverStates : w = drv'[s] /\ Alike(next, w) /\ w.captured = {}
  BY <1>7
<1>9. /\ w.at = place /\ w.output = v.output /\ w.display = v.display /\ w.run = v.run
      /\ w.before = v.before
  BY <1>6, <1>8 DEF Alike
<1>10. (Sway' <=> Sway) /\ wm'.run = wm.run /\ wm.made \in Nat /\ wm'.made \in Nat
       /\ wm.made <= wm'.made /\ wm.run \in Nat
  BY <1>0, <1>2, <1>4 DEF Made, WmKept, Sway, WmHolds, Compositors, Runs
<1>11. w.output # None => Claim(w.display, w.output, w.run)'
  <2>1. v.output # None => Claim(v.display, v.output, v.run)'
    BY <1>0, <1>1, <1>5 DEF DriverHolds, WmKept
  <2> QED
    BY <1>9, <2>1
<1>12. ~Sway => w.output # None /\ w.at = "layout"
  BY <1>0, <1>1, <1>2, <1>3, <1>9 DEF DriverHolds
<1>13. Sway => w.at = "diff" /\ w.before \subseteq 1 .. wm'.made /\ NewIsThere(w)'
  <2> SUFFICES ASSUME Sway
               PROVE  w.at = "diff" /\ w.before \subseteq 1 .. wm'.made /\ NewIsThere(w)'
    OBVIOUS
  <2>1. w.before \subseteq 1 .. wm.made
    BY <1>0, <1>1, <1>2, <1>9 DEF DriverHolds
  <2>2. name = wm.made + 1 /\ name \notin w.before /\ 1 .. wm.made \subseteq 1 .. wm'.made
    BY <1>3, <1>10, <2>1
  <2>3. PICK x \in wm'.outputs : x.name = name /\ x.by = v.display
    BY <1>5
  <2>4. NewIsThere(w)'
    BY <1>9, <2>2, <2>3 DEF NewIsThere
  <2> QED
    BY <1>3, <1>9, <2>1, <2>2, <2>4
<1>14. lockOf' = lockOf /\ record' = record /\ tidy' = tidy /\ w.display # None
  BY <1>2, <1>9, NoneIsNothing DEF Create
<1>15. DriverHolds(s)'
  <2>1. w.at # "off" /\ w.at \in {"diff", "layout"} /\ lockOf'[w.display] = s
    BY <1>2, <1>3, <1>9, <1>14
  <2>2. NewIsThere(drv[s])' <=> NewIsThere(w)'
    BY <1>8 DEF NewIsThere
  <2> QED
    BY <1>2, <1>8, <1>9, <1>10, <1>11, <1>12, <1>13, <1>14, <2>1, <2>2 DEF DriverHolds, HasOutput
<1> QED
  BY <1>0, <1>5, <1>7, <1>14, <1>15, DriverMoves DEF RecordsHold

LEMMA Saves ==
    ASSUME OutputsInv, NEW s \in Drivers, Save(s)
    PROVE  OutputsInv'
<1>0. /\ WmHolds /\ RecordsHold /\ DriverHolds(s) /\ drv[s] \in DriverStates
      /\ lockOf \in [Displays -> Drivers \cup {"clean", None}]
  BY DEF OutputsInv, DriverHolds
<1>1. PICK v \in DriverStates : v = drv[s]
  BY <1>0
<1>2. /\ v.at = "save" /\ v.captured = {} /\ v.display \in Displays /\ lockOf[v.display] = s
      /\ v.output \in OutputNames /\ Claim(v.display, v.output, v.run) /\ v.run <= wm.run
  BY <1>0, <1>1 DEF Save, DriverHolds, DriverStates, HasOutput
<1>3. PICK r \in Recording : r = [output |-> v.output, run |-> v.run]
  BY <1>2 DEF Recording, DriverStates
<1>4. record' = [record EXCEPT ![v.display] = r]
  BY <1>1, <1>3 DEF Save
<1>5. PICK next : next = [[v EXCEPT !.at = "layout"] EXCEPT !.mine = TRUE]
  OBVIOUS
<1>6. /\ next \in DriverStates /\ next.at = "layout" /\ next.output = v.output
      /\ next.display = v.display /\ next.run = v.run /\ next.captured = v.captured
  BY <1>5 DEF DriverStates, Working
<1>7. Step(s, next)
  BY <1>1, <1>5 DEF Save, Goto
<1>8. /\ drv' \in [Drivers -> DriverStates] /\ drv'[s] = next
      /\ \A q \in Drivers \ {s} : Alike(drv[q], drv'[q])
  BY <1>6, <1>7, StepIs
<1>9. UNCHANGED <<wm, lockOf, tidy>> /\ WmKept /\ \A u : NewIsThere(u) => NewIsThere(u)'
  BY <1>0, WmStays DEF Save
<1>10. (Sway' <=> Sway) /\ Claim(v.display, v.output, v.run)'
  BY <1>2, <1>9 DEF WmKept, Sway
<1>11. /\ record' \in [Displays -> Recording \cup {None}] /\ record'[v.display] = r
       /\ \A d \in Displays \ {v.display} : record'[d] = record[d]
  BY <1>0, <1>2, <1>4 DEF RecordsHold
<1>12. \A d \in Displays : record'[d] = record[d] \/ (lockOf[d] = s /\ RecordHolds(d, record[d])')
  <2>1. r.output = v.output /\ r.run = v.run
    BY <1>3
  <2>2. RecordHolds(v.display, record[v.display])'
    BY <1>10, <1>11, <2>1 DEF RecordHolds
  <2> QED
    BY <1>2, <1>11, <2>2
<1>13. v.output # None /\ v.display # None
  BY <1>2, NoneIsNothing DEF OutputNames
<1>14. DriverHolds(s)'
  BY <1>2, <1>3, <1>6, <1>8, <1>9, <1>10, <1>11, <1>13 DEF DriverHolds, HasOutput
<1> QED
  BY <1>0, <1>8, <1>9, <1>11, <1>12, <1>14, DriverMoves

\* Sizing, capturing, and the ways to the removal.
LEMMA Sizes ==
    ASSUME OutputsInv, NEW s \in Drivers,
           Serial(s) \/ Cancelled(s) \/ (SizingFails(s) /\ drv[s].mine)
    PROVE  OutputsInv'
<1>0. WmHolds /\ DriverHolds(s) /\ drv[s] \in DriverStates
  BY DEF OutputsInv, DriverHolds
<1>1. PICK v \in DriverStates : v = drv[s]
  BY <1>0
<1>2. CASE Serial(s)
  <2>1. PICK next : next = [[v EXCEPT !.at = "apply"] EXCEPT !.fresh = TRUE]
    OBVIOUS
  <2>2. /\ next \in DriverStates /\ next.at = "apply" /\ next.output = v.output
        /\ next.display = v.display /\ next.run = v.run /\ next.captured = v.captured
    BY <2>1 DEF DriverStates, Working
  <2>3. Step(s, next) /\ v.at = "layout"
    BY <1>1, <1>2, <2>1 DEF Serial, Goto
  <2> QED
    BY <1>0, <1>1, <1>2, <2>2, <2>3, OwnStep DEF Serial, DriverHolds, HasOutput
<1>3. CASE Cancelled(s)
  <2>1. PICK n \in 0 .. 2 : n = v.tries + 1
    BY <1>1, <1>3 DEF Cancelled, DriverStates
  <2>2. PICK next : next = [[v EXCEPT !.at = "layout"] EXCEPT !.tries = n]
    OBVIOUS
  <2>3. /\ next \in DriverStates /\ next.at = "layout" /\ next.output = v.output
        /\ next.display = v.display /\ next.run = v.run /\ next.captured = v.captured
    BY <2>2 DEF DriverStates, Working
  <2>4. [[v EXCEPT !.at = "layout"] EXCEPT !.tries = @ + 1] = next
    BY <2>1, <2>2 DEF DriverStates
  <2>5. Step(s, next) /\ v.at = "apply"
    BY <1>1, <1>3, <2>4 DEF Cancelled, Goto
  <2> QED
    BY <1>0, <1>1, <1>3, <2>3, <2>5, OwnStep DEF Cancelled, DriverHolds, HasOutput
<1>4. CASE SizingFails(s) /\ drv[s].mine
  <2>1. PICK next : next = [[v EXCEPT !.at = "remove"] EXCEPT !.tries = 0, !.fresh = FALSE]
    OBVIOUS
  <2>2. /\ next \in DriverStates /\ next.at = "remove" /\ next.output = v.output
        /\ next.display = v.display /\ next.run = v.run /\ next.captured = v.captured
    <3>1. 0 \in 0 .. 2
      OBVIOUS
    <3> QED
      BY <2>1, <3>1 DEF DriverStates, Working
  <2>3. /\ Step(s, next)
        /\ \/ v.at \in {"layout", "apply"}
           \/ v.at \in {"find", "create"} /\ ~Sway
    <3>1. Step(s, [Goto(s, "remove") EXCEPT !.tries = 0, !.fresh = FALSE])
      BY <1>4, Zenon DEF SizingFails
    <3>2. Step(s, next)
      BY <1>1, <2>1, <3>1 DEF Goto
    <3> QED
      BY <1>1, <1>4, <3>2 DEF SizingFails
  <2>4. UNCHANGED <<wm, record, lockOf, tidy>>
    BY <1>4 DEF SizingFails
  <2> QED
    BY <1>0, <1>1, <2>2, <2>3, <2>4, OwnStep DEF DriverHolds, HasOutput
<1> QED
  BY <1>2, <1>3, <1>4

LEMMA Opened ==
    ASSUME OutputsInv, NEW s \in Drivers,
           StartCapture(s) \/ StartCursor(s) \/ StopCapture(s) \/ Reconfigure(s) \/ Close(s)
    PROVE  OutputsInv'
<1>0. WmHolds /\ DriverHolds(s) /\ drv[s] \in DriverStates
  BY DEF OutputsInv, DriverHolds
<1>1. PICK v \in DriverStates : v = drv[s]
  BY <1>0
<1>2. PICK place \in {"open", "layout", "find", "remove"}, captured \in SUBSET {"frames", "cursor"} :
        /\ captured # {} => place = "open"
        /\ IF Sway THEN place # "find" ELSE place # "layout"
        /\ Step(s, [[v EXCEPT !.at = place] EXCEPT !.captured = captured])
  <2>1. CASE Reconfigure(s)
    BY <1>1, <2>1 DEF Reconfigure, Goto
  <2>2. CASE Close(s)
    BY <1>1, <2>2 DEF Close, Goto
  <2>3. ASSUME NEW captured \in SUBSET {"frames", "cursor"}, Captures(s, captured)
        PROVE  Step(s, [[v EXCEPT !.at = "open"] EXCEPT !.captured = captured])
    <3>1. v.at = "open" /\ Step(s, [v EXCEPT !.captured = captured])
      BY <1>1, <2>3 DEF Captures
    <3>2. [v EXCEPT !.at = "open"] = v
      BY <3>1 DEF DriverStates
    <3> QED
      BY <3>1, <3>2
  <2>4. CASE StartCapture(s)
    <3>1. PICK started \in SUBSET {"frames"} :
             Captures(s, (drv[s].captured \ {"frames"}) \cup started)
      BY <2>4 DEF StartCapture
    <3> DEFINE captured == (drv[s].captured \ {"frames"}) \cup started
    <3>2. captured \in SUBSET {"frames", "cursor"}
      BY <1>1 DEF DriverStates
    <3> HIDE DEF captured
    <3> QED
      BY <2>3, <3>1, <3>2 DEF captured
  <2>5. CASE StartCursor(s)
    <3>1. PICK started \in SUBSET {"cursor"} :
             Captures(s, (drv[s].captured \ {"cursor"}) \cup started)
      BY <2>5 DEF StartCursor
    <3> DEFINE captured == (drv[s].captured \ {"cursor"}) \cup started
    <3>2. captured \in SUBSET {"frames", "cursor"}
      BY <1>1 DEF DriverStates
    <3> HIDE DEF captured
    <3> QED
      BY <2>3, <3>1, <3>2 DEF captured
  <2>6. CASE StopCapture(s)
    BY <2>3, <2>6 DEF StopCapture
  <2> QED
    BY <2>1, <2>2, <2>4, <2>5, <2>6
<1>3. v.at = "open" /\ UNCHANGED <<wm, record, lockOf, tidy>>
  BY <1>1 DEF StartCapture, StartCursor, StopCapture, Captures, Reconfigure, Close
<1>4. PICK next : next = [[v EXCEPT !.at = place] EXCEPT !.captured = captured]
  OBVIOUS
<1>5. /\ next \in DriverStates /\ next.at = place /\ next.output = v.output
      /\ next.display = v.display /\ next.run = v.run /\ next.captured = captured
  BY <1>4 DEF DriverStates, Working
<1>6. Step(s, next)
  BY <1>2, <1>4
<1> QED
  BY <1>0, <1>1, <1>2, <1>3, <1>5, <1>6, OwnStep DEF DriverHolds, HasOutput

LEMMA Applies ==
    ASSUME OutputsInv, NEW s \in Drivers, Applied(s)
    PROVE  OutputsInv'
<1>0. /\ WmHolds /\ RecordsHold /\ DriverHolds(s) /\ drv[s] \in DriverStates
      /\ lockOf \in [Displays -> Drivers \cup {"clean", None}] /\ drv \in [Drivers -> DriverStates]
  BY DEF OutputsInv, DriverHolds
<1>1. PICK v \in DriverStates : v = drv[s]
  BY <1>0
<1>2. v.at = "apply" /\ v.captured = {} /\ UNCHANGED <<wm, record, lockOf, tidy>>
  BY <1>0, <1>1 DEF Applied, DriverHolds
<1>3. PICK next : next = [v EXCEPT !.at = "open", !.tries = 0, !.mine = TRUE]
  OBVIOUS
<1>4. /\ next \in DriverStates /\ next.at = "open" /\ next.output = v.output
      /\ next.display = v.display /\ next.run = v.run /\ next.captured = v.captured
  <2>1. 0 \in 0 .. 2
    OBVIOUS
  <2> QED
    BY <1>3, <2>1 DEF DriverStates, Working
<1>5. drv' = Stale([drv EXCEPT ![s] = next])
  BY <1>0, <1>1, <1>3 DEF Applied
<1>6. /\ drv' \in [Drivers -> DriverStates]
      /\ Alike(next, drv'[s]) /\ drv'[s].captured = {}
      /\ \A q \in Drivers \ {s} : Alike(drv[q], drv'[q])
  BY <1>2, <1>4, <1>5, StaleIs
<1>7. WmKept /\ \A u : NewIsThere(u) => NewIsThere(u)'
  BY <1>0, <1>2, WmStays
<1>8. (Sway' <=> Sway) /\ Claim(v.display, v.output, v.run)'
  BY <1>0, <1>1, <1>2, <1>7 DEF WmKept, Sway, DriverHolds, HasOutput
<1>9. DriverHolds(s)'
  BY <1>0, <1>1, <1>2, <1>4, <1>6, <1>8 DEF DriverHolds, HasOutput, Alike, Claim
<1> QED
  BY <1>0, <1>2, <1>6, <1>7, <1>9, DriverMoves DEF RecordsHold

\* An output of this run that is claimed was made for who claims it.
LEMMA ClaimedIsOwn ==
    ASSUME WmHolds, NEW d \in Displays, NEW o, NEW r, Claim(d, o, r), Sway => r = wm.run
    PROVE  \A x \in wm.outputs : x.name = o => x.by = d
BY DEF Claim, WmHolds

LEMMA Removes ==
    ASSUME OutputsInv, NEW s \in Drivers, RemoveOutput(s)
    PROVE  OutputsInv'
<1>0. /\ WmHolds /\ RecordsHold /\ DriverHolds(s) /\ drv[s] \in DriverStates
      /\ lockOf \in [Displays -> Drivers \cup {"clean", None}]
  BY DEF OutputsInv, DriverHolds
<1>1. PICK v \in DriverStates : v = drv[s]
  BY <1>0
<1>2. /\ v.at = "remove" /\ v.run = wm.run /\ v.display \in Displays /\ lockOf[v.display] = s
      /\ v.output # None /\ Claim(v.display, v.output, v.run)
      /\ v.run \in Runs /\ UNCHANGED tidy /\ Unplugged(v.output)
      /\ record' = [record EXCEPT ![v.display] = None]
      /\ lockOf' = [lockOf EXCEPT ![v.display] = None]
      /\ drv' = Stale([drv EXCEPT ![s] = Off(v.run)])
  BY <1>0, <1>1 DEF RemoveOutput, Answers, DriverHolds, DriverStates, HasOutput, Unlock
<1>3. \A x \in wm.outputs : x.name = v.output => x.by = v.display
  BY <1>0, <1>2, ClaimedIsOwn
<1>4. /\ WmKept
      /\ \A u : (\A x \in wm.outputs : x.name = v.output => x.by # u.display) =>
                  (NewIsThere(u) => NewIsThere(u)')
  BY <1>0, <1>2, UnpluggedKeeps
<1>5. ASSUME NEW q \in Drivers \ {s}, drv[q].at = "diff", NEW u, u = drv[q], NewIsThere(u)
      PROVE  NewIsThere(u)'
  <2>1. lockOf[u.display] = q
    BY <1>5 DEF OutputsInv, DriverHolds
  <2> QED
    BY <1>2, <1>3, <1>4, <1>5, <2>1
<1>6. /\ drv' \in [Drivers -> DriverStates]
      /\ Alike(Off(v.run), drv'[s]) /\ drv'[s].captured = {}
      /\ \A q \in Drivers \ {s} : Alike(drv[q], drv'[q])
  BY <1>2, OffIs, StaleIs
<1>7. PICK w \in DriverStates : w = drv'[s] /\ Alike(Off(v.run), w) /\ w.captured = {}
  BY <1>6
<1>8. w.at = "off" /\ w.output = None /\ w.run = v.run
  BY <1>2, <1>7, OffIs DEF Alike
<1>9. w.run <= wm'.run
  <2>1. wm'.run = wm.run /\ wm.run \in Nat
    BY <1>0, <1>2 DEF Unplugged, WmHolds, Compositors, Runs
  <2> QED
    BY <1>2, <1>8, <2>1
<1>10. DriverHolds(s)'
  BY <1>7, <1>8, <1>9 DEF DriverHolds, HasOutput
<1>11. /\ lockOf' \in [Displays -> Drivers \cup {"clean", None}]
       /\ \A d \in Displays : lockOf'[d] = lockOf[d] \/ lockOf[d] = s
  BY <1>0, <1>2
<1>12. /\ record' \in [Displays -> Recording \cup {None}]
       /\ \A d \in Displays : record'[d] = record[d] \/ (d = v.display /\ record'[d] = None)
  BY <1>0, <1>2 DEF RecordsHold
<1>13. \A d \in Displays : \/ record'[d] = record[d]
                           \/ lockOf[d] = s /\ RecordHolds(d, record[d])'
  BY <1>2, <1>12 DEF RecordHolds
<1>14. \A q \in Drivers \ {s} : drv[q].at = "diff" =>
          \A u : u = drv[q] /\ NewIsThere(u) => NewIsThere(u)'
  BY <1>5
<1>15. UNCHANGED tidy
  BY <1>2
<1> QED
  BY <1>4, <1>6, <1>10, <1>11, <1>12, <1>13, <1>14, <1>15, DriverMoves

LEMMA EndsAre ==
    ASSUME OutputsInv, NEW s \in Drivers,
           \/ SaveFails(s) \/ GivesUp(s) \/ (SizingFails(s) /\ ~drv[s].mine)
           \/ CloseKeeping(s) \/ RemoveFails(s) \/ Killed(s)
    PROVE  OutputsInv'
<1>1. ASSUME drv[s].at # "off", EndOf(s), UNCHANGED <<wm, record, tidy>> PROVE OutputsInv'
  BY <1>1, EndStep
<1>2. CASE SaveFails(s)
  BY <1>2, EndStep DEF SaveFails
<1>3. CASE GivesUp(s)
  BY <1>1, <1>3 DEF GivesUp
<1>4. CASE SizingFails(s) /\ ~drv[s].mine
  <2>1. EndOf(s)
    BY <1>4, Zenon DEF SizingFails
  <2> QED
    BY <1>1, <1>4, <2>1 DEF SizingFails
<1>5. CASE CloseKeeping(s)
  BY <1>1, <1>5 DEF CloseKeeping
<1>6. CASE RemoveFails(s)
  BY <1>1, <1>6 DEF RemoveFails
<1>7. CASE Killed(s)
  BY <1>1, <1>7 DEF Killed
<1> QED
  BY <1>2, <1>3, <1>4, <1>5, <1>6, <1>7

LEMMA DriverKeeps ==
    ASSUME OutputsInv, NEW s \in Drivers, DriverSteps(s)
    PROVE  OutputsInv'
<1>1. CASE SizingFails(s)
  BY <1>1, Sizes, EndsAre
<1>2. CASE Begin(s) \/ Look(s) \/ List(s) \/ Find(s) \/ Create(s) \/ Diff(s) \/ Save(s)
  BY <1>2, Begins, Looks, Creates, Diffs, Saves
<1>3. CASE SaveFails(s) \/ GivesUp(s) \/ CloseKeeping(s) \/ RemoveFails(s) \/ Killed(s)
  BY <1>3, EndsAre
<1>4. CASE Serial(s) \/ Cancelled(s) \/ Applied(s) \/ RemoveOutput(s)
  BY <1>4, Sizes, Applies, Removes
<1>5. CASE StartCapture(s) \/ StartCursor(s) \/ StopCapture(s) \/ Reconfigure(s) \/ Close(s)
  BY <1>5, Opened
<1> QED
  BY <1>1, <1>2, <1>3, <1>4, <1>5 DEF DriverSteps

-----------------------------------------------------------------------------
(* The clean command, the user and the compositor.                         *)

\* A step of none of the senders.
LEMMA OthersMove ==
    ASSUME OutputsInv, WmKept, TidyHolds',
           drv' \in [Drivers -> DriverStates], \A q \in Drivers : Alike(drv[q], drv'[q]),
           \A q \in Drivers : drv[q].at = "diff" /\ wm'.run = wm.run =>
               \A v : v = drv[q] /\ NewIsThere(v) => NewIsThere(v)',
           lockOf' \in [Displays -> Drivers \cup {"clean", None}],
           \A d \in Displays : lockOf'[d] = lockOf[d] \/ lockOf[d] \in {"clean", None},
           record' \in [Displays -> Recording \cup {None}],
           \A d \in Displays : record'[d] = record[d] \/ (lockOf[d] = "clean" /\ record'[d] = None)
    PROVE  OutputsInv'
<1> USE NoneIsNothing, OutputsAssumption
<1>0. /\ WmHolds /\ RecordsHold
      /\ lockOf \in [Displays -> Drivers \cup {"clean", None}]
      /\ drv \in [Drivers -> DriverStates]
      /\ \A q \in Drivers : DriverHolds(q)
  BY DEF OutputsInv
<1>k. \A d, r : RecordHolds(d, r) => RecordHolds(d, r)'
  BY DEF WmKept, RecordHolds
<1>1. RecordsHold'
  <2> SUFFICES ASSUME NEW d \in Displays PROVE RecordHolds(d, record[d])'
    BY DEF RecordsHold
  <2>1. PICK r : r = record[d]
    OBVIOUS
  <2>2. RecordHolds(d, r)'
    BY <1>0, <1>k, <2>1 DEF RecordsHold
  <2> QED
    BY <2>1, <2>2 DEF RecordHolds
<1>2. ASSUME NEW q \in Drivers PROVE DriverHolds(q)'
  <2>1. drv[q] \in DriverStates /\ DriverHolds(q)
    BY <1>0
  <2>2. drv[q].at # "off" => drv[q].display \in Displays /\ lockOf[drv[q].display] = q
    BY <2>1 DEF DriverHolds, DriverStates
  <2>3. drv[q].at # "off" => /\ lockOf'[drv[q].display] = lockOf[drv[q].display]
                             /\ record'[drv[q].display] = record[drv[q].display]
    BY <2>2
  <2>4. drv[q].at = "diff" /\ wm'.run = wm.run =>
          \A v : v = drv[q] /\ NewIsThere(v) => NewIsThere(v)'
    OBVIOUS
  <2> QED
    BY <2>1, <2>3, <2>4, Bystander
<1> QED
  BY <1>1, <1>2 DEF OutputsInv, WmKept

LEMMA DriversRest ==
    ASSUME OutputsInv, drv' = drv \/ drv' = Stale(drv)
    PROVE  /\ drv' \in [Drivers -> DriverStates]
           /\ \A q \in Drivers : Alike(drv[q], drv'[q]) /\ drv'[q].captured = drv[q].captured
                                 /\ drv'[q].at = drv[q].at
<1>1. drv \in [Drivers -> DriverStates]
  BY DEF OutputsInv
<1>2. CASE drv' = drv
  BY <1>1, <1>2 DEF Alike
<1>3. CASE drv' = Stale(drv)
  <2>1. drv' = [q \in Drivers |-> [drv[q] EXCEPT !.fresh = FALSE]]
    BY <1>3 DEF Stale
  <2>2. ASSUME NEW v \in DriverStates
        PROVE  /\ [v EXCEPT !.fresh = FALSE] \in DriverStates /\ Alike(v, [v EXCEPT !.fresh = FALSE])
               /\ [v EXCEPT !.fresh = FALSE].captured = v.captured
               /\ [v EXCEPT !.fresh = FALSE].at = v.at
    BY DEF DriverStates, Alike
  <2> QED
    BY <1>1, <2>1, <2>2
<1> QED
  BY <1>2, <1>3

\* The clean command is where it was.
LEMMA TidyStays ==
    ASSUME TidyHolds, WmKept, UNCHANGED <<tidy, lockOf>>
    PROVE  TidyHolds'
<1>k. (Sway' <=> Sway) /\ \A d, r : RecordHolds(d, r) => RecordHolds(d, r)'
  BY DEF WmKept, Sway, RecordHolds
<1>1. ASSUME NEW t \in tidy.todo
      PROVE  RecordHolds(t.display, t.record)' /\ (Sway' => t.record # None)
  BY <1>k, <1>1 DEF TidyHolds
<1>2. PICK d, r : d = tidy.holds /\ r = tidy.record
  OBVIOUS
<1>3. d # None => RecordHolds(d, r)' /\ (Sway' => r # None)
  BY <1>k, <1>2 DEF TidyHolds
<1> QED
  BY <1>1, <1>2, <1>3 DEF TidyHolds, RecordHolds

LEMMA CleanKeeps ==
    ASSUME OutputsInv, CleanSteps
    PROVE  OutputsInv'
<1> USE NoneIsNothing, OutputsAssumption
<1>0. /\ WmHolds /\ RecordsHold /\ TidyHolds
      /\ lockOf \in [Displays -> Drivers \cup {"clean", None}]
      /\ \A q \in Drivers : DriverHolds(q)
  BY DEF OutputsInv
<1>1. CASE CleanBegins \/ CleanTakes
  <2>1. /\ UNCHANGED <<wm, record, drv>>
        /\ WmKept /\ \A u : NewIsThere(u) => NewIsThere(u)'
    BY <1>0, <1>1, WmStays DEF CleanBegins, CleanTakes
  <2>2. (Sway' <=> Sway) /\ \A d, r : RecordHolds(d, r) => RecordHolds(d, r)'
    BY <2>1 DEF WmKept, Sway, RecordHolds
  <2>3. /\ drv' \in [Drivers -> DriverStates]
        /\ \A q \in Drivers : Alike(drv[q], drv'[q])
    BY <2>1, DriversRest
  <2>4. CASE CleanBegins
    <3> DEFINE todo == {[display |-> d, record |-> record[d]] :
                          d \in {e \in Displays : IF Sway THEN record[e] # None ELSE e \in Existing}}
    <3>1. tidy.holds = None /\ tidy' = [tidy EXCEPT !.todo = todo] /\ UNCHANGED lockOf
      BY <2>4 DEF CleanBegins, Resting
    <3>2. \A t \in todo : /\ t \in Todos /\ RecordHolds(t.display, t.record)
                          /\ Sway => t.record # None
      BY <1>0 DEF RecordsHold, Todos
    <3> HIDE DEF todo
    <3>3. tidy'.todo = todo /\ tidy'.holds = None
          /\ tidy' \in [todo : SUBSET Todos, holds : Displays \cup {None}, record : Recording \cup {None}]
      BY <1>0, <3>1, <3>2 DEF TidyHolds
    <3>4. TidyHolds'
      BY <2>2, <3>2, <3>3 DEF TidyHolds
    <3> QED
      BY <1>0, <2>1, <2>3, <3>1, <3>4, OthersMove DEF RecordsHold
  <2>5. CASE CleanTakes
    <3>1. PICK t \in tidy.todo :
            IF lockOf[t.display] = None
            THEN /\ lockOf' = [lockOf EXCEPT ![t.display] = "clean"]
                 /\ tidy' = [tidy EXCEPT !.todo = @ \ {t}, !.holds = t.display, !.record = t.record]
            ELSE tidy' = [tidy EXCEPT !.todo = @ \ {t}] /\ UNCHANGED lockOf
      BY <2>5 DEF CleanTakes
    <3>2. /\ tidy.holds = None /\ t \in Todos /\ t.display \in Displays
          /\ t.record \in Recording \cup {None} /\ RecordHolds(t.display, t.record)
          /\ Sway => t.record # None
      BY <1>0, <2>5 DEF CleanTakes, TidyHolds, Todos
    <3>3. CASE lockOf[t.display] = None
      <4>1. /\ lockOf' \in [Displays -> Drivers \cup {"clean", None}] /\ lockOf'[t.display] = "clean"
            /\ \A d \in Displays : lockOf'[d] = lockOf[d] \/ lockOf[d] = None
        BY <1>0, <3>1, <3>2, <3>3
      <4>2. /\ tidy' \in [todo : SUBSET Todos, holds : Displays \cup {None}, record : Recording \cup {None}]
            /\ tidy'.todo \subseteq tidy.todo /\ tidy'.holds = t.display /\ tidy'.record = t.record
        <5>1. PICK rest : rest = tidy.todo \ {t}
          OBVIOUS
        <5>2. rest \in SUBSET Todos /\ rest \subseteq tidy.todo
          BY <1>0, <5>1 DEF TidyHolds
        <5>3. tidy' = [tidy EXCEPT !.todo = rest, !.holds = t.display, !.record = t.record]
          BY <3>1, <3>3, <5>1
        <5> QED
          BY <1>0, <3>2, <5>2, <5>3 DEF TidyHolds
      <4>3. RecordHolds(tidy.holds, tidy.record)'
        BY <2>2, <3>2, <4>2 DEF RecordHolds
      <4>4. TidyHolds'
        BY <1>0, <2>2, <3>2, <4>1, <4>2, <4>3 DEF TidyHolds
      <4> QED
        BY <1>0, <2>1, <2>3, <4>1, <4>4, OthersMove DEF RecordsHold
    <3>4. CASE lockOf[t.display] # None
      <4>1. /\ tidy' \in [todo : SUBSET Todos, holds : Displays \cup {None}, record : Recording \cup {None}]
            /\ tidy'.todo \subseteq tidy.todo /\ tidy'.holds = None /\ lockOf' = lockOf
        BY <1>0, <3>1, <3>2, <3>4 DEF TidyHolds
      <4>2. TidyHolds'
        BY <1>0, <2>2, <4>1 DEF TidyHolds
      <4> QED
        BY <1>0, <2>1, <2>3, <4>1, <4>2, OthersMove DEF RecordsHold
    <3> QED
      BY <3>3, <3>4
  <2> QED
    BY <1>1, <2>4, <2>5
<1>2. CASE CleanRemoves \/ CleanForgets
  <2>1. /\ tidy.holds \in Displays /\ lockOf[tidy.holds] = "clean"
        /\ tidy' = [tidy EXCEPT !.holds = None, !.record = None]
        /\ lockOf' = [lockOf EXCEPT ![tidy.holds] = None]
        /\ record' = record \/ record' = [record EXCEPT ![tidy.holds] = None]
        /\ drv' = drv \/ drv' = Stale(drv)
    <3>1. tidy.holds # None /\ CleanGoesOn /\ (record' = record \/ Forgotten(tidy.holds))
      <4>1. CASE CleanRemoves
        BY <4>1 DEF CleanRemoves
      <4>2. CASE CleanForgets
        BY <4>2, Zenon DEF CleanForgets
      <4> QED
        BY <1>2, <4>1, <4>2
    <3>2. drv' = drv \/ drv' = Stale(drv)
      BY <1>2 DEF CleanRemoves, CleanForgets
    <3> QED
      BY <1>0, <3>1, <3>2 DEF TidyHolds, CleanGoesOn, Unlock, Forgotten
  <2>2. /\ WmKept
        /\ \A q \in Drivers : drv[q].at = "diff" => \A v : v = drv[q] /\ NewIsThere(v) => NewIsThere(v)'
    <3>1. CASE CleanForgets
      BY <1>0, <3>1, WmStays DEF CleanForgets
    <3>2. CASE CleanRemoves
      <4>1. PICK o : /\ o = IF Sway THEN tidy.record.output ELSE tidy.holds
                     /\ Sway => tidy.record.run = wm.run
                     /\ Unplugged(o)
        BY <3>2 DEF CleanRemoves
      <4>2. \A x \in wm.outputs : x.name = o => x.by = tidy.holds
        <5>1. CASE Sway
          <6>1. Claim(tidy.holds, o, wm.run)
            BY <1>0, <2>1, <4>1, <5>1 DEF TidyHolds, RecordHolds
          <6> QED
            BY <1>0, <2>1, <6>1, ClaimedIsOwn
        <5>2. CASE ~Sway
          BY <1>0, <4>1, <5>2 DEF WmHolds
        <5> QED
          BY <5>1, <5>2
      <4>3. /\ WmKept
            /\ \A u : (\A x \in wm.outputs : x.name = o => x.by # u.display) =>
                        (NewIsThere(u) => NewIsThere(u)')
        BY <1>0, <4>1, UnpluggedKeeps
      <4>4. ASSUME NEW q \in Drivers, drv[q].at = "diff", NEW v, v = drv[q], NewIsThere(v)
            PROVE  NewIsThere(v)'
        <5>1. lockOf[v.display] = q
          BY <1>0, <4>4 DEF DriverHolds
        <5> QED
          BY <2>1, <4>2, <4>3, <4>4, <5>1
      <4> QED
        BY <4>3, <4>4
    <3> QED
      BY <1>2, <3>1, <3>2
  <2>3. /\ drv' \in [Drivers -> DriverStates]
        /\ \A q \in Drivers : Alike(drv[q], drv'[q])
    BY <2>1, DriversRest
  <2>4. /\ lockOf' \in [Displays -> Drivers \cup {"clean", None}]
        /\ \A d \in Displays : lockOf'[d] = lockOf[d] \/ lockOf[d] = "clean"
    BY <1>0, <2>1
  <2>5. /\ record' \in [Displays -> Recording \cup {None}]
        /\ \A d \in Displays : record'[d] = record[d] \/ (lockOf[d] = "clean" /\ record'[d] = None)
    BY <1>0, <2>1 DEF RecordsHold
  <2>6. TidyHolds'
    <3>1. (Sway' <=> Sway) /\ \A d, r : RecordHolds(d, r) => RecordHolds(d, r)'
      BY <2>2 DEF WmKept, Sway, RecordHolds
    <3>2. /\ tidy' \in [todo : SUBSET Todos, holds : Displays \cup {None}, record : Recording \cup {None}]
          /\ tidy'.todo = tidy.todo /\ tidy'.holds = None
      BY <1>0, <2>1 DEF TidyHolds
    <3> QED
      BY <1>0, <3>1, <3>2 DEF TidyHolds
  <2> QED
    BY <2>2, <2>3, <2>4, <2>5, <2>6, OthersMove
<1>3. CASE CleanEnds
  <2>1. /\ UNCHANGED <<wm, record, drv>> /\ tidy' = Resting
        /\ lockOf' = [d \in Displays |-> IF lockOf[d] = "clean" THEN None ELSE lockOf[d]]
    BY <1>3 DEF CleanEnds
  <2>2. WmKept /\ \A u : NewIsThere(u) => NewIsThere(u)'
    BY <1>0, <2>1, WmStays
  <2>3. /\ drv' \in [Drivers -> DriverStates]
        /\ \A q \in Drivers : Alike(drv[q], drv'[q])
    BY <2>1, DriversRest
  <2>4. /\ lockOf' \in [Displays -> Drivers \cup {"clean", None}]
        /\ \A d \in Displays : lockOf'[d] = lockOf[d] \/ lockOf[d] = "clean"
    BY <1>0, <2>1
  <2>5. TidyHolds'
    BY <2>1 DEF TidyHolds, Resting
  <2> QED
    BY <1>0, <2>1, <2>2, <2>3, <2>4, <2>5, OthersMove DEF RecordsHold
<1> QED
  BY <1>1, <1>2, <1>3 DEF CleanSteps

LEMMA WorldKeeps ==
    ASSUME OutputsInv, UserMakes \/ UserUnplugs \/ Restart
    PROVE  OutputsInv'
<1> USE NoneIsNothing, OutputsAssumption
<1>0. /\ WmHolds /\ RecordsHold /\ TidyHolds
      /\ lockOf \in [Displays -> Drivers \cup {"clean", None}]
      /\ drv \in [Drivers -> DriverStates]
      /\ \A q \in Drivers : DriverHolds(q)
  BY DEF OutputsInv
<1>1. UNCHANGED <<record, lockOf, tidy>>
  BY DEF UserMakes, UserUnplugs, Restart
<1>2. ASSUME WmKept, drv' \in [Drivers -> DriverStates], \A q \in Drivers : Alike(drv[q], drv'[q]),
             \A q \in Drivers : drv[q].at = "diff" /\ wm'.run = wm.run =>
                 \A v : v = drv[q] /\ NewIsThere(v) => NewIsThere(v)'
      PROVE  OutputsInv'
  <2>1. TidyHolds'
    BY <1>0, <1>1, <1>2, TidyStays
  <2> QED
    BY <1>0, <1>1, <1>2, <2>1, OthersMove DEF RecordsHold
<1>3. CASE UserMakes
  <2>1. /\ Sway /\ wm.made < MaxMade /\ Made(wm.made + 1, "user") /\ drv' = Stale(drv)
    BY <1>3 DEF UserMakes
  <2>2. PICK name : name = wm.made + 1
    OBVIOUS
  <2>3. WmKept /\ \A v : NewIsThere(v) => NewIsThere(v)'
    BY <1>0, <2>1, <2>2, MadeKeeps
  <2> QED
    BY <1>2, <2>1, <2>3, DriversRest
<1>4. CASE UserUnplugs
  <2>1. PICK o \in wm.outputs : (\A q \in Drivers : drv[q].at # "diff") /\ Unplugged(o.name)
    BY <1>4 DEF UserUnplugs
  <2>2. WmKept
    BY <1>0, <2>1, UnpluggedKeeps
  <2>3. drv' = Stale(drv)
    BY <1>4 DEF UserUnplugs
  <2> QED
    BY <1>2, <2>1, <2>2, <2>3, DriversRest
<1>5. CASE Restart
  <2>1. PICK left \in SUBSET {wm.run} :
          wm' = [wm EXCEPT !.run = @ + 1, !.made = 0, !.outputs = {},
                           !.sockets = (@ \ {wm.run}) \cup left \cup {wm.run + 1}]
    BY <1>5 DEF Restart
  <2>w. wm \in Compositors /\ wm.run \in Runs
    BY <1>0 DEF WmHolds, Compositors
  <2>2. wm.run \in Nat /\ wm.run < MaxRuns
    <3>1. wm.run < MaxRuns
      BY <1>5 DEF Restart
    <3>2. wm.run \in Nat
      BY <2>w DEF Runs
    <3> QED
      BY <3>1, <3>2
  <2>r. wm.run + 1 \in Runs
    BY <2>2, <2>w DEF Runs
  <2>3. PICK sockets \in SUBSET Runs :
          sockets = (wm.sockets \ {wm.run}) \cup left \cup {wm.run + 1}
    BY <2>2, <2>w, <2>r DEF Compositors
  <2>4. wm' = [wm EXCEPT !.run = wm.run + 1, !.made = 0, !.outputs = {}, !.sockets = sockets]
    BY <2>1, <2>2, <2>w, <2>3 DEF Compositors
  <2>5. 0 \in 0 .. MaxMade
    OBVIOUS
  <2>6. wm' \in Compositors /\ wm'.kind = wm.kind /\ wm'.run = wm.run + 1 /\ wm'.outputs = {}
    BY <2>2, <2>w, <2>r, <2>3, <2>4, <2>5 DEF Compositors
  <2>7. (Sway' <=> Sway) /\ wm'.run > wm.run
    BY <2>2, <2>6 DEF Sway
  <2>8. WmHolds'
    BY <2>6 DEF WmHolds
  <2>9. \A d, o, r : Claim(d, o, r) => Claim(d, o, r)'
    BY <2>2, <2>6, <2>7 DEF Claim, Runs
  <2>10. WmKept
    BY <2>6, <2>7, <2>8, <2>9 DEF WmKept
  <2>11. drv' = [s \in Drivers |-> [drv[s] EXCEPT !.captured = {}, !.fresh = FALSE]]
    BY <1>5 DEF Restart
  <2>12. ASSUME NEW v \in DriverStates
         PROVE  /\ [v EXCEPT !.captured = {}, !.fresh = FALSE] \in DriverStates
                /\ Alike(v, [v EXCEPT !.captured = {}, !.fresh = FALSE])
    BY DEF DriverStates, Alike
  <2>13. /\ drv' \in [Drivers -> DriverStates]
         /\ \A q \in Drivers : Alike(drv[q], drv'[q])
    BY <1>0, <2>11, <2>12
  <2> QED
    BY <1>2, <2>2, <2>6, <2>10, <2>13
<1> QED
  BY <1>3, <1>4, <1>5

-----------------------------------------------------------------------------
(* What becomes of the outputs.                                            *)

LEMMA OutputsBegin ==
    ASSUME OutputsInit
    PROVE  OutputsInv
<1> USE NoneIsNothing, OutputsAssumption
<1>1. 1 \in Runs /\ 0 \in 0 .. MaxMade /\ 0 \in 0 .. 2
  BY DEF Runs
<1>2. /\ wm \in Compositors /\ wm.outputs = {} /\ wm.run = 1
  BY <1>1 DEF OutputsInit, Compositors
<1>3. Off(1) \in DriverStates /\ Off(1).at = "off" /\ Off(1).output = None
      /\ Off(1).captured = {} /\ Off(1).run = 1
  BY <1>1, OffIs
<1>4. /\ drv \in [Drivers -> DriverStates]
      /\ \A s \in Drivers : drv[s] = Off(1)
  BY <1>3 DEF OutputsInit
<1>5. \A s \in Drivers : DriverHolds(s)
  BY <1>2, <1>3, <1>4 DEF DriverHolds, HasOutput
<1>6. WmHolds
  BY <1>2 DEF WmHolds
<1>7. RecordsHold
  BY DEF OutputsInit, RecordsHold, RecordHolds
<1>8. TidyHolds
  BY DEF OutputsInit, TidyHolds, Resting
<1>9. lockOf \in [Displays -> Drivers \cup {"clean", None}]
  BY DEF OutputsInit
<1> QED
  BY <1>4, <1>5, <1>6, <1>7, <1>8, <1>9 DEF OutputsInv

LEMMA OutputsStep ==
    ASSUME OutputsInv, [OutputsNext]_outputsVars
    PROVE  OutputsInv'
<1>1. CASE OutputsNext
  BY <1>1, DriverKeeps, CleanKeeps, WorldKeeps DEF OutputsNext
<1>2. CASE UNCHANGED outputsVars
  <2>1. UNCHANGED <<wm, record, lockOf, drv, tidy>>
    BY <1>2 DEF outputsVars
  <2>2. /\ WmHolds /\ RecordsHold /\ TidyHolds
        /\ lockOf \in [Displays -> Drivers \cup {"clean", None}]
    BY DEF OutputsInv
  <2>3. WmKept /\ \A v : NewIsThere(v) => NewIsThere(v)'
    BY <2>1, <2>2, WmStays
  <2>4. TidyHolds'
    BY <2>1, <2>2, <2>3, TidyStays
  <2>5. /\ drv' \in [Drivers -> DriverStates]
        /\ \A q \in Drivers : Alike(drv[q], drv'[q])
    BY <2>1, DriversRest
  <2> QED
    BY <2>1, <2>2, <2>3, <2>4, <2>5, OthersMove DEF RecordsHold
<1> QED
  BY <1>1, <1>2

THEOREM OutputsSound == OutputsSpec => []OutputsInv
<1> QED
  BY OutputsBegin, OutputsStep, PTL DEF OutputsSpec

\* Every step but these two leaves the outputs there are.
LEMMA OnlyTwoRemove ==
    ASSUME OutputsInv, (\E s \in Drivers : DriverSteps(s)) \/ CleanSteps,
           \A s \in Drivers : ~RemoveOutput(s), ~CleanRemoves
    PROVE  wm.outputs \subseteq wm'.outputs
<1>0. wm \in Compositors
  BY DEF OutputsInv, WmHolds
<1>1. CASE CleanSteps
  <2>1. UNCHANGED wm
    BY <1>1 DEF CleanSteps, CleanBegins, CleanTakes, CleanForgets, CleanEnds
  <2> QED
    BY <2>1
<1>2. ASSUME NEW s \in Drivers, DriverSteps(s)
      PROVE  wm.outputs \subseteq wm'.outputs
  <2>1. CASE Create(s)
    <3>1. PICK name, by : Made(name, by)
      BY <2>1 DEF Create
    <3> DEFINE outs == wm.outputs \cup {[name |-> name, by |-> by]}
    <3>2. PICK made : made = IF name \in Nat THEN wm.made + 1 ELSE wm.made
      OBVIOUS
    <3>3. wm' = [wm EXCEPT !.outputs = outs, !.made = made]
      BY <3>1, <3>2 DEF Made
    <3> HIDE DEF outs
    <3>4. wm'.outputs = outs
      BY <1>0, <3>3 DEF Compositors
    <3> QED
      BY <3>4 DEF outs
  <2>2. CASE ~Create(s)
    <3>1. CASE Begin(s) \/ Look(s) \/ List(s) \/ Find(s) \/ Diff(s) \/ Save(s) \/ SaveFails(s)
               \/ GivesUp(s) \/ Serial(s) \/ Cancelled(s) \/ Applied(s) \/ SizingFails(s)
      BY <3>1 DEF Begin, Look, List, Find, Diff, Save, SaveFails, GivesUp, Serial, Cancelled,
                  Applied, SizingFails
    <3>2. CASE StartCapture(s) \/ StartCursor(s) \/ StopCapture(s) \/ Reconfigure(s) \/ Close(s)
               \/ CloseKeeping(s) \/ RemoveFails(s) \/ Killed(s)
      BY <3>2 DEF StartCapture, StartCursor, StopCapture, Captures, Reconfigure, Close,
                  CloseKeeping, RemoveFails, Killed
    <3> QED
      BY <1>2, <2>2, <3>1, <3>2 DEF DriverSteps
  <2> QED
    BY <2>1, <2>2
<1> QED
  BY <1>1, <1>2

\* A sender that has an output of this run has the lock of whom it was made for.
LEMMA HolderIsOwner ==
    ASSUME OutputsInv, NEW q \in Drivers, NEW o \in wm.outputs,
           drv[q].output = o.name, drv[q].run = wm.run
    PROVE  o.by = drv[q].display /\ lockOf[o.by] = q
<1>1. DriverHolds(q) /\ drv[q] \in DriverStates /\ WmHolds
  BY DEF OutputsInv
<1>2. o.name # None
  BY <1>1, NoneIsNothing DEF WmHolds, Compositors, OutputNames
<1>3. /\ lockOf[drv[q].display] = q /\ drv[q].display \in Displays
      /\ Claim(drv[q].display, o.name, drv[q].run)
  BY <1>1, <1>2 DEF DriverHolds, DriverStates
<1> QED
  BY <1>1, <1>3, ClaimedIsOwn

\* A step of a sender or of clean that unplugs an output, unplugs one that a
\* sender made and that none but the sender that ends with it has.
LEMMA UnplugsItsOwn ==
    ASSUME OutputsInv, (\E s \in Drivers : DriverSteps(s)) \/ CleanSteps,
           NEW o \in wm.outputs \ wm'.outputs
    PROVE  /\ o.by \in Displays
           /\ \A q \in Drivers : drv[q].output = o.name /\ drv[q].run = wm.run
                                   => drv[q].captured = {} /\ drv'[q].at = "off"
<1> USE OutputsAssumption
<1>0. WmHolds /\ TidyHolds
  BY DEF OutputsInv
<1>1. CASE \E s \in Drivers : RemoveOutput(s)
  <2>1. PICK s \in Drivers : RemoveOutput(s)
    BY <1>1
  <2>2. DriverHolds(s) /\ drv[s] \in DriverStates
    BY DEF OutputsInv
  <2>3. /\ drv[s].at = "remove" /\ drv[s].run = wm.run /\ Unplugged(drv[s].output)
        /\ drv' = Stale([drv EXCEPT ![s] = Off(drv[s].run)])
    BY <2>1 DEF RemoveOutput, Answers
  <2>4. wm.outputs \ wm'.outputs = {x \in wm.outputs : x.name = drv[s].output}
    BY <1>0, <2>3, UnpluggedKeeps
  <2>5. o \in wm.outputs /\ drv[s].output = o.name
    BY <2>4
  <2>6. o.by = drv[s].display /\ lockOf[o.by] = s
    BY <2>3, <2>5, HolderIsOwner
  <2>7. o.by \in Displays /\ drv[s].captured = {}
    BY <2>2, <2>3, <2>6 DEF DriverHolds, DriverStates
  <2>8. drv'[s].at = "off"
    <3>1. PICK run \in Runs : run = drv[s].run
      BY <2>2 DEF DriverStates
    <3>2. Off(run) \in DriverStates /\ Off(run).at = "off"
      BY OffIs
    <3>3. Alike(Off(run), drv'[s])
      BY <2>3, <3>1, <3>2, StaleIs
    <3> QED
      BY <3>2, <3>3 DEF Alike
  <2>9. \A q \in Drivers : drv[q].output = o.name /\ drv[q].run = wm.run => q = s
    BY <2>5, <2>6, HolderIsOwner
  <2> QED
    BY <2>7, <2>8, <2>9
<1>2. CASE CleanRemoves
  <2>1. PICK n : /\ n = IF Sway THEN tidy.record.output ELSE tidy.holds
                 /\ Sway => tidy.record.run = wm.run
                 /\ tidy.holds # None /\ Unplugged(n)
    BY <1>2 DEF CleanRemoves
  <2>2. tidy.holds \in Displays /\ lockOf[tidy.holds] = "clean"
    BY <1>0, <2>1 DEF TidyHolds
  <2>3. o \in wm.outputs /\ o.name = n
    BY <1>0, <2>1, UnpluggedKeeps
  <2>4. o.by = tidy.holds
    <3>1. CASE Sway
      <4>1. Claim(tidy.holds, n, wm.run)
        BY <1>0, <2>1, <3>1 DEF TidyHolds, RecordHolds
      <4> QED
        BY <1>0, <2>2, <2>3, <4>1, ClaimedIsOwn
    <3>2. CASE ~Sway
      BY <1>0, <2>1, <2>3, <3>2 DEF WmHolds
    <3> QED
      BY <3>1, <3>2
  <2>5. \A q \in Drivers : ~(drv[q].output = o.name /\ drv[q].run = wm.run)
    BY <2>2, <2>3, <2>4, HolderIsOwner
  <2> QED
    BY <2>2, <2>4, <2>5
<1>3. CASE (\A s \in Drivers : ~RemoveOutput(s)) /\ ~CleanRemoves
  BY <1>3, OnlyTwoRemove
<1> QED
  BY <1>1, <1>2, <1>3

\* However senders, their crashes, the user, restarts of the compositor and
\* the clean command interleave, an output that a sender has is on record,
\* and no sender and no clean command unplugs an output of the user's, of
\* another sender, or one that is captured (record.rs, wlroots, hyprland,
\* clean).
THEOREM OutputsAreKept == OutputsSpec => OutputsKept
<1>1. OutputsInv => OpenIsRecorded
  BY DEF OutputsInv, DriverHolds, OpenIsRecorded, HasOutput
<1> DEFINE Own == \A o \in wm.outputs \ wm'.outputs :
                    (\E s \in Drivers : DriverSteps(s)) \/ CleanSteps =>
                      /\ o.by \in Displays
                      /\ \A s \in Drivers :
                           drv[s].output = o.name /\ drv[s].run = wm.run
                             => drv[s].captured = {} /\ drv'[s].at = "off"
<1>2. OutputsInv /\ [OutputsNext]_outputsVars => [Own]_outputsVars
  BY UnplugsItsOwn
<1>3. UnplugsOwn <=> [][Own]_outputsVars
  BY DEF UnplugsOwn
<1> HIDE DEF Own
<1>4. OutputsSpec => [][Own]_outputsVars
  BY <1>2, OutputsSound, PTL DEF OutputsSpec
<1>5. OutputsSpec => []OpenIsRecorded
  BY <1>1, OutputsSound, PTL
<1> QED
  BY <1>3, <1>4, <1>5, PTL DEF OutputsKept

-----------------------------------------------------------------------------
(* KWin's layout.                                                          *)

KdePlaces == {"off", "make", "ready", "wait", "configure", "open", "release", "restore"}
KdeStates ==
    [at : KdePlaces, side : KdeSides, w : KdeWidths, stream : BOOLEAN, capture : BOOLEAN,
     corrected : BOOLEAN, pointer : Pointers, shifted : BOOLEAN, x : Int]
Rects == [x : Int, w : KdeWidths]
KwinStates ==
    [user : Int, virt : [Kdes -> Rects \cup {None}], excuse : SUBSET {"kwin", "remake"}]

\* The user's screen is at 0, unless the display k knows that it moved it and
\* has the stream without which it would not move it back.
Unmoved(place, stream, shifted, user) ==
    /\ place = "off" \/ ~shifted => user = 0
    /\ place = "release" /\ shifted => stream

ShiftKnown(k) ==
    /\ kde[k].at \in {"off", "ready", "restore"} => kwin.virt[k] = None
    /\ kde[k].at \in {"wait", "configure", "open"} => kde[k].stream
    /\ kwin.excuse = {} => Unmoved(kde[k].at, kde[k].stream, kde[k].shifted, kwin.user)

KwinInv ==
    /\ kwin \in KwinStates /\ kde \in [Kdes -> KdeStates]
    /\ \A k \in Kdes : ShiftKnown(k)

LEMMA NoKdeIs ==
    NoKde \in KdeStates /\ NoKde.at = "off" /\ ~NoKde.shifted
BY KwinAssumption DEF NoKde, KdeStates, KdePlaces, Pointers

\* A step of the one display.
LEMMA KdeSteps ==
    ASSUME KwinInv, NEW k, Kdes = {k}, NEW next \in KdeStates, KdeStep(k, next), kwin' \in KwinStates,
           next.at \in {"off", "ready", "restore"} => kwin'.virt[k] = None,
           next.at \in {"wait", "configure", "open"} => next.stream,
           kwin'.excuse = {} => Unmoved(next.at, next.stream, next.shifted, kwin'.user)
    PROVE  KwinInv'
<1>1. kde' \in [Kdes -> KdeStates] /\ kde'[k] = next
  BY DEF KdeStep, KwinInv
<1> QED
  BY <1>1 DEF KwinInv, ShiftKnown

\* Its output goes.
LEMMA GoneIs ==
    ASSUME KwinInv, NEW k, Kdes = {k}
    PROVE  /\ Gone(kwin, k) \in KwinStates /\ Gone(kwin, k).virt[k] = None
           /\ Gone(kwin, k).user = kwin.user /\ Gone(kwin, k).excuse = kwin.excuse
BY DEF KwinInv, KwinStates, Gone

LEMMA UnlessIs ==
    ASSUME NEW state \in KwinStates, NEW why \in {"kwin", "remake"}
    PROVE  Unless(state, why) \in KwinStates /\ Unless(state, why).excuse # {}
           /\ Unless(state, why).virt = state.virt
BY DEF KwinStates, Unless

\* Everything is moved.
LEMMA MovedByIs ==
    ASSUME KwinInv, NEW k, Kdes = {k}, NEW d \in Int
    PROVE  /\ MovedBy(d) \in KwinStates /\ MovedBy(d).user = kwin.user + d
           /\ MovedBy(d).excuse = kwin.excuse
           /\ IF kwin.virt[k] = None THEN MovedBy(d).virt[k] = None ELSE MovedBy(d).virt[k] \in Rects
<1> DEFINE virt == [j \in Kdes |-> Shift(kwin.virt[j], d)]
<1>1. \A rect \in Rects : Shift(rect, d) \in Rects \cup {None} /\ (rect # None => Shift(rect, d) \in Rects)
  BY DEF Shift, Rects
<1>2. Shift(None, d) = None /\ kwin.virt[k] \in Rects \cup {None}
  BY DEF Shift, KwinInv, KwinStates
<1>3. virt \in [Kdes -> Rects \cup {None}]
  BY <1>1, <1>2 DEF KwinInv, KwinStates
<1> HIDE DEF virt
<1>4. /\ MovedBy(d) \in KwinStates /\ MovedBy(d).user = kwin.user + d
      /\ MovedBy(d).excuse = kwin.excuse /\ MovedBy(d).virt = virt
  <2>1. PICK user : user = kwin.user + d
    OBVIOUS
  <2>2. kwin \in KwinStates /\ user \in Int
    BY <2>1 DEF KwinInv, KwinStates
  <2>3. MovedBy(d) = [kwin EXCEPT !.user = user, !.virt = virt]
    BY <2>1 DEF MovedBy, virt
  <2> QED
    BY <1>3, <2>1, <2>2, <2>3 DEF KwinStates
<1> QED
  BY <1>1, <1>2, <1>4 DEF virt

\* Beside the one display there is the user's screen only.
LEMMA OneBeside ==
    ASSUME KwinInv, NEW k, Kdes = {k}
    PROVE  /\ kwin.user \in Int /\ Others(k) = {UserRect}
           /\ Right(Others(k)) = kwin.user + 1
           /\ \A side \in KdeSides, w \in KdeWidths :
                LET wanted == Place(side, w, Others(k))
                    d == Normalize(wanted, Others(k))
                IN  wanted \in Int /\ d \in Int
<1>1. kwin.user \in Int /\ Others(k) = {UserRect}
  BY DEF KwinInv, KwinStates, Others, VirtOf
<1>2. UserRect.x = kwin.user /\ UserRect.w = 1
  BY DEF UserRect
<1>3. LeftOf({UserRect}) = kwin.user
  <2>1. {r.x : r \in {UserRect}} = {kwin.user}
    BY <1>2
  <2> QED
    BY <1>1, <1>2, <2>1 DEF LeftOf
<1>4. Right({UserRect}) = kwin.user + 1
  <2>1. {r.x + r.w : r \in {UserRect}} = {kwin.user + 1}
    BY <1>2
  <2> QED
    BY <1>1, <1>2, <2>1 DEF Right
<1>5. ASSUME NEW x \in Int
      PROVE  Normalize(x, {UserRect}) \in Int
  <2> DEFINE rects == {UserRect} \cup {[x |-> x, w |-> 0]}
             least == IF x <= kwin.user THEN x ELSE kwin.user
  <2>1. {r.x : r \in rects} = {kwin.user, x}
    BY <1>2
  <2>2. \A y : (y \in {r.x : r \in rects} /\ \A r \in rects : y <= r.x) <=> y = least
    BY <1>1, <1>2, <2>1
  <2>3. LeftOf(rects) = least
    BY <2>2 DEF LeftOf
  <2>4. least \in Int /\ Normalize(x, {UserRect}) = -LeftOf(rects)
    BY <1>1 DEF Normalize
  <2> QED
    BY <2>3, <2>4
<1>6. ASSUME NEW side \in KdeSides, NEW w \in KdeWidths
      PROVE  LET wanted == Place(side, w, Others(k))
                 d == Normalize(wanted, Others(k))
             IN  wanted \in Int /\ d \in Int
  <2>1. PICK wanted : wanted = Place(side, w, Others(k))
    OBVIOUS
  <2>2. wanted = (IF side = "left" THEN kwin.user - w ELSE kwin.user + 1) /\ wanted \in Int
    BY <1>1, <1>3, <1>4, <2>1, KwinAssumption DEF Place
  <2>3. Normalize(wanted, Others(k)) \in Int
    BY <1>1, <1>5, <2>2
  <2> QED
    BY <1>1, <2>1, <2>2, <2>3
<1> QED
  BY <1>1, <1>4, <1>6

LEMMA KwinStep ==
    ASSUME KwinInv, NEW k, Kdes = {k}, [KwinNext]_kwinVars
    PROVE  KwinInv'
<1> DEFINE v == kde[k]
<1>0. /\ v \in KdeStates /\ kwin \in KwinStates /\ ShiftKnown(k) /\ k \in Kdes
      /\ kwin.virt[k] \in Rects \cup {None}
  BY DEF KwinInv, KwinStates
<1>1. CASE KdeOpens(k)
  <2>1. PICK side \in KdeSides, w \in KdeWidths, pointer \in Pointers :
          KdeStep(k, [NoKde EXCEPT !.at = "make", !.side = side, !.w = w, !.pointer = pointer])
    BY <1>1 DEF KdeOpens
  <2>n. PICK next : next = [NoKde EXCEPT !.at = "make", !.side = side, !.w = w, !.pointer = pointer]
    OBVIOUS
  <2>2. next \in KdeStates /\ next.at = "make" /\ ~next.shifted
    BY <2>n, NoKdeIs DEF KdeStates, KdePlaces, Pointers
  <2> QED
    BY <1>0, <1>1, <2>1, <2>n, <2>2, KdeSteps DEF KdeOpens, ShiftKnown, Unmoved
<1>2. CASE Make(k)
  <2>1. PICK next : next = [v EXCEPT !.at = "ready", !.capture = FALSE, !.stream = FALSE]
    OBVIOUS
  <2>2. next \in KdeStates /\ next.at = "ready" /\ next.shifted = v.shifted
    BY <1>0, <2>1 DEF KdeStates, KdePlaces
  <2> QED
    BY <1>0, <1>2, <2>1, <2>2, KdeSteps, GoneIs DEF Make, ShiftKnown, Unmoved
<1>3. CASE StreamReady(k)
  <2>1. PICK next : next = [v EXCEPT !.at = "wait", !.stream = TRUE]
    OBVIOUS
  <2>2. next \in KdeStates /\ next.at = "wait" /\ next.shifted = v.shifted /\ next.stream
    BY <1>0, <2>1 DEF KdeStates, KdePlaces
  <2>3. [x |-> Right(Others(k)), w |-> v.w] \in Rects
    BY <1>0, OneBeside DEF Rects, KdeStates
  <2>4. kwin' \in KwinStates /\ kwin'.user = kwin.user /\ kwin'.excuse = kwin.excuse
    BY <1>0, <1>3, <2>3 DEF StreamReady, KwinStates
  <2> QED
    BY <1>0, <1>3, <2>1, <2>2, <2>4, KdeSteps DEF StreamReady, ShiftKnown, Unmoved
<1>p. PICK dropped : dropped = Dropped(k)
  OBVIOUS
<1>q. /\ dropped \in KdeStates /\ dropped.at = "release" /\ dropped.shifted = v.shifted
      /\ dropped.stream = v.stream
  BY <1>0, <1>p DEF Dropped, KdeStates, KdePlaces
<1>4. CASE StreamFails(k)
  <2>1. KdeStep(k, dropped)
    BY <1>4, <1>p DEF StreamFails
  <2>2. CASE v.shifted
    BY <1>0, <1>4, <1>q, <2>1, <2>2, KdeSteps, UnlessIs DEF StreamFails
  <2>3. CASE ~v.shifted
    BY <1>0, <1>4, <1>q, <2>1, <2>3, KdeSteps DEF StreamFails, ShiftKnown, Unmoved
  <2> QED
    BY <1>0, <2>2, <2>3 DEF KdeStates
<1>5. CASE Seen(k)
  <2>1. PICK next :
          /\ KdeStep(k, next)
          /\ \/ next = [v EXCEPT !.at = "configure"]
             \/ next = [v EXCEPT !.at = "make", !.corrected = TRUE]
    BY <1>5 DEF Seen
  <2>2. /\ next \in KdeStates /\ next.at \in {"configure", "make"} /\ next.shifted = v.shifted
        /\ next.stream = v.stream
    BY <1>0, <2>1 DEF KdeStates, KdePlaces
  <2> QED
    BY <1>0, <1>5, <2>1, <2>2, KdeSteps DEF Seen, ShiftKnown, Unmoved
<1>6. CASE NotSeen(k)
  BY <1>0, <1>6, <1>p, <1>q, KdeSteps DEF NotSeen, ShiftKnown, Unmoved
<1>7. CASE Configured(k)
  <2>1. PICK wanted, d : /\ wanted = Place(v.side, v.w, Others(k))
                         /\ d = Normalize(wanted, Others(k))
    OBVIOUS
  <2>2. wanted \in Int /\ d \in Int
    BY <1>0, <2>1, OneBeside DEF KdeStates
  <2>3. PICK shifted \in BOOLEAN : shifted = (v.shifted \/ d # 0)
    BY <1>0 DEF KdeStates
  <2>4. PICK next : /\ next = [v EXCEPT !.at = "open", !.corrected = FALSE, !.x = wanted + d,
                                         !.shifted = shifted]
                    /\ KdeStep(k, next)
    BY <1>7, <2>1, <2>3 DEF Configured
  <2>5. /\ next \in KdeStates /\ next.at = "open" /\ next.shifted = shifted
        /\ next.stream = v.stream
    <3>1. PICK x \in Int : x = wanted + d
      BY <2>2
    <3>2. next = [v EXCEPT !.at = "open", !.corrected = FALSE, !.x = x, !.shifted = shifted]
      BY <2>4, <3>1
    <3> QED
      BY <1>0, <3>2 DEF KdeStates, KdePlaces
  <2>6. /\ MovedBy(d) \in KwinStates /\ MovedBy(d).user = kwin.user + d
        /\ MovedBy(d).excuse = kwin.excuse /\ MovedBy(d).virt[k] \in Rects
    BY <1>7, <2>2, MovedByIs DEF Configured
  <2>7. PICK moved \in KwinStates : moved = MovedBy(d)
    BY <2>6
  <2>8. kwin' = [moved EXCEPT !.virt[k].x = wanted + d]
    BY <1>7, <2>1, <2>7 DEF Configured
  <2>9. kwin' \in KwinStates /\ kwin'.user = kwin.user + d /\ kwin'.excuse = kwin.excuse
    BY <1>0, <2>2, <2>6, <2>7, <2>8 DEF KwinStates, Rects
  <2>10. kwin.user \in Int
    BY <1>0 DEF KwinStates
  <2>11. v.stream /\ (kwin.excuse = {} /\ ~v.shifted => kwin.user = 0)
    BY <1>0, <1>7 DEF Configured, ShiftKnown, Unmoved
  <2>12. CASE d = 0
    <3>1. kwin'.user = kwin.user /\ shifted = v.shifted
      BY <1>0, <2>3, <2>9, <2>10, <2>12 DEF KdeStates
    <3> QED
      BY <2>4, <2>5, <2>9, <2>11, <3>1, KdeSteps DEF Unmoved
  <2>13. CASE d # 0
    <3>1. next.shifted
      BY <2>3, <2>5, <2>13
    <3> QED
      BY <2>4, <2>5, <2>9, <2>11, <3>1, KdeSteps DEF Unmoved
  <2> QED
    BY <2>12, <2>13
<1>8. CASE NotConfigured(k)
  <2>1. PICK x : x = IF kwin.virt[k] = None THEN v.x ELSE kwin.virt[k].x
    OBVIOUS
  <2>2. x \in Int
    BY <1>0, <2>1 DEF KdeStates, Rects
  <2>3. PICK next : /\ next = [v EXCEPT !.at = "open", !.corrected = FALSE, !.x = x]
                    /\ KdeStep(k, next)
    BY <1>8, <2>1 DEF NotConfigured
  <2>4. /\ next \in KdeStates /\ next.at = "open" /\ next.shifted = v.shifted
        /\ next.stream = v.stream /\ v.stream
    BY <1>0, <1>8, <2>2, <2>3 DEF NotConfigured, ShiftKnown, KdeStates, KdePlaces
  <2>5. CASE UNCHANGED kwin
    BY <1>0, <1>8, <2>3, <2>4, <2>5, KdeSteps DEF NotConfigured, ShiftKnown, Unmoved
  <2>6. ASSUME kwin.virt[k] # None,
               NEW wanted, wanted = Place(v.side, v.w, Others(k)),
               NEW d, d = Normalize(wanted, Others(k)),
               kwin' = Unless([MovedBy(d) EXCEPT !.virt[k].x = wanted + d], "kwin")
        PROVE  KwinInv'
    <3>1. wanted \in Int /\ d \in Int
      BY <1>0, <2>6, OneBeside DEF KdeStates
    <3>2. PICK moved \in KwinStates : moved = MovedBy(d) /\ moved.virt[k] \in Rects
      BY <2>6, <3>1, MovedByIs
    <3>3. [moved EXCEPT !.virt[k].x = wanted + d] \in KwinStates
      BY <1>0, <3>1, <3>2 DEF KwinStates, Rects
    <3>4. kwin' \in KwinStates /\ kwin'.excuse # {}
      BY <2>6, <3>2, <3>3, UnlessIs
    <3> QED
      BY <2>3, <2>4, <3>4, KdeSteps
  <2> QED
    BY <1>8, <2>5, <2>6 DEF NotConfigured
<1>9. CASE KdeCaptures(k)
  <2>1. v.stream /\ UNCHANGED kwin /\ v.at = "open"
    BY <1>0, <1>9 DEF KdeCaptures, ShiftKnown
  <2>2. PICK next :
          /\ KdeStep(k, next)
          /\ \/ \E pointer \in Pointers :
                  next = [v EXCEPT !.at = "make", !.pointer = pointer, !.capture = FALSE]
             \/ next = [v EXCEPT !.capture = TRUE]
             \/ next = [dropped EXCEPT !.capture = FALSE]
    BY <1>9, <1>p DEF KdeCaptures
  <2>3. /\ next \in KdeStates /\ next.at \in {"make", "open", "release"} /\ next.shifted = v.shifted
        /\ next.stream = v.stream
    BY <1>0, <1>q, <2>1, <2>2 DEF KdeStates, KdePlaces
  <2> QED
    BY <1>0, <2>1, <2>2, <2>3, KdeSteps DEF ShiftKnown, Unmoved
<1>10. CASE KdeReconfigures(k)
  <2>1. v.stream /\ UNCHANGED kwin /\ v.at = "open"
    BY <1>0, <1>10 DEF KdeReconfigures, ShiftKnown
  <2>2. PICK next : KdeStep(k, next) /\ \E w \in KdeWidths : next = [v EXCEPT !.at = "make", !.w = w]
    BY <1>10 DEF KdeReconfigures
  <2>3. next \in KdeStates /\ next.at = "make" /\ next.shifted = v.shifted
    BY <1>0, <2>2 DEF KdeStates, KdePlaces
  <2> QED
    BY <1>0, <2>1, <2>2, <2>3, KdeSteps DEF ShiftKnown, Unmoved
<1>11. CASE KdeCloses(k)
  BY <1>0, <1>11, <1>p, <1>q, KdeSteps DEF KdeCloses, ShiftKnown, Unmoved
<1>12. CASE Release(k)
  <2>1. CASE v.stream /\ v.shifted
    <3>1. PICK next : /\ next = [v EXCEPT !.at = "restore", !.capture = FALSE, !.stream = FALSE]
                      /\ KdeStep(k, next)
      BY <1>12, <2>1 DEF Release
    <3>2. next \in KdeStates /\ next.at = "restore" /\ next.shifted
      BY <1>0, <2>1, <3>1 DEF KdeStates, KdePlaces
    <3> QED
      BY <1>0, <1>12, <3>1, <3>2, KdeSteps, GoneIs DEF Release, Unmoved
  <2>2. CASE ~(v.stream /\ v.shifted)
    <3>1. KdeStep(k, NoKde) /\ (kwin.excuse = {} => kwin.user = 0)
      BY <1>0, <1>12, <2>2 DEF Release, ShiftKnown, Unmoved
    <3> QED
      BY <1>0, <1>12, <3>1, KdeSteps, GoneIs, NoKdeIs DEF Release, Unmoved
  <2> QED
    BY <2>1, <2>2
<1>m. ASSUME kwin.virt[k] = None
      PROVE  /\ ToOrigin \in KwinStates /\ ToOrigin.user = 0 /\ ToOrigin.virt[k] = None
             /\ ToOrigin.excuse = kwin.excuse
  <2>1. {UserRect} \cup VirtOf(Kdes) = {UserRect}
    BY <1>m DEF VirtOf
  <2>2. kwin.user \in Int /\ UserRect.x = kwin.user
    BY <1>0 DEF KwinStates, UserRect
  <2>3. LeftOf({UserRect}) = kwin.user
    <3>1. {r.x : r \in {UserRect}} = {kwin.user}
      BY <2>2
    <3> QED
      BY <2>2, <3>1 DEF LeftOf
  <2>4. PICK d : d = -LeftOf({UserRect} \cup VirtOf(Kdes))
    OBVIOUS
  <2>5. d \in Int /\ kwin.user + d = 0
    <3>1. LeftOf({UserRect} \cup VirtOf(Kdes)) = kwin.user
      BY <2>1, <2>3
    <3>2. d = -kwin.user
      BY <2>4, <3>1
    <3> QED
      BY <2>2, <3>2
  <2>6. MovedBy(d) = ToOrigin
    BY <2>4, Zenon DEF ToOrigin
  <2> QED
    BY <1>m, <2>5, <2>6, MovedByIs
<1>13. CASE Restored(k)
  <2>1. kwin.virt[k] = None /\ KdeStep(k, NoKde) /\ kwin' = ToOrigin
    BY <1>0, <1>13 DEF Restored, ShiftKnown
  <2> QED
    BY <1>m, <2>1, KdeSteps, NoKdeIs DEF Unmoved
<1>14. CASE NotRestored(k)
  <2>1. kwin.virt[k] = None /\ KdeStep(k, NoKde) /\ kwin' = Unless(kwin, "kwin")
    BY <1>0, <1>14 DEF NotRestored, ShiftKnown
  <2> QED
    BY <1>0, <2>1, KdeSteps, NoKdeIs, UnlessIs
<1>15. CASE StreamClosed(k)
  BY <1>0, <1>15, GoneIs DEF StreamClosed, KwinInv, ShiftKnown
<1>16. CASE KdeKilled(k)
  <2>1. PICK gone \in KwinStates : gone = Gone(kwin, k) /\ gone.virt[k] = None
    BY GoneIs
  <2>2. KdeStep(k, NoKde) /\ kwin' = Unless(gone, "kwin")
    BY <1>16, <2>1 DEF KdeKilled
  <2> QED
    BY <2>1, <2>2, KdeSteps, NoKdeIs, UnlessIs
<1>17. CASE KdeCleans
  <2>1. v.at = "off" /\ kwin.virt[k] = None /\ UNCHANGED kde
    BY <1>0, <1>17 DEF KdeCleans, ShiftKnown
  <2>2. PICK origin \in KwinStates : origin = ToOrigin /\ origin.user = 0 /\ origin.virt[k] = None
    BY <1>m, <2>1
  <2>3. kwin' = [origin EXCEPT !.excuse = {}]
    BY <1>17, <2>2 DEF KdeCleans
  <2>4. kwin' \in KwinStates /\ kwin'.user = 0 /\ kwin'.virt[k] = None
    BY <2>2, <2>3 DEF KwinStates
  <2> QED
    BY <1>0, <2>1, <2>4 DEF KwinInv, ShiftKnown, Unmoved
<1>18. CASE UNCHANGED kwinVars
  BY <1>18 DEF kwinVars, KwinInv, ShiftKnown
<1> QED
  BY <1>1, <1>2, <1>3, <1>4, <1>5, <1>6, <1>7, <1>8, <1>9, <1>10, <1>11, <1>12, <1>13, <1>14,
     <1>15, <1>16, <1>17, <1>18 DEF KwinNext

LEMMA KwinBegins ==
    ASSUME KwinInit
    PROVE  KwinInv
<1>1. /\ kwin \in KwinStates /\ kwin.user = 0 /\ \A k \in Kdes : kwin.virt[k] = None
  BY DEF KwinInit, KwinStates
<1>2. kde \in [Kdes -> KdeStates] /\ \A k \in Kdes : kde[k].at = "off" /\ ~kde[k].shifted
  BY NoKdeIs DEF KwinInit
<1> QED
  BY <1>1, <1>2 DEF KwinInv, ShiftKnown, Unmoved

(* When the only display there is was closed, the user's screens are where *)
(* they were, whatever sizes, sides and pointer modes there were, unless   *)
(* the sender was killed, KWin refused to move them, or an output could    *)
(* not be made again (configure and release in backend/kde/mod.rs).        *)
THEOREM LayoutMovesBack ==
    ASSUME NEW k, Kdes = {k}
    PROVE  KwinSpec => []MovedBack
<1>1. KwinInv /\ [KwinNext]_kwinVars => KwinInv'
  BY KwinStep
<1>2. KwinInv => MovedBack
  BY DEF KwinInv, ShiftKnown, Unmoved, MovedBack, Alone
<1> QED
  BY <1>1, <1>2, KwinBegins, PTL DEF KwinSpec

-----------------------------------------------------------------------------
(* Mutter's monitors.                                                      *)

\* What is a record with these fields, of whatever type.
HasFields(r, fields) == r = [f \in fields |-> r[f]]

\* A display that is off has no session; a layout that was planned since the
\* last change has the user's settings as they are.
DisplayIs(v) ==
    /\ HasFields(v, {"at", "side", "before", "connector", "x", "plan"})
    /\ HasFields(v.plan, {"fresh", "x", "screen"})

PlanIsOf(v, screen) == v.plan.fresh = FALSE \/ v.plan.screen = screen

GnomeInv ==
    /\ HasFields(mutter, {"sessions", "owner", "x", "screen"}) /\ mutter.screen \in Nat
    /\ HasFields(gnome, Gnomes)
    /\ \A g \in Gnomes :
         /\ DisplayIs(gnome[g]) /\ PlanIsOf(gnome[g], mutter.screen)
         /\ gnome[g].at = "off" => g \notin mutter.sessions

LEMMA NoDisplayIs ==
    DisplayIs(NoDisplay) /\ NoDisplay.plan.fresh = FALSE /\ NoDisplay.at = "off"
BY DEF NoDisplay, NoLayout, DisplayIs, HasFields

LEMMA DisplaySteps ==
    ASSUME GnomeInv, NEW g \in Gnomes, NEW next, GnomeStep(g, next),
           DisplayIs(next), PlanIsOf(next, mutter.screen),
           HasFields(mutter', {"sessions", "owner", "x", "screen"}),
           mutter'.screen = mutter.screen, mutter'.sessions \ {g} = mutter.sessions \ {g},
           next.at = "off" => g \notin mutter'.sessions
    PROVE  GnomeInv' /\ mutter'.screen >= mutter.screen
<1>1. /\ HasFields(gnome', Gnomes) /\ gnome'[g] = next
      /\ \A o \in Gnomes \ {g} : gnome'[o] = gnome[o]
  BY DEF GnomeStep, GnomeInv, HasFields
<1> QED
  BY <1>1 DEF GnomeInv

LEMMA OutdatedIs ==
    ASSUME NEW d, HasFields(d, Gnomes), \A g \in Gnomes : DisplayIs(d[g])
    PROVE  /\ HasFields(Outdated(d), Gnomes)
           /\ \A g \in Gnomes : /\ DisplayIs(Outdated(d)[g]) /\ Outdated(d)[g].plan.fresh = FALSE
                                /\ Outdated(d)[g].at = d[g].at
<1>1. HasFields(Outdated(d), Gnomes)
  BY DEF HasFields, Outdated
<1>2. ASSUME NEW g \in Gnomes
      PROVE  /\ DisplayIs(Outdated(d)[g]) /\ Outdated(d)[g].plan.fresh = FALSE
             /\ Outdated(d)[g].at = d[g].at
  <2>1. DisplayIs(d[g]) /\ Outdated(d)[g] = [d[g] EXCEPT !.plan.fresh = FALSE]
    BY <1>2 DEF Outdated
  <2> QED
    BY <2>1 DEF DisplayIs, HasFields
<1> QED
  BY <1>1, <1>2

\* After a change of the layout every plan is stale.
LEMMA LayoutChanges ==
    ASSUME NEW d, HasFields(d, Gnomes), \A g \in Gnomes : DisplayIs(d[g]),
           gnome' = Outdated(d),
           HasFields(mutter', {"sessions", "owner", "x", "screen"}), mutter'.screen \in Nat,
           \A g \in Gnomes : d[g].at = "off" => g \notin mutter'.sessions
    PROVE  GnomeInv'
BY OutdatedIs DEF GnomeInv, PlanIsOf

LEMMA GnomeStepIsSound ==
    ASSUME GnomeInv, [GnomeNext]_gnomeVars
    PROVE  GnomeInv' /\ mutter'.screen >= mutter.screen
<1>0. /\ HasFields(mutter, {"sessions", "owner", "x", "screen"}) /\ mutter.screen \in Nat
      /\ mutter.screen >= mutter.screen
  BY DEF GnomeInv
<1>u. UNCHANGED mutter => /\ HasFields(mutter', {"sessions", "owner", "x", "screen"})
                          /\ mutter'.screen = mutter.screen /\ mutter'.sessions = mutter.sessions
  BY <1>0
<1>1. ASSUME NEW g \in Gnomes,
             \/ GnomeOpens(g) \/ LooksBefore(g) \/ CreatesSession(g) \/ Starts(g) \/ StreamAdded(g)
             \/ SeesConnector(g) \/ CreateFails(g)
             \/ PlansLayout(g) \/ MutterApplies(g) \/ SeesPlacement(g) \/ ArrangeFails(g)
             \/ GnomeReconfigures(g) \/ GnomeCloses(g)
             \/ Appears(g)
      PROVE  GnomeInv' /\ mutter'.screen >= mutter.screen
  <2> DEFINE v == gnome[g]
  <2>0. /\ DisplayIs(v) /\ PlanIsOf(v, mutter.screen) /\ HasFields(gnome, Gnomes)
        /\ v.at = "off" => g \notin mutter.sessions
    BY DEF GnomeInv
  <2>n. ASSUME NEW next, GnomeStep(g, next), UNCHANGED mutter, DisplayIs(next), next.at # "off",
               PlanIsOf(next, mutter.screen)
        PROVE  GnomeInv' /\ mutter'.screen >= mutter.screen
    BY <1>u, <2>n, DisplaySteps
  <2>1. CASE GnomeOpens(g) \/ GnomeReconfigures(g)
    <3>1. PICK side, next : /\ next = [NoDisplay EXCEPT !.at = "look", !.side = side]
                            /\ GnomeStep(g, next)
      BY <2>1 DEF GnomeOpens, GnomeReconfigures
    <3>2. DisplayIs(next) /\ next.at = "look" /\ PlanIsOf(next, mutter.screen)
      BY <3>1, NoDisplayIs DEF DisplayIs, HasFields, PlanIsOf
    <3>3. CASE UNCHANGED mutter
      BY <2>n, <3>1, <3>2, <3>3
    <3>4. CASE mutter' = [mutter EXCEPT !.sessions = @ \ {g}]
      <4>1. /\ HasFields(mutter', {"sessions", "owner", "x", "screen"})
            /\ mutter'.screen = mutter.screen /\ mutter'.sessions = mutter.sessions \ {g}
        BY <1>0, <3>4 DEF HasFields
      <4> QED
        BY <3>1, <3>2, <4>1, DisplaySteps
    <3> QED
      BY <2>1, <3>3, <3>4 DEF GnomeOpens, GnomeReconfigures
  <2>2. CASE LooksBefore(g)
    <3>1. PICK next : /\ next = [GoesTo(g, "session") EXCEPT !.before = Shown(mutter.x)]
                      /\ GnomeStep(g, next)
      BY <2>2 DEF LooksBefore
    <3>2. DisplayIs(next) /\ next.at = "session" /\ next.plan = v.plan
      BY <2>0, <3>1 DEF GoesTo, DisplayIs, HasFields
    <3> QED
      BY <2>0, <2>2, <2>n, <3>1, <3>2 DEF LooksBefore, PlanIsOf
  <2>3. ASSUME NEW place, GnomeStep(g, GoesTo(g, place)), place # "off"
        PROVE  /\ DisplayIs(GoesTo(g, place)) /\ GoesTo(g, place).at = place
               /\ PlanIsOf(GoesTo(g, place), mutter.screen)
    BY <2>0 DEF GoesTo, DisplayIs, HasFields, PlanIsOf
  <2>4. CASE CreatesSession(g)
    <3>1. /\ HasFields(mutter', {"sessions", "owner", "x", "screen"})
          /\ mutter'.screen = mutter.screen /\ mutter'.sessions = mutter.sessions \cup {g}
      BY <1>0, <2>4 DEF CreatesSession, HasFields
    <3>2. GnomeStep(g, GoesTo(g, "start"))
      BY <2>4 DEF CreatesSession
    <3> QED
      BY <2>3, <3>1, <3>2, DisplaySteps
  <2>5. CASE Starts(g) \/ StreamAdded(g)
    BY <2>3, <2>5, <2>n DEF Starts, StreamAdded
  <2>6. CASE SeesConnector(g)
    <3>1. PICK c, next :
            /\ next = [GoesTo(g, "plan") EXCEPT !.connector = c, !.x = mutter.x[c], !.before = {}]
            /\ GnomeStep(g, next)
      BY <2>6 DEF SeesConnector
    <3>2. DisplayIs(next) /\ next.at = "plan" /\ next.plan = v.plan
      BY <2>0, <3>1 DEF GoesTo, DisplayIs, HasFields
    <3> QED
      BY <2>0, <2>6, <2>n, <3>1, <3>2 DEF SeesConnector, PlanIsOf
  <2>7. CASE CreateFails(g) \/ GnomeCloses(g)
    <3>1. /\ GnomeStep(g, NoDisplay)
          /\ HasFields(mutter', {"sessions", "owner", "x", "screen"})
          /\ mutter'.screen = mutter.screen /\ mutter'.sessions = mutter.sessions \ {g}
      BY <1>0, <2>7 DEF CreateFails, GnomeCloses, DropsMonitor, HasFields
    <3> QED
      BY <3>1, NoDisplayIs, DisplaySteps DEF PlanIsOf
  <2>8. CASE PlansLayout(g)
    <3>1. PICK plan, next :
            /\ GnomeStep(g, next)
            /\ \/ next = GoesTo(g, "open")
               \/ /\ plan.fresh = TRUE /\ plan.screen = mutter.screen
                  /\ HasFields(plan, {"fresh", "x", "screen"})
                  /\ next = [GoesTo(g, "apply") EXCEPT !.plan = plan]
      <4> DEFINE x == LayoutPlan(mutter.x, v.connector, v.side)
                 plan == [fresh |-> TRUE, x |-> x, screen |-> mutter.screen]
      <4>1. HasFields(plan, {"fresh", "x", "screen"})
        BY DEF HasFields
      <4>2. GnomeStep(g, IF x[v.connector] = v.x THEN GoesTo(g, "open")
                         ELSE [GoesTo(g, "apply") EXCEPT !.plan = plan])
        BY <2>8 DEF PlansLayout
      <4>3. plan.fresh = TRUE /\ plan.screen = mutter.screen
        OBVIOUS
      <4> HIDE DEF plan
      <4>4. CASE x[v.connector] = v.x
        BY <4>1, <4>2, <4>3, <4>4
      <4>5. CASE x[v.connector] # v.x
        BY <4>1, <4>2, <4>3, <4>5
      <4> QED
        BY <4>4, <4>5
    <3>2. DisplayIs(next) /\ next.at # "off" /\ PlanIsOf(next, mutter.screen)
      <4>1. CASE next = GoesTo(g, "open")
        BY <2>3, <3>1, <4>1
      <4>2. CASE /\ plan.screen = mutter.screen /\ HasFields(plan, {"fresh", "x", "screen"})
                 /\ next = [GoesTo(g, "apply") EXCEPT !.plan = plan]
        BY <2>0, <4>2 DEF GoesTo, DisplayIs, HasFields, PlanIsOf
      <4> QED
        BY <3>1, <4>1, <4>2
    <3> QED
      BY <2>8, <2>n, <3>1, <3>2 DEF PlansLayout
  <2>9. CASE MutterApplies(g)
    <3>1. PICK next : next = [GoesTo(g, "see") EXCEPT !.plan = NoLayout]
      OBVIOUS
    <3>2. DisplayIs(next) /\ next.at = "see"
      BY <2>0, <3>1, NoDisplayIs DEF GoesTo, DisplayIs, HasFields, NoDisplay
    <3>3. PICK d : d = [gnome EXCEPT ![g] = next]
      OBVIOUS
    <3>4. /\ HasFields(d, Gnomes) /\ \A o \in Gnomes : DisplayIs(d[o])
          /\ \A o \in Gnomes : d[o].at = "off" => gnome[o].at = "off"
      BY <2>0, <3>2, <3>3 DEF GnomeInv, HasFields
    <3>5. gnome' = Outdated(d)
      BY <2>9, <3>1, <3>3 DEF MutterApplies
    <3>6. v.plan.screen = mutter.screen
      BY <2>0, <2>9 DEF MutterApplies, PlanIsOf
    <3>7. /\ HasFields(mutter', {"sessions", "owner", "x", "screen"})
          /\ mutter'.screen = mutter.screen /\ mutter'.sessions = mutter.sessions
      BY <1>0, <2>9, <3>6 DEF MutterApplies, HasFields
    <3>8. \A o \in Gnomes : d[o].at = "off" => o \notin mutter'.sessions
      BY <3>4, <3>7 DEF GnomeInv
    <3>9. GnomeInv'
      BY <1>0, <3>4, <3>5, <3>7, <3>8, LayoutChanges
    <3> QED
      BY <1>0, <3>7, <3>9
  <2>10. CASE SeesPlacement(g)
    <3>1. PICK x, next : /\ next = [GoesTo(g, "open") EXCEPT !.x = x]
                         /\ GnomeStep(g, next)
      BY <2>10 DEF SeesPlacement
    <3>2. DisplayIs(next) /\ next.at = "open" /\ next.plan = v.plan
      BY <2>0, <3>1 DEF GoesTo, DisplayIs, HasFields
    <3> QED
      BY <2>0, <2>10, <2>n, <3>1, <3>2 DEF SeesPlacement, PlanIsOf
  <2>11. CASE ArrangeFails(g)
    <3>1. PICK next : /\ next = [GoesTo(g, "open") EXCEPT !.plan = NoLayout]
                      /\ GnomeStep(g, next)
      BY <2>11 DEF ArrangeFails
    <3>2. DisplayIs(next) /\ next.at = "open" /\ next.plan.fresh = FALSE
      BY <2>0, <3>1, NoDisplayIs DEF GoesTo, DisplayIs, HasFields, NoDisplay
    <3> QED
      BY <2>11, <2>n, <3>1, <3>2 DEF ArrangeFails, PlanIsOf
  <2>12. CASE Appears(g)
    <3>1. /\ HasFields(mutter', {"sessions", "owner", "x", "screen"})
          /\ mutter'.screen = mutter.screen /\ mutter'.sessions = mutter.sessions
      BY <1>0, <2>12 DEF Appears, HasFields
    <3>2. gnome' = Outdated(gnome)
      BY <2>12 DEF Appears
    <3>3. GnomeInv'
      BY <1>0, <3>1, <3>2, LayoutChanges DEF GnomeInv
    <3> QED
      BY <1>0, <3>1, <3>3
  <2> QED
    BY <1>1, <2>1, <2>2, <2>4, <2>5, <2>6, <2>7, <2>8, <2>9, <2>10, <2>11, <2>12
<1>2. ASSUME NEW c \in Connectors, MonitorVanishes(c)
      PROVE  GnomeInv' /\ mutter'.screen >= mutter.screen
  <2>1. /\ HasFields(mutter', {"sessions", "owner", "x", "screen"})
        /\ mutter'.screen = mutter.screen /\ mutter'.sessions = mutter.sessions
    BY <1>0, <1>2 DEF MonitorVanishes, HasFields
  <2>2. gnome' = Outdated(gnome)
    BY <1>2 DEF MonitorVanishes
  <2>3. GnomeInv'
    BY <1>0, <2>1, <2>2, LayoutChanges DEF GnomeInv
  <2> QED
    BY <1>0, <2>1, <2>3
<1>3. CASE UserSets
  <2>1. /\ HasFields(mutter', {"sessions", "owner", "x", "screen"})
        /\ mutter'.screen = mutter.screen + 1 /\ mutter'.sessions = mutter.sessions
    BY <1>0, <1>3 DEF UserSets, HasFields
  <2>2. gnome' = Outdated(gnome)
    BY <1>3 DEF UserSets
  <2>3. GnomeInv'
    BY <1>0, <2>1, <2>2, LayoutChanges DEF GnomeInv
  <2> QED
    BY <1>0, <2>1, <2>3
<1>4. CASE UNCHANGED gnomeVars
  BY <1>0, <1>4 DEF gnomeVars, GnomeInv
<1> QED
  BY <1>1, <1>2, <1>3, <1>4 DEF GnomeNext

LEMMA GnomeBegins ==
    ASSUME GnomeInit
    PROVE  GnomeInv
<1>1. HasFields(mutter, {"sessions", "owner", "x", "screen"}) /\ mutter.screen = 0 /\ mutter.sessions = {}
  BY DEF GnomeInit, HasFields
<1>2. HasFields(gnome, Gnomes) /\ \A g \in Gnomes : gnome[g] = NoDisplay
  BY DEF GnomeInit, HasFields
<1> QED
  BY <1>1, <1>2, NoDisplayIs DEF GnomeInv, PlanIsOf

(* For any number of displays on GNOME, whatever fails and whoever changes *)
(* the layout at the same time: a display that is closed leaves no session *)
(* to Mutter, and no layout sent back undoes a setting of the user's       *)
(* (VirtualMonitor::create, arrange and drop in backend/gnome/mutter.rs).  *)
THEOREM DesktopIsAsItWas == GnomeSpec => DesktopAsItWas
<1>1. GnomeInv /\ [GnomeNext]_gnomeVars => GnomeInv'
  BY GnomeStepIsSound
<1>2. GnomeInv /\ [GnomeNext]_gnomeVars => [mutter'.screen >= mutter.screen]_gnomeVars
  BY GnomeStepIsSound
<1>3. GnomeInv => NoSessionLeft
  BY DEF GnomeInv, NoSessionLeft
<1> QED
  BY <1>1, <1>2, <1>3, GnomeBegins, PTL DEF GnomeSpec, DesktopAsItWas, UserSettingsKept

-----------------------------------------------------------------------------
(* The receiver that is dialed (Discovery).                                *)

ByBonjour(r) == Entry("name", r, search.ids)

\* Nobody answers before the search, and the tailnet is asked when nobody did.
NotBefore ==
    /\ search.stage = "idle" =>
         search.seen = {} /\ search.others = {} /\ \A r \in Receivers : said[r] = None
    /\ search.stage = "tailnet" => search.seen = {}

\* With a name: a receiver that does not go by it is set aside; one that does
\* ends the browse, and unless one did, the time is up.
NamedInv ==
    search.to # None /\ search.stage # "idle" =>
        /\ ~search.listing
        /\ search.deadline = IF search.wait THEN None ELSE Timeout
        /\ search.stage = "browse" =>
             /\ search.seen = {}
             /\ \A f \in search.others : \E r \in Receivers : f = ByBonjour(r) /\ ~Asked(r)
        /\ \/ \E r \in Receivers : search.seen = {ByBonjour(r)} /\ Asked(r)
           \/ search.died
           \/ /\ \A r \in Answered : Asked(r) => ~search.wait /\ said[r] >= Timeout
              /\ search.stage # "browse" => ~search.wait /\ search.now >= Timeout

\* Who answered before the deadline is seen, and the deadline is that of one
\* who answered.
SeenInTime ==
    /\ search.stage \in {"browse", "choose", "done"}
    /\ search.seen # {} /\ search.deadline \in Nat
    /\ \A f \in search.seen : \E r \in Answered : f = ByBonjour(r)
    /\ \E r \in Answered : search.deadline = said[r] + SettleTime
    /\ \A r \in Answered : said[r] < search.deadline => ByBonjour(r) \in search.seen
    /\ search.stage # "browse" => search.now >= search.deadline

NoneSeen ==
    /\ search.stage = "browse" => search.seen = {} /\ (~TimeIsUp => Answered = {})
    /\ \A f \in search.seen : f.name[1] = "peer"

\* Without a name: whoever answers until the settle time after the first
\* answer is over is seen.
GuessInv ==
    search.to = None /\ ~search.listing =>
        /\ search.stage = "browse" => search.others = {}
        /\ NoneSeen \/ search.died \/ SeenInTime

\* What is returned was seen.
Returned ==
    /\ search.stage # "done" => search.out = None
    /\ search.stage = "done" /\ search.out.kind = "one" =>
         /\ ~search.listing
         /\ \E f \in search.seen : search.out.found = {f}
         /\ search.to = None => search.out.found = search.seen
    /\ \A r \in Receivers :
         search.stage = "done" /\ search.to # None /\ search.seen = {ByBonjour(r)} /\ Asked(r)
           => search.out.kind = "one" /\ search.out.found = search.seen

DiscoveryInv == DiscoveryTypeOK /\ NotBefore /\ NamedInv /\ GuessInv /\ Returned

Searches ==
    [ids : SUBSET Receivers, usable : SUBSET Receivers, to : Names \cup {None, ByPart},
     listing : BOOLEAN, wait : BOOLEAN, tailscale : BOOLEAN,
     stage : {"idle", "browse", "tailnet", "choose", "done"},
     now : 0 .. MaxWait, deadline : Nat \cup {None},
     seen : SUBSET Finds, others : SUBSET Finds, died : BOOLEAN,
     out : {None} \cup [kind : Outcomes, found : SUBSET Finds]]

\* The search goes on with these.
GoesOn(s, seen, others, stage, deadline) ==
    [ids |-> s.ids, usable |-> s.usable, to |-> s.to, listing |-> s.listing, wait |-> s.wait,
     tailscale |-> s.tailscale, stage |-> stage, now |-> s.now, deadline |-> deadline,
     seen |-> seen, others |-> others, died |-> s.died, out |-> s.out]

LEMMA EntryFacts ==
    ASSUME NEW kind \in {"name", "peer"}, NEW r \in Receivers, NEW ids \in SUBSET Receivers
    PROVE  /\ Entry(kind, r, ids) \in Finds
           /\ Entry(kind, r, ids).name = <<kind, r>>
           /\ Entry(kind, r, ids).name[1] = kind /\ Entry(kind, r, ids).name[2] = r
           /\ Entry(kind, r, ids).id = IF r \in ids THEN r ELSE None
BY DEF Entry, Finds, Names

LEMMA ReceiversAreNat == \A r \in Receivers : r \in Nat /\ r # None
BY DiscoveryAssumption DEF Receivers

\* A receiver is told by its name.
LEMMA OneEntry ==
    ASSUME DiscoveryTypeOK
    PROVE  /\ \A r \in Receivers : ByBonjour(r) \in Finds /\ ByBonjour(r).name[1] = "name"
                                   /\ ByBonjour(r).name[2] = r
           /\ \A q, r \in Receivers : ByBonjour(q).name = ByBonjour(r).name => q = r
BY EntryFacts DEF DiscoveryTypeOK, ByBonjour

LEMMA MatchesAsked ==
    ASSUME DiscoveryTypeOK, NEW r \in Receivers
    PROVE  Matches(ByBonjour(r), search.to) <=> Asked(r)
<1>1. /\ ByBonjour(r).name = <<"name", r>> /\ ByBonjour(r).name[1] = "name"
      /\ ByBonjour(r).id = IF r \in search.ids THEN r ELSE None
  BY EntryFacts DEF DiscoveryTypeOK, ByBonjour
<1> QED
  BY <1>1, ReceiversAreNat DEF Matches, Asked

LEMMA SearchBegins == DiscoveryInit => DiscoveryInv
<1> SUFFICES ASSUME DiscoveryInit PROVE DiscoveryInv
  OBVIOUS
<1>1. DiscoveryTypeOK
  BY DiscoveryAssumption DEF DiscoveryInit, DiscoveryTypeOK
<1>2. NotBefore /\ NamedInv /\ GuessInv /\ Returned
  BY DEF DiscoveryInit, NotBefore, NamedInv, GuessInv, NoneSeen, Returned
<1> QED
  BY <1>1, <1>2 DEF DiscoveryInv

LEMMA StartKept ==
    ASSUME DiscoveryInv, SearchStarts
    PROVE  DiscoveryInv'
<1> USE DEF DiscoveryInv
<1>1. search \in Searches /\ said \in [Receivers -> (0 .. MaxWait) \cup {None}]
  BY DEF DiscoveryTypeOK, Searches
<1>2. search.stage = "idle" /\ said' = said
  BY DEF SearchStarts
<1>3. /\ search.seen = {} /\ search.others = {} /\ search.out = None
      /\ \A r \in Receivers : said[r] = None
  BY <1>2 DEF NotBefore, Returned
<1>4. /\ search' \in Searches
      /\ search'.stage = "browse" /\ search'.seen = {} /\ search'.others = {}
      /\ search'.out = None
      /\ search'.deadline = IF search'.wait THEN None ELSE Timeout
      /\ search'.listing => search'.to = None
  <2>1. PICK ids \in SUBSET Receivers, usable \in SUBSET Receivers,
             to \in Names \cup {None, ByPart}, listing \in BOOLEAN, wait \in BOOLEAN,
             tailscale \in BOOLEAN :
          /\ listing => to = None /\ ~wait
          /\ search' = [search EXCEPT
                          !.ids = ids, !.usable = usable, !.to = to, !.listing = listing,
                          !.wait = wait, !.tailscale = tailscale,
                          !.stage = "browse", !.deadline = IF wait THEN None ELSE Timeout]
    BY DEF SearchStarts
  <2> DEFINE d == IF wait THEN None ELSE Timeout
  <2>2. d \in Nat \cup {None}
    BY DiscoveryAssumption
  <2>3. search' = [ids |-> ids, usable |-> usable, to |-> to, listing |-> listing,
                   wait |-> wait, tailscale |-> tailscale, stage |-> "browse",
                   now |-> search.now, deadline |-> d, seen |-> search.seen,
                   others |-> search.others, died |-> search.died, out |-> search.out]
    BY <1>1, <2>1, Zenon DEF Searches
  <2>4. search' \in Searches
    BY <1>1, <2>2, <2>3 DEF Searches
  <2> QED
    BY <1>3, <2>1, <2>3, <2>4
<1>5. Answered' = {}
  BY <1>2, <1>3, <1>4 DEF Answered, Searches
<1>6. DiscoveryTypeOK'
  BY <1>1, <1>2, <1>4 DEF DiscoveryTypeOK, Searches
<1>7. NotBefore' /\ Returned'
  BY <1>4 DEF NotBefore, Returned
<1>8. NamedInv'
  BY <1>4, <1>5 DEF NamedInv
<1>9. GuessInv'
  BY <1>4, <1>5 DEF GuessInv, NoneSeen
<1> QED
  BY <1>6, <1>7, <1>8, <1>9

\* An answer that is not listened to, or came before.
LEMMA UnheardKept ==
    ASSUME DiscoveryInv, NEW r \in Receivers, search.stage # "idle",
           said' = [said EXCEPT ![r] = IF @ = None THEN search.now ELSE @],
           search' = search,
           \/ ~Browsing \/ r \notin search.usable
           \/ \E k \in search.seen \cup search.others : k.name = ByBonjour(r).name
    PROVE  DiscoveryInv'
<1> USE DEF DiscoveryInv
<1>1. search \in Searches /\ said \in [Receivers -> (0 .. MaxWait) \cup {None}]
  BY DEF DiscoveryTypeOK, Searches
<1>2. /\ said' \in [Receivers -> (0 .. MaxWait) \cup {None}]
      /\ \A q \in Receivers : q # r => said'[q] = said[q]
      /\ said[r] # None => said'[r] = said[r]
      /\ said[r] = None => said'[r] = search.now
  BY <1>1 DEF Searches
<1>3. DiscoveryTypeOK' /\ NotBefore' /\ Returned'
  BY <1>1, <1>2 DEF DiscoveryTypeOK, NotBefore, Returned, ByBonjour, Asked
<1>4. /\ \A q \in Receivers : ByBonjour(q)' = ByBonjour(q)
      /\ \A q \in Receivers : Asked(q)' <=> Asked(q)
      /\ TimeIsUp' <=> TimeIsUp
      /\ Answered \subseteq Answered' /\ Answered' \subseteq Answered \cup {r}
      /\ r \notin search.usable => Answered' = Answered
      /\ \A q \in Answered : said'[q] = said[q]
      /\ r \in Answered' /\ r \notin Answered => said[r] = None /\ said'[r] = search.now
  BY <1>1, <1>2 DEF ByBonjour, Asked, TimeIsUp, Answered, Searches
<1>5. NamedInv'
  <2> SUFFICES ASSUME search.to # None
               PROVE  NamedInv'
    BY DEF NamedInv
  <2> SUFFICES ASSUME ~search.died, ~\E q \in Receivers : search.seen = {ByBonjour(q)} /\ Asked(q)
               PROVE  \A q \in Answered' : Asked(q) => ~search.wait /\ said'[q] >= Timeout
    <3>1. /\ ~search.listing
          /\ search.deadline = IF search.wait THEN None ELSE Timeout
          /\ search.stage = "browse" =>
               /\ search.seen = {}
               /\ \A f \in search.others : \E q \in Receivers : f = ByBonjour(q) /\ ~Asked(q)
          /\ \/ \E q \in Receivers : search.seen = {ByBonjour(q)} /\ Asked(q)
             \/ search.died
             \/ search.stage # "browse" => ~search.wait /\ search.now >= Timeout
      BY DEF NamedInv
    <3>2. search.stage = "browse" =>
            \A f \in search.others : \E q \in Receivers : f = ByBonjour(q)' /\ ~Asked(q)'
      BY <1>4, <3>1
    <3>3. (\E q \in Receivers : search.seen = {ByBonjour(q)} /\ Asked(q))
            => \E q \in Receivers : search.seen = {ByBonjour(q)'} /\ Asked(q)'
      BY <1>4
    <3>4. (\A q \in Answered' : Asked(q) => ~search.wait /\ said'[q] >= Timeout)
            => \A q \in Answered' : Asked(q)' => ~search.wait /\ said'[q] >= Timeout
      BY <1>1, <1>4 DEF Answered, Searches
    <3> QED
      BY <3>1, <3>2, <3>3, <3>4 DEF NamedInv
  <2>1. /\ search.deadline = IF search.wait THEN None ELSE Timeout
        /\ search.stage = "browse" =>
             /\ search.seen = {}
             /\ \A f \in search.others : \E q \in Receivers : f = ByBonjour(q) /\ ~Asked(q)
        /\ \A q \in Answered : Asked(q) => ~search.wait /\ said[q] >= Timeout
        /\ search.stage # "browse" => ~search.wait /\ search.now >= Timeout
    BY DEF NamedInv
  <2>2. ASSUME r \in Answered', r \notin Answered, Asked(r)
        PROVE  ~search.wait /\ search.now >= Timeout
    <3>1. CASE ~Browsing
      BY <2>1, <3>1, DiscoveryAssumption DEF Browsing, TimeIsUp
    <3>2. CASE Browsing
      <4>1. PICK k \in search.others : k.name = ByBonjour(r).name
        BY <1>4, <2>1, <2>2, <3>2 DEF Browsing
      <4>2. PICK q \in Receivers : k = ByBonjour(q) /\ ~Asked(q)
        BY <2>1, <3>2, <4>1 DEF Browsing
      <4> QED
        BY <2>2, <4>1, <4>2, OneEntry
    <3> QED
      BY <3>1, <3>2
  <2> QED
    BY <1>4, <2>1, <2>2
<1>6. GuessInv'
  <2> SUFFICES ASSUME search.to = None, ~search.listing, ~search.died, NoneSeen \/ SeenInTime
               PROVE  NoneSeen' \/ SeenInTime'
    BY DEF GuessInv
  <2>1. CASE NoneSeen
    <3>1. ASSUME search.stage = "browse", ~TimeIsUp PROVE Answered' = {}
      <4>1. search.seen = {} /\ search.others = {}
        BY <2>1, <3>1 DEF NoneSeen, GuessInv
      <4>2. r \notin search.usable
        BY <3>1, <4>1 DEF Browsing
      <4> QED
        BY <1>4, <2>1, <3>1, <4>2 DEF NoneSeen
    <3> QED
      BY <1>4, <2>1, <3>1 DEF NoneSeen
  <2>2. CASE SeenInTime
    <3>1. ASSUME r \in Answered', r \notin Answered PROVE search.now >= search.deadline
      <4>1. CASE ~Browsing
        BY <2>2, <4>1 DEF Browsing, TimeIsUp, SeenInTime
      <4>2. CASE Browsing
        <5>1. PICK k \in search.seen : k.name = ByBonjour(r).name
          BY <1>4, <3>1, <4>2 DEF GuessInv, Browsing
        <5>2. PICK q \in Answered : k = ByBonjour(q)
          BY <2>2, <5>1 DEF SeenInTime
        <5>3. q \in Receivers
          BY <1>1 DEF Answered, Searches
        <5> QED
          BY <3>1, <5>1, <5>2, <5>3, OneEntry
      <4> QED
        BY <4>1, <4>2
    <3>2. search.now \in Nat /\ search.deadline \in Nat
      BY <1>1, <2>2, DiscoveryAssumption DEF Searches, SeenInTime
    <3>3. \A q \in Answered' : said'[q] < search.deadline => ByBonjour(q) \in search.seen
      BY <1>4, <2>2, <3>1, <3>2 DEF SeenInTime
    <3>4. \E q \in Answered' : search.deadline = said'[q] + SettleTime
      BY <1>4, <2>2 DEF SeenInTime
    <3>5. \A f \in search.seen : \E q \in Answered' : f = ByBonjour(q)
      BY <1>4, <2>2 DEF SeenInTime
    <3>6. \A q \in Answered' : q \in Receivers
      BY <1>1 DEF Answered, Searches
    <3> QED
      BY <1>4, <2>2, <3>3, <3>4, <3>5, <3>6 DEF SeenInTime
  <2> QED
    BY <2>1, <2>2
<1> QED
  BY <1>3, <1>5, <1>6

\* An answer that is listened to, from a receiver that was not heard of.
LEMMA HeardKept ==
    ASSUME DiscoveryInv, NEW r \in Receivers, Browsing, r \in search.usable,
           said' = [said EXCEPT ![r] = IF @ = None THEN search.now ELSE @],
           search' = Heard(search, ByBonjour(r)),
           \A k \in search.seen \cup search.others : k.name # ByBonjour(r).name
    PROVE  DiscoveryInv'
<1> USE DEF DiscoveryInv
<1> DEFINE f == ByBonjour(r)
<1>1. /\ search \in Searches /\ said \in [Receivers -> (0 .. MaxWait) \cup {None}]
      /\ search.stage = "browse" /\ search.out = None
      /\ search.deadline = None \/ search.now < search.deadline
      /\ search.now \in Nat
  BY DiscoveryAssumption DEF DiscoveryTypeOK, Searches, Browsing, TimeIsUp, Returned
<1>2. /\ said' \in [Receivers -> (0 .. MaxWait) \cup {None}]
      /\ \A q \in Receivers : q # r => said'[q] = said[q]
      /\ said[r] # None => said'[r] = said[r]
      /\ said[r] = None => said'[r] = search.now
      /\ said'[r] \in Nat /\ said'[r] # None
  BY <1>1, DiscoveryAssumption DEF Searches
<1>3. f \in Finds /\ (Matches(f, search.to) <=> Asked(r))
  BY OneEntry, MatchesAsked
<1>4. /\ search' \in Searches
      /\ search'.ids = search.ids /\ search'.usable = search.usable /\ search'.to = search.to
      /\ search'.listing = search.listing /\ search'.wait = search.wait
      /\ search'.now = search.now /\ search'.died = search.died /\ search'.out = None
      /\ \/ /\ search.listing \/ search.to = None
            /\ search'.seen = search.seen \cup {f} /\ search'.others = search.others
            /\ search'.stage = "browse"
            /\ ~search.listing /\ search.seen = {} => search'.deadline = search.now + SettleTime
            /\ search.seen # {} => search'.deadline = search.deadline
         \/ /\ ~search.listing /\ search.to # None /\ ~Asked(r)
            /\ search'.seen = search.seen /\ search'.others = search.others \cup {f}
            /\ search'.stage = "browse" /\ search'.deadline = search.deadline
         \/ /\ ~search.listing /\ search.to # None /\ Asked(r)
            /\ search'.seen = {f} /\ search'.others = search.others
            /\ search'.stage = "choose" /\ search'.deadline = search.deadline
  <2> HIDE DEF f
  <2>1. /\ search.listing \in BOOLEAN /\ search.seen \in SUBSET Finds
        /\ search.others \in SUBSET Finds /\ search.deadline \in Nat \cup {None}
    BY <1>1 DEF Searches
  <2>6. /\ search \in Searches /\ search.seen \cup {f} \in SUBSET Finds
        /\ search.others \cup {f} \in SUBSET Finds /\ {f} \in SUBSET Finds
    BY <1>1, <1>3, <2>1
  <2>2. CASE search.listing
    <3>1. search' = [search EXCEPT !.seen = @ \cup {f}]
      BY <2>2 DEF Heard, f
    <3>2. search' = GoesOn(search, search.seen \cup {f}, search.others, "browse", search.deadline)
      BY <1>1, <3>1 DEF GoesOn, Searches
    <3>3. search' \in Searches
      BY <2>1, <2>6, <3>2 DEF GoesOn, Searches
    <3> QED
      BY <1>1, <2>2, <3>2, <3>3 DEF GoesOn
  <2>3. CASE ~search.listing /\ search.to # None /\ ~Asked(r)
    <3>1. search' = [search EXCEPT !.others = @ \cup {f}]
      BY <1>3, <2>3 DEF Heard, f
    <3>2. search' = GoesOn(search, search.seen, search.others \cup {f}, "browse", search.deadline)
      BY <1>1, <3>1 DEF GoesOn, Searches
    <3>3. search' \in Searches
      BY <2>1, <2>6, <3>2 DEF GoesOn, Searches
    <3> QED
      BY <1>1, <2>3, <3>2, <3>3 DEF GoesOn
  <2>4. CASE ~search.listing /\ search.to # None /\ Asked(r)
    <3>1. search' = [search EXCEPT !.seen = {f}, !.stage = "choose"]
      BY <1>3, <2>4 DEF Heard, f
    <3>2. search' = GoesOn(search, {f}, search.others, "choose", search.deadline)
      BY <1>1, <3>1 DEF GoesOn, Searches
    <3>3. search' \in Searches
      BY <2>1, <2>6, <3>2 DEF GoesOn, Searches
    <3> QED
      BY <1>1, <2>4, <3>2, <3>3 DEF GoesOn
  <2>5. CASE ~search.listing /\ search.to = None
    <3> DEFINE d == IF search.seen = {} THEN search.now + SettleTime ELSE search.deadline
    <3>1. search' = [search EXCEPT !.seen = @ \cup {f}, !.deadline = d]
      BY <2>5 DEF Heard, f
    <3>2. d \in Nat \cup {None}
      BY <1>1, DiscoveryAssumption DEF Searches
    <3>3. search.seen = {} => d = search.now + SettleTime
      OBVIOUS
    <3>4. search.seen # {} => d = search.deadline
      OBVIOUS
    <3> HIDE DEF d
    <3>5. search' = GoesOn(search, search.seen \cup {f}, search.others, "browse", d)
      BY <1>1, <3>1 DEF GoesOn, Searches
    <3>6. search' \in Searches
      BY <2>1, <2>6, <3>2, <3>5 DEF GoesOn, Searches
    <3> QED
      BY <1>1, <2>5, <3>3, <3>4, <3>5, <3>6 DEF GoesOn
  <2> QED
    BY <2>1, <2>2, <2>3, <2>4, <2>5
<1>5. DiscoveryTypeOK' /\ NotBefore'
  BY <1>1, <1>2, <1>4 DEF DiscoveryTypeOK, NotBefore, Searches
<1>6. Returned'
  BY <1>4 DEF Returned
<1>7. /\ \A q \in Receivers : ByBonjour(q)' = ByBonjour(q)
      /\ \A q \in Receivers : Asked(q)' <=> Asked(q)
      /\ Answered' = Answered \cup {r}
      /\ \A q \in Answered : said'[q] = said[q]
      /\ Answered \subseteq Receivers
      /\ r \notin Answered => said'[r] = search.now
  BY <1>1, <1>2, <1>4 DEF ByBonjour, Asked, Answered, Searches
<1>8. NamedInv'
  <2> SUFFICES ASSUME search.to # None
               PROVE  NamedInv'
    BY <1>4 DEF NamedInv
  <2>1. /\ ~search.listing
        /\ search.deadline = IF search.wait THEN None ELSE Timeout
        /\ search.seen = {}
        /\ \A k \in search.others : \E q \in Receivers : k = ByBonjour(q) /\ ~Asked(q)
        /\ search.died \/ \A q \in Answered : Asked(q) => ~search.wait /\ said[q] >= Timeout
    BY <1>1 DEF NamedInv
  <2>2. CASE Asked(r)
    <3>1. search'.seen = {ByBonjour(r)'} /\ Asked(r)' /\ search'.stage = "choose"
      BY <1>4, <1>7, <2>1, <2>2
    <3> QED
      BY <1>4, <2>1, <3>1 DEF NamedInv
  <2>3. CASE ~Asked(r)
    <3>1. search'.stage = "browse" /\ search'.seen = {} /\ search'.others = search.others \cup {f}
          /\ search'.deadline = search.deadline
      BY <1>4, <2>1, <2>3
    <3>2. \A k \in search'.others : \E q \in Receivers : k = ByBonjour(q)' /\ ~Asked(q)'
      BY <1>7, <2>1, <2>3, <3>1
    <3>3. search.died \/ \A q \in Answered' : Asked(q)' => ~search.wait /\ said'[q] >= Timeout
      BY <1>7, <2>1, <2>3
    <3> QED
      BY <1>4, <2>1, <3>1, <3>2, <3>3 DEF NamedInv
  <2> QED
    BY <2>2, <2>3
<1>9. GuessInv'
  <2> SUFFICES ASSUME search.to = None, ~search.listing
               PROVE  search'.others = {} /\ (search.died \/ SeenInTime')
    BY <1>4 DEF GuessInv
  <2>1. /\ search.others = {} /\ search'.others = {} /\ search'.stage = "browse"
        /\ search'.seen = search.seen \cup {f}
        /\ NoneSeen \/ search.died \/ SeenInTime
    BY <1>1, <1>4 DEF GuessInv
  <2>2. CASE NoneSeen
    <3>1. search.seen = {} /\ Answered = {}
      BY <1>1, <2>2 DEF NoneSeen, Browsing
    <3>2. search'.deadline = said'[r] + SettleTime /\ search'.deadline \in Nat
      BY <1>1, <1>4, <1>7, <3>1, DiscoveryAssumption
    <3>3. search'.seen = {ByBonjour(r)'} /\ Answered' = {r}
      BY <1>7, <2>1, <3>1
    <3> QED
      BY <2>1, <3>2, <3>3 DEF SeenInTime
  <2>3. CASE SeenInTime
    <3>1. search'.deadline = search.deadline /\ search'.deadline \in Nat
      BY <1>4, <2>3 DEF SeenInTime
    <3>2. \A k \in search'.seen : \E q \in Answered' : k = ByBonjour(q)'
      BY <1>7, <2>1, <2>3 DEF SeenInTime
    <3>3. \E q \in Answered' : search'.deadline = said'[q] + SettleTime
      BY <1>7, <2>3, <3>1 DEF SeenInTime
    <3>4. \A q \in Answered' : said'[q] < search'.deadline => ByBonjour(q)' \in search'.seen
      BY <1>7, <2>1, <2>3, <3>1 DEF SeenInTime
    <3> QED
      BY <2>1, <3>1, <3>2, <3>3, <3>4 DEF SeenInTime
  <2> QED
    BY <2>1, <2>2, <2>3
<1> QED
  BY <1>5, <1>6, <1>8, <1>9

LEMMA SaysKept ==
    ASSUME DiscoveryInv, NEW r \in Receivers, Says(r)
    PROVE  DiscoveryInv'
<1>1. /\ search.stage # "idle"
      /\ said' = [said EXCEPT ![r] = IF @ = None THEN search.now ELSE @]
  BY DEF Says
<1>2. CASE /\ Browsing /\ r \in search.usable
           /\ \A k \in search.seen \cup search.others : k.name # ByBonjour(r).name
  <2>1. search' = Heard(search, ByBonjour(r))
    BY <1>2 DEF Says, ByBonjour
  <2> QED
    BY <1>1, <1>2, <2>1, HeardKept
<1>3. CASE ~(/\ Browsing /\ r \in search.usable
             /\ \A k \in search.seen \cup search.others : k.name # ByBonjour(r).name)
  <2>1. search' = search
    BY <1>3 DEF Says, ByBonjour
  <2> QED
    BY <1>1, <1>3, <2>1, UnheardKept
<1> QED
  BY <1>2, <1>3

\* The browse is over: its time is up, or the daemon is gone.
LEMMA BrowseOverKept ==
    ASSUME DiscoveryInv, NEW died \in BOOLEAN,
           search.stage = "browse",
           died \/ (TimeIsUp /\ died = search.died),
           search' = [search EXCEPT !.stage = AfterBrowse(search), !.died = died],
           UNCHANGED said
    PROVE  DiscoveryInv'
<1> USE DEF DiscoveryInv
<1> DEFINE next == AfterBrowse(search)
<1>1. /\ search \in Searches /\ said \in [Receivers -> (0 .. MaxWait) \cup {None}]
      /\ search.out = None
  BY DEF DiscoveryTypeOK, Searches, Returned
<1>2. next \in {"tailnet", "choose"} /\ (next = "tailnet" => search.seen = {})
  BY DEF AfterBrowse
<1>3. /\ search' \in Searches
      /\ search'.ids = search.ids /\ search'.usable = search.usable /\ search'.to = search.to
      /\ search'.listing = search.listing /\ search'.wait = search.wait
      /\ search'.now = search.now /\ search'.deadline = search.deadline
      /\ search'.seen = search.seen /\ search'.others = search.others
      /\ search'.out = None /\ search'.died = died /\ search'.stage = next
  <2> HIDE DEF next
  <2>1. search' = [search EXCEPT !.stage = next, !.died = died]
    BY DEF next
  <2>2. search' = [ids |-> search.ids, usable |-> search.usable, to |-> search.to,
                   listing |-> search.listing, wait |-> search.wait,
                   tailscale |-> search.tailscale, stage |-> next, now |-> search.now,
                   deadline |-> search.deadline, seen |-> search.seen,
                   others |-> search.others, died |-> died, out |-> search.out]
    BY <1>1, <2>1, Zenon DEF Searches
  <2>3. search' \in Searches
    BY <1>1, <1>2, <2>2 DEF Searches
  <2> QED
    BY <1>1, <2>2, <2>3 DEF next
<1> HIDE DEF next
<1>4. /\ \A q \in Receivers : ByBonjour(q)' = ByBonjour(q)
      /\ \A q \in Receivers : Asked(q)' <=> Asked(q)
      /\ Answered' = Answered /\ Answered \subseteq Receivers
      /\ search'.stage # "browse" /\ search'.stage # "idle" /\ search'.stage # "done"
  BY <1>1, <1>2, <1>3 DEF ByBonjour, Asked, Answered, Searches
<1>5. DiscoveryTypeOK' /\ NotBefore' /\ Returned'
  BY <1>1, <1>2, <1>3, <1>4 DEF DiscoveryTypeOK, NotBefore, Returned, Searches
<1>6. ~died => search.deadline \in Nat /\ search.now >= search.deadline /\ ~search.died
  BY <1>1, DiscoveryAssumption DEF TimeIsUp, Searches
<1>7. NamedInv'
  <2> SUFFICES ASSUME search.to # None
               PROVE  NamedInv'
    BY <1>3 DEF NamedInv
  <2>1. /\ ~search.listing
        /\ search.deadline = IF search.wait THEN None ELSE Timeout
        /\ search.seen = {}
        /\ search.died \/ \A q \in Answered : Asked(q) => ~search.wait /\ said[q] >= Timeout
    BY <1>1 DEF NamedInv
  <2>2. died \/ (~search.wait /\ search.now >= Timeout
                  /\ \A q \in Answered : Asked(q) => ~search.wait /\ said[q] >= Timeout)
    BY <1>6, <2>1, DiscoveryAssumption
  <2>3. search'.died \/ (~search'.wait /\ search'.now >= Timeout
                  /\ \A q \in Answered' : Asked(q)' => ~search'.wait /\ said'[q] >= Timeout)
    BY <1>3, <1>4, <2>2
  <2> QED
    BY <1>3, <1>4, <2>1, <2>3 DEF NamedInv
<1>8. GuessInv'
  <2> SUFFICES ASSUME search.to = None, ~search.listing, ~died
               PROVE  NoneSeen' \/ SeenInTime'
    BY <1>3, <1>4 DEF GuessInv
  <2>1. CASE NoneSeen
    BY <1>3, <1>4, <2>1 DEF NoneSeen
  <2>2. CASE SeenInTime
    <3>1. search'.stage = "choose" /\ search'.seen # {} /\ search'.deadline \in Nat
      BY <1>2, <1>3, <2>2 DEF SeenInTime
    <3>2. \A k \in search'.seen : \E q \in Answered' : k = ByBonjour(q)'
      BY <1>3, <1>4, <2>2 DEF SeenInTime
    <3>3. \E q \in Answered' : search'.deadline = said'[q] + SettleTime
      BY <1>3, <1>4, <2>2 DEF SeenInTime
    <3>4. \A q \in Answered' : said'[q] < search'.deadline => ByBonjour(q)' \in search'.seen
      BY <1>3, <1>4, <2>2 DEF SeenInTime
    <3> QED
      BY <1>3, <1>6, <3>1, <3>2, <3>3, <3>4 DEF SeenInTime
  <2> QED
    BY <1>6, <2>1, <2>2, <1>1 DEF GuessInv
<1> QED
  BY <1>5, <1>7, <1>8

LEMMA BrowseEndsKept ==
    ASSUME DiscoveryInv, BrowseEnds
    PROVE  DiscoveryInv'
<1>1. search \in Searches /\ search.died \in BOOLEAN
  BY DEF DiscoveryInv, DiscoveryTypeOK, Searches
<1>2. search' = [search EXCEPT !.stage = AfterBrowse(search), !.died = search.died]
  BY <1>1 DEF BrowseEnds, Searches
<1> QED
  BY <1>1, <1>2, BrowseOverKept DEF BrowseEnds

LEMMA BrowserDiesKept ==
    ASSUME DiscoveryInv, BrowserDies
    PROVE  DiscoveryInv'
BY BrowseOverKept DEF BrowserDies

LEMMA DiscoveryTickKept ==
    ASSUME DiscoveryInv, DiscoveryTick
    PROVE  DiscoveryInv'
<1> USE DEF DiscoveryInv
<1>1. /\ search \in Searches /\ said \in [Receivers -> (0 .. MaxWait) \cup {None}]
      /\ search.out = None /\ search.stage = "browse" /\ ~TimeIsUp /\ search.now < MaxWait
      /\ said' = said
  BY DEF DiscoveryTypeOK, Searches, Returned, DiscoveryTick
<1>2. /\ search' \in Searches
      /\ search'.ids = search.ids /\ search'.usable = search.usable /\ search'.to = search.to
      /\ search'.listing = search.listing /\ search'.wait = search.wait
      /\ search'.deadline = search.deadline /\ search'.stage = "browse"
      /\ search'.seen = search.seen /\ search'.others = search.others
      /\ search'.out = None /\ search'.died = search.died
  <2>1. search' = [search EXCEPT !.now = @ + 1]
    BY DEF DiscoveryTick
  <2>2. search.now + 1 \in 0 .. MaxWait
    BY <1>1, DiscoveryAssumption DEF Searches
  <2>3. search' \in Searches
    BY <1>1, <2>1, <2>2 DEF Searches
  <2> QED
    BY <1>1, <2>1, <2>3 DEF Searches
<1>3. /\ \A q \in Receivers : ByBonjour(q)' = ByBonjour(q)
      /\ \A q \in Receivers : Asked(q)' <=> Asked(q)
      /\ Answered' = Answered /\ Answered \subseteq Receivers
  BY <1>1, <1>2 DEF ByBonjour, Asked, Answered, Searches
<1>4. DiscoveryTypeOK' /\ NotBefore' /\ Returned'
  BY <1>1, <1>2 DEF DiscoveryTypeOK, NotBefore, Returned, Searches
<1>5. NamedInv'
  <2> SUFFICES ASSUME search.to # None
               PROVE  NamedInv'
    BY <1>2 DEF NamedInv
  <2>1. /\ ~search.listing
        /\ search.deadline = IF search.wait THEN None ELSE Timeout
        /\ search.seen = {}
        /\ \A f \in search.others : \E q \in Receivers : f = ByBonjour(q) /\ ~Asked(q)
        /\ search.died \/ \A q \in Answered : Asked(q) => ~search.wait /\ said[q] >= Timeout
    BY <1>1 DEF NamedInv
  <2>2. search'.died \/ \A q \in Answered' : Asked(q)' => ~search'.wait /\ said'[q] >= Timeout
    BY <1>1, <1>2, <1>3, <2>1
  <2>3. \A f \in search'.others : \E q \in Receivers : f = ByBonjour(q)' /\ ~Asked(q)'
    BY <1>2, <1>3, <2>1
  <2> QED
    BY <1>2, <2>1, <2>2, <2>3 DEF NamedInv
<1>6. GuessInv'
  <2> SUFFICES ASSUME search.to = None, ~search.listing, ~search.died
               PROVE  NoneSeen' \/ SeenInTime'
    BY <1>1, <1>2 DEF GuessInv
  <2>1. CASE NoneSeen
    BY <1>1, <1>2, <1>3, <2>1 DEF NoneSeen
  <2>2. CASE SeenInTime
    <3>1. \A k \in search'.seen : \E q \in Answered' : k = ByBonjour(q)'
      BY <1>2, <1>3, <2>2 DEF SeenInTime
    <3>2. \E q \in Answered' : search'.deadline = said'[q] + SettleTime
      BY <1>1, <1>2, <1>3, <2>2 DEF SeenInTime
    <3>3. \A q \in Answered' : said'[q] < search'.deadline => ByBonjour(q)' \in search'.seen
      BY <1>1, <1>2, <1>3, <2>2 DEF SeenInTime
    <3> QED
      BY <1>2, <2>2, <3>1, <3>2, <3>3 DEF SeenInTime
  <2> QED
    BY <2>1, <2>2 DEF GuessInv
<1> QED
  BY <1>4, <1>5, <1>6

LEMMA AskTailnetKept ==
    ASSUME DiscoveryInv,
           NEW online \in SUBSET Receivers, NEW answering \in SUBSET Receivers,
           AskTailnet(online, answering)
    PROVE  DiscoveryInv'
<1> USE DEF DiscoveryInv
<1> DEFINE found == {Entry("peer", r, search.ids) : r \in Cut(online) \cap answering \cap search.usable}
           fresh == {f \in found : Unreported(search, f)}
           meant == {f \in fresh : search.to = None \/ Matches(f, search.to)}
           more == search.others \cup (fresh \ meant)
<1>1. /\ search \in Searches /\ said \in [Receivers -> (0 .. MaxWait) \cup {None}]
      /\ search.out = None /\ search.stage = "tailnet" /\ search.seen = {}
      /\ said' = said
  BY DEF DiscoveryTypeOK, Searches, Returned, AskTailnet, NotBefore
<1>2. /\ meant \in SUBSET Finds /\ more \in SUBSET Finds
      /\ \A f \in meant : f.name[1] = "peer"
  <2>1. search.ids \in SUBSET Receivers /\ Cut(online) \subseteq Receivers
        /\ search.others \in SUBSET Finds
    BY <1>1 DEF Searches, Cut
  <2>2. \A f \in found : f \in Finds /\ f.name[1] = "peer"
    BY <2>1, EntryFacts
  <2> QED
    BY <2>1, <2>2
<1>3. search' = [search EXCEPT !.stage = "choose", !.seen = meant, !.others = more]
  BY DEF AskTailnet
<1> HIDE DEF found, fresh, meant, more
<1>4. search' = GoesOn(search, meant, more, "choose", search.deadline)
  BY <1>1, <1>3 DEF GoesOn, Searches
<1>5. search' \in Searches
  BY <1>1, <1>2, <1>4 DEF GoesOn, Searches
<1>6. /\ search'.ids = search.ids /\ search'.usable = search.usable /\ search'.to = search.to
      /\ search'.listing = search.listing /\ search'.wait = search.wait
      /\ search'.now = search.now /\ search'.deadline = search.deadline
      /\ search'.stage = "choose" /\ search'.seen = meant
      /\ search'.out = None /\ search'.died = search.died
  BY <1>1, <1>4 DEF GoesOn
<1>7. /\ \A q \in Receivers : Asked(q)' <=> Asked(q)
      /\ Answered' = Answered /\ Answered \subseteq Receivers
  BY <1>1, <1>6 DEF Asked, Answered, Searches
<1>8. DiscoveryTypeOK' /\ NotBefore' /\ Returned'
  BY <1>1, <1>5, <1>6 DEF DiscoveryTypeOK, NotBefore, Returned, Searches
<1>9. NamedInv'
  <2> SUFFICES ASSUME search.to # None
               PROVE  NamedInv'
    BY <1>6 DEF NamedInv
  <2>1. /\ ~search.listing
        /\ search.deadline = IF search.wait THEN None ELSE Timeout
        /\ \/ search.died
           \/ /\ \A q \in Answered : Asked(q) => ~search.wait /\ said[q] >= Timeout
              /\ ~search.wait /\ search.now >= Timeout
    BY <1>1 DEF NamedInv
  <2>2. \/ search'.died
        \/ /\ \A q \in Answered' : Asked(q)' => ~search'.wait /\ said'[q] >= Timeout
           /\ ~search'.wait /\ search'.now >= Timeout
    BY <1>1, <1>6, <1>7, <2>1
  <2> QED
    BY <1>6, <2>1, <2>2 DEF NamedInv
<1>10. GuessInv'
  BY <1>2, <1>6 DEF GuessInv, NoneSeen
<1> QED
  BY <1>8, <1>9, <1>10

LEMMA ChooseKept ==
    ASSUME DiscoveryInv, Choose
    PROVE  DiscoveryInv'
<1> USE DEF DiscoveryInv
<1>1. /\ search \in Searches /\ said \in [Receivers -> (0 .. MaxWait) \cup {None}]
      /\ search.stage = "choose" /\ said' = said /\ search.seen \in SUBSET Finds
  BY DEF DiscoveryTypeOK, Searches, Choose
<1>2. PICK taken \in MayTake :
         \/ search.listing /\ Finishes("list", taken)
         \/ ~search.listing /\ taken = {} /\ Finishes("NoReceiver", taken)
         \/ ~search.listing /\ (\E f \in taken : taken = {f}) /\ Finishes("one", taken)
         \/ /\ ~search.listing /\ taken # {} /\ ~\E f \in taken : taken = {f}
            /\ Finishes("SeveralReceivers", taken) \/ \E f \in taken : Finishes("picked", {f})
  BY DEF Choose
<1>3. /\ taken \in SUBSET Finds /\ taken \subseteq search.seen
      /\ search.to = None => taken = search.seen
  BY <1>1 DEF MayTake
<1>4. PICK kind \in Outcomes, found \in SUBSET Finds :
         /\ Finishes(kind, found)
         /\ kind = "one" => ~search.listing /\ found = taken /\ \E f \in taken : taken = {f}
         /\ ~search.listing /\ (\E f \in taken : taken = {f}) => kind = "one"
  <2>1. \A f \in taken : {f} \in SUBSET Finds
    BY <1>3
  <2>2. CASE search.listing /\ Finishes("list", taken)
    BY <1>3, <2>2 DEF Outcomes
  <2>3. CASE ~search.listing /\ taken = {} /\ Finishes("NoReceiver", taken)
    BY <1>3, <2>3 DEF Outcomes
  <2>4. CASE ~search.listing /\ (\E f \in taken : taken = {f}) /\ Finishes("one", taken)
    BY <1>3, <2>4 DEF Outcomes
  <2>5. CASE /\ ~search.listing /\ taken # {} /\ ~\E f \in taken : taken = {f}
             /\ Finishes("SeveralReceivers", taken)
    BY <1>3, <2>5 DEF Outcomes
  <2>6. CASE /\ ~search.listing /\ taken # {} /\ ~\E f \in taken : taken = {f}
             /\ \E f \in taken : Finishes("picked", {f})
    BY <2>1, <2>6 DEF Outcomes
  <2> QED
    BY <1>2, <2>2, <2>3, <2>4, <2>5, <2>6
<1> DEFINE end == [kind |-> kind, found |-> found]
<1>5. /\ search' \in Searches
      /\ search'.ids = search.ids /\ search'.usable = search.usable /\ search'.to = search.to
      /\ search'.listing = search.listing /\ search'.wait = search.wait
      /\ search'.now = search.now /\ search'.deadline = search.deadline
      /\ search'.seen = search.seen /\ search'.others = search.others
      /\ search'.stage = "done" /\ search'.died = search.died
      /\ search'.out.kind = kind /\ search'.out.found = found
  <2>1. end \in [kind : Outcomes, found : SUBSET Finds] /\ end.kind = kind /\ end.found = found
    BY <1>4
  <2>2. search' = [search EXCEPT !.stage = "done", !.out = end]
    BY <1>4 DEF Finishes
  <2> HIDE DEF end
  <2>4. search' = [ids |-> search.ids, usable |-> search.usable, to |-> search.to,
                   listing |-> search.listing, wait |-> search.wait,
                   tailscale |-> search.tailscale, stage |-> "done", now |-> search.now,
                   deadline |-> search.deadline, seen |-> search.seen,
                   others |-> search.others, died |-> search.died, out |-> end]
    BY <1>1, <2>2, Zenon DEF Searches
  <2>5. search' \in Searches
    BY <1>1, <2>1, <2>4 DEF Searches
  <2> QED
    BY <1>1, <2>1, <2>4, <2>5
<1> HIDE DEF end
<1>6. /\ \A q \in Receivers : ByBonjour(q)' = ByBonjour(q)
      /\ \A q \in Receivers : Asked(q)' <=> Asked(q)
      /\ Answered' = Answered /\ Answered \subseteq Receivers
  BY <1>1, <1>5 DEF ByBonjour, Asked, Answered, Searches
<1>7. DiscoveryTypeOK' /\ NotBefore'
  BY <1>1, <1>5 DEF DiscoveryTypeOK, NotBefore, Searches
<1>8. NamedInv'
  <2> SUFFICES ASSUME search.to # None
               PROVE  NamedInv'
    BY <1>5 DEF NamedInv
  <2>1. /\ ~search.listing
        /\ search.deadline = IF search.wait THEN None ELSE Timeout
        /\ \/ \E r \in Receivers : search.seen = {ByBonjour(r)} /\ Asked(r)
           \/ search.died
           \/ /\ \A r \in Answered : Asked(r) => ~search.wait /\ said[r] >= Timeout
              /\ ~search.wait /\ search.now >= Timeout
    BY <1>1 DEF NamedInv
  <2>2. \/ \E r \in Receivers : search'.seen = {ByBonjour(r)'} /\ Asked(r)'
        \/ search'.died
        \/ /\ \A r \in Answered' : Asked(r)' => ~search'.wait /\ said'[r] >= Timeout
           /\ ~search'.wait /\ search'.now >= Timeout
    BY <1>1, <1>5, <1>6, <2>1
  <2> QED
    BY <1>5, <2>1, <2>2 DEF NamedInv
<1>9. GuessInv'
  <2> SUFFICES ASSUME search.to = None, ~search.listing, ~search.died
               PROVE  NoneSeen' \/ SeenInTime'
    BY <1>1, <1>5 DEF GuessInv
  <2>1. CASE NoneSeen
    BY <1>1, <1>5, <2>1 DEF NoneSeen
  <2>2. CASE SeenInTime
    <3>1. \A k \in search'.seen : \E q \in Answered' : k = ByBonjour(q)'
      BY <1>5, <1>6, <2>2 DEF SeenInTime
    <3>2. \E q \in Answered' : search'.deadline = said'[q] + SettleTime
      BY <1>1, <1>5, <1>6, <2>2 DEF SeenInTime
    <3>3. \A q \in Answered' : said'[q] < search'.deadline => ByBonjour(q)' \in search'.seen
      BY <1>1, <1>5, <1>6, <2>2 DEF SeenInTime
    <3> QED
      BY <1>1, <1>5, <2>2, <3>1, <3>2, <3>3 DEF SeenInTime
  <2> QED
    BY <2>1, <2>2 DEF GuessInv
<1>10. Returned'
  <2>1. kind = "one" =>
          /\ ~search'.listing
          /\ \E f \in search'.seen : found = {f}
          /\ search'.to = None => found = search'.seen
    BY <1>3, <1>4, <1>5
  <2>2. ASSUME NEW r \in Receivers, search.to # None, search.seen = {ByBonjour(r)}, Asked(r)
        PROVE  kind = "one" /\ found = search.seen
    <3>1. ~search.listing
      BY <1>1, <2>2 DEF NamedInv
    <3>2. {f \in search.seen : Matches(f, search.to)} = search.seen
      BY <2>2, MatchesAsked
    <3>3. MayTake = {search.seen}
      BY <2>2, <3>2, Zenon DEF MayTake
    <3>4. taken = search.seen
      BY <3>3
    <3> QED
      BY <1>4, <2>2, <3>1, <3>4
  <2>3. \A r \in Receivers :
          search'.to # None /\ search'.seen = {ByBonjour(r)'} /\ Asked(r)'
            => kind = "one" /\ found = search'.seen
    BY <1>5, <1>6, <2>2
  <2> QED
    BY <1>5, <2>1, <2>3 DEF Returned
<1> QED
  BY <1>7, <1>8, <1>9, <1>10

LEMMA SearchKept == DiscoveryInv /\ [DiscoveryNext]_searchVars => DiscoveryInv'
<1> SUFFICES ASSUME DiscoveryInv, [DiscoveryNext]_searchVars
             PROVE  DiscoveryInv'
  OBVIOUS
<1>1. CASE SearchStarts
  BY <1>1, StartKept
<1>2. CASE \E r \in Receivers : Says(r)
  BY <1>2, SaysKept
<1>3. CASE BrowseEnds
  BY <1>3, BrowseEndsKept
<1>4. CASE BrowserDies
  BY <1>4, BrowserDiesKept
<1>5. CASE DiscoveryTick
  BY <1>5, DiscoveryTickKept
<1>6. CASE \E online \in SUBSET Receivers : \E answering \in SUBSET online : AskTailnet(online, answering)
  <2>1. PICK online \in SUBSET Receivers : \E answering \in SUBSET online : AskTailnet(online, answering)
    BY <1>6
  <2>2. PICK answering \in SUBSET online : AskTailnet(online, answering)
    BY <2>1
  <2>3. online \in SUBSET Receivers /\ answering \in SUBSET Receivers
    BY <2>1, <2>2
  <2> QED
    BY <2>2, <2>3, AskTailnetKept
<1>7. CASE Choose
  BY <1>7, ChooseKept
<1>8. CASE UNCHANGED searchVars
  BY <1>8 DEF searchVars, DiscoveryInv, DiscoveryTypeOK, NotBefore, NamedInv, GuessInv, Returned,
     NoneSeen, SeenInTime, TimeIsUp, ByBonjour, Asked, Answered
<1> QED
  BY <1>1, <1>2, <1>3, <1>4, <1>5, <1>6, <1>7, <1>8 DEF DiscoveryNext

LEMMA InvIsRight == DiscoveryInv => RightReceiver
<1> SUFFICES ASSUME DiscoveryInv PROVE RightReceiver
  OBVIOUS
<1> USE DEF DiscoveryInv
<1>1. /\ search \in Searches /\ said \in [Receivers -> (0 .. MaxWait) \cup {None}]
      /\ Answered \subseteq Receivers
      /\ \A r \in Answered : said[r] \in Nat
  BY DiscoveryAssumption DEF DiscoveryTypeOK, Searches, Answered
<1>2. search.out # None => search.stage = "done"
  BY <1>1 DEF Returned, Searches
<1>3. NeverGuesses
  <2> SUFFICES ASSUME search.out # None, search.out.kind = "one", search.to = None, ~search.died,
                      NEW f \in search.out.found, f.name[1] = "name"
               PROVE  \E r \in Answered :
                        \A other \in Answered \ {f.name[2]} : said[other] >= said[r] + SettleTime
    BY DEF NeverGuesses
  <2>1. ~search.listing /\ search.out.found = search.seen /\ search.seen = {f}
    BY <1>2 DEF Returned
  <2>2. SeenInTime
    BY <2>1 DEF GuessInv, NoneSeen
  <2>3. PICK q \in Answered : f = ByBonjour(q)
    BY <2>1, <2>2 DEF SeenInTime
  <2>4. PICK r \in Answered : search.deadline = said[r] + SettleTime
    BY <2>2 DEF SeenInTime
  <2>5. ASSUME NEW other \in Answered \ {f.name[2]}
        PROVE  said[other] >= said[r] + SettleTime
    <3>1. f.name[2] = q /\ other # q
      BY <1>1, <2>3, <2>5, OneEntry
    <3>2. ByBonjour(other) # f
      BY <1>1, <2>3, <3>1, OneEntry
    <3>3. ~(said[other] < search.deadline)
      BY <2>1, <2>2, <3>2 DEF SeenInTime
    <3>4. said[other] \in Nat /\ said[r] \in Nat
      BY <1>1
    <3> QED
      BY <2>4, <3>3, <3>4, DiscoveryAssumption
  <2> QED
    BY <2>5
<1>4. NamedIsFound
  <2> SUFFICES ASSUME search.out # None, search.to # None, ~search.died,
                      NEW r \in Answered, Asked(r), search.wait \/ said[r] < Timeout
               PROVE  /\ search.out.kind = "one"
                      /\ \E f \in search.out.found : f.name[1] = "name" /\ Asked(f.name[2])
    BY DEF NamedIsFound
  <2>1. ~(~search.wait /\ said[r] >= Timeout)
    BY <1>1, DiscoveryAssumption
  <2>2. PICK q \in Receivers : search.seen = {ByBonjour(q)} /\ Asked(q)
    BY <1>2, <2>1 DEF NamedInv
  <2>3. search.out.kind = "one" /\ search.out.found = search.seen
    BY <1>2, <2>2 DEF Returned
  <2> QED
    BY <2>2, <2>3, OneEntry
<1> QED
  BY <1>3, <1>4 DEF RightReceiver

\* Whatever order answers arrive in, again and late, from Bonjour and from the
\* tailnet, the receiver find dials is the one that was meant: without a name
\* it is the only one that answered until the settle time was over, and with a
\* name it is one that goes by it.
THEOREM RightIsFound == DiscoverySpec => []RightReceiver
<1>1. DiscoverySpec => []DiscoveryInv
  BY SearchBegins, SearchKept, PTL DEF DiscoverySpec
<1> QED
  BY <1>1, InvIsRight, PTL
=============================================================================
