------------------------------- MODULE Detect -------------------------------
(***************************************************************************)
(* Which compositor the sender makes its display on: detect.rs in          *)
(* linux/crates/od-sender/src/backend.  It walks the environment, the      *)
(* user's request and what the Wayland registry offers, connects to what   *)
(* it found, and chooses how to capture (CaptureChoice).                   *)
(*                                                                         *)
(* The registry is a set of the globals that matter; None is no Wayland    *)
(* connection.  KWin's two are written with an "Old" after them when their *)
(* version is too low.                                                     *)
(***************************************************************************)
EXTENDS CaptureChoice

CONSTANTS
    Registries,     \* what the compositors there are offer
    Features        \* cargo features of the build

Globals == {"ext", "source", "wlr", "pointer", "outman",
            "screencast", "screencastOld", "fake", "fakeOld"}

ASSUME DetectAssumption ==
    /\ Registries \subseteq SUBSET Globals
    /\ Features \subseteq {"kde", "gnome"}
    /\ None \notin {"hyprland", "wlroots", "kde", "gnome", "adopt", "ext", "wlr"}

VARIABLE walk       \* detect: what was asked, found and chosen; None before

\* Environment: Hyprland's socket is there, Sway's is named, there, what the desktop calls itself.
Environments ==
    [hyprland : BOOLEAN, sway : {"unset", "gone", "there"}, display : BOOLEAN,
     desktop : {"KDE", "GNOME", "Hyprland", "other"}]

Backends == {"hyprland", "wlroots", "kde", "gnome", "adopt"}

\* Request: --backend, whether --output names one, --capture.
Asks == [backend : Backends \cup {"portal", None}, output : BOOLEAN,
         capture : Paths \cup {"auto"}]

Versions == {"tooOld", "crashes", "safe", "unknown"}    \* of Hyprland: 0.55, 0.57

DetectTypeOK ==
    walk = None \/ /\ walk.env \in Environments /\ walk.ask \in Asks
                   /\ walk.registry \in Registries \cup {None}
                   /\ walk.version \in Versions
                   /\ walk.backend \in Backends \cup {None}     \* None: refused
                   /\ walk.path \in Paths \cup {None}

DetectInit == walk = None

-----------------------------------------------------------------------------
(* decide.                                                                 *)

\* Mutant: the manager without its sources.
HasTheManager(s) == {"ext", "wlr"} \cap s # {}

HasCapture(s) == {"ext", "source"} \subseteq s \/ "wlr" \in s

CanAdopt(s) == HasCapture(s) /\ "pointer" \in s

\* The wlroots backend speaks only the standard protocol.
WlrootsServes(s) == {"ext", "source", "pointer", "outman"} \subseteq s

OrRefused(backend, works) == IF works THEN backend ELSE None

KdeDecision(s) == OrRefused("kde", {"screencast", "fake"} \subseteq s /\ "kde" \in Features)
GnomeDecision == OrRefused("gnome", "gnome" \in Features)

SwayDecision(env, s) ==
    OrRefused("wlroots", env.sway = "there" /\ s # None /\ WlrootsServes(s))

\* What the user named, or nothing; --output alone is adopt mode.
Named(env, ask, s) ==
    CASE ask.output /\ ask.backend \in {None, "adopt"} -> OrRefused("adopt", s # None /\ CanAdopt(s))
      [] ask.backend = "hyprland" -> OrRefused("hyprland", env.hyprland)
      [] ask.backend = "wlroots" -> SwayDecision(env, s)
      [] ask.backend = "kde" -> IF s = None THEN None ELSE KdeDecision(s)
      [] ask.backend = "gnome" -> GnomeDecision
      [] OTHER -> None          \* the portal; adopt without an output

\* Nothing was asked for: the first that fits.
Found(env, s) ==
    CASE env.hyprland -> "hyprland"
      [] ~env.hyprland /\ env.sway # "unset" -> SwayDecision(env, s)
      [] OTHER ->
           IF env.display /\ s # None /\ (CanAdopt(s) \/ env.desktop = "KDE")
           THEN IF CanAdopt(s) THEN None ELSE KdeDecision(s)
           ELSE IF env.desktop = "GNOME" THEN GnomeDecision ELSE None

Decide(env, ask, s) ==
    IF ask.backend = None /\ ~ask.output THEN Found(env, s) ELSE Named(env, ask, s)

-----------------------------------------------------------------------------
(* detect: the walk, the connection, the capture protocol.                 *)

CapturesOnWayland(backend) == backend \in {"hyprland", "wlroots", "adopt"}

\* hyprland/mod.rs: its capture may crash an older one.
CapturePreference(backend, version) ==
    IF backend = "hyprland" /\ version # "safe" THEN "wlr" ELSE None

\* Without a registry both are taken to be offered.
OfferedPaths(s) ==
    IF s = None THEN Paths
    ELSE (IF {"ext", "source"} \subseteq s THEN {"ext"} ELSE {}) \cup ({"wlr"} \cap s)

\* Mutant: every backend prefers the standard protocol.
ChooseStandard(backend, version, choice, s) == SelectPath(choice, None, OfferedPaths(s))

ChooseCapture(backend, version, choice, s) ==
    SelectPath(choice, CapturePreference(backend, version), OfferedPaths(s))

\* instantiate: the backend's connection may fail, and refuses an old Hyprland.
Connects(backend, version) == ~(backend = "hyprland" /\ version = "tooOld")

Walked(env, ask, s, version, backend) ==
    LET path == IF CapturesOnWayland(backend) THEN ChooseCapture(backend, version, ask.capture, s)
                ELSE None
        refused == CapturesOnWayland(backend) /\ path = None
    IN  [env |-> env, ask |-> ask, registry |-> s, version |-> version,
         found |-> backend, path |-> path, backend |-> IF refused THEN None ELSE backend]

Detects ==
    /\ walk = None
    /\ \E env \in Environments, ask \in Asks, s \in Registries \cup {None}, version \in Versions :
         LET found == Decide(env, ask, s) IN
         /\ env.display \/ s = None
         /\ found # "hyprland" => version = "unknown"
         /\ walk' = Walked(env, ask, s, version,
                           IF Connects(found, version) THEN found ELSE None)

DetectNext == Detects
DetectSpec == DetectInit /\ [][DetectNext]_walk

-----------------------------------------------------------------------------
(* Properties.                                                             *)

IsAuto == walk.ask.capture = "auto"

\* The walk and the choice of the capture read the registry each in their own
\* way and agree: a desktop the walk accepted for what its registry offers is
\* not refused for its capture unless the user chose one; what the user named
\* is what runs, or nothing does; and a Hyprland that its own capture may
\* crash runs the other one, unless the user wants it or it has only that one
\* (decide, choose_capture, select).
BackendFits ==
    walk # None =>
      /\ walk.found \in {"wlroots", "adopt"} /\ IsAuto => walk.backend = walk.found
      /\ walk.ask.backend # None => walk.backend \in {walk.ask.backend, None}
      /\ walk.ask.output /\ walk.ask.backend = None => walk.backend \in {"adopt", None}
      /\ walk.backend = "hyprland" /\ walk.version # "safe" /\ IsAuto /\ walk.path = "ext"
           => walk.registry # None /\ "wlr" \notin walk.registry
=============================================================================
