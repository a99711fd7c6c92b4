---------------------------- MODULE GnomeMonitor ----------------------------
(***************************************************************************)
(* The sender on GNOME (backend/gnome in linux/crates/od-sender): a        *)
(* display is a monitor that Mutter makes for a RemoteDesktop session and  *)
(* takes away with it.  The monitor's connector is told from the others by *)
(* looking before and after; its place is set by sending Mutter the whole  *)
(* layout back, as it was read, with the serial it was read at.            *)
(*                                                                         *)
(* The layout is one row, in units; every monitor is one wide.  Mutter is  *)
(* external: it may refuse, be slow, add a monitor after it announced the  *)
(* stream, and it drops a layout whose serial is old.  What captures the   *)
(* monitor is in PipeWire.                                                 *)
(***************************************************************************)
EXTENDS Option, Integers, FiniteSets

CONSTANTS
    Gnomes,         \* displays, each a sender of its own
    Connectors,     \* names Mutter gives to virtual monitors
    MaxSettings     \* bound: changes the user makes to the settings of the screen

ASSUME GnomeAssumption == MaxSettings \in Nat

VARIABLES
    mutter,         \* Mutter's sessions and monitors
    gnome           \* the senders' displays

gnomeVars == <<mutter, gnome>>

Monitors == Connectors \cup {"screen"}
MonitorPlace == -(Cardinality(Connectors) + 1) .. Cardinality(Connectors) + 1
Layout == [Monitors -> MonitorPlace \cup {None}]
AskedPlaces == {"left", "right"}

NoLayout == [fresh |-> FALSE, x |-> [c \in Monitors |-> None], screen |-> 0]

\* Where a display is: not there; in VirtualMonitor::create; in arrange; open.
Creating == {"look", "session", "start", "node", "poll"}
Arranging == {"plan", "apply", "see"}

GnomeTypeOK ==
    /\ mutter \in [sessions : SUBSET Gnomes,
                   owner : [Connectors -> Gnomes \cup {None}],
                   x : Layout,
                   screen : 0 .. MaxSettings]       \* the user's settings of it
    /\ gnome \in [Gnomes ->
         [at : Creating \cup Arranging \cup {"off", "open"},
          side : AskedPlaces,
          before : SUBSET Monitors,
          connector : Monitors \cup {None},
          x : MonitorPlace,                                \* placement.x
          plan : [fresh : BOOLEAN, x : Layout, screen : 0 .. MaxSettings]]]

NoDisplay == [at |-> "off", side |-> "right", before |-> {}, connector |-> None, x |-> 0,
              plan |-> NoLayout]

GnomeInit ==
    /\ mutter = [sessions |-> {}, owner |-> [c \in Connectors |-> None],
                 x |-> [c \in Monitors |-> IF c = "screen" THEN 0 ELSE None],
                 screen |-> 0]
    /\ gnome = [g \in Gnomes |-> NoDisplay]

-----------------------------------------------------------------------------
Shown(x) == {c \in Monitors : x[c] # None}
Most(S) == CHOOSE n \in S : \A k \in S : k <= n
Least(S) == CHOOSE n \in S : \A k \in S : n <= k

\* layout::plan: one monitor is put, the others stay, all of it from 0 on.
LayoutPlan(x, c, side) ==
    LET others == {x[o] : o \in Shown(x) \ {c}}
        put == IF side = "left" THEN -1 ELSE Most(others \cup {-1}) + 1
        moved == [x EXCEPT ![c] = put]
        first == Least({moved[o] : o \in Shown(moved)})
    IN  [o \in Monitors |-> IF moved[o] = None THEN None ELSE moved[o] - first]

\* Mutter takes no layout with a hole in it.
Adjacent(x) == {x[o] : o \in Shown(x)} = 0 .. Cardinality(Shown(x)) - 1

GnomeStep(g, next) == gnome' = [gnome EXCEPT ![g] = next]
GoesTo(g, at) == [gnome[g] EXCEPT !.at = at]

\* Every change has a new serial: what was planned before is stale.
Outdated(d) == [g \in Gnomes |-> [d[g] EXCEPT !.plan.fresh = FALSE]]

\* Mutant: an early return leaves the session to Mutter.
Forgets(g) ==
    /\ GnomeStep(g, NoDisplay)
    /\ UNCHANGED mutter

\* The VirtualMonitor is dropped: its session is stopped, if it has one.
DropsMonitor(g) ==
    /\ GnomeStep(g, NoDisplay)
    /\ mutter' = [mutter EXCEPT !.sessions = @ \ {g}]

-----------------------------------------------------------------------------
(* VirtualMonitor::create.                                                 *)

GnomeOpens(g) ==
    /\ gnome[g].at = "off"
    /\ \E side \in AskedPlaces : GnomeStep(g, [NoDisplay EXCEPT !.at = "look", !.side = side])
    /\ UNCHANGED mutter

LooksBefore(g) ==
    /\ gnome[g].at = "look"
    /\ GnomeStep(g, [GoesTo(g, "session") EXCEPT !.before = Shown(mutter.x)])
    /\ UNCHANGED mutter

CreatesSession(g) ==
    /\ gnome[g].at = "session"
    /\ GnomeStep(g, GoesTo(g, "start"))
    /\ mutter' = [mutter EXCEPT !.sessions = @ \cup {g}]

\* RecordVirtual, a match rule for the signal, and Start.
Starts(g) ==
    /\ gnome[g].at = "start"
    /\ GnomeStep(g, GoesTo(g, "node"))
    /\ UNCHANGED mutter

StreamAdded(g) ==
    /\ gnome[g].at = "node"
    /\ GnomeStep(g, GoesTo(g, "poll"))
    /\ UNCHANGED mutter

\* A connector that was not there before is taken for ours.
SeesConnector(g) ==
    /\ gnome[g].at = "poll"
    /\ \E c \in Shown(mutter.x) \ gnome[g].before :
         GnomeStep(g, [GoesTo(g, "plan") EXCEPT !.connector = c, !.x = mutter.x[c], !.before = {}])
    /\ UNCHANGED mutter

\* A refused call, no stream within 5 s, no new connector within 1 s.
CreateFails(g) ==
    /\ gnome[g].at \in Creating
    /\ DropsMonitor(g)

-----------------------------------------------------------------------------
(* VirtualMonitor::arrange.  What fails here is only logged.               *)

PlansLayout(g) ==
    LET c == gnome[g].connector
        x == LayoutPlan(mutter.x, c, gnome[g].side)
    IN  /\ gnome[g].at = "plan"
        /\ mutter.x[c] # None
        /\ GnomeStep(g, IF x[c] = gnome[g].x THEN GoesTo(g, "open")
                        ELSE [GoesTo(g, "apply") EXCEPT
                                !.plan = [fresh |-> TRUE, x |-> x, screen |-> mutter.screen]])
        /\ UNCHANGED mutter

\* Mutant: the layout is sent with the serial of then.
AppliesAnyway(g) ==
    /\ gnome[g].at = "apply"
    /\ Adjacent(gnome[g].plan.x)
    /\ mutter' = [mutter EXCEPT !.x = gnome[g].plan.x, !.screen = gnome[g].plan.screen]
    /\ gnome' = Outdated([gnome EXCEPT ![g] = [GoesTo(g, "see") EXCEPT !.plan = NoLayout]])

MutterApplies(g) ==
    /\ gnome[g].at = "apply"
    /\ gnome[g].plan.fresh
    /\ Adjacent(gnome[g].plan.x)
    /\ mutter' = [mutter EXCEPT !.x = gnome[g].plan.x, !.screen = gnome[g].plan.screen]
    /\ gnome' = Outdated([gnome EXCEPT ![g] = [GoesTo(g, "see") EXCEPT !.plan = NoLayout]])

SeesPlacement(g) ==
    /\ gnome[g].at = "see"
    /\ GnomeStep(g, LET x == mutter.x[gnome[g].connector]
                    IN  [GoesTo(g, "open") EXCEPT !.x = IF x = None THEN @ ELSE x])
    /\ UNCHANGED mutter

\* An old serial, a hole in the layout, a connector that is gone, or any refusal.
ArrangeFails(g) ==
    /\ gnome[g].at \in Arranging
    /\ GnomeStep(g, [GoesTo(g, "open") EXCEPT !.plan = NoLayout])
    /\ UNCHANGED mutter

-----------------------------------------------------------------------------
(* An open display.                                                        *)

\* The old monitor is stopped, a new one made.
GnomeReconfigures(g) ==
    /\ gnome[g].at = "open"
    /\ GnomeStep(g, [NoDisplay EXCEPT !.at = "look", !.side = gnome[g].side])
    /\ mutter' = [mutter EXCEPT !.sessions = @ \ {g}]

\* Closed or dropped; for a killed sender Mutter does it.
GnomeCloses(g) ==
    /\ gnome[g].at = "open"
    /\ DropsMonitor(g)

-----------------------------------------------------------------------------
(* Mutter and its user.                                                    *)

\* A session that has been started gets its monitor, on the right.
Appears(g) ==
    /\ gnome[g].at \in {"node", "poll"}
    /\ \A c \in Connectors : mutter.owner[c] # g
    /\ \E c \in Connectors :
         /\ mutter.x[c] = None
         /\ mutter' = [mutter EXCEPT !.owner[c] = g,
                         !.x[c] = Most({mutter.x[o] : o \in Shown(mutter.x)}) + 1]
    /\ gnome' = Outdated(gnome)

\* The monitor of a session that is over goes, and the others move up.
MonitorVanishes(c) ==
    /\ mutter.owner[c] # None
    /\ mutter.owner[c] \notin mutter.sessions
    /\ LET x == [mutter.x EXCEPT ![c] = None]
           UpTo(o) == Cardinality({p \in Shown(x) : x[p] < x[o]})
       IN  mutter' = [mutter EXCEPT !.owner[c] = None,
                !.x = [o \in Monitors |-> IF x[o] = None THEN None ELSE UpTo(o)]]
    /\ gnome' = Outdated(gnome)

\* Mode, scale or rotation of the user's own screen.
UserSets ==
    /\ mutter.screen < MaxSettings
    /\ mutter' = [mutter EXCEPT !.screen = @ + 1]
    /\ gnome' = Outdated(gnome)

GnomeNext ==
    \/ \E g \in Gnomes :
         \/ GnomeOpens(g) \/ LooksBefore(g) \/ CreatesSession(g) \/ Starts(g) \/ StreamAdded(g)
         \/ SeesConnector(g) \/ CreateFails(g)
         \/ PlansLayout(g) \/ MutterApplies(g) \/ SeesPlacement(g) \/ ArrangeFails(g)
         \/ GnomeReconfigures(g) \/ GnomeCloses(g)
         \/ Appears(g)
    \/ \E c \in Connectors : MonitorVanishes(c)
    \/ UserSets

GnomeSpec == GnomeInit /\ [][GnomeNext]_gnomeVars

-----------------------------------------------------------------------------
(* Properties.                                                             *)

\* Once a display is given up or closed, nothing keeps its monitor: however
\* far create came, no session of it is left for Mutter to serve.
NoSessionLeft == \A g \in Gnomes : gnome[g].at = "off" => g \notin mutter.sessions

\* arrange sends the settings of the user's own screen back as it read them:
\* it never undoes a change the user, or their settings, made meanwhile.
UserSettingsKept == [][mutter'.screen >= mutter.screen]_gnomeVars

\* The connector that create found is that of its own monitor, or one that is
\* gone by now.  mutter.rs says so ("The new connector is ours"), but when two
\* displays are opened at the same time this does not hold.
ConnectorIsOurs ==
    \A g \in Gnomes : gnome[g].connector # None =>
        /\ gnome[g].connector \in Connectors
        /\ mutter.owner[gnome[g].connector] \in {g, None}

\* A display on GNOME, over every way it fails, leaves no monitor behind and
\* undoes no setting of the user's (VirtualMonitor::create, arrange).
DesktopAsItWas == []NoSessionLeft /\ UserSettingsKept
=============================================================================
