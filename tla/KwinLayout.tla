----------------------------- MODULE KwinLayout -----------------------------
(***************************************************************************)
(* The sender on KDE Plasma: a display of backend/kde/mod.rs, the thread   *)
(* that owns its output (screencast.rs) and the place of all outputs,      *)
(* which KWin wants to start at 0 (outputs.rs), so that an output put to   *)
(* the left moves the user's own out of the way.                           *)
(*                                                                         *)
(* The layout is one row, in units: the user's screen is one wide.  A      *)
(* display's lock and its process are one here, and KWin is external: it   *)
(* may refuse, be late, or close the stream of an output.                  *)
(***************************************************************************)
EXTENDS Option, Integers, FiniteSets

CONSTANTS
    Kdes,           \* displays, each a sender of its own
    KdeWidths,      \* logical widths asked for
    KdeSides        \* positions asked for: "left", "right"

ASSUME KwinAssumption ==
    /\ KdeWidths \subseteq Nat \ {0} /\ KdeWidths # {}
    /\ KdeSides \subseteq {"left", "right"} /\ KdeSides # {}

VARIABLES
    kwin,           \* where the outputs are
    kde             \* the senders' displays

kwinVars == <<kwin, kde>>

Pointers == {"embedded", "hidden"}
Extent == -10 .. 10                     \* bound on coordinates, for the type only

KwinTypeOK ==
    /\ kwin \in [user : Extent,
                 virt : [Kdes -> [x : Extent, w : KdeWidths] \cup {None}],
                 excuse : SUBSET {"kwin", "remake"}]
    /\ kde \in [Kdes ->
         [at : {"off", "make", "ready", "wait", "configure", "open", "release", "restore"},
          side : KdeSides, w : KdeWidths,
          stream : BOOLEAN, capture : BOOLEAN,
          corrected : BOOLEAN,              \* the size was asked for twice
          pointer : Pointers,
          shifted : BOOLEAN,                \* shifted_others
          x : Extent]]                      \* info.x

NoKde == [at |-> "off", side |-> CHOOSE s \in KdeSides : TRUE, w |-> CHOOSE w \in KdeWidths : TRUE,
          stream |-> FALSE, capture |-> FALSE, corrected |-> FALSE,
          pointer |-> "embedded", shifted |-> FALSE, x |-> 0]

KwinInit ==
    /\ kwin = [user |-> 0, virt |-> [k \in Kdes |-> None], excuse |-> {}]
    /\ kde = [k \in Kdes |-> NoKde]

-----------------------------------------------------------------------------
(* Layout: backend/mod.rs and outputs.rs.                                  *)

UserRect == [x |-> kwin.user, w |-> 1]
VirtOf(ks) == {kwin.virt[k] : k \in {j \in ks : kwin.virt[j] # None}}
Others(k) == {UserRect} \cup VirtOf(Kdes \ {k})

LeftOf(rects) == CHOOSE x \in {r.x : r \in rects} : \A r \in rects : x <= r.x
Right(rects) == CHOOSE x \in {r.x + r.w : r \in rects} : \A r \in rects : r.x + r.w <= x

Place(side, w, others) == IF side = "left" THEN LeftOf(others) - w ELSE Right(others)

Normalize(at, others) == -LeftOf(others \cup {[x |-> at, w |-> 0]})

Shift(rect, d) == IF rect = None THEN None ELSE [rect EXCEPT !.x = @ + d]

MovedBy(d) ==
    [kwin EXCEPT !.user = @ + d, !.virt = [k \in Kdes |-> Shift(@[k], d)]]

\* move_to_origin of everything that is there.
ToOrigin == MovedBy(-LeftOf({UserRect} \cup VirtOf(Kdes)))

Unless(state, why) == [state EXCEPT !.excuse = @ \cup {why}]
Gone(state, k) == [state EXCEPT !.virt[k] = None]

-----------------------------------------------------------------------------
KdeStep(k, next) == kde' = [kde EXCEPT ![k] = next]

\* A create that fails drops the display (of a session: build's error).
Dropped(k) == [kde[k] EXCEPT !.at = "release"]

\* The lock is free: nobody cleans up, as that is one step.
KdeOpens(k) ==
    /\ kde[k].at = "off"
    /\ \E side \in KdeSides, w \in KdeWidths, pointer \in Pointers :
         KdeStep(k, [NoKde EXCEPT !.at = "make", !.side = side, !.w = w, !.pointer = pointer])
    /\ UNCHANGED kwin

\* make: capture is stopped, the stream dropped and its output gone with it.
Make(k) ==
    /\ kde[k].at = "make"
    /\ KdeStep(k, [kde[k] EXCEPT !.at = "ready", !.capture = FALSE, !.stream = FALSE])
    /\ kwin' = Gone(kwin, k)

\* The stream's thread has a node; KWin puts a new output on the right.
StreamReady(k) ==
    /\ kde[k].at = "ready"
    /\ KdeStep(k, [kde[k] EXCEPT !.at = "wait", !.stream = TRUE])
    /\ kwin' = [kwin EXCEPT !.virt[k] = [x |-> Right(Others(k)), w |-> kde[k].w]]

\* Refused, closed, or no answer within 10 s: the thread is joined, and
\* whatever output it still got is gone.
StreamFails(k) ==
    /\ kde[k].at = "ready"
    /\ KdeStep(k, Dropped(k))
    /\ kwin' = IF kde[k].shifted THEN Unless(kwin, "remake") ELSE kwin

\* The output has a mode: of the size asked for, or asked for once more.
Seen(k) ==
    /\ kde[k].at = "wait"
    /\ kwin.virt[k] # None
    /\ \/ KdeStep(k, [kde[k] EXCEPT !.at = "configure"])
       \/ ~kde[k].corrected /\ KdeStep(k, [kde[k] EXCEPT !.at = "make", !.corrected = TRUE])
    /\ UNCHANGED kwin

NotSeen(k) ==
    /\ kde[k].at = "wait"
    /\ KdeStep(k, Dropped(k))
    /\ UNCHANGED kwin

\* configure: KWin takes the scale and the place.
Configured(k) ==
    LET wanted == Place(kde[k].side, kde[k].w, Others(k))
        d == Normalize(wanted, Others(k))
    IN  /\ kde[k].at = "configure"
        /\ kwin.virt[k] # None
        /\ KdeStep(k, [kde[k] EXCEPT !.at = "open", !.corrected = FALSE, !.x = wanted + d,
                                     !.shifted = @ \/ d # 0])
        /\ kwin' = [MovedBy(d) EXCEPT !.virt[k].x = wanted + d]

\* Refused; or no verdict within 5 s, though KWin did move the others.
NotConfigured(k) ==
    /\ kde[k].at = "configure"
    /\ KdeStep(k, [kde[k] EXCEPT !.at = "open", !.corrected = FALSE,
                                 !.x = IF kwin.virt[k] = None THEN @ ELSE kwin.virt[k].x])
    /\ \/ UNCHANGED kwin
       \/ /\ kwin.virt[k] # None
          /\ LET wanted == Place(kde[k].side, kde[k].w, Others(k))
                 d == Normalize(wanted, Others(k))
             IN  kwin' = Unless([MovedBy(d) EXCEPT !.virt[k].x = wanted + d], "kwin")

-----------------------------------------------------------------------------
(* An open display.                                                        *)

\* start_capture: the pointer mode is the stream's, so another one needs
\* another output.
KdeCaptures(k) ==
    /\ kde[k].at = "open"
    /\ \E pointer \in Pointers :
         IF pointer # kde[k].pointer
         THEN KdeStep(k, [kde[k] EXCEPT !.at = "make", !.pointer = pointer, !.capture = FALSE])
         ELSE \/ kde[k].stream /\ KdeStep(k, [kde[k] EXCEPT !.capture = TRUE])
              \/ KdeStep(k, [Dropped(k) EXCEPT !.capture = FALSE])
    /\ UNCHANGED kwin

\* Mutant: the new display does not know what the old one moved.
KdeReconfiguresAnew(k) ==
    /\ kde[k].at = "open"
    /\ \E w \in KdeWidths :
         KdeStep(k, [kde[k] EXCEPT !.at = "make", !.w = w, !.shifted = FALSE])
    /\ UNCHANGED kwin

KdeReconfigures(k) ==
    /\ kde[k].at = "open"
    /\ \E w \in KdeWidths : KdeStep(k, [kde[k] EXCEPT !.at = "make", !.w = w])
    /\ UNCHANGED kwin

KdeCloses(k) ==
    /\ kde[k].at = "open"
    /\ KdeStep(k, Dropped(k))
    /\ UNCHANGED kwin

\* Capture, then the stream; who has no stream restores nothing.
Release(k) ==
    /\ kde[k].at = "release"
    /\ KdeStep(k, IF kde[k].stream /\ kde[k].shifted
                  THEN [kde[k] EXCEPT !.at = "restore", !.capture = FALSE, !.stream = FALSE]
                  ELSE NoKde)
    /\ kwin' = Gone(kwin, k)

Restored(k) ==
    /\ kde[k].at = "restore"
    /\ KdeStep(k, NoKde)
    /\ kwin' = ToOrigin

NotRestored(k) ==
    /\ kde[k].at = "restore"
    /\ KdeStep(k, NoKde)
    /\ kwin' = Unless(kwin, "kwin")

-----------------------------------------------------------------------------
(* KWin, a killed sender and the clean command.                            *)

\* The stream is closed: the output is gone, the thread of it at its end.
StreamClosed(k) ==
    /\ kwin.virt[k] # None
    /\ kwin' = Gone(kwin, k)
    /\ UNCHANGED kde

\* KWin before 6.8 leaves the others where they are.
KdeKilled(k) ==
    /\ kde[k].at # "off"
    /\ KdeStep(k, NoKde)
    /\ kwin' = Unless(Gone(kwin, k), "kwin")

\* With every lock free: reset_origin.
KdeCleans ==
    /\ \A k \in Kdes : kde[k].at = "off"
    /\ kwin' = [ToOrigin EXCEPT !.excuse = {}]
    /\ UNCHANGED kde

KwinNext ==
    \/ \E k \in Kdes :
         \/ KdeOpens(k) \/ Make(k) \/ StreamReady(k) \/ StreamFails(k) \/ Seen(k) \/ NotSeen(k)
         \/ Configured(k) \/ NotConfigured(k)
         \/ KdeCaptures(k) \/ KdeReconfigures(k) \/ KdeCloses(k)
         \/ Release(k) \/ Restored(k) \/ NotRestored(k)
         \/ StreamClosed(k) \/ KdeKilled(k)
    \/ KdeCleans

KwinSpec == KwinInit /\ [][KwinNext]_kwinVars

-----------------------------------------------------------------------------
(* Properties.                                                             *)

Alone == \A k \in Kdes : kde[k].at = "off"

\* When the display was closed, the user's screens are where they were,
\* whatever sizes, sides and pointer modes there were in between, unless the
\* sender was killed, KWin refused to move them, or an output could not be
\* made again.  For one display at a time: see MovesBackWhenGone.
MovedBack == Alone /\ kwin.excuse = {} => kwin.user = 0

\* README.md: the screens that were shifted move back when the virtual
\* display goes away; a killed sender and a KWin that refuses are excepted.
\* This does not hold: a display that could not be made again is not open any
\* more when it is released, and moves nothing back.
MovesBackWhenGone == Alone /\ "kwin" \notin kwin.excuse => kwin.user = 0

\* Pointer input is mapped through the place that configure saw.  This does
\* not hold once another display moves the layout, or KWin does after 5 s.
InputLands ==
    \A k \in Kdes : kde[k].at = "open" /\ kwin.virt[k] # None => kde[k].x = kwin.virt[k].x
=============================================================================
