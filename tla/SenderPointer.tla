---------------------------- MODULE SenderPointer ----------------------------
(***************************************************************************)
(* Where the pointer is drawn (session.rs, CursorSide): it is painted into *)
(* the video until the display's cursor thread has delivered a sprite;     *)
(* from then on the receiver draws it where the thread says it is.         *)
(*                                                                         *)
(* The thread's events wait in one channel per session, displays come and  *)
(* go with their threads, and the receiver keeps what it was sent last.    *)
(* Messages to the receiver are taken to arrive; CursorLink has their ways.*)
(* With CursorMode::Off, not modelled, there is no pointer at all.         *)
(***************************************************************************)
EXTENDS Option, Integers, Sequences

CONSTANTS
    Positions,      \* of the pointer over the display
    Repaints,       \* outcomes of painting the pointer again
    MaxEvents       \* bound: events waiting

ASSUME PointerAssumption ==
    /\ None \notin Positions /\ "unknown" \notin Positions
    /\ Repaints \subseteq BOOLEAN /\ TRUE \in Repaints
    /\ MaxEvents \in Nat

VARIABLES
    drawn,      \* Active: cursor side, position held back, is the pointer painted?
    thread,     \* the display's cursor thread: its sprite, its last report
    events,     \* cursor_rx
    screen      \* the receiver: has it a sprite, and where does it draw it

pointerVars == <<drawn, thread, events, screen>>

Sides == {"Off", "Pending", "Live", "Failed"}
Spots == Positions \cup {None}

Actives == [cursor : Sides, held : Spots, painted : BOOLEAN]

ASSUME NoneIsNoDisplay == None \notin Actives

Pointing ==
    [kind : {"Moved"}, at : Positions] \cup [kind : {"Hidden", "Image", "SpriteUnavailable"}]

\* A display without a thread has no events of its own.
PointerTypeOK ==
    /\ drawn \in Actives \cup {None}
    /\ thread \in [sprite : {"none", "have", "failed"}, at : Spots \cup {"unknown"}]
    /\ events \in Seq(Pointing) /\ Len(events) <= MaxEvents
    /\ screen \in [sprite : BOOLEAN, at : Spots]
    /\ drawn = None => events = <<>>

-----------------------------------------------------------------------------
(* build, close.                                                           *)

Started == [sprite |-> "none", at |-> "unknown"]

\* Mutant: the pointer is left out of the video as soon as its thread runs.
Unpainted(side) == [cursor |-> side, held |-> None, painted |-> side = "Off"]

Painted(side) == [cursor |-> side, held |-> None, painted |-> TRUE]

\* The first display, or another after a hello, a loss or a drift.  The old
\* thread is joined first, its events stay.  There is a new one if the
\* receiver offers a cursor port and the compositor opens a cursor session.
BuildDisplay(side) ==
    /\ side \in {"Off", "Pending"}
    /\ drawn' = Painted(side)
    /\ thread' = Started
    /\ UNCHANGED <<events, screen>>

\* The session ends; a next one has a channel of its own.
CloseDisplay ==
    /\ drawn # None
    /\ drawn' = None
    /\ thread' = Started
    /\ events' = <<>>
    /\ UNCHANGED screen

-----------------------------------------------------------------------------
(* cursor_step, and what session does about it.                            *)

\* Mutant: the position held back is not sent behind the sprite.
LiveWithoutHeld ==
    /\ drawn' = [drawn EXCEPT !.cursor = "Live", !.painted = FALSE, !.held = None]
    /\ screen' = [screen EXCEPT !.sprite = TRUE]

\* The first sprite: the pointer leaves the video, the receiver gets the
\* sprite and the position held back.
GoesLive ==
    /\ drawn' = [drawn EXCEPT !.cursor = "Live", !.painted = FALSE, !.held = None]
    /\ screen' = [screen EXCEPT !.sprite = TRUE,
                                !.at = IF drawn.held = None THEN @ ELSE drawn.held]

\* The display cannot switch: the pointer stays in the video.
StaysPainted ==
    /\ drawn' = [drawn EXCEPT !.cursor = "Failed"]
    /\ UNCHANGED screen

\* SpriteUnavailable: paint it again, hide the receiver's.
Fails ==
    /\ \E ok \in Repaints :
         drawn' = [drawn EXCEPT !.cursor = "Failed", !.painted = @ \/ ok]
    /\ screen' = [screen EXCEPT !.at = None]

Holds(ev) ==
    /\ drawn' = [drawn EXCEPT !.held = IF ev.kind = "Moved" THEN ev.at ELSE None]
    /\ UNCHANGED screen

Forwards(ev) ==
    /\ UNCHANGED drawn
    /\ screen' = CASE ev.kind = "Moved" -> [screen EXCEPT !.at = ev.at]
                   [] ev.kind = "Hidden" -> [screen EXCEPT !.at = None]
                   [] ev.kind = "Image" -> [screen EXCEPT !.sprite = TRUE]

CursorStep(ev) ==
    CASE drawn.cursor \in {"Off", "Failed"} -> UNCHANGED <<drawn, screen>>
      [] drawn.cursor \in {"Pending", "Live"} /\ ev.kind = "SpriteUnavailable" -> Fails
      [] drawn.cursor = "Pending" /\ ev.kind = "Image" -> GoesLive \/ StaysPainted
      [] drawn.cursor = "Pending" /\ ev.kind \in {"Moved", "Hidden"} -> Holds(ev)
      [] drawn.cursor = "Live" /\ ev.kind # "SpriteUnavailable" -> Forwards(ev)

TakeEvent ==
    /\ drawn # None /\ events # <<>>
    /\ events' = Tail(events)
    /\ CursorStep(Head(events))
    /\ UNCHANGED thread

-----------------------------------------------------------------------------
(* The cursor thread.                                                      *)

\* A sprite that failed is not sent again, positions are.
Report(ev) ==
    /\ drawn # None /\ drawn.cursor # "Off"
    /\ Len(events) < MaxEvents
    /\ ev.kind \in {"Image", "SpriteUnavailable"} => thread.sprite # "failed"
    /\ events' = Append(events, ev)
    /\ thread' = CASE ev.kind = "Moved" -> [thread EXCEPT !.at = ev.at]
                   [] ev.kind = "Hidden" -> [thread EXCEPT !.at = None]
                   [] ev.kind = "Image" -> [thread EXCEPT !.sprite = "have"]
                   [] ev.kind = "SpriteUnavailable" -> [thread EXCEPT !.sprite = "failed"]
    /\ UNCHANGED <<drawn, screen>>

-----------------------------------------------------------------------------
PointerInit ==
    /\ drawn = None
    /\ thread = Started
    /\ events = <<>>
    /\ screen = [sprite |-> FALSE, at |-> None]

PointerNext ==
    \/ \E side \in Sides : BuildDisplay(side)
    \/ CloseDisplay
    \/ TakeEvent
    \/ \E ev \in Pointing : Report(ev)

PointerSpec == PointerInit /\ [][PointerNext]_pointerVars

-----------------------------------------------------------------------------
(* The user always has a pointer: it is in the video, or the receiver has  *)
(* been given its sprite and the channel is live (CursorSide::Pending, "a  *)
(* receiver must never be left with no cursor at all").                    *)
NeverNoPointer ==
    drawn # None => drawn.painted \/ (drawn.cursor = "Live" /\ screen.sprite)

(* The receiver draws the pointer where the cursor thread last saw it,     *)
(* positions reported before the first sprite or by the thread of an       *)
(* earlier display notwithstanding (held_position, cursor_rx).             *)
LivePointerIsThere ==
    drawn # None /\ events = <<>> =>
        (drawn.cursor = "Live" /\ thread.at \in Positions => screen.at = thread.at)

(* A display whose pointer is painted for good does not leave the receiver *)
(* drawing another (session.rs:409, "paint again; hide the receiver's      *)
(* cursor if it was live").  It does: a display built without a cursor     *)
(* thread hides nothing.                                                   *)
OnePointer ==
    drawn # None /\ drawn.cursor \in {"Off", "Failed"} /\ drawn.painted =>
        ~(screen.sprite /\ screen.at # None)

(* Someone draws the pointer, the picture or the receiver, and the         *)
(* receiver where the cursor thread of this display saw it last, whichever *)
(* displays and threads came before (run_connected, switch_cursor).        *)
PointerKept == NeverNoPointer /\ LivePointerIsThere
=============================================================================
