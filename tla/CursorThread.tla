---------------------------- MODULE CursorThread ----------------------------
(***************************************************************************)
(* The thread that reads an output's pointer for the cursor side channel   *)
(* (wayland/cursor.rs in linux/crates/od-sender): where the pointer is,    *)
(* coalesced and rate limited, and its sprite, copied by the compositor    *)
(* into a buffer of the thread's whenever the image changes.               *)
(*                                                                         *)
(* The compositor's events pile up in the thread's State until the thread  *)
(* goes around its loop, which is one step here.  Clocks are left out: the *)
(* rate limit and the half second between sessions are choices.            *)
(***************************************************************************)
EXTENDS Option, Naturals, Sequences, FiniteSets

CONSTANTS
    CursorSpots,    \* positions on the output
    Shapes,         \* cursor images
    WideShapes,     \* those that need a wider buffer
    MaxEmpty,       \* MAX_EMPTY_REFRESHES
    MaxSprites      \* MAX_SPRITE_FAILURES

ASSUME CursorThreadAssumption ==
    /\ WideShapes \subseteq Shapes
    /\ MaxEmpty \in Nat /\ MaxSprites \in Nat
    /\ None \notin CursorSpots \cup Shapes /\ None \notin BOOLEAN
    /\ None \notin {"clear", "placeholder", "nothing"}

VARIABLES
    scene,          \* the compositor's pointer
    st,             \* State: events not looked at yet
    cur,            \* the thread
    told            \* what the sink was given

cursorVars == <<scene, st, cur, told>>

BufferWidths == {"narrow", "wide"}
WidthOf(image) == IF image \in WideShapes THEN "wide" ELSE "narrow"

\* A sprite in a buffer: a shape, a hidden pointer's, Hyprland's placeholder,
\* or a buffer nothing was copied to, which looks like a hidden pointer's.
Pixels == Shapes \cup {"clear", "placeholder", "nothing"}
SpriteKind(px) == IF px = "nothing" THEN "clear" ELSE IF px \in Shapes THEN "cursor" ELSE px

CursorThreadTypeOK ==
    /\ scene \in [over : BOOLEAN, at : CursorSpots, image : Shapes \cup {"clear"},
                   width : BufferWidths,                 \* of the constraints it sent
                   copied : Shapes \cup {"clear", None},    \* to this session
                   frame : BOOLEAN,                 \* one to be copied to
                   missed : BOOLEAN]                \* history: it left unheard
    /\ st \in [entered : BOOLEAN \cup {None}, position : CursorSpots \cup {None},
               size : BufferWidths \cup {None}, ready : BOOLEAN,
               failed : {"stopped", "constraints", "unknown", None}, stopped : BOOLEAN]
    /\ cur \in [at : {"setup", "loop", "done"}, owner : {"waits", "has", "stops", "left", "none"},
                stop : BOOLEAN,
                inside : BOOLEAN, hidden : BOOLEAN,             \* Positions
                latest : CursorSpots \cup {None}, sent : CursorSpots \cup {None},
                buffer : [width : BufferWidths, px : Pixels] \cup {None},
                frame : BOOLEAN, failed : BOOLEAN, have : BOOLEAN, stale : BOOLEAN,
                failures : 0 .. MaxSprites, empty : 0 .. MaxEmpty + 1,
                last : Pixels \cup {None}]
    /\ told \in [pointer : CursorSpots \cup {"hidden", None},
                 sprite : Pixels \cup {None}, unavailable : BOOLEAN]

NoEvents == [entered |-> None, position |-> None, size |-> None, ready |-> FALSE,
             failed |-> None, stopped |-> FALSE]

CursorInit ==
    /\ \E s \in CursorSpots, i \in Shapes :
         scene = [over |-> FALSE, at |-> s, image |-> i, width |-> WidthOf(i),
                   copied |-> None, frame |-> FALSE, missed |-> FALSE]
    /\ st = NoEvents
    /\ cur = [at |-> "setup", owner |-> "waits", stop |-> FALSE,
              inside |-> FALSE, hidden |-> FALSE, latest |-> None, sent |-> None,
              buffer |-> None, frame |-> FALSE, failed |-> FALSE, have |-> FALSE,
              stale |-> FALSE, failures |-> 0, empty |-> 0, last |-> None]
    /\ told = [pointer |-> None, sprite |-> None, unavailable |-> FALSE]

-----------------------------------------------------------------------------
(* The compositor.  A session that opens says where the pointer is and what*)
(* buffer it wants.                                                        *)

Greeting(over) == [NoEvents EXCEPT !.entered = IF over THEN TRUE ELSE None,
                                   !.position = IF over THEN scene.at ELSE None,
                                   !.size = scene.width]

Open == cur.at = "loop" /\ ~st.stopped

Enters ==
    /\ Open /\ ~scene.over
    /\ \E s \in CursorSpots :
         /\ scene' = [scene EXCEPT !.over = TRUE, !.at = s, !.missed = FALSE]
         /\ st' = [st EXCEPT !.entered = TRUE, !.position = s]
    /\ UNCHANGED <<cur, told>>

PointerMoves ==
    /\ Open /\ scene.over
    /\ \E s \in CursorSpots \ {scene.at} :
         /\ scene' = [scene EXCEPT !.at = s]
         /\ st' = [st EXCEPT !.position = s]
    /\ UNCHANGED <<cur, told>>

PointerLeaves ==
    /\ Open /\ scene.over
    /\ scene' = [scene EXCEPT !.over = FALSE]
    /\ st' = [st EXCEPT !.entered = FALSE]
    /\ UNCHANGED <<cur, told>>

\* A buffer of another size is asked for by a batch closed with done.
ShapeChanges ==
    /\ Open
    /\ \E i \in (Shapes \cup {"clear"}) \ {scene.image} :
         LET width == IF i = "clear" THEN scene.width ELSE WidthOf(i) IN
         /\ scene' = [scene EXCEPT !.image = i, !.width = width]
         /\ st' = IF width # scene.width THEN [st EXCEPT !.size = width] ELSE st
    /\ UNCHANGED <<cur, told>>

\* The first frame of a session is copied at once, a later one when the image
\* has changed; off the output, Hyprland copies a placeholder.
CopiesSprite ==
    /\ Open /\ scene.frame
    /\ cur.buffer.width = scene.width
    /\ scene.copied # scene.image
    /\ scene' = [scene EXCEPT !.frame = FALSE, !.copied = scene.image]
    /\ cur' = [cur EXCEPT !.buffer.px = IF scene.over THEN scene.image ELSE "placeholder"]
    /\ st' = [st EXCEPT !.ready = TRUE]
    /\ UNCHANGED told

FailsSprite ==
    /\ Open /\ scene.frame
    /\ \E why \in {"stopped", "constraints", "unknown"} :
         /\ why = "constraints" => cur.buffer.width # scene.width
         /\ st' = [st EXCEPT !.failed = why]
    /\ scene' = [scene EXCEPT !.frame = FALSE]
    /\ UNCHANGED <<cur, told>>

StopsSession ==
    /\ Open
    /\ st' = [st EXCEPT !.stopped = TRUE]
    /\ UNCHANGED <<scene, cur, told>>

-----------------------------------------------------------------------------
(* One round of the loop, part by part: each takes what the thread has and *)
(* told so far, and gives it on.                                           *)

\* Positions: enter or leave, then the last position.
\* Mutant: what was sent before counts after.
LeftKeepingSent(c) == [c EXCEPT !.inside = FALSE]

LeftInside(c) == [c EXCEPT !.inside = FALSE, !.latest = None, !.sent = None]
CursorMoved(c) ==
    LET e == CASE st.entered = TRUE -> [c EXCEPT !.inside = TRUE]
               [] st.entered = FALSE -> LeftInside(c)
               [] OTHER -> c
    IN  IF st.position = None THEN e ELSE [e EXCEPT !.latest = st.position]

\* poll: hidden once, a new position unless it is too soon.
CursorPolled(r, soon) ==
    LET c == r.cur IN
    CASE ~c.inside /\ ~c.hidden ->
            [cur |-> [c EXCEPT !.hidden = TRUE], told |-> [r.told EXCEPT !.pointer = "hidden"]]
      [] c.inside /\ c.latest # None /\ c.sent # c.latest /\ ~soon ->
            [cur |-> [c EXCEPT !.sent = c.latest, !.hidden = FALSE],
             told |-> [r.told EXCEPT !.pointer = c.latest]]
      [] OTHER -> r

GivesUpSprite(r) == [cur |-> [r.cur EXCEPT !.failed = TRUE],
                     told |-> [r.told EXCEPT !.unavailable = TRUE]]

\* A buffer that fits what the compositor wants, or no format to read.
Fitted(r, readable) ==
    IF r.cur.failed \/ st.size = None
       \/ (r.cur.buffer # None /\ r.cur.buffer.width = st.size)
    THEN r
    ELSE LET c == [r.cur EXCEPT !.frame = FALSE, !.buffer = None]
         IN  IF readable
             THEN [r EXCEPT !.cur = [c EXCEPT !.buffer = [width |-> st.size, px |-> "nothing"]]]
             ELSE GivesUpSprite([r EXCEPT !.cur = c])

\* An image that is no cursor: unless one was sent before, fetch it again.
EmptyCopy(r) ==
    LET n == IF r.cur.inside /\ ~r.cur.have /\ r.cur.empty <= MaxEmpty
             THEN r.cur.empty + 1 ELSE r.cur.empty
        c == [r.cur EXCEPT !.empty = n]
    IN  IF n > MaxEmpty /\ ~c.failed THEN GivesUpSprite([r EXCEPT !.cur = c])
        ELSE [r EXCEPT !.cur = [c EXCEPT !.stale = TRUE]]

\* Mutant: a hidden pointer is sent before there was another.
SendsAnything(c, kind) == kind # "placeholder"

Sends(c, kind) == kind = "cursor" \/ (kind = "clear" /\ c.have)

Copied(r) ==
    LET c == [r.cur EXCEPT !.frame = FALSE, !.failures = 0]
        px == c.buffer.px
        s == [r EXCEPT !.cur = c]
    IN  IF c.buffer = None THEN s
        ELSE IF ~Sends(c, SpriteKind(px)) THEN EmptyCopy(s)
        ELSE IF c.last = px THEN s
        ELSE [cur |-> [c EXCEPT !.have = TRUE, !.last = px],
              told |-> [s.told EXCEPT !.sprite = px]]

\* Mutant: the buffer stays when the sprite is given up.
NotCopiedKeeping(r) ==
    LET c == [r.cur EXCEPT !.frame = FALSE] IN
    CASE st.failed = "constraints" -> [r EXCEPT !.cur = [c EXCEPT !.buffer = None]]
      [] c.failures + 1 < MaxSprites -> [r EXCEPT !.cur = [c EXCEPT !.failures = c.failures + 1]]
      [] OTHER -> [cur |-> c, told |-> [r.told EXCEPT !.unavailable = TRUE]]

NotCopied(r) ==
    LET c == [r.cur EXCEPT !.frame = FALSE] IN
    CASE st.failed = "constraints" -> [r EXCEPT !.cur = [c EXCEPT !.buffer = None]]
      [] c.failures + 1 < MaxSprites -> [r EXCEPT !.cur = [c EXCEPT !.failures = c.failures + 1]]
      [] OTHER -> GivesUpSprite([r EXCEPT !.cur = [c EXCEPT !.buffer = None]])

\* ready before failed; then another frame, if there is none.
Sprite(r) ==
    LET s == IF st.ready THEN Copied(r) ELSE IF st.failed # None THEN NotCopied(r) ELSE r
    IN  [s EXCEPT !.cur.frame = s.cur.frame \/ (s.cur.buffer # None /\ ~s.cur.failed)]

Ended(r) == [r EXCEPT !.cur = [r.cur EXCEPT !.at = "done", !.frame = FALSE, !.buffer = None]]

\* The half second has passed: the session is opened anew.
Reopens(r) == [r EXCEPT !.cur = [r.cur EXCEPT !.stale = FALSE, !.frame = FALSE, !.buffer = None]]

Commits(r) == cur' = r.cur /\ told' = r.told

\* What the compositor has said since the thread last looked goes to the old
\* session and is dropped with it.  The new one is told where the pointer is,
\* so that nothing is missed but that it has left the output: no session is
\* told that.
LoopReopens ==
    /\ Open /\ ~cur.stop
    /\ \E soon \in BOOLEAN :
         LET r == CursorPolled([cur |-> CursorMoved(cur), told |-> told], soon) IN
         /\ r.cur.stale /\ ~r.cur.failed /\ r.cur.inside
         /\ Commits(Reopens(r))
    /\ \E leaves \in {FALSE, scene.over} :
         /\ scene' = [scene EXCEPT !.copied = None, !.frame = FALSE,
                                   !.over = @ /\ ~leaves, !.missed = @ \/ leaves]
         /\ st' = [Greeting(scene.over /\ ~leaves)
                     EXCEPT !.ready = st.ready, !.failed = st.failed]

Loop ==
    /\ Open /\ ~cur.stop
    /\ \E soon, readable \in BOOLEAN :
         LET r == Sprite(Fitted(CursorPolled([cur |-> CursorMoved(cur), told |-> told], soon), readable))
             over == ~st.ready /\ st.failed = "stopped"
         IN  /\ Commits(IF over THEN Ended(r) ELSE r)
             /\ scene' = [scene EXCEPT !.frame = r.cur.frame /\ ~over]
    /\ st' = [NoEvents EXCEPT !.failed = IF st.ready THEN st.failed ELSE None,
                              !.size = st.size]

\* stop, stopped, or an error of the connection or of a buffer.
LoopEnds ==
    /\ cur.at = "loop"
    /\ Commits(Ended([cur |-> cur, told |-> told]))
    /\ scene' = [scene EXCEPT !.frame = FALSE]
    /\ UNCHANGED st

-----------------------------------------------------------------------------
(* CursorThread::spawn and stop.                                           *)

SetUp ==
    /\ cur.at = "setup"
    /\ cur' = [cur EXCEPT !.at = "loop", !.owner = IF @ = "waits" THEN "has" ELSE @]
    /\ st' = Greeting(scene.over)
    /\ UNCHANGED <<scene, told>>

SetUpFails ==
    /\ cur.at = "setup"
    /\ cur' = [cur EXCEPT !.at = "done", !.owner = IF @ = "waits" THEN "none" ELSE @]
    /\ UNCHANGED <<scene, st, told>>

\* After 5 s the thread is left, told to stop.
SpawnTimesOut ==
    /\ cur.owner = "waits"
    /\ cur' = [cur EXCEPT !.owner = "left", !.stop = TRUE]
    /\ UNCHANGED <<scene, st, told>>

StopsThread ==
    /\ cur.owner = "has"
    /\ cur' = [cur EXCEPT !.owner = "stops", !.stop = TRUE]
    /\ UNCHANGED <<scene, st, told>>

JoinsThread ==
    /\ cur.owner = "stops" /\ cur.at = "done"
    /\ cur' = [cur EXCEPT !.owner = "none"]
    /\ UNCHANGED <<scene, st, told>>

CursorNext ==
    \/ Enters \/ PointerMoves \/ PointerLeaves \/ ShapeChanges
    \/ CopiesSprite \/ FailsSprite \/ StopsSession
    \/ LoopReopens \/ Loop \/ LoopEnds
    \/ SetUp \/ SetUpFails \/ SpawnTimesOut \/ StopsThread \/ JoinsThread

CursorSpec == CursorInit /\ [][CursorNext]_cursorVars

-----------------------------------------------------------------------------
(* Properties.                                                             *)

\* Until a real cursor image was sent none is: the video keeps its own cursor
\* until then, and a hidden or an empty one would leave the receiver none.
FirstSpriteIsReal == [][told.sprite = None => told'.sprite \in Shapes \cup {None}]_cursorVars

\* The sprite that is given up is given up for good: the session switches to
\* a painted cursor on it, and no image comes after.
GivenUpIsFinal == [][told.unavailable => told'.sprite = told.sprite]_cursorVars

\* The receiver's pointer is where the output's is, or hidden, whatever was
\* coalesced: whenever the loop has nothing left to look at or to wait for,
\* unless the pointer left while a session was given up for another
\* (LoopReopens) and has not been back.
Idle == cur.at = "loop" /\ st.entered = None /\ st.position = None /\ cur.sent = cur.latest
ShownRight == told.pointer = IF scene.over THEN scene.at ELSE "hidden"
PointerShown == Idle /\ told.pointer # None /\ ~scene.missed => ShownRight

\* The same without that exception: the thread tells "where the hotspot is"
\* by "enter/leave/position events" (cursor.rs:3).  This does not hold: the
\* receiver goes on drawing a pointer that has left the output.
LeavingIsTold == Idle /\ told.pointer # None => ShownRight

\* What is sent was copied: "cursorImg delivers the current cursor sprite"
\* (PROTOCOL.md:450).  This does not hold: that the copy before was ready is
\* still noted when a new buffer, which nothing was copied to, is looked at.
SpriteIsACopy == told.sprite # "nothing"

\* Over the life of one display the receiver's pointer is the output's: it
\* comes with a real image, goes for good when the thread gives up
\* (CursorLoop), and rests where the pointer rests if that is on the output
\* or if the thread heard it leave.
PointerIsTrue == []PointerShown /\ FirstSpriteIsReal /\ GivenUpIsFinal
=============================================================================
