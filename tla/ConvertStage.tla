---------------------------- MODULE ConvertStage ----------------------------
(***************************************************************************)
(* Where the captured pictures are between capture and encoder: the        *)
(* convert stage (encoder/stage.rs) turns wide pictures into pictures of   *)
(* its own on its own thread, others pass by, and the encode thread        *)
(* (EncodePipeline in session.rs) holds pictures in its slot, pending, in  *)
(* the encoder and for a replay.  A picture is "rgb" while it holds the    *)
(* lease of a capture buffer and "yuv" once converted.                     *)
(*                                                                         *)
(* The encoder's own work and its answers are in EncodePipeline, the       *)
(* buffers in Capture; here it matters where the newest picture is and     *)
(* how many leases are out.  `newest` and `passed` are history: no action  *)
(* depends on them.                                                        *)
(***************************************************************************)
EXTENDS Option, Naturals, FiniteSets

CONSTANTS
    LeaseLimit      \* MAX_BUFFERS of the capture

\* From MIN_STAGE_WIDTH on a picture is wide.  A capture's size may change.
Widths == {"wide", "narrow"}

StagePlaces == {"entry", "conv", "slot", "pending", "busy", "last"}

ASSUME StageAssumption ==
    /\ LeaseLimit \in Nat
    /\ None \notin StagePlaces \cup {"rgb", "yuv", "failed", "overtaken"}

VARIABLE stage

StageTypeOK ==
    stage \in [
        entry : {"rgb", None},              \* the stage's slot
        conv : {"rgb", None},               \* in conversion
        slot : {"rgb", "yuv", None},        \* the encode thread's slot
        pending : {"rgb", "yuv", None},
        busy : {"rgb", "yuv", None},        \* being encoded
        last : {"rgb", "yuv", None},        \* kept for an IDR replay
        format : {"fits", "none"},          \* Encoder::yuv_format
        bound : BOOLEAN,                    \* ConvertStage::target is a format
        alive : BOOLEAN,                    \* the stage's thread
        newest : StagePlaces \cup {None, "failed", "overtaken"},    \* history
        passed : BOOLEAN]                   \* history: a narrow one, past wide ones

StageInit ==
    stage \in [entry : {None}, conv : {None}, slot : {None}, pending : {None},
               busy : {None}, last : {None}, format : {"fits", "none"},
               bound : {FALSE}, alive : {TRUE}, newest : {None}, passed : {FALSE}]

\* Where the newest picture is after the one in `from` went to `to`.
Moved(from, to) ==
    IF stage.newest = from THEN to
    ELSE IF stage.newest = to /\ to \in StagePlaces THEN "overtaken" ELSE stage.newest

LeasesOut == Cardinality({p \in StagePlaces : stage[p] = "rgb"})

-----------------------------------------------------------------------------
(* The sink, on the capture thread.                                        *)

\* Mutant: a picture passes by a stage that is busy.
StagedIfIdle(width) ==
    width = "wide" /\ stage.bound /\ stage.alive /\ stage.conv = None

\* ConvertStage::target_for, while the stage's thread is there.
Staged(width) == width = "wide" /\ stage.bound /\ stage.alive

\* A narrow picture, past wide ones that are still in the stage.
Passes(width) ==
    width = "narrow" /\ stage.alive /\ ~(stage.entry = None /\ stage.conv = None)

\* Capture needs a buffer for the picture; it replaces what its slot holds.
SinkFrame ==
    /\ LeasesOut < LeaseLimit
    /\ \E width \in Widths :
         LET to == IF Staged(width) THEN "entry" ELSE "slot"
         IN  stage' = [stage EXCEPT ![to] = "rgb", !.newest = to, !.passed = Passes(width)]

-----------------------------------------------------------------------------
(* The stage's thread.                                                     *)

StageTakes ==
    /\ stage.alive
    /\ stage.entry # None
    /\ stage.conv = None
    /\ stage' = [stage EXCEPT !.conv = stage.entry, !.entry = None,
                              !.newest = Moved("entry", "conv")]

\* The converted picture goes on, its buffer goes back.
StageConverts ==
    /\ stage.conv # None
    /\ stage' = [stage EXCEPT !.slot = "yuv", !.conv = None,
                              !.newest = Moved("conv", "slot")]

\* A conversion that fails drops its picture.
StageFails ==
    /\ stage.conv # None
    /\ stage' = [stage EXCEPT !.conv = None, !.newest = Moved("conv", "failed")]

\* A panic: what is in the stage's slot stays there, out of reach.
StageDies ==
    /\ stage.conv # None
    /\ stage' = [stage EXCEPT
                   !.alive = FALSE, !.conv = None,
                   !.newest = IF @ \in {"entry", "conv"} THEN "failed" ELSE @]

-----------------------------------------------------------------------------
(* The encode thread.                                                      *)

\* Mutant: the slot is looked at while a picture is in the encoder.
TakesAhead ==
    /\ stage.slot # None
    /\ stage' = [stage EXCEPT !.pending = stage.slot, !.slot = None,
                              !.newest = Moved("slot", "pending")]

EncoderTakes ==
    /\ stage.busy = None
    /\ stage.slot # None
    /\ stage' = [stage EXCEPT !.pending = stage.slot, !.slot = None,
                              !.newest = Moved("slot", "pending")]

\* The rate cap allows it.  An encoder was opened, so the stage is bound;
\* it takes pictures of its own format only (encode).
EncoderBegins ==
    /\ stage.busy = None
    /\ stage.pending # None
    /\ stage' = [stage EXCEPT !.busy = stage.pending, !.pending = None,
                              !.bound = (stage.format = "fits"),
                              !.newest = Moved("pending", "busy")]

EncoderOpenFails ==
    /\ stage.busy = None
    /\ stage.pending # None
    /\ stage' = [stage EXCEPT !.pending = None, !.newest = Moved("pending", "failed")]

\* Nothing new, and an IDR was asked for.
EncoderReplays ==
    /\ stage.busy = None /\ stage.pending = None /\ stage.slot = None
    /\ stage.last # None
    /\ stage' = [stage EXCEPT !.busy = stage.last, !.last = None,
                              !.newest = Moved("last", "busy")]

\* Encoded or not, the picture is kept.
EncoderEnds ==
    /\ stage.busy # None
    /\ stage' = [stage EXCEPT !.last = stage.busy, !.busy = None,
                              !.newest = Moved("busy", "last")]

StageNext ==
    \/ SinkFrame
    \/ StageTakes \/ StageConverts \/ StageFails \/ StageDies
    \/ EncoderTakes \/ EncoderBegins \/ EncoderOpenFails \/ EncoderReplays \/ EncoderEnds

StageSpec == StageInit /\ [][StageNext]_stage

-----------------------------------------------------------------------------
(* Properties.                                                             *)

\* MAX_BUFFERS is enough: while no picture is in the convert stage, capture
\* never waits for the encoder, however far behind it is.
CaptureKeepsPace ==
    stage.entry = None /\ stage.conv = None => LeasesOut < LeaseLimit

\* The newest picture is not replaced by an older one on its way, so that it
\* is what a screen that comes to rest shows, whether it went through the
\* convert stage or past it; unless it is a narrow one that came while wide
\* ones were in the stage (SinkFrame, target_for).
NewestKept == stage.newest = "overtaken" => stage.passed

\* The same for every picture: the stage "keeps the slot semantics: a busy
\* stage converts only the newest frame" (stage.rs:7).  This does not hold:
\* when a capture shrinks below MIN_STAGE_WIDTH, its first narrow picture goes
\* to the encoder's slot at once, and the wide one in conversion replaces it.
NeverOvertaken == stage.newest # "overtaken"
=============================================================================
