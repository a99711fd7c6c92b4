--------------------------- MODULE EncodePipeline ---------------------------
(***************************************************************************)
(* The sender's encode thread and the channels around it: EncodePipeline   *)
(* in linux/crates/od-sender/src/session.rs.  The capture thread puts its  *)
(* newest picture in a one-slot channel (latest.rs), the encode thread     *)
(* turns pictures into access units, and the session thread takes those    *)
(* from a bounded queue and asks for IDRs through one atomic flag.         *)
(*                                                                         *)
(* One turn of the encode thread is four steps: it polls the slot, picks a *)
(* picture and swaps the flag, encodes, and sends the units.  The pick and *)
(* the swap are one step although the code opens the encoder in between:   *)
(* meanwhile other threads can only set the flag, which the swap sees just *)
(* as if it had been set before the pick.                                  *)
(*                                                                         *)
(* A picture is a record of the picture's number and of the size of the    *)
(* buffer; the size stands for the parameter sets of its stream.  The      *)
(* encoders (ffmpeg.rs, openh264.rs) are external: Quirks says how far one *)
(* may stray from returning, for every picture, the one unit asked for.    *)
(***************************************************************************)
EXTENDS Wire, FiniteSets

CONSTANTS
    Pictures,       \* numbers of captured pictures
    QueueSize,      \* capacity of the channel of encoded units
    Quirks          \* subset of EncoderQuirks

EncoderQuirks == {
    "noInit",       \* Encoder::new may return an error
    "stumbles",     \* encode may return an error for a picture not forced
    "fails",        \* encode may return an error for any picture
    "ignores",      \* a forced picture may come out as a P frame
    "lags"}         \* a unit may come out with the next one ("can lag by one")

Frames == [pic : Pictures, size : ParamSets]

ASSUME PipelineAssumption ==
    /\ QueueSize \in Nat \ {0}
    /\ Quirks \subseteq EncoderQuirks
    /\ None \notin Pictures \cup Frames

VARIABLES
    enc,            \* the encode thread, its slot and its flag
    encoded         \* the channel of encoded units

pipeVars == <<enc, encoded>>

-----------------------------------------------------------------------------
EncodedUnits ==
    [type : {"video"}, ok : {TRUE}, idr : BOOLEAN,
     params : ParamSets \cup {None}, pic : Pictures]

PipelineTypeOK ==
    /\ enc \in [at : {"off", "poll", "choose", "encode", "send"},
                slot : Frames \cup {None},
                pending : Frames \cup {None},
                last : Frames \cup {None},
                work : Frames \cup {None},
                capped : BOOLEAN,
                opened : ParamSets \cup {None},
                fresh : BOOLEAN,
                force : BOOLEAN,
                forced : BOOLEAN,
                held : Seq(EncodedUnits),
                out : Seq(EncodedUnits)]
    /\ encoded \in Seq(EncodedUnits)
    /\ Len(encoded) <= QueueSize

Stopped ==
    [at |-> "off", slot |-> None, pending |-> None, last |-> None, work |-> None,
     capped |-> FALSE, opened |-> None, fresh |-> FALSE, force |-> FALSE,
     forced |-> FALSE, held |-> << >>, out |-> << >>]

\* EncodePipeline::start: a new thread, and the first unit is to be an IDR.
Started == [Stopped EXCEPT !.at = "poll", !.force = TRUE]

Running == enc.at # "off"

PipelineInit == enc = Stopped /\ encoded = << >>

\* Dropping the old pipe closes its queue, so what is in it is gone.
StartPipeline == enc' = Started /\ encoded' = << >>
StopPipeline == enc' = Stopped /\ encoded' = << >>

-----------------------------------------------------------------------------
(* The capture thread and the session thread.                              *)

\* latest::Sender::send: a picture not yet taken is replaced.
Capture(f) ==
    /\ Running
    /\ enc' = [enc EXCEPT !.slot = f]
    /\ UNCHANGED encoded

WithIdrForced == IF Running THEN [enc EXCEPT !.force = TRUE] ELSE enc

TakeEncoded ==
    /\ encoded # << >>
    /\ encoded' = Tail(encoded)
    /\ UNCHANGED enc

-----------------------------------------------------------------------------
(* The encode thread.                                                      *)

\* The interval of the rate cap is over.
CapPasses ==
    /\ enc.capped
    /\ enc' = [enc EXCEPT !.capped = FALSE]
    /\ UNCHANGED encoded

\* Mutant: a static screen is not replayed.
NoReplay == FALSE

\* With no new picture, an IDR asked for is made by replaying the last one.
Replays == enc.pending = None /\ enc.force /\ enc.last # None

\* recv_timeout: a picture, or nothing before the timeout.  A timeout that
\* leaves the thread nothing to do changes nothing and is left out.
Poll ==
    /\ enc.at = "poll"
    /\ enc.slot # None \/ (enc.pending # None /\ ~enc.capped) \/ Replays
    /\ enc' = [enc EXCEPT
                 !.at = "choose",
                 !.slot = None,
                 !.pending = IF enc.slot # None THEN enc.slot ELSE @]
    /\ UNCHANGED encoded

\* Mutant: a picture inside the rate cap is dropped.
DropCapped ==
    /\ enc.at = "choose"
    /\ enc.pending # None
    /\ enc.capped
    /\ enc' = [enc EXCEPT !.at = "poll", !.pending = None]
    /\ UNCHANGED encoded

\* A picture waits out the rate cap in pending.
WaitForSlot ==
    /\ enc.at = "choose"
    /\ enc.pending # None
    /\ enc.capped
    /\ enc' = [enc EXCEPT !.at = "poll"]
    /\ UNCHANGED encoded

Chosen == IF Replays THEN enc.last ELSE enc.pending

Ready ==
    /\ enc.at = "choose"
    /\ Replays \/ (enc.pending # None /\ ~enc.capped)

\* A picture of another size opens a new encoder, which owes an IDR.
Reopens == enc.opened # Chosen.size

BeginEncode ==
    /\ Ready
    /\ enc' = [enc EXCEPT
                 !.at = "encode",
                 !.work = Chosen,
                 !.pending = None,
                 !.last = IF Replays THEN None ELSE @,
                 !.capped = TRUE,
                 !.opened = Chosen.size,
                 !.fresh = @ \/ Reopens,
                 !.held = IF Reopens THEN << >> ELSE @,
                 !.forced = enc.force \/ Reopens,
                 !.force = FALSE]
    /\ UNCHANGED encoded

\* Encoder::new fails: the picture is dropped, the flag is not touched.
OpenFails ==
    /\ "noInit" \in Quirks
    /\ Ready
    /\ Reopens
    /\ enc' = [enc EXCEPT
                 !.at = "poll",
                 !.pending = None,
                 !.last = IF Replays THEN None ELSE @,
                 !.capped = TRUE]
    /\ UNCHANGED encoded

\* The first unit of an encoder is an IDR whatever was asked for, and no
\* unit is an IDR unasked (keyint=infinite).
UnitOf(f, idr) ==
    [type |-> "video", ok |-> TRUE, idr |-> idr,
     params |-> IF idr THEN f.size ELSE None, pic |-> f.pic]

IdrChoices ==
    IF enc.fresh THEN {TRUE}
    ELSE IF ~enc.forced THEN {FALSE}
    ELSE IF "ignores" \in Quirks THEN BOOLEAN ELSE {TRUE}

\* Mutant: an IDR request the encoder ignored is forgotten.
NotAskedAgain(out) == enc.force

\* An IDR request the encoder ignored is made again.
AskedAgain(out) == enc.force \/ (enc.forced /\ \A i \in DOMAIN out : ~out[i].idr)

EncodeOk ==
    /\ enc.at = "encode"
    /\ \E idr \in IdrChoices, lag \in BOOLEAN :
         LET unit == UnitOf(enc.work, idr)
             out  == IF lag THEN enc.held ELSE Append(enc.held, unit)
         IN  /\ lag => "lags" \in Quirks
             /\ enc' = [enc EXCEPT
                          !.at = IF out = << >> THEN "poll" ELSE "send",
                          !.out = out,
                          !.held = IF lag THEN <<unit>> ELSE << >>,
                          !.fresh = FALSE,
                          !.forced = FALSE,
                          !.force = AskedAgain(out),
                          !.last = enc.work,
                          !.work = None]
    /\ UNCHANGED encoded

\* The error is logged; the flag stays as the swap left it.
EncodeFails ==
    /\ "fails" \in Quirks \/ ("stumbles" \in Quirks /\ ~enc.forced)
    /\ enc.at = "encode"
    /\ enc' = [enc EXCEPT !.at = "poll", !.forced = FALSE, !.last = enc.work, !.work = None]
    /\ UNCHANGED encoded

\* Mutant: the queue takes what it is given.
SendUnbounded ==
    /\ enc.at = "send"
    /\ encoded' = Append(encoded, Head(enc.out))
    /\ enc' = [enc EXCEPT !.at = IF Len(enc.out) = 1 THEN "poll" ELSE @,
                          !.out = Tail(@)]

\* blocking_send, unit by unit.
SendUnit ==
    /\ enc.at = "send"
    /\ Len(encoded) < QueueSize
    /\ encoded' = Append(encoded, Head(enc.out))
    /\ enc' = [enc EXCEPT !.at = IF Len(enc.out) = 1 THEN "poll" ELSE @,
                          !.out = Tail(@)]

EncodeThread ==
    \/ Poll \/ WaitForSlot \/ BeginEncode \/ OpenFails
    \/ EncodeOk \/ EncodeFails \/ SendUnit

=============================================================================
