--------------------------- MODULE ReceiverVideo ---------------------------
(***************************************************************************)
(* How a receiver shows a picture: GstOutput in                            *)
(* linux/crates/od-receiver/src/video.rs, with the host loop that feeds it *)
(* (lib.rs) and the one bit of the session it depends on, whether access   *)
(* units are dropped until an IDR.                                         *)
(*                                                                         *)
(* decodebin3 plugs the highest-ranked decoder.  One that fails, or shows  *)
(* nothing, before any frame was shown has its rank taken and the pipeline *)
(* is built anew; a pipeline that stops showing frames is built anew too.  *)
(* The pipeline itself is GStreamer's: what is pushed into it, what its    *)
(* decoder does with it, and its bus.                                      *)
(*                                                                         *)
(* The counts of frames since the pipeline began are kept as what is left  *)
(* of Patience; log lines, statistics and the sinks' names are left out.   *)
(* A decoder works here when it shows an IDR within Prompt frames and a    *)
(* second of it.  Two history variables tell how a decoder was given up:   *)
(* early, by the count of frames before it was given Patience of them, and *)
(* spoilt, after its first pictures were flushed away.                     *)
(***************************************************************************)
EXTENDS Option, Naturals, FiniteSets

CONSTANTS
    Decoders,       \* 1 is the highest-ranked
    Patience,       \* frames without a picture before a decoder is given up: 15
    MaxDoublings,   \* frozen_wait doubles this often: 5
    TickEvery,      \* frames that arrive between two ticks of the host, at most
    Prompt,         \* frames a working decoder needs for its first picture
    MayNotBuild     \* GstOutput::build and the restart of a pipeline may fail

ASSUME VideoAssumption ==
    /\ Decoders = 1 .. Cardinality(Decoders) /\ IsFiniteSet(Decoders)
    /\ 1 \in Decoders                  \* GstOutput::new refuses to run without one
    /\ None \notin Decoders
    /\ {Patience, TickEvery, Prompt} \subseteq Nat \ {0} /\ MaxDoublings \in Nat
    /\ Prompt < Patience
    /\ MayNotBuild \in BOOLEAN

VARIABLES
    out,            \* GstOutput
    gst,            \* the pipeline it runs
    host            \* the host loop and the session

videoOutVars == <<out, gst, host>>

VideoOutTypeOK ==
    /\ out \in [pinned : BOOLEAN,
                demoted : SUBSET Decoders,
                early : SUBSET Decoders, spoilt : SUBSET Decoders,
                left : 0 .. Patience,           \* stall_after - pushed
                idr : {"none", "fresh", "late"},\* first_idr_at, against a second
                shown : BOOLEAN,                \* rendered # 0
                news : BOOLEAN,                 \* rendered # last_rendered
                pushed : 0 .. Patience,         \* pushed - pushed_at_render
                idle : 0 .. 2 ^ MaxDoublings,   \* last_render_at, in seconds
                rebuilds : 0 .. MaxDoublings,   \* frozen_rebuilds
                pending : BOOLEAN]
    /\ gst \in [works : SUBSET Decoders, silent : SUBSET Decoders,
                decoder : Decoders \cup {None}, playing : BOOLEAN,
                primed : BOOLEAN, held : BOOLEAN, fed : 0 .. Patience,
                flushed : BOOLEAN, frozen : BOOLEAN, failed : BOOLEAN]
    /\ host \in [waiting : BOOLEAN, sinceTick : 0 .. TickEvery]

\* A pipeline just built: a decoder that was asked for by name is part of it.
NewPipeline(g, pinned) ==
    [g EXCEPT !.decoder = IF pinned THEN 1 ELSE None, !.playing = TRUE,
              !.primed = FALSE, !.held = FALSE, !.fed = 0, !.flushed = FALSE,
              !.frozen = FALSE, !.failed = FALSE]

VideoOutInit ==
    \E pinned \in BOOLEAN, works, silent \in SUBSET Decoders :
        /\ works \cap silent = {}
        /\ out = [pinned |-> pinned, demoted |-> {}, early |-> {}, spoilt |-> {},
                  left |-> Patience, idr |-> "none", shown |-> FALSE, news |-> FALSE,
                  pushed |-> 0, idle |-> 0, rebuilds |-> 0, pending |-> FALSE]
        /\ gst = NewPipeline([works |-> works, silent |-> silent, decoder |-> None,
                              playing |-> FALSE, primed |-> FALSE, held |-> FALSE,
                              fed |-> 0, flushed |-> FALSE, frozen |-> FALSE,
                              failed |-> FALSE], pinned)
        /\ host = [waiting |-> TRUE, sinceTick |-> 0]

-----------------------------------------------------------------------------
(* The checks.  Each takes the output and the pipeline as they are in the  *)
(* middle of a call, and says how it may end: [o, g, ok].                  *)

Same(o, g) == {[o |-> o, g |-> g, ok |-> TRUE]}

\* Mutant: the clock of the old pipeline's first IDR runs on.
RecreatedOnOldClock(o, g) ==
    {[o |-> o, g |-> NewPipeline(g, o.pinned), ok |-> TRUE]}

\* recreate: the old pipeline is stopped first; a new one waits for an IDR.
Recreated(o, g) ==
    {[o |-> [o EXCEPT !.idr = "none"], g |-> NewPipeline(g, o.pinned), ok |-> TRUE]}
    \cup IF MayNotBuild
         THEN {[o |-> o, ok |-> FALSE,
                g |-> [g EXCEPT !.playing = FALSE, !.failed = FALSE, !.held = FALSE]]}
         ELSE {}

\* A decoder whose rank can be taken.
Demotable(o, g) == g.decoder # None /\ g.decoder \notin o.demoted

\* What check_stall and check_frozen write after a recreate, unless it failed.
Then(r, o) == IF r.ok THEN [r EXCEPT !.o = o] ELSE r

\* The rank is taken of a decoder that showed nothing for Patience frames, or
\* for a second: early if it was not given as many, spoilt if they were flushed.
GivenUp(o, g) ==
    [o EXCEPT !.demoted = @ \cup {g.decoder},
              !.early = IF o.idr # "late" /\ g.fed < Patience THEN @ \cup {g.decoder} ELSE @,
              !.spoilt = IF g.flushed THEN @ \cup {g.decoder} ELSE @]

\* Mutant: the pipeline is built anew and the decoder keeps its rank.
StalledKeepingRank(o, g) ==
    {Then(r, [r.o EXCEPT !.left = Patience, !.pending = TRUE]) : r \in Recreated(o, g)}

\* check_stall, nothing shown for too long: the decoder's rank is taken.
Stalled(o, g) ==
    {Then(r, [r.o EXCEPT !.left = Patience, !.pending = TRUE]) : r \in Recreated(GivenUp(o, g), g)}

\* check_frozen: nothing new shown, though frames keep coming.
Frozen(o, g) ==
    IF o.pushed < Patience \/ o.idle < 2 ^ o.rebuilds THEN Same(o, g)
    ELSE LET counted == [o EXCEPT !.rebuilds = IF @ < MaxDoublings THEN @ + 1 ELSE @]
         IN  {Then(r, [r.o EXCEPT !.pushed = 0, !.idle = 0, !.pending = TRUE]) :
              r \in Recreated(counted, g)}

CheckStall(o, g) ==
    CASE o.shown /\ o.news ->
            Same([o EXCEPT !.news = FALSE, !.pushed = 0, !.idle = 0, !.rebuilds = 0], g)
      [] o.shown /\ ~o.news -> Frozen(o, g)
      [] ~o.shown /\ (o.left = 0 \/ o.idr = "late") /\ ~o.pinned /\ Demotable(o, g) ->
            Stalled(o, g)
      [] OTHER -> Same(o, g)

-----------------------------------------------------------------------------
(* The host loop.                                                          *)

\* A decoder that works has shown what it was given by now.
Overdue ==
    /\ gst.decoder \in gst.works /\ gst.playing /\ gst.primed /\ gst.held
    /\ ~gst.frozen /\ gst.fed >= Prompt

\* decodebin3 plugs while frames arrive.
DisplayUnplugged == gst.playing /\ gst.primed /\ gst.decoder = None /\ Decoders \ out.demoted # {}

PushedOut(idr) ==
    [out EXCEPT !.left = IF @ > 0 THEN @ - 1 ELSE 0,
                !.pushed = IF @ < Patience THEN @ + 1 ELSE @,
                !.idr = IF idr /\ @ = "none" THEN "fresh" ELSE @]

PushedIn(idr) ==
    LET primed == gst.primed \/ idr
    IN  [gst EXCEPT !.primed = primed, !.held = primed,
                    !.fed = IF primed /\ @ < Patience THEN @ + 1 ELSE @]

\* An access unit the session lets through: push.  The host answers an error
\* with DecodeLost, from which the session waits for an IDR.
Push(idr) ==
    /\ host.sinceTick < TickEvery /\ ~Overdue /\ ~DisplayUnplugged
    /\ idr \/ ~host.waiting
    /\ IF gst.playing
       THEN \E r \in CheckStall(PushedOut(idr), PushedIn(idr)) :
               /\ out' = r.o /\ gst' = r.g
               /\ host' = [waiting |-> ~r.ok, sinceTick |-> host.sinceTick + 1]
       ELSE /\ host' = [waiting |-> TRUE, sinceTick |-> host.sinceTick + 1]
            /\ UNCHANGED <<out, gst>>

\* ResetDecoder: the session waits for the IDR that follows.  What the decoder
\* has not shown is gone; reset leaves first_idr_at and stall_after as they are.
ResetPipeline ==
    /\ gst' = [gst EXCEPT !.flushed = @ \/ gst.held,
                          !.primed = FALSE, !.held = FALSE, !.fed = 0]
    /\ host' = [host EXCEPT !.waiting = TRUE]
    /\ UNCHANGED out

\* rebuild: the same pipeline, stopped and started.  One that does not start
\* stays stopped, and may say so on its bus.
Restarted(g) ==
    LET started == [g EXCEPT !.playing = TRUE, !.primed = FALSE, !.held = FALSE, !.fed = 0,
                             !.frozen = FALSE, !.failed = FALSE]
    IN  {started} \cup
        IF MayNotBuild
        THEN {[started EXCEPT !.playing = FALSE, !.failed = said] : said \in BOOLEAN}
        ELSE {}

\* The bus has an error: before anything was shown it is the decoder's fault.
BusError(o, g) ==
    IF ~o.shown /\ Demotable(o, g)
    THEN Recreated([o EXCEPT !.demoted = @ \cup {g.decoder}], g)
    ELSE {[o |-> o, g |-> h, ok |-> TRUE] : h \in Restarted(g)}

\* The tick: poll_error.  Anything it reports, the host passes on.
Poll ==
    \E r \in CheckStall(out, gst) :
        LET lost == r.o.pending \/ r.g.failed IN
        /\ IF r.o.pending \/ ~r.g.failed
           THEN out' = [r.o EXCEPT !.pending = FALSE] /\ gst' = r.g
           ELSE \E b \in BusError(r.o, r.g) : out' = b.o /\ gst' = b.g
        /\ host' = [waiting |-> host.waiting \/ lost, sinceTick |-> 0]

-----------------------------------------------------------------------------
(* The pipeline and the clock.                                             *)

Best(S) == CHOOSE d \in S : \A e \in S : d <= e

\* decodebin3 looks for a decoder once the parser has seen a parameter set.
Plug ==
    /\ DisplayUnplugged
    /\ gst' = [gst EXCEPT !.decoder = Best(Decoders \ out.demoted)]
    /\ UNCHANGED <<out, host>>

\* ... and says on the bus when there is none left.
PlugsNothing ==
    /\ gst.playing /\ gst.primed /\ gst.decoder = None /\ ~gst.failed
    /\ Decoders = out.demoted
    /\ gst' = [gst EXCEPT !.failed = TRUE]
    /\ UNCHANGED <<out, host>>

\* The probe before the sink counts a picture.
Show ==
    /\ gst.decoder \in gst.works /\ gst.playing /\ gst.primed /\ gst.held /\ ~gst.frozen
    /\ gst' = [gst EXCEPT !.held = FALSE]
    /\ out' = [out EXCEPT !.shown = TRUE, !.news = TRUE]
    /\ UNCHANGED host

\* Presentation stops for good, without an error (#387).
Freeze ==
    /\ out.shown /\ gst.playing /\ ~gst.frozen
    /\ gst' = [gst EXCEPT !.frozen = TRUE]
    /\ UNCHANGED <<out, host>>

\* A decoder that fails says so; one that works may once it has shown something.
Fail ==
    /\ gst.decoder # None /\ gst.playing /\ gst.held /\ ~gst.failed
    /\ gst.decoder \notin gst.silent
    /\ gst.decoder \in gst.works => out.shown
    /\ gst' = [gst EXCEPT !.failed = TRUE]
    /\ UNCHANGED <<out, host>>

\* A second: a decoder that works shows an IDR within it.
Second ==
    /\ ~Overdue /\ ~DisplayUnplugged
    /\ gst.decoder \in gst.works /\ gst.held => out.shown
    /\ out' = [out EXCEPT !.idr = IF @ = "fresh" THEN "late" ELSE @,
                          !.idle = IF @ < 2 ^ MaxDoublings THEN @ + 1 ELSE @]
    /\ UNCHANGED <<gst, host>>

VideoOutNext ==
    \/ Push(TRUE) \/ Push(FALSE) \/ ResetPipeline \/ Poll
    \/ Plug \/ PlugsNothing \/ Show \/ Freeze \/ Fail \/ Second

\* The host ticks, GStreamer's threads run, the sender answers a request for
\* an IDR, and time passes.  Nothing says when a parameter set changes.
VideoOutFairness ==
    /\ WF_videoOutVars(Poll) /\ SF_videoOutVars(Plug) /\ SF_videoOutVars(Show)
    /\ SF_videoOutVars(Fail /\ gst.decoder \notin gst.works)
    /\ SF_videoOutVars(Push(TRUE)) /\ SF_videoOutVars(Second)

VideoOutSpec == VideoOutInit /\ [][VideoOutNext]_videoOutVars /\ VideoOutFairness

-----------------------------------------------------------------------------
(* Properties.                                                             *)

\* A pipeline that has had no IDR is not fed what it cannot decode for ever:
\* either the session already drops everything else, or the error that makes
\* it do so waits for the next tick.
NewPipelineAsks == gst.playing /\ ~gst.primed => host.waiting \/ out.pending

\* A decoder that works is not given up for what became of another: not by the
\* clock of an IDR that another pipeline was given, and not for an error it did
\* not have.  It is if the count of frames it is judged by is not its own, see
\* OwnFrames, or if a reset flushed its first pictures away.
WorkingIsKept == out.demoted \cap gst.works \subseteq out.early \cup out.spoilt

\* "After 15 frames ... with nothing shown, demote it" (check_stall): a decoder
\* that works is not given up by the count of frames before it was given as
\* many.  This does not hold: poll_error gives up a decoder that fails and
\* leaves stall_after as it is, so the next one is judged by what is left.
OwnFrames == out.early \cap gst.works = {}

\* A machine that has a decoder that works ends up showing a picture, however
\* many that are ranked before it fail or stay silent, unless one that works
\* is given up early or spoilt (WorkingIsKept), the user named one that does
\* not, or a pipeline cannot be built.
WorkingIsFound ==
    (gst.works # {} /\ (out.pinned => 1 \in gst.works)) ~>
        (out.shown \/ ~gst.playing \/ (out.early \cup out.spoilt) \cap gst.works # {})

\* A pipeline that was stopped and could not be built again is tried again.
\* This does not hold: recreate leaves the stopped one in place.
StoppedIsRetried == ~gst.playing ~> gst.playing

\* A restart does not make things worse: the pipeline it builds asks for the
\* IDR it needs, and no decoder that works is given up for another's clock or
\* error (GstOutput::check_stall, poll_error, recreate).
RestartsHelp == NewPipelineAsks /\ WorkingIsKept
=============================================================================
