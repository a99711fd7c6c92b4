------------------------ MODULE ReceiverVideo_proofs ------------------------
(***************************************************************************)
(* Proofs about ReceiverVideo, for any decoders, patience and rate: what   *)
(* the pipeline a restart builds asks for, and whom it gives up.           *)
(***************************************************************************)
EXTENDS ReceiverVideo, WellFoundedInduction, TLAPS

-----------------------------------------------------------------------------
(* The receiver's pipeline.                                                *)

VideoOuts ==
    [pinned : BOOLEAN, demoted : SUBSET Decoders, early : SUBSET Decoders,
     spoilt : SUBSET Decoders, left : 0 .. Patience, idr : {"none", "fresh", "late"},
     shown : BOOLEAN, news : BOOLEAN, pushed : Nat, idle : Nat, rebuilds : Nat, pending : BOOLEAN]
GstPipelines ==
    [works : SUBSET Decoders, silent : SUBSET Decoders, decoder : Decoders \cup {None},
     playing : BOOLEAN, primed : BOOLEAN, held : BOOLEAN, fed : Nat, flushed : BOOLEAN,
     frozen : BOOLEAN, failed : BOOLEAN]
VideoOutTyped ==
    /\ out \in VideoOuts /\ gst \in GstPipelines
    /\ host \in [waiting : BOOLEAN, sinceTick : 0 .. TickEvery]

\* Where a pipeline is that was not flushed and whose decoder may still be given
\* up: one that works has its first frames, and the clock has not run out; with
\* no decoder yet it waits for its IDR, or for decodebin3 to look at it.
Unspoilt(o, g) ==
    /\ g.decoder \in g.works \ o.demoted =>
          g.primed /\ g.held /\ g.fed <= Prompt /\ o.idr # "late"
    /\ g.decoder = None /\ Decoders # o.demoted =>
          IF g.primed THEN g.held /\ g.fed <= 1 /\ o.idr # "late"
          ELSE g.fed = 0 /\ o.idr = "none"

\* A pipeline that has shown nothing: an error is not that of a decoder that
\* works, and one that is stopped has no decoder to give up.
Waits(o, g) ==
    /\ ~g.frozen
    /\ g.failed => IF g.decoder = None THEN Decoders = o.demoted ELSE g.decoder \notin g.works
    /\ ~g.playing => IF g.decoder = None THEN Decoders = o.demoted ELSE g.decoder \in o.demoted
    /\ g.playing /\ ~o.pinned /\ ~g.flushed => Unspoilt(o, g)

Kept(o, g) ==
    /\ o.demoted \cap g.works \subseteq o.early \cup o.spoilt
    /\ ~o.shown => Waits(o, g)

PipelineInv == VideoOutTyped /\ NewPipelineAsks /\ Kept(out, gst)

LEMMA SmallestIs ==
    ASSUME NEW S \in SUBSET Nat, S # {}
    PROVE  Best(S) \in S
<1> DEFINE R == OpToRel(<, Nat)
<1>1. IsWellFoundedOn(R, Nat)
  BY NatLessThanWellFounded
<1>2. \A x, y \in Nat : <<y, x>> \in R <=> y < x
  BY DEF OpToRel
<1> HIDE DEF R
<1>3. PICK x \in S : \A y \in S : ~ (<<y, x>> \in R)
  BY <1>1, WFMin
<1>4. \A y \in S : x <= y
  <2> TAKE y \in S
  <2>1. ~(y < x)
    BY <1>2, <1>3
  <2> QED
    BY <2>1
<1> QED
  BY <1>4 DEF Best

LEMMA NewPipelineIs ==
    ASSUME NEW g \in GstPipelines, NEW pinned \in BOOLEAN, NEW n, n = NewPipeline(g, pinned)
    PROVE  /\ n \in GstPipelines /\ n.works = g.works /\ n.silent = g.silent
           /\ n.decoder = (IF pinned THEN 1 ELSE None) /\ n.playing /\ ~n.primed /\ ~n.held
           /\ n.fed = 0 /\ ~n.flushed /\ ~n.frozen /\ ~n.failed
<1>1. PICK d : d = IF pinned THEN 1 ELSE None
  OBVIOUS
<1>2. d \in Decoders \cup {None}
  BY <1>1, VideoAssumption
<1>3. PICK m : m = [g EXCEPT !.decoder = d, !.playing = TRUE, !.primed = FALSE]
  OBVIOUS
<1>4. PICK h : h = [m EXCEPT !.held = FALSE, !.fed = 0]
  OBVIOUS
<1>5. n = [h EXCEPT !.flushed = FALSE, !.frozen = FALSE, !.failed = FALSE]
  BY <1>1, <1>3, <1>4 DEF NewPipeline
<1>6. /\ m \in GstPipelines /\ m.works = g.works /\ m.silent = g.silent /\ m.decoder = d
      /\ m.playing = TRUE /\ m.primed = FALSE
  BY <1>2, <1>3 DEF GstPipelines
<1>7. /\ h \in GstPipelines /\ h.works = m.works /\ h.silent = m.silent /\ h.decoder = m.decoder
      /\ h.playing = m.playing /\ h.primed = m.primed /\ h.held = FALSE /\ h.fed = 0
  BY <1>4, <1>6 DEF GstPipelines
<1>8. /\ n \in GstPipelines /\ n.works = h.works /\ n.silent = h.silent /\ n.decoder = h.decoder
      /\ n.playing = h.playing /\ n.primed = h.primed /\ n.held = h.held /\ n.fed = h.fed
      /\ n.flushed = FALSE /\ n.frozen = FALSE /\ n.failed = FALSE
  BY <1>7, <1>5 DEF GstPipelines
<1> QED
  BY <1>1, <1>6, <1>7, <1>8

\* What a check leaves of the output and the pipeline, or puts in their place.
SameRanks(o, q) == q.demoted = o.demoted /\ q.early = o.early /\ q.spoilt = o.spoilt

CheckSame(o, g, r) ==
    /\ r.ok /\ r.g = g
    /\ SameRanks(o, r.o) /\ r.o.idr = o.idr /\ r.o.pending = o.pending

CheckGivesUp(o, g, r) ==
    /\ ~o.shown /\ ~o.pinned /\ (o.left = 0 \/ o.idr = "late")
    /\ g.decoder \in Decoders \ o.demoted
    /\ SameRanks(GivenUp(o, g), r.o)
    /\ \/ r.ok /\ r.g = NewPipeline(g, FALSE) /\ r.o.idr = "none" /\ r.o.pending
       \/ ~r.ok /\ ~r.g.playing /\ ~r.g.failed /\ r.g.decoder = g.decoder /\ r.g.frozen = g.frozen

CheckBuildsAnew(o, r) ==
    /\ o.shown /\ SameRanks(o, r.o)
    /\ IF r.ok THEN r.o.pending ELSE ~r.g.playing

CheckEnds(o, g, r) ==
    /\ r.o \in VideoOuts /\ r.g \in GstPipelines /\ r.ok \in BOOLEAN
    /\ r.g.works = g.works /\ r.g.silent = g.silent
    /\ r.o.pinned = o.pinned /\ r.o.shown = o.shown /\ (o.pending => r.o.pending)
    /\ CheckSame(o, g, r) \/ CheckGivesUp(o, g, r) \/ CheckBuildsAnew(o, r)

\* recreate.
LEMMA RecreatedIs ==
    ASSUME NEW o \in VideoOuts, NEW g \in GstPipelines, NEW r \in Recreated(o, g)
    PROVE  \/ /\ r = [o |-> r.o, g |-> NewPipeline(g, o.pinned), ok |-> TRUE]
              /\ r.o = [o EXCEPT !.idr = "none"]
           \/ /\ r = [o |-> o, g |-> r.g, ok |-> FALSE]
              /\ r.g = [g EXCEPT !.playing = FALSE, !.failed = FALSE, !.held = FALSE]
BY DEF Recreated

LEMMA GivenUpIs ==
    ASSUME NEW o \in VideoOuts, NEW g \in GstPipelines, g.decoder \in Decoders
    PROVE  \E q \in VideoOuts :
              /\ q = GivenUp(o, g) /\ q.demoted = o.demoted \cup {g.decoder}
              /\ q.early = (IF o.idr # "late" /\ g.fed < Patience
                            THEN o.early \cup {g.decoder} ELSE o.early)
              /\ q.spoilt = (IF g.flushed THEN o.spoilt \cup {g.decoder} ELSE o.spoilt)
              /\ q.pinned = o.pinned /\ q.shown = o.shown /\ q.pending = o.pending
<1>0. PICK q : q = GivenUp(o, g)
  OBVIOUS
<1>1. PICK early : early = IF o.idr # "late" /\ g.fed < Patience
                           THEN o.early \cup {g.decoder} ELSE o.early
  OBVIOUS
<1>2. PICK spoilt : spoilt = IF g.flushed THEN o.spoilt \cup {g.decoder} ELSE o.spoilt
  OBVIOUS
<1>3. PICK demoted : demoted = o.demoted \cup {g.decoder}
  OBVIOUS
<1>4. demoted \in SUBSET Decoders /\ early \in SUBSET Decoders /\ spoilt \in SUBSET Decoders
  BY <1>1, <1>2, <1>3 DEF VideoOuts
<1>5. q = [o EXCEPT !.demoted = demoted, !.early = early, !.spoilt = spoilt]
  BY <1>0, <1>1, <1>2, <1>3 DEF GivenUp
<1>6. q \in VideoOuts
  BY <1>4, <1>5 DEF VideoOuts
<1>7. /\ q.demoted = demoted /\ q.early = early /\ q.spoilt = spoilt
      /\ q.pinned = o.pinned /\ q.shown = o.shown /\ q.pending = o.pending
  BY <1>5 DEF VideoOuts
<1> QED
  BY <1>0, <1>1, <1>2, <1>3, <1>6, <1>7

LEMMA StalledEnds ==
    ASSUME NEW o \in VideoOuts, NEW g \in GstPipelines, ~o.shown, ~o.pinned,
           o.left = 0 \/ o.idr = "late", g.decoder \in Decoders \ o.demoted,
           NEW r \in Stalled(o, g)
    PROVE  CheckEnds(o, g, r)
<1>1. PICK q : q = GivenUp(o, g)
  OBVIOUS
<1>2. q \in VideoOuts /\ q.pinned = o.pinned /\ q.shown = o.shown /\ q.pending = o.pending
  <2>1. g.decoder \in Decoders
    OBVIOUS
  <2>2. PICK p \in VideoOuts :
          p = GivenUp(o, g) /\ p.pinned = o.pinned /\ p.shown = o.shown /\ p.pending = o.pending
    BY <2>1, GivenUpIs
  <2> QED
    BY <1>1, <2>2
<1>3. PICK b \in Recreated(q, g) : r = Then(b, [b.o EXCEPT !.left = Patience, !.pending = TRUE])
  BY <1>1 DEF Stalled
<1>4. CASE b = [o |-> b.o, g |-> NewPipeline(g, q.pinned), ok |-> TRUE]
           /\ b.o = [q EXCEPT !.idr = "none"]
  <2>1. PICK p : p = [b.o EXCEPT !.left = Patience, !.pending = TRUE]
    OBVIOUS
  <2>2. p \in VideoOuts /\ SameRanks(q, p) /\ p.pinned = q.pinned /\ p.shown = q.shown
        /\ p.pending = TRUE /\ p.idr = "none"
    <3>1. Patience \in 0 .. Patience
      BY VideoAssumption
    <3>2. b.o \in VideoOuts /\ SameRanks(q, b.o) /\ b.o.pinned = q.pinned
          /\ b.o.shown = q.shown /\ b.o.idr = "none"
      BY <1>2, <1>4 DEF VideoOuts, SameRanks
    <3> QED
      BY <2>1, <3>1, <3>2 DEF VideoOuts, SameRanks
  <2>3. r.o = p /\ r.g = NewPipeline(g, FALSE) /\ r.ok = TRUE
    <3>1. b.ok = TRUE /\ b.g = NewPipeline(g, FALSE)
      <4>1. q.pinned = FALSE
        BY <1>2 DEF VideoOuts
      <4>2. b.ok = TRUE /\ b.g = NewPipeline(g, q.pinned)
        BY <1>4
      <4>3. NewPipeline(g, q.pinned) = NewPipeline(g, FALSE)
        BY <4>1
      <4> QED
        BY <4>2, <4>3
    <3>2. r = [b EXCEPT !.o = p]
      BY <1>3, <2>1, <3>1 DEF Then
    <3>3. r = [o |-> p, g |-> NewPipeline(g, FALSE), ok |-> TRUE]
      BY <1>4, <3>1, <3>2
    <3> QED
      BY <3>3
  <2>4. r.g \in GstPipelines /\ r.g.works = g.works /\ r.g.silent = g.silent
    BY <2>3, NewPipelineIs
  <2> QED
    BY <1>1, <1>2, <2>2, <2>3, <2>4 DEF CheckEnds, CheckGivesUp
<1>5. CASE b = [o |-> q, g |-> b.g, ok |-> FALSE]
           /\ b.g = [g EXCEPT !.playing = FALSE, !.failed = FALSE, !.held = FALSE]
  <2>1. r = b
    BY <1>3, <1>5 DEF Then
  <2>2. r.g \in GstPipelines /\ r.g.works = g.works /\ r.g.silent = g.silent /\ ~r.g.playing
        /\ ~r.g.failed /\ r.g.decoder = g.decoder /\ r.g.frozen = g.frozen
    BY <1>5, <2>1 DEF GstPipelines
  <2>3. r.o = q /\ r.ok = FALSE
    BY <1>5, <2>1
  <2> QED
    BY <1>1, <1>2, <2>2, <2>3 DEF CheckEnds, CheckGivesUp, SameRanks
<1> QED
  BY <1>2, <1>4, <1>5, RecreatedIs

LEMMA FrozenEnds ==
    ASSUME NEW o \in VideoOuts, NEW g \in GstPipelines, o.shown, NEW r \in Frozen(o, g)
    PROVE  CheckEnds(o, g, r)
<1>1. CASE r \in Same(o, g)
  <2>1. r = [o |-> o, g |-> g, ok |-> TRUE]
    BY <1>1 DEF Same
  <2>2. r.o = o /\ r.g = g /\ r.ok = TRUE
    BY <2>1
  <2> QED
    BY <2>2 DEF CheckEnds, CheckSame, SameRanks
<1>2. CASE r \notin Same(o, g)
  <2>1. PICK n : n = IF o.rebuilds < MaxDoublings THEN o.rebuilds + 1 ELSE o.rebuilds
    OBVIOUS
  <2>2. n \in Nat
    BY <2>1 DEF VideoOuts
  <2>3. PICK q : q = [o EXCEPT !.rebuilds = n]
    OBVIOUS
  <2>4. q \in VideoOuts /\ SameRanks(o, q) /\ q.pinned = o.pinned
        /\ q.shown = o.shown /\ q.pending = o.pending
    BY <2>2, <2>3 DEF VideoOuts, SameRanks
  <2>5. PICK b \in Recreated(q, g) :
          r = Then(b, [b.o EXCEPT !.pushed = 0, !.idle = 0, !.pending = TRUE])
    BY <1>2, <2>1, <2>3 DEF Frozen
  <2>6. CASE b = [o |-> b.o, g |-> NewPipeline(g, q.pinned), ok |-> TRUE]
             /\ b.o = [q EXCEPT !.idr = "none"]
    <3>1. PICK p : p = [b.o EXCEPT !.pushed = 0, !.idle = 0, !.pending = TRUE]
      OBVIOUS
    <3>2. p \in VideoOuts /\ SameRanks(q, p) /\ p.pinned = q.pinned /\ p.shown = q.shown
          /\ p.pending = TRUE
      BY <2>4, <2>6, <3>1 DEF VideoOuts, SameRanks
    <3>3. r = [b EXCEPT !.o = p] /\ b.ok = TRUE
      BY <2>5, <2>6, <3>1 DEF Then
    <3>4. r.o = p /\ r.g = NewPipeline(g, q.pinned) /\ r.ok = TRUE
      BY <2>6, <3>3
    <3>5. q.pinned \in BOOLEAN
      BY <2>4 DEF VideoOuts
    <3>6. r.g \in GstPipelines /\ r.g.works = g.works /\ r.g.silent = g.silent
      BY <3>4, <3>5, NewPipelineIs
    <3> QED
      BY <2>4, <3>2, <3>4, <3>6 DEF CheckEnds, CheckBuildsAnew, SameRanks
  <2>7. CASE b = [o |-> q, g |-> b.g, ok |-> FALSE]
             /\ b.g = [g EXCEPT !.playing = FALSE, !.failed = FALSE, !.held = FALSE]
    <3>1. r = b
      BY <2>5, <2>7 DEF Then
    <3>2. r.g \in GstPipelines /\ r.g.works = g.works /\ r.g.silent = g.silent /\ ~r.g.playing
      BY <2>7, <3>1 DEF GstPipelines
    <3>3. r.o = q /\ r.ok = FALSE
      BY <2>7, <3>1
    <3> QED
      BY <2>4, <3>2, <3>3 DEF CheckEnds, CheckBuildsAnew, SameRanks
  <2>8. q \in VideoOuts
    BY <2>4
  <2> QED
    BY <2>5, <2>6, <2>7, <2>8, RecreatedIs
<1> QED
  BY <1>1, <1>2

\* check_stall.
LEMMA CheckStallEnds ==
    ASSUME NEW o \in VideoOuts, NEW g \in GstPipelines, NEW r \in CheckStall(o, g)
    PROVE  CheckEnds(o, g, r)
<1>1. CASE o.shown /\ o.news
  <2>1. PICK q : q = [o EXCEPT !.news = FALSE, !.pushed = 0, !.idle = 0, !.rebuilds = 0]
    OBVIOUS
  <2>2. q \in VideoOuts /\ SameRanks(o, q) /\ q.pinned = o.pinned
        /\ q.shown = o.shown /\ q.pending = o.pending /\ q.idr = o.idr
    BY <2>1 DEF VideoOuts, SameRanks
  <2>3. r = [o |-> q, g |-> g, ok |-> TRUE]
    BY <1>1, <2>1 DEF CheckStall, Same
  <2>4. r.o = q /\ r.g = g /\ r.ok = TRUE
    BY <2>3
  <2> QED
    BY <2>2, <2>4 DEF CheckEnds, CheckSame, SameRanks
<1>2. CASE o.shown /\ ~o.news
  BY <1>2, FrozenEnds DEF CheckStall
<1>3. CASE ~o.shown /\ (o.left = 0 \/ o.idr = "late") /\ ~o.pinned /\ Demotable(o, g)
  <2>1. r \in Stalled(o, g)
    BY <1>3 DEF CheckStall
  <2>2. g.decoder \in Decoders \ o.demoted
    BY <1>3 DEF Demotable, GstPipelines
  <2> QED
    BY <1>3, <2>1, <2>2, StalledEnds
<1>4. CASE ~o.shown /\ ~((o.left = 0 \/ o.idr = "late") /\ ~o.pinned /\ Demotable(o, g))
  <2>1. r = [o |-> o, g |-> g, ok |-> TRUE]
    BY <1>4 DEF CheckStall, Same
  <2>2. r.o = o /\ r.g = g /\ r.ok = TRUE
    BY <2>1
  <2> QED
    BY <2>2 DEF CheckEnds, CheckSame, SameRanks
<1> QED
  BY <1>1, <1>2, <1>3, <1>4

\* What an access unit does to the output and the pipeline.
LEMMA PushedAre ==
    ASSUME out \in VideoOuts, gst \in GstPipelines, NEW idr \in BOOLEAN,
           NEW q, q = PushedOut(idr), NEW h, h = PushedIn(idr)
    PROVE  /\ q \in VideoOuts /\ SameRanks(out, q) /\ q.pinned = out.pinned
           /\ q.shown = out.shown /\ q.pending = out.pending
           /\ q.idr = (IF idr /\ out.idr = "none" THEN "fresh" ELSE out.idr)
           /\ h \in GstPipelines /\ h.works = gst.works /\ h.silent = gst.silent
           /\ h.decoder = gst.decoder /\ h.playing = gst.playing /\ h.frozen = gst.frozen
           /\ h.failed = gst.failed /\ h.flushed = gst.flushed
           /\ h.primed = (gst.primed \/ idr) /\ h.held = (gst.primed \/ idr)
           /\ h.fed = (IF (gst.primed \/ idr) /\ gst.fed < Patience
                       THEN gst.fed + 1 ELSE gst.fed)
<1>0. Patience \in Nat
  BY VideoAssumption
<1>1. PICK left : left = IF out.left > 0 THEN out.left - 1 ELSE 0
  OBVIOUS
<1>2. left \in 0 .. Patience
  BY <1>0, <1>1 DEF VideoOuts
<1>3. PICK pushed : pushed = IF out.pushed < Patience THEN out.pushed + 1 ELSE out.pushed
  OBVIOUS
<1>4. pushed \in Nat
  BY <1>0, <1>3 DEF VideoOuts
<1>5. PICK first : first = IF idr /\ out.idr = "none" THEN "fresh" ELSE out.idr
  OBVIOUS
<1>6. first \in {"none", "fresh", "late"}
  BY <1>5 DEF VideoOuts
<1>7. q = [out EXCEPT !.left = left, !.pushed = pushed, !.idr = first]
  BY <1>1, <1>3, <1>5 DEF PushedOut
<1>8. /\ q \in VideoOuts /\ SameRanks(out, q) /\ q.pinned = out.pinned
      /\ q.shown = out.shown /\ q.pending = out.pending /\ q.idr = first
  BY <1>2, <1>4, <1>6, <1>7 DEF VideoOuts, SameRanks
<1>9. PICK primed \in BOOLEAN : primed = (gst.primed \/ idr)
  BY DEF GstPipelines
<1>10. PICK fed : fed = IF primed /\ gst.fed < Patience THEN gst.fed + 1 ELSE gst.fed
  OBVIOUS
<1>11. fed \in Nat
  BY <1>0, <1>10 DEF GstPipelines
<1>12. h = [gst EXCEPT !.primed = primed, !.held = primed, !.fed = fed]
  BY <1>9, <1>10 DEF PushedIn
<1>13. /\ h \in GstPipelines /\ h.works = gst.works /\ h.silent = gst.silent
       /\ h.decoder = gst.decoder /\ h.playing = gst.playing /\ h.frozen = gst.frozen
       /\ h.failed = gst.failed /\ h.flushed = gst.flushed /\ h.primed = primed /\ h.held = primed /\ h.fed = fed
  BY <1>9, <1>11, <1>12 DEF GstPipelines
<1> QED
  BY <1>2, <1>5, <1>8, <1>9, <1>10, <1>13

\* A pipeline with no decoder yet, that decodebin3 need not look at, waits for its IDR.
LEMMA UnpluggedIs ==
    ASSUME PipelineInv, ~out.shown, gst.playing, ~DisplayUnplugged, gst.decoder = None,
           ~out.pinned, ~gst.flushed, Decoders # out.demoted
    PROVE  ~gst.primed /\ gst.fed = 0 /\ out.idr = "none"
<1>1. out \in VideoOuts /\ gst \in GstPipelines
  BY DEF PipelineInv, VideoOutTyped
<1>2. Decoders \ out.demoted # {}
  BY <1>1 DEF VideoOuts
<1>3. ~gst.primed
  BY <1>2 DEF DisplayUnplugged
<1> QED
  BY <1>3 DEF PipelineInv, Kept, Waits, Unspoilt

\* A check gives a decoder that works up early or spoilt, and no other way.
LEMMA CheckKeeps ==
    ASSUME NEW o \in VideoOuts, NEW g \in GstPipelines, Kept(o, g), NEW r \in CheckStall(o, g)
    PROVE  Kept(r.o, r.g)
<1>0. Prompt \in Nat /\ Patience \in Nat /\ Prompt < Patience
  BY VideoAssumption
<1>1. CheckEnds(o, g, r)
  BY CheckStallEnds
<1>2. /\ r.g.works = g.works /\ r.g.silent = g.silent
      /\ r.o.pinned = o.pinned /\ r.o.shown = o.shown
  BY <1>1 DEF CheckEnds
<1>3. CASE CheckSame(o, g, r)
  BY <1>2, <1>3 DEF CheckSame, SameRanks, Kept, Waits, Unspoilt
<1>4. CASE CheckGivesUp(o, g, r)
  <2>1. /\ ~o.shown /\ ~o.pinned /\ (o.left = 0 \/ o.idr = "late")
        /\ g.decoder \in Decoders /\ g.decoder \notin o.demoted
    BY <1>4 DEF CheckGivesUp
  <2>2. PICK q \in VideoOuts :
          /\ q = GivenUp(o, g) /\ q.demoted = o.demoted \cup {g.decoder}
          /\ q.early = (IF o.idr # "late" /\ g.fed < Patience
                        THEN o.early \cup {g.decoder} ELSE o.early)
          /\ q.spoilt = (IF g.flushed THEN o.spoilt \cup {g.decoder} ELSE o.spoilt)
    BY <2>1, GivenUpIs
  <2>3. r.o.demoted = q.demoted /\ r.o.early = q.early /\ r.o.spoilt = q.spoilt
    BY <1>4, <2>2 DEF CheckGivesUp, SameRanks
  <2>4. Waits(o, g) /\ o.demoted \cap g.works \subseteq o.early \cup o.spoilt
    BY <2>1 DEF Kept
  <2>5. g.playing /\ ~g.frozen
    BY <2>1, <2>4, VideoAssumption DEF Waits
  <2>6. ASSUME g.decoder \in g.works PROVE g.decoder \in q.early \cup q.spoilt
    <3>1. CASE g.flushed
      BY <2>2, <3>1
    <3>2. CASE ~g.flushed
      <4>1. g.fed <= Prompt /\ o.idr # "late"
        BY <2>1, <2>4, <2>5, <2>6, <3>2 DEF Waits, Unspoilt
      <4>2. g.fed < Patience
        BY <1>0, <4>1 DEF GstPipelines
      <4> QED
        BY <2>2, <4>1, <4>2
    <3> QED
      BY <3>1, <3>2 DEF GstPipelines
  <2>7. o.early \subseteq q.early /\ o.spoilt \subseteq q.spoilt
    BY <2>2
  <2>8. r.o.demoted \cap r.g.works \subseteq r.o.early \cup r.o.spoilt
    BY <1>2, <2>2, <2>3, <2>4, <2>6, <2>7
  <2>9. CASE r.ok /\ r.g = NewPipeline(g, FALSE) /\ r.o.idr = "none" /\ r.o.pending
    <3>1. /\ r.g.decoder = None /\ r.g.playing /\ ~r.g.primed /\ r.g.fed = 0
          /\ ~r.g.frozen /\ ~r.g.failed
      BY <2>9, NewPipelineIs
    <3>2. None \notin r.g.works
      BY <1>2, VideoAssumption DEF GstPipelines
    <3> QED
      BY <2>8, <2>9, <3>1, <3>2 DEF Kept, Waits, Unspoilt
  <2>10. CASE ~r.ok /\ ~r.g.playing /\ ~r.g.failed /\ r.g.decoder = g.decoder
              /\ r.g.frozen = g.frozen
    <3>1. r.g.decoder \in r.o.demoted /\ r.g.decoder # None
      BY <2>1, <2>2, <2>3, <2>10, VideoAssumption
    <3> QED
      BY <2>5, <2>8, <2>10, <3>1 DEF Kept, Waits
  <2> QED
    BY <1>4, <2>9, <2>10 DEF CheckGivesUp
<1>5. CASE CheckBuildsAnew(o, r)
  BY <1>2, <1>5 DEF CheckBuildsAnew, SameRanks, Kept
<1> QED
  BY <1>1, <1>3, <1>4, <1>5 DEF CheckEnds

\* An access unit is the first of a pipeline that waits for its IDR, or one more
\* for a decoder that has not had enough to show a picture.
LEMMA PushedKeeps ==
    ASSUME PipelineInv, gst.playing, NEW idr \in BOOLEAN, ~Overdue, ~DisplayUnplugged,
           NEW q, q = PushedOut(idr), NEW h, h = PushedIn(idr)
    PROVE  Kept(q, h)
<1>0. Prompt \in Nat \ {0} /\ Patience \in Nat \ {0}
  BY VideoAssumption
<1>1. out \in VideoOuts /\ gst \in GstPipelines
  BY DEF PipelineInv, VideoOutTyped
<1>2. /\ SameRanks(out, q) /\ q.pinned = out.pinned /\ q.shown = out.shown
      /\ q.idr = (IF idr /\ out.idr = "none" THEN "fresh" ELSE out.idr)
      /\ h.works = gst.works
      /\ h.decoder = gst.decoder /\ h.playing = gst.playing /\ h.frozen = gst.frozen
      /\ h.failed = gst.failed /\ h.flushed = gst.flushed
      /\ h.primed = (gst.primed \/ idr) /\ h.held = (gst.primed \/ idr)
      /\ h.fed = (IF (gst.primed \/ idr) /\ gst.fed < Patience
                  THEN gst.fed + 1 ELSE gst.fed)
  BY <1>1, PushedAre
<1>3. Kept(out, gst)
  BY DEF PipelineInv
<1>4. q.demoted \cap h.works \subseteq q.early \cup q.spoilt
  BY <1>2, <1>3 DEF Kept, SameRanks
<1>5. SUFFICES ASSUME ~out.shown PROVE Waits(q, h)
  BY <1>2, <1>4 DEF Kept
<1>6. Waits(out, gst)
  BY <1>3, <1>5 DEF Kept
<1>7. q.demoted = out.demoted
  BY <1>2 DEF SameRanks
<1>8. SUFFICES ASSUME ~out.pinned, ~gst.flushed PROVE Unspoilt(q, h)
  BY <1>2, <1>6, <1>7 DEF Waits
<1>9. Unspoilt(out, gst) /\ ~gst.frozen
  BY <1>6, <1>8 DEF Waits
<1>10. gst.fed \in Nat
  BY <1>1 DEF GstPipelines
<1>11. ASSUME gst.decoder \in gst.works \ out.demoted
       PROVE  h.primed /\ h.held /\ h.fed <= Prompt /\ q.idr # "late"
  <2>1. gst.primed /\ gst.held /\ out.idr # "late"
    BY <1>9, <1>11 DEF Unspoilt
  <2>2. gst.fed < Prompt
    BY <1>0, <1>9, <1>10, <1>11, <2>1 DEF Overdue
  <2>3. h.fed <= Prompt
    BY <1>0, <1>2, <1>10, <2>2
  <2> QED
    BY <1>2, <2>1, <2>3
<1>12. ASSUME gst.decoder = None, Decoders # out.demoted
       PROVE  IF h.primed THEN h.held /\ h.fed <= 1 /\ q.idr # "late"
              ELSE h.fed = 0 /\ q.idr = "none"
  <2>1. ~gst.primed /\ gst.fed = 0 /\ out.idr = "none"
    BY <1>5, <1>8, <1>12, UnpluggedIs
  <2>2. CASE idr
    <3>1. h.fed <= 1
      BY <1>0, <1>2, <2>1, <2>2
    <3> QED
      BY <1>2, <2>1, <2>2, <3>1
  <2>3. CASE ~idr
    <3>1. h.fed = 0
      BY <1>2, <2>1, <2>3
    <3> QED
      BY <1>2, <2>1, <2>3, <3>1
  <2> QED
    BY <2>2, <2>3
<1> QED
  BY <1>2, <1>7, <1>11, <1>12 DEF Unspoilt

\* push: the pipeline's state after it, whatever becomes of the access unit.
LEMMA PushStep ==
    ASSUME PipelineInv, NEW idr \in BOOLEAN, Push(idr)
    PROVE  PipelineInv'
<1>0. TickEvery \in Nat /\ host.sinceTick \in Nat /\ host.sinceTick < TickEvery
  BY VideoAssumption DEF PipelineInv, VideoOutTyped, Push
<1>1. out \in VideoOuts /\ gst \in GstPipelines
  BY DEF PipelineInv, VideoOutTyped
<1>2. CASE gst.playing
  <2>1. PICK r \in CheckStall(PushedOut(idr), PushedIn(idr)) :
          /\ out' = r.o /\ gst' = r.g
          /\ host' = [waiting |-> ~r.ok, sinceTick |-> host.sinceTick + 1]
    BY <1>2 DEF Push
  <2>2. PICK q : q = PushedOut(idr)
    OBVIOUS
  <2>3. PICK h : h = PushedIn(idr)
    OBVIOUS
  <2>4. /\ q \in VideoOuts /\ h \in GstPipelines /\ h.works = gst.works /\ h.silent = gst.silent
        /\ h.primed = (gst.primed \/ idr) /\ h.playing = gst.playing /\ q.pending = out.pending
    BY <1>1, <2>2, <2>3, PushedAre
  <2>5. CheckEnds(q, h, r)
    BY <2>1, <2>2, <2>3, <2>4, CheckStallEnds
  <2>6. VideoOutTyped'
    <3>1. out' \in VideoOuts /\ gst' \in GstPipelines /\ gst'.works = gst.works
          /\ gst'.silent = gst.silent /\ r.ok \in BOOLEAN
      BY <2>1, <2>4, <2>5 DEF CheckEnds
    <3>2. host' \in [waiting : BOOLEAN, sinceTick : 0 .. TickEvery]
      BY <1>0, <2>1, <3>1
    <3> QED
      BY <1>1, <3>1, <3>2 DEF VideoOutTyped
  <2>7. NewPipelineAsks'
    <3>1. SUFFICES ASSUME r.g.playing, ~r.g.primed PROVE ~r.ok \/ r.o.pending
      BY <2>1 DEF NewPipelineAsks
    <3>2. CASE CheckSame(q, h, r)
      <4>1. ~gst.primed /\ ~idr
        BY <2>4, <3>1, <3>2 DEF CheckSame
      <4>2. ~host.waiting
        BY <4>1 DEF Push
      <4>3. out.pending
        BY <1>2, <4>1, <4>2 DEF PipelineInv, NewPipelineAsks
      <4> QED
        BY <2>4, <3>2, <4>3 DEF CheckSame
    <3>3. CASE CheckGivesUp(q, h, r)
      BY <3>1, <3>3 DEF CheckGivesUp
    <3>4. CASE CheckBuildsAnew(q, r)
      BY <3>1, <3>4 DEF CheckBuildsAnew
    <3> QED
      BY <2>5, <3>2, <3>3, <3>4 DEF CheckEnds
  <2>8. Kept(r.o, r.g)
    <3>1. Kept(q, h)
      BY <1>2, <2>2, <2>3, PushedKeeps DEF Push
    <3> QED
      BY <2>1, <2>2, <2>3, <2>4, <3>1, CheckKeeps
  <2> QED
    BY <2>1, <2>6, <2>7, <2>8 DEF PipelineInv
<1>3. CASE ~gst.playing
  <2>1. /\ host' = [waiting |-> TRUE, sinceTick |-> host.sinceTick + 1]
        /\ out' = out /\ gst' = gst
    BY <1>3 DEF Push
  <2>2. host'.waiting = TRUE /\ host'.sinceTick = host.sinceTick + 1
        /\ host' \in [waiting : BOOLEAN, sinceTick : 0 .. TickEvery]
    BY <1>0, <2>1
  <2>3. VideoOutTyped' /\ NewPipelineAsks'
    BY <1>1, <2>1, <2>2 DEF VideoOutTyped, NewPipelineAsks
  <2>4. Kept(out', gst')
    BY <2>1 DEF PipelineInv
  <2> QED
    BY <2>3, <2>4 DEF PipelineInv
<1> QED
  BY <1>1, <1>2, <1>3 DEF GstPipelines

\* reset: what it flushed spoils the pipeline.
LEMMA ResetStep ==
    ASSUME PipelineInv, ResetPipeline
    PROVE  PipelineInv'
<1>1. /\ out \in VideoOuts /\ gst \in GstPipelines
      /\ host \in [waiting : BOOLEAN, sinceTick : 0 .. TickEvery]
  BY DEF PipelineInv, VideoOutTyped
<1>2. PICK flushed \in BOOLEAN : flushed = (gst.flushed \/ gst.held)
  OBVIOUS
<1>3. /\ out' = out /\ host' = [host EXCEPT !.waiting = TRUE]
      /\ gst' = [gst EXCEPT !.flushed = flushed, !.primed = FALSE, !.held = FALSE, !.fed = 0]
  BY <1>2 DEF ResetPipeline
<1>4. /\ gst' \in GstPipelines /\ gst'.works = gst.works
      /\ gst'.decoder = gst.decoder /\ gst'.playing = gst.playing /\ gst'.failed = gst.failed
      /\ gst'.frozen = gst.frozen /\ gst'.flushed = flushed
      /\ gst'.primed = FALSE /\ gst'.fed = 0
  BY <1>1, <1>3 DEF GstPipelines
<1>5. host' \in [waiting : BOOLEAN, sinceTick : 0 .. TickEvery] /\ host'.waiting = TRUE
  BY <1>1, <1>3
<1>6. VideoOutTyped' /\ NewPipelineAsks'
  BY <1>1, <1>3, <1>4, <1>5 DEF VideoOutTyped, NewPipelineAsks
<1>7. Kept(out, gst')
  <2>1. Kept(out, gst)
    BY DEF PipelineInv
  <2>2. SUFFICES ASSUME ~out.shown PROVE Waits(out, gst')
    BY <1>4, <2>1 DEF Kept
  <2>3. SUFFICES ASSUME gst.playing, ~out.pinned, ~gst.flushed, ~gst.held
                 PROVE  Unspoilt(out, gst')
    BY <1>2, <1>4, <2>1, <2>2 DEF Kept, Waits
  <2>4. Unspoilt(out, gst)
    BY <2>1, <2>2, <2>3 DEF Kept, Waits
  <2> QED
    BY <1>4, <2>3, <2>4 DEF Unspoilt
<1> QED
  BY <1>3, <1>6, <1>7 DEF PipelineInv

\* What an error on the bus leaves: the same pipeline started again, or a new one.
ErrorEnds(o, g, b) ==
    /\ b.o \in VideoOuts /\ b.g \in GstPipelines
    /\ b.g.works = g.works /\ b.g.silent = g.silent
    /\ b.o.pinned = o.pinned /\ b.o.shown = o.shown /\ b.o.pending = o.pending
    /\ IF ~o.shown /\ Demotable(o, g)
       THEN /\ b.o.demoted = o.demoted \cup {g.decoder}
            /\ b.o.early = o.early /\ b.o.spoilt = o.spoilt
            /\ \/ b.o.idr = "none" /\ b.g = NewPipeline(g, o.pinned)
               \/ /\ ~b.g.playing /\ ~b.g.failed
                  /\ b.g.decoder = g.decoder /\ b.g.frozen = g.frozen
       ELSE /\ SameRanks(o, b.o)
            /\ ~b.g.frozen /\ b.g.decoder = g.decoder

LEMMA BusErrorEnds ==
    ASSUME NEW o \in VideoOuts, NEW g \in GstPipelines, NEW b \in BusError(o, g)
    PROVE  ErrorEnds(o, g, b)
<1>1. CASE ~(~o.shown /\ Demotable(o, g))
  <2>1. PICK h \in Restarted(g) : b = [o |-> o, g |-> h, ok |-> TRUE]
    BY <1>1 DEF BusError
  <2>2. b.o = o /\ b.g = h
    BY <2>1
  <2>3. PICK m : m = [g EXCEPT !.playing = TRUE, !.primed = FALSE, !.held = FALSE]
    OBVIOUS
  <2>4. PICK n : n = [m EXCEPT !.fed = 0, !.frozen = FALSE, !.failed = FALSE]
    OBVIOUS
  <2>5. n = [g EXCEPT !.playing = TRUE, !.primed = FALSE, !.held = FALSE, !.fed = 0,
                      !.frozen = FALSE, !.failed = FALSE]
    BY <2>3, <2>4
  <2>6. h = n \/ \E said \in BOOLEAN : h = [n EXCEPT !.playing = FALSE, !.failed = said]
    BY <2>1, <2>5 DEF Restarted
  <2>7. m \in GstPipelines /\ m.works = g.works /\ m.silent = g.silent /\ m.decoder = g.decoder
    BY <2>3 DEF GstPipelines
  <2>8. /\ n \in GstPipelines /\ n.works = g.works /\ n.silent = g.silent
        /\ n.decoder = g.decoder /\ n.frozen = FALSE
    BY <2>4, <2>7 DEF GstPipelines
  <2>9. /\ h \in GstPipelines /\ h.works = g.works /\ h.silent = g.silent
        /\ h.decoder = g.decoder /\ h.frozen = FALSE
    BY <2>6, <2>8 DEF GstPipelines
  <2> QED
    BY <1>1, <2>2, <2>9 DEF ErrorEnds, SameRanks
<1>2. CASE ~o.shown /\ Demotable(o, g)
  <2>1. PICK q : q = [o EXCEPT !.demoted = o.demoted \cup {g.decoder}]
    OBVIOUS
  <2>2. g.decoder \in Decoders
    BY <1>2 DEF Demotable, GstPipelines
  <2>3. /\ q \in VideoOuts /\ q.demoted = o.demoted \cup {g.decoder} /\ q.pinned = o.pinned
        /\ q.shown = o.shown /\ q.pending = o.pending
        /\ q.early = o.early /\ q.spoilt = o.spoilt
    BY <2>1, <2>2 DEF VideoOuts
  <2>4. b \in Recreated(q, g)
    BY <1>2, <2>1 DEF BusError
  <2>5. CASE b = [o |-> b.o, g |-> NewPipeline(g, q.pinned), ok |-> TRUE]
             /\ b.o = [q EXCEPT !.idr = "none"]
    <3>1. /\ b.o \in VideoOuts /\ b.o.demoted = q.demoted /\ b.o.pinned = q.pinned
          /\ b.o.shown = q.shown /\ b.o.pending = q.pending
          /\ b.o.early = q.early /\ b.o.spoilt = q.spoilt
          /\ b.o.idr = "none"
      BY <2>3, <2>5 DEF VideoOuts
    <3>2. b.g = NewPipeline(g, q.pinned)
      BY <2>5
    <3>3. q.pinned \in BOOLEAN /\ b.g = NewPipeline(g, o.pinned)
      BY <2>3, <3>2 DEF VideoOuts
    <3>4. b.g \in GstPipelines /\ b.g.works = g.works /\ b.g.silent = g.silent
      BY <3>2, <3>3, NewPipelineIs
    <3> QED
      BY <1>2, <2>3, <3>1, <3>3, <3>4 DEF ErrorEnds
  <2>6. CASE b = [o |-> q, g |-> b.g, ok |-> FALSE]
             /\ b.g = [g EXCEPT !.playing = FALSE, !.failed = FALSE, !.held = FALSE]
    <3>1. /\ b.g \in GstPipelines /\ b.g.works = g.works /\ b.g.silent = g.silent
          /\ b.g.decoder = g.decoder /\ b.g.playing = FALSE /\ b.g.failed = FALSE
          /\ b.g.frozen = g.frozen
      BY <2>6 DEF GstPipelines
    <3>2. b.o = q
      BY <2>6
    <3> QED
      BY <1>2, <2>3, <3>1, <3>2 DEF ErrorEnds
  <2>7. \/ /\ b = [o |-> b.o, g |-> NewPipeline(g, q.pinned), ok |-> TRUE]
           /\ b.o = [q EXCEPT !.idr = "none"]
        \/ /\ b = [o |-> q, g |-> b.g, ok |-> FALSE]
           /\ b.g = [g EXCEPT !.playing = FALSE, !.failed = FALSE, !.held = FALSE]
    <3>1. q \in VideoOuts
      BY <2>3
    <3> QED
      BY <2>4, <3>1, RecreatedIs
  <2> QED
    BY <2>5, <2>6, <2>7
<1> QED
  BY <1>1, <1>2

\* An error on the bus costs the decoder it comes from its rank, and no other.
LEMMA ErrorKeeps ==
    ASSUME NEW o \in VideoOuts, NEW g \in GstPipelines, Kept(o, g), g.failed,
           NEW b \in BusError(o, g)
    PROVE  Kept(b.o, b.g)
<1>1. /\ ErrorEnds(o, g, b)
      /\ b.g.works = g.works /\ b.o.pinned = o.pinned /\ b.o.shown = o.shown
  BY BusErrorEnds DEF ErrorEnds
<1>2. None \notin g.works
  BY VideoAssumption DEF GstPipelines
<1>3. CASE ~(~o.shown /\ Demotable(o, g))
  <2>1. SameRanks(o, b.o) /\ ~b.g.frozen /\ b.g.decoder = g.decoder
    BY <1>1, <1>3 DEF ErrorEnds
  <2>2. ASSUME ~o.shown PROVE Waits(b.o, b.g)
    <3>1. IF g.decoder = None THEN Decoders = o.demoted
          ELSE g.decoder \notin g.works /\ g.decoder \in o.demoted
      BY <1>3, <2>2 DEF Kept, Waits, Demotable
    <3>2. b.o.demoted = o.demoted
      BY <2>1 DEF SameRanks
    <3> QED
      BY <1>1, <1>2, <2>1, <3>1, <3>2 DEF Waits, Unspoilt
  <2> QED
    BY <1>1, <2>1, <2>2 DEF Kept, SameRanks
<1>4. CASE ~o.shown /\ Demotable(o, g)
  <2>1. g.decoder # None /\ ~g.frozen /\ g.decoder \notin g.works
    BY <1>4 DEF Kept, Waits, Demotable
  <2>2. b.o.demoted = o.demoted \cup {g.decoder} /\ b.o.early = o.early /\ b.o.spoilt = o.spoilt
    BY <1>1, <1>4 DEF ErrorEnds
  <2>3. b.o.demoted \cap b.g.works \subseteq b.o.early \cup b.o.spoilt
    BY <1>1, <2>1, <2>2 DEF Kept
  <2>4. CASE b.o.idr = "none" /\ b.g = NewPipeline(g, o.pinned)
    <3>1. o.pinned \in BOOLEAN
      BY DEF VideoOuts
    <3>2. /\ b.g.decoder = (IF o.pinned THEN 1 ELSE None) /\ b.g.playing /\ ~b.g.primed
          /\ b.g.fed = 0 /\ ~b.g.frozen /\ ~b.g.failed
      BY <2>4, <3>1, NewPipelineIs
    <3> QED
      BY <1>1, <1>2, <2>3, <2>4, <3>2 DEF Kept, Waits, Unspoilt
  <2>5. CASE ~b.g.playing /\ ~b.g.failed /\ b.g.decoder = g.decoder /\ b.g.frozen = g.frozen
    <3>1. b.g.decoder # None /\ b.g.decoder \in b.o.demoted
      BY <2>1, <2>2, <2>5
    <3> QED
      BY <2>1, <2>3, <2>5, <3>1 DEF Kept, Waits
  <2> QED
    BY <1>1, <1>4, <2>4, <2>5 DEF ErrorEnds
<1> QED
  BY <1>3, <1>4

\* poll_error: what the tick finds and says.
LEMMA PollStep ==
    ASSUME PipelineInv, Poll
    PROVE  PipelineInv'
<1>0. TickEvery \in Nat /\ host.sinceTick \in 0 .. TickEvery /\ host.waiting \in BOOLEAN
  BY VideoAssumption DEF PipelineInv, VideoOutTyped
<1>1. out \in VideoOuts /\ gst \in GstPipelines
  BY DEF PipelineInv, VideoOutTyped
<1>2. PICK r \in CheckStall(out, gst) :
        /\ IF r.o.pending \/ ~r.g.failed
           THEN out' = [r.o EXCEPT !.pending = FALSE] /\ gst' = r.g
           ELSE \E b \in BusError(r.o, r.g) : out' = b.o /\ gst' = b.g
        /\ host' = [waiting |-> host.waiting \/ (r.o.pending \/ r.g.failed), sinceTick |-> 0]
  BY DEF Poll
<1>3. CheckEnds(out, gst, r)
  BY <1>1, CheckStallEnds
<1>4. /\ r.o \in VideoOuts /\ r.g \in GstPipelines
      /\ r.g.works = gst.works /\ r.g.silent = gst.silent
  BY <1>3 DEF CheckEnds
<1>5. /\ host' \in [waiting : BOOLEAN, sinceTick : 0 .. TickEvery] /\ host'.sinceTick = 0
      /\ host'.waiting = (host.waiting \/ (r.o.pending \/ r.g.failed))
  <2>1. PICK w \in BOOLEAN : w = (host.waiting \/ (r.o.pending \/ r.g.failed))
    OBVIOUS
  <2>2. host' = [waiting |-> w, sinceTick |-> 0]
    BY <1>2, <2>1
  <2> QED
    BY <1>0, <2>1, <2>2
<1>6. Kept(r.o, r.g)
  BY <1>1, CheckKeeps DEF PipelineInv
<1>7. CASE r.o.pending \/ ~r.g.failed
  <2>1. out' = [r.o EXCEPT !.pending = FALSE] /\ gst' = r.g
    BY <1>2, <1>7
  <2>2. out' \in VideoOuts
    BY <1>4, <2>1 DEF VideoOuts
  <2>3. VideoOutTyped'
    BY <1>1, <1>4, <1>5, <2>1, <2>2 DEF VideoOutTyped
  <2>4. NewPipelineAsks'
    <3>1. SUFFICES ASSUME r.g.playing, ~r.g.primed PROVE host.waiting \/ r.o.pending
      BY <1>5, <2>1 DEF NewPipelineAsks
    <3>2. CASE CheckSame(out, gst, r)
      BY <3>1, <3>2 DEF CheckSame, PipelineInv, NewPipelineAsks
    <3>3. CASE CheckGivesUp(out, gst, r)
      BY <3>1, <3>3 DEF CheckGivesUp
    <3>4. CASE CheckBuildsAnew(out, r)
      BY <3>1, <3>4 DEF CheckBuildsAnew
    <3> QED
      BY <1>3, <3>2, <3>3, <3>4 DEF CheckEnds
  <2>5. Kept(out', gst')
    <3>1. /\ SameRanks(r.o, out') /\ out'.shown = r.o.shown /\ out'.pinned = r.o.pinned
          /\ out'.idr = r.o.idr
      BY <1>4, <2>1 DEF VideoOuts, SameRanks
    <3> QED
      BY <1>6, <2>1, <3>1 DEF Kept, Waits, Unspoilt, SameRanks
  <2> QED
    BY <2>3, <2>4, <2>5 DEF PipelineInv
<1>8. CASE ~(r.o.pending \/ ~r.g.failed)
  <2>1. PICK b \in BusError(r.o, r.g) : out' = b.o /\ gst' = b.g
    BY <1>2, <1>8
  <2>2. /\ b.o \in VideoOuts /\ b.g \in GstPipelines
        /\ b.g.works = r.g.works /\ b.g.silent = r.g.silent
    BY <1>4, BusErrorEnds DEF ErrorEnds
  <2>3. VideoOutTyped'
    BY <1>1, <1>4, <1>5, <2>1, <2>2 DEF VideoOutTyped
  <2>4. NewPipelineAsks'
    BY <1>5, <1>8 DEF NewPipelineAsks
  <2>5. Kept(b.o, b.g)
    BY <1>4, <1>6, <1>8, ErrorKeeps
  <2> QED
    BY <2>1, <2>3, <2>4, <2>5 DEF PipelineInv
<1> QED
  BY <1>7, <1>8

\* decodebin3 plugs: whichever it is, the first frame is its own.
LEMMA PlugStep ==
    ASSUME PipelineInv, Plug
    PROVE  PipelineInv'
<1>0. Prompt \in Nat \ {0}
  BY VideoAssumption
<1>1. out \in VideoOuts /\ gst \in GstPipelines
  BY DEF PipelineInv, VideoOutTyped
<1>2. PICK d \in Decoders \ out.demoted : d = Best(Decoders \ out.demoted)
  <2>1. Decoders \ out.demoted \in SUBSET Nat
    <3>1. Decoders = 1 .. Cardinality(Decoders)
      BY VideoAssumption
    <3>2. 1 .. Cardinality(Decoders) \subseteq Nat
      OBVIOUS
    <3> QED
      BY <3>1, <3>2
  <2>2. Decoders \ out.demoted # {}
    BY DEF Plug, DisplayUnplugged
  <2>3. Best(Decoders \ out.demoted) \in Decoders \ out.demoted
    BY <2>1, <2>2, SmallestIs
  <2> QED
    BY <2>3
<1>3. gst' = [gst EXCEPT !.decoder = d] /\ out' = out /\ host' = host
  BY <1>2 DEF Plug
<1>4. /\ gst' \in GstPipelines /\ gst'.works = gst.works /\ gst'.silent = gst.silent
      /\ gst'.decoder = d /\ gst'.playing = gst.playing /\ gst'.primed = gst.primed
      /\ gst'.held = gst.held /\ gst'.fed = gst.fed /\ gst'.frozen = gst.frozen
      /\ gst'.failed = gst.failed /\ gst'.flushed = gst.flushed
  BY <1>1, <1>2, <1>3 DEF GstPipelines
<1>5. VideoOutTyped' /\ NewPipelineAsks'
  BY <1>3, <1>4 DEF PipelineInv, VideoOutTyped, NewPipelineAsks
<1>6. gst.playing /\ gst.primed /\ gst.decoder = None /\ Decoders # out.demoted
  BY DEF Plug, DisplayUnplugged
<1>7. Kept(out, gst')
  <2>1. Kept(out, gst)
    BY DEF PipelineInv
  <2>2. SUFFICES ASSUME ~out.shown PROVE Waits(out, gst')
    BY <1>4, <2>1 DEF Kept
  <2>3. Waits(out, gst) /\ ~gst.failed
    BY <1>6, <2>1, <2>2 DEF Kept, Waits
  <2>4. SUFFICES ASSUME ~out.pinned, ~gst.flushed PROVE Unspoilt(out, gst')
    BY <1>4, <1>6, <2>3 DEF Waits
  <2>5. gst.held /\ gst.fed <= 1 /\ out.idr # "late"
    BY <1>6, <2>3, <2>4 DEF Waits, Unspoilt
  <2>6. gst.fed <= Prompt
    BY <1>0, <1>1, <2>5 DEF GstPipelines
  <2> QED
    BY <1>2, <1>4, <1>6, <2>5, <2>6, VideoAssumption DEF Unspoilt
<1> QED
  BY <1>3, <1>5, <1>7 DEF PipelineInv

\* The steps of GStreamer's threads and of the clock.
LEMMA GStreamerStep ==
    ASSUME PipelineInv, PlugsNothing \/ Show \/ Freeze \/ Fail \/ Second
    PROVE  PipelineInv'
<1>1. /\ out \in VideoOuts /\ gst \in GstPipelines
      /\ host \in [waiting : BOOLEAN, sinceTick : 0 .. TickEvery]
  BY DEF PipelineInv, VideoOutTyped
<1>2. CASE PlugsNothing
  <2>1. gst' = [gst EXCEPT !.failed = TRUE] /\ out' = out /\ host' = host
    BY <1>2 DEF PlugsNothing
  <2>2. /\ gst' \in GstPipelines /\ gst'.works = gst.works
        /\ gst'.decoder = gst.decoder /\ gst'.playing = gst.playing /\ gst'.primed = gst.primed
        /\ gst'.held = gst.held /\ gst'.fed = gst.fed /\ gst'.flushed = gst.flushed
        /\ gst'.frozen = gst.frozen /\ gst'.failed = TRUE
    BY <1>1, <2>1 DEF GstPipelines
  <2>3. gst.decoder = None /\ Decoders = out.demoted
    BY <1>2 DEF PlugsNothing
  <2>4. Kept(out, gst')
    BY <2>2, <2>3 DEF PipelineInv, Kept, Waits, Unspoilt
  <2> QED
    BY <1>1, <2>1, <2>2, <2>4 DEF PipelineInv, VideoOutTyped, NewPipelineAsks
<1>3. CASE Show
  <2>1. /\ gst' = [gst EXCEPT !.held = FALSE] /\ host' = host
        /\ out' = [out EXCEPT !.shown = TRUE, !.news = TRUE]
    BY <1>3 DEF Show
  <2>2. /\ gst' \in GstPipelines /\ gst'.works = gst.works /\ gst'.silent = gst.silent
        /\ gst'.playing = gst.playing /\ gst'.primed = gst.primed
    BY <1>1, <2>1 DEF GstPipelines
  <2>3. /\ out' \in VideoOuts /\ out'.shown = TRUE /\ out'.demoted = out.demoted
        /\ out'.early = out.early /\ out'.spoilt = out.spoilt /\ out'.pending = out.pending
    BY <1>1, <2>1 DEF VideoOuts
  <2> QED
    BY <1>1, <2>1, <2>2, <2>3 DEF PipelineInv, VideoOutTyped, NewPipelineAsks, Kept
<1>4. CASE Freeze
  <2>1. gst' = [gst EXCEPT !.frozen = TRUE] /\ host' = host /\ out' = out /\ out.shown
    BY <1>4 DEF Freeze
  <2>2. /\ gst' \in GstPipelines /\ gst'.works = gst.works /\ gst'.silent = gst.silent
        /\ gst'.playing = gst.playing /\ gst'.primed = gst.primed
    BY <1>1, <2>1 DEF GstPipelines
  <2> QED
    BY <1>1, <2>1, <2>2 DEF PipelineInv, VideoOutTyped, NewPipelineAsks, Kept
<1>5. CASE Fail
  <2>1. gst' = [gst EXCEPT !.failed = TRUE] /\ out' = out /\ host' = host
    BY <1>5 DEF Fail
  <2>2. /\ gst' \in GstPipelines /\ gst'.works = gst.works
        /\ gst'.decoder = gst.decoder /\ gst'.playing = gst.playing /\ gst'.primed = gst.primed
        /\ gst'.held = gst.held /\ gst'.fed = gst.fed /\ gst'.flushed = gst.flushed
        /\ gst'.frozen = gst.frozen /\ gst'.failed = TRUE
    BY <1>1, <2>1 DEF GstPipelines
  <2>3. gst.decoder # None /\ gst.playing /\ (~out.shown => gst.decoder \notin gst.works)
    BY <1>5 DEF Fail
  <2>4. Kept(out, gst')
    BY <2>2, <2>3 DEF PipelineInv, Kept, Waits, Unspoilt
  <2> QED
    BY <1>1, <2>1, <2>2, <2>4 DEF PipelineInv, VideoOutTyped, NewPipelineAsks
<1>6. CASE Second
  <2>1. PICK idr : idr = IF out.idr = "fresh" THEN "late" ELSE out.idr
    OBVIOUS
  <2>2. PICK idle : idle = IF out.idle < 2 ^ MaxDoublings THEN out.idle + 1 ELSE out.idle
    OBVIOUS
  <2>3. /\ out' = [out EXCEPT !.idr = idr, !.idle = idle]
        /\ gst' = gst /\ host' = host
    BY <1>6, <2>1, <2>2 DEF Second
  <2>4. idr \in {"none", "fresh", "late"} /\ idle \in Nat
    BY <1>1, <2>1, <2>2 DEF VideoOuts
  <2>5. /\ out' \in VideoOuts /\ SameRanks(out, out') /\ out'.pinned = out.pinned
        /\ out'.shown = out.shown /\ out'.pending = out.pending /\ out'.idr = idr
    BY <1>1, <2>3, <2>4 DEF VideoOuts, SameRanks
  <2>6. VideoOutTyped' /\ NewPipelineAsks'
    BY <1>1, <2>3, <2>5 DEF PipelineInv, VideoOutTyped, NewPipelineAsks
  <2>7. Kept(out', gst)
    <3>1. Kept(out, gst)
      BY DEF PipelineInv
    <3>2. SUFFICES ASSUME ~out.shown PROVE Waits(out', gst)
      BY <2>5, <3>1 DEF Kept, SameRanks
    <3>3. Waits(out, gst) /\ out'.demoted = out.demoted
      BY <2>5, <3>1, <3>2 DEF Kept, SameRanks
    <3>4. SUFFICES ASSUME gst.playing, ~out.pinned, ~gst.flushed PROVE Unspoilt(out', gst)
      BY <2>5, <3>3 DEF Waits
    <3>5. Unspoilt(out, gst)
      BY <3>3, <3>4 DEF Waits
    <3>6. gst.decoder \notin gst.works \ out.demoted
      BY <1>6, <3>2, <3>5 DEF Second, Unspoilt
    <3>7. ASSUME gst.decoder = None, Decoders # out.demoted
          PROVE  ~gst.primed /\ gst.fed = 0 /\ out.idr = "none"
      BY <1>6, <3>2, <3>4, <3>7, UnpluggedIs DEF Second
    <3> QED
      BY <2>1, <2>5, <3>3, <3>6, <3>7 DEF Unspoilt
  <2> QED
    BY <2>3, <2>6, <2>7 DEF PipelineInv
<1> QED
  BY <1>2, <1>3, <1>4, <1>5, <1>6

LEMMA PipelineStarts ==
    ASSUME VideoOutInit
    PROVE  PipelineInv
<1>0. TickEvery \in Nat /\ Prompt \in Nat /\ Patience \in Nat /\ MaxDoublings \in Nat
  BY VideoAssumption
<1>1. PICK pinned \in BOOLEAN, works \in SUBSET Decoders, silent \in SUBSET Decoders :
        /\ works \cap silent = {}
        /\ out = [pinned |-> pinned, demoted |-> {}, early |-> {}, spoilt |-> {},
                  left |-> Patience, idr |-> "none", shown |-> FALSE, news |-> FALSE,
                  pushed |-> 0, idle |-> 0, rebuilds |-> 0, pending |-> FALSE]
        /\ gst = NewPipeline([works |-> works, silent |-> silent, decoder |-> None,
                              playing |-> FALSE, primed |-> FALSE, held |-> FALSE,
                              fed |-> 0, flushed |-> FALSE, frozen |-> FALSE,
                              failed |-> FALSE], pinned)
        /\ host = [waiting |-> TRUE, sinceTick |-> 0]
  BY DEF VideoOutInit
<1>2. PICK g : g = [works |-> works, silent |-> silent, decoder |-> None,
                    playing |-> FALSE, primed |-> FALSE, held |-> FALSE,
                    fed |-> 0, flushed |-> FALSE, frozen |-> FALSE, failed |-> FALSE]
  OBVIOUS
<1>3. g \in GstPipelines /\ g.works = works /\ g.silent = silent
  BY <1>2 DEF GstPipelines
<1>4. gst = NewPipeline(g, pinned)
  BY <1>1, <1>2
<1>5. /\ gst \in GstPipelines /\ gst.works = works /\ gst.silent = silent
      /\ gst.decoder = (IF pinned THEN 1 ELSE None) /\ gst.playing /\ ~gst.primed
      /\ gst.fed = 0 /\ ~gst.frozen /\ ~gst.failed
  BY <1>3, <1>4, NewPipelineIs
<1>6. /\ out \in VideoOuts /\ out.demoted = {} /\ out.left = Patience /\ out.idr = "none"
      /\ out.pending = FALSE /\ out.shown = FALSE /\ out.pinned = pinned
  <2>1. Patience \in 0 .. Patience
    BY <1>0
  <2> QED
    BY <1>1, <2>1 DEF VideoOuts
<1>7. /\ host \in [waiting : BOOLEAN, sinceTick : 0 .. TickEvery]
      /\ host.waiting = TRUE /\ host.sinceTick = 0
  BY <1>0, <1>1
<1>8. VideoOutTyped /\ NewPipelineAsks
  BY <1>1, <1>5, <1>6, <1>7 DEF VideoOutTyped, NewPipelineAsks
<1>9. Kept(out, gst)
  <2>1. None \notin gst.works
    BY <1>5, VideoAssumption DEF GstPipelines
  <2> QED
    BY <1>5, <1>6, <2>1 DEF Kept, Waits, Unspoilt
<1> QED
  BY <1>8, <1>9 DEF PipelineInv

\* A restart does not make things worse, whatever decoders a machine has and
\* whichever of them work: the pipeline it builds asks for the IDR it needs, and
\* a decoder that works is not given up for another's clock or error, but only
\* by a count that is not its own, or after a flush (GstOutput::check_stall,
\* poll_error, recreate, reset).
THEOREM RestartsDoHelp == VideoOutSpec => []RestartsHelp
<1>1. VideoOutInit => PipelineInv
  BY PipelineStarts
<1>2. PipelineInv /\ [VideoOutNext]_videoOutVars => PipelineInv'
  <2> SUFFICES ASSUME PipelineInv, [VideoOutNext]_videoOutVars PROVE PipelineInv'
    OBVIOUS
  <2>1. CASE Push(TRUE) \/ Push(FALSE)
    BY <2>1, PushStep
  <2>2. CASE ResetPipeline
    BY <2>2, ResetStep
  <2>3. CASE Poll
    BY <2>3, PollStep
  <2>4. CASE Plug
    BY <2>4, PlugStep
  <2>5. CASE PlugsNothing \/ Show \/ Freeze \/ Fail \/ Second
    BY <2>5, GStreamerStep
  <2>6. CASE UNCHANGED videoOutVars
    BY <2>6 DEF videoOutVars, PipelineInv, VideoOutTyped, NewPipelineAsks
  <2> QED
    BY <2>1, <2>2, <2>3, <2>4, <2>5, <2>6 DEF VideoOutNext
<1>3. PipelineInv => RestartsHelp
  BY DEF PipelineInv, Kept, RestartsHelp, WorkingIsKept
<1> QED
  BY <1>1, <1>2, <1>3, PTL DEF VideoOutSpec
=============================================================================
