---------------------------- MODULE DesktopPlan ----------------------------
(***************************************************************************)
(* From a receiver's hello to the output to create and the stream to send: *)
(* plan in linux/crates/od-sender/src/desktop.rs, the validation of        *)
(* hello.panel it begins with (opendisplay-proto/src/control.rs), and what *)
(* the session makes of it once the output is built (target and stream_for *)
(* in session.rs).                                                         *)
(*                                                                         *)
(* Scales are counted in halves.  Ratios are exact here and doubles in the *)
(* code, where a product that should be a whole number may come out just   *)
(* below it and lose a pixel: Inexact says whether it does.                *)
(***************************************************************************)
EXTENDS Option, Integers, Sequences, FiniteSets

CONSTANTS
    Panels,         \* sizes, one side, that receivers announce
    Limits,         \* limits they announce, in pixels and in frames
    BlockSize,      \* a macroblock's side: 16
    MaxBlocks,      \* MAX_MACROBLOCKS_PER_FRAME: 36864
    MaxBlockRate,   \* MAX_MACROBLOCKS_PER_SECOND: 2073600
    MaxAxis,        \* MAX_PIXELS_PER_AXIS: 8192
    DefaultFps,     \* DEFAULT_FPS: 60
    FpsRange        \* panel_hz's clamp: 30 .. 240

ASSUME DesktopAssumption ==
    /\ Panels \subseteq Nat /\ Limits \subseteq Nat /\ FpsRange \subseteq Nat \ {0}
    /\ {BlockSize, MaxBlocks, MaxBlockRate, MaxAxis, DefaultFps} \subseteq Nat \ {0}
    /\ MaxBlockRate >= 2 * MaxBlocks
    /\ None \notin Nat

VARIABLE desktop    \* the hello and the options, and what was made of them

desktopVars == <<desktop>>

-----------------------------------------------------------------------------
LesserOf(a, b) == IF a <= b THEN a ELSE b
GreaterOf(a, b) == IF a >= b THEN a ELSE b
CeilDiv(a, b) == (a + b - 1) \div b

Even(v) == GreaterOf(2 * (v \div 2), 2)
Area(size) == size.w * size.h
Blocks(size) == CeilDiv(size.w, BlockSize) * CeilDiv(size.h, BlockSize)

\* Whole part of n / d, as doubles have it.
Part(n, d) == IF desktop.inexact /\ n % d = 0 /\ n > 0 THEN n \div d - 1 ELSE n \div d

\* Whole part of v * sqrt(n / d).
RootPart(v, n, d) ==
    LET k == CHOOSE i \in 0 .. v : i * i * d <= v * v * n /\ (i + 1) * (i + 1) * d > v * v * n
    IN  IF desktop.inexact /\ k * k * d = v * v * n /\ k > 0 THEN k - 1 ELSE k

\* fit: inside the limits that are there (0 is none), keeping the aspect.
Fit(size, w, h) ==
    LET scales == {s \in {<<w, size.w>>, <<h, size.h>>} : s[1] \notin {None, 0} /\ s[1] < s[2]}
        s == CHOOSE a \in scales : \A b \in scales : a[1] * b[2] <= b[1] * a[2]
    IN  IF scales = {} THEN size
        ELSE [w |-> Even(Part(size.w * s[1], s[2])), h |-> Even(Part(size.h * s[1], s[2]))]

\* fit_pixels: None when even that misses.
FitPixels(size, most) ==
    LET fitted == [w |-> Even(RootPart(size.w, most, Area(size))),
                   h |-> Even(RootPart(size.h, most, Area(size)))]
    IN  CASE Area(size) <= most -> size
          [] Area(size) > most /\ Area(fitted) <= most -> fitted
          [] OTHER -> None

\* Two pixels off the axis that is relatively larger, until it fits.
RECURSIVE Trimmed(_, _)
Trimmed(fitted, size) ==
    CASE Blocks(fitted) <= MaxBlocks -> fitted
      [] Blocks(fitted) > MaxBlocks /\ fitted.w * size.h >= fitted.h * size.w ->
            Trimmed([fitted EXCEPT !.w = GreaterOf(@ - 2, 2)], size)
      [] OTHER -> Trimmed([fitted EXCEPT !.h = GreaterOf(@ - 2, 2)], size)

\* Mutant: the scale taken from the areas is trusted.
FitLevelByArea(size) ==
    IF Blocks(size) <= MaxBlocks THEN size
    ELSE [w |-> Even(RootPart(size.w, MaxBlocks, Blocks(size))),
          h |-> Even(RootPart(size.h, MaxBlocks, Blocks(size)))]

\* fit_h264_level_frame.
FitLevel(size) ==
    IF Blocks(size) <= MaxBlocks THEN size
    ELSE Trimmed([w |-> Even(RootPart(size.w, MaxBlocks, Blocks(size))),
                  h |-> Even(RootPart(size.h, MaxBlocks, Blocks(size)))], size)

\* safe_h264_frame_rate: one frame below what the level allows.
SafeRate(size, fps) ==
    LET level == GreaterOf(MaxBlockRate \div Blocks(size), 1)
    IN  IF level >= fps THEN fps ELSE GreaterOf(level - 1, 1)

-----------------------------------------------------------------------------
(* The hello.                                                              *)

\* Panel::facts: all of it or nothing.
PanelFacts(panel) ==
    IF /\ panel # None /\ panel.w >= 2 /\ panel.h >= 2 /\ panel.scale > 0
       /\ panel.points = None \/ (panel.points.w >= 2 /\ panel.points.h >= 2)
    THEN panel ELSE None

\* plan begins: the panel, or the deprecated fields read as one.
Facts(hello, policy) ==
    CASE PanelFacts(hello.panel) # None -> PanelFacts(hello.panel)
      [] PanelFacts(hello.panel) = None /\ hello.w >= 2 /\ hello.h >= 2 ->
            [w |-> hello.w, h |-> hello.h, points |-> None,
             scale |-> IF policy = "passthrough" THEN GreaterOf(hello.scale, 2) ELSE 4]
      [] OTHER -> None

PanelHz(hello) ==
    LET hz == IF hello.hz = None THEN DefaultFps ELSE hello.hz
        low == CHOOSE f \in FpsRange : \A g \in FpsRange : f <= g
        high == CHOOSE f \in FpsRange : \A g \in FpsRange : f >= g
    IN  GreaterOf(low, LesserOf(hz, high))

\* mac_desktop: whole points at one or two pixels each, on an axis that exists.
MacDesktop(facts) ==
    LET n == IF facts.scale >= 3 THEN 2 ELSE 1
        points == IF facts.points # None THEN [w |-> Even(facts.points.w), h |-> Even(facts.points.h)]
                  ELSE [w |-> Even(facts.w \div n), h |-> Even(facts.h \div n)]
        longest == GreaterOf(points.w, points.h) * n
        kept == IF longest <= MaxAxis THEN points
                ELSE [w |-> Even(Part(points.w * MaxAxis, longest)),
                      h |-> Even(Part(points.h * MaxAxis, longest))]
    IN  [w |-> kept.w * n, h |-> kept.h * n, scale |-> 2 * n]

\* The default desktop.
Wanted(facts, policy) ==
    CASE policy = "mac" -> MacDesktop(facts)
      [] policy = "passthrough" -> [w |-> facts.w, h |-> facts.h, scale |-> facts.scale]
      [] policy = "fixed" -> [w |-> facts.w, h |-> facts.h, scale |-> 4]

-----------------------------------------------------------------------------
(* The stream.                                                             *)

\* Limits::from_hello: no videoCaps is one envelope without limits.
NoCap == [h264 |-> TRUE, w |-> None, h |-> None, fps |-> None, pps |-> None]
Envelopes(hello) ==
    IF hello.caps = None THEN <<NoCap>> ELSE SelectSeq(hello.caps, LAMBDA c : c.h264)

TargetFps(hello, most) ==
    IF most = None THEN PanelHz(hello) ELSE LesserOf(GreaterOf(most, 1), PanelHz(hello))

Below(v, least) == v # None /\ v < least

\* What the receiver announced as the most it decodes, in pixels; 0 is nothing.
Ceiling(hello) ==
    IF hello.maxW \in {None, 0} \/ hello.maxH \in {None, 0} THEN [w |-> None, h |-> None]
    ELSE [w |-> hello.maxW, h |-> hello.maxH]

\* candidate ends: the rate of a raster in an envelope.
Rated(size, most, fps) ==
    LET decoded == LesserOf(fps, IF most.fps = None THEN DefaultFps ELSE most.fps)
        rate == IF most.pps = None THEN decoded ELSE LesserOf(decoded, most.pps \div Area(size))
    IN  IF size = None \/ rate = 0 THEN None
        ELSE [w |-> size.w, h |-> size.h, fps |-> SafeRate(size, rate)]

\* candidate: the raster and rate one envelope allows, or None.
Candidate(hello, scaled, most, fps) ==
    LET c == Ceiling(hello)
        framed == FitLevel(Fit(Fit(scaled, c.w, c.h), most.w, most.h))
    IN  CASE Below(c.w, 2) \/ Below(c.h, 2) -> None
          [] Below(most.w, 2) \/ Below(most.h, 2) \/ Below(most.fps, 1) \/ Below(most.pps, 4) -> None
          [] OTHER -> Rated(IF most.pps = None THEN framed ELSE FitPixels(framed, most.pps), most, fps)

\* select: the most detail, then the higher rate, then the later envelope.
BestOffer(offer) ==
    LET usable == {i \in DOMAIN offer : offer[i] # None}
        Better(i, j) == \/ Area(offer[i]) > Area(offer[j])
                        \/ Area(offer[i]) = Area(offer[j]) /\ offer[i].fps > offer[j].fps
                        \/ /\ Area(offer[i]) = Area(offer[j]) /\ offer[i].fps = offer[j].fps
                           /\ i >= j
    IN  IF usable = {} THEN None
        ELSE offer[CHOOSE i \in usable : \A j \in usable : Better(i, j)]

SelectStream(hello, facts, source, fps) ==
    LET shown == Fit(source, facts.w, facts.h)
        scaled == [w |-> Even(shown.w), h |-> Even(shown.h)]
        envelopes == Envelopes(hello)
    IN  BestOffer([i \in DOMAIN envelopes |-> Candidate(hello, scaled, envelopes[i], fps)])

\* Mutant: the output stays as it was wanted.
OutputAsWanted(wanted, best, capped, policy) == [w |-> wanted.w, h |-> wanted.h]

\* The output: what was wanted, or shrunk to the stream, by whole points on a Mac's terms.
Output(wanted, best, capped, policy) ==
    LET n == wanted.scale \div 2 IN
    CASE ~capped -> [w |-> wanted.w, h |-> wanted.h]
      [] capped /\ policy = "mac" -> [w |-> Even(best.w \div n) * n, h |-> Even(best.h \div n) * n]
      [] OTHER -> [w |-> best.w, h |-> best.h]

\* plan goes on: the output, and the stream that is cut for it, once one was selected.
Planned(hello, policy, fps, facts, wanted, best) ==
    LET explicit == wanted.w > facts.w \/ wanted.h > facts.h
        capped == ~explicit /\ (best.w < Even(wanted.w) \/ best.h < Even(wanted.h))
        output == Output(wanted, best, capped, policy)
        stream == IF output = [w |-> best.w, h |-> best.h] THEN best
                  ELSE SelectStream(hello, facts, output, fps)
    IN  IF best = None \/ stream = None THEN None
        ELSE [facts |-> facts, wanted |-> [w |-> wanted.w, h |-> wanted.h],
              scale |-> wanted.scale, output |-> output, hz |-> PanelHz(hello),
              stream |-> stream, explicit |-> explicit, capped |-> capped]

\* plan, or None for a PlanError.
PlanFor(hello, policy, fpsCap) ==
    LET facts == Facts(hello, policy)
        wanted == Wanted(facts, policy)
        fps == TargetFps(hello, fpsCap)
    IN  IF facts = None THEN None
        ELSE Planned(hello, policy, fps, facts, wanted,
                     SelectStream(hello, facts, [w |-> wanted.w, h |-> wanted.h], fps))

-----------------------------------------------------------------------------
Optional(S) == S \cup {None}
PanelSizes == {n \in Panels : n >= 2}
ValidPanels ==
    [w : PanelSizes, h : PanelSizes, scale : {2, 3, 4}, points : {None}]
    \cup [w : PanelSizes, h : PanelSizes, scale : {3}, points : {[w |-> v, h |-> v] : v \in PanelSizes}]

\* A panel, or the deprecated fields, beside a panel that is no use or none.
Announced ==
    [panel : ValidPanels, w : {0}, h : {0}, scale : {0}]
    \cup [panel : {None, [w |-> 8, h |-> 8, scale |-> 3, points |-> [w |-> 8, h |-> 1]]},
          w : {0} \cup Panels, h : Panels, scale : {0, 3}]

\* With limits of one kind: the rate, the old ceiling, or videoCaps.
NoLimits == [hz |-> None, maxW |-> None, maxH |-> None, caps |-> None]
Caps == {NoCap} \cup {[NoCap EXCEPT !.w = l] : l \in Limits}
        \cup {[NoCap EXCEPT !.h = l, !.fps = 1] : l \in Limits}
        \cup {[NoCap EXCEPT !.pps = 4 * l, !.fps = DefaultFps + 1] : l \in Limits}
Terms ==
    {[NoLimits EXCEPT !.hz = f] : f \in Optional(FpsRange)}
    \cup {[NoLimits EXCEPT !.maxW = v, !.maxH = w] : v, w \in {0} \cup Limits}
    \cup {[NoLimits EXCEPT !.hz = 3, !.caps = <<c, d>>] :
            c \in Caps, d \in {[NoCap EXCEPT !.h264 = FALSE], [NoCap EXCEPT !.pps = 16]}}

DesktopInit ==
    desktop = [hello |-> None, policy |-> "mac", fpsCap |-> None, inexact |-> FALSE,
               plan |-> None, stream |-> None]

\* A hello for a sender with these options.
ReadHello ==
    /\ desktop.hello = None
    /\ \E a \in Announced, t \in Terms, p \in {"passthrough", "mac", "fixed"},
          f \in {None, 1}, b \in BOOLEAN :
        desktop' = [desktop EXCEPT
          !.hello = [panel |-> a.panel, w |-> a.w, h |-> a.h, scale |-> a.scale,
                     hz |-> t.hz, maxW |-> t.maxW, maxH |-> t.maxH, caps |-> t.caps],
          !.policy = p, !.fpsCap = f, !.inexact = b]

\* target.
MakePlan ==
    /\ desktop.hello # None /\ desktop.plan = None
    /\ desktop' = [desktop EXCEPT !.plan = PlanFor(desktop.hello, desktop.policy, desktop.fpsCap)]

\* stream_for: an output that was not made to measure is streamed as it is.
Announce(info) ==
    /\ desktop.plan # None /\ desktop.stream = None
    /\ desktop' = [desktop EXCEPT !.stream =
         IF info = desktop.plan.output THEN desktop.plan.stream
         ELSE [w |-> 2 * (info.w \div 2), h |-> 2 * (info.h \div 2), fps |-> desktop.plan.stream.fps]]

DesktopNext ==
    \/ ReadHello \/ MakePlan
    \/ desktop.plan # None /\ Announce(desktop.plan.output)
    \/ \E w \in Panels : Announce([w |-> w, h |-> w])

DesktopSpec == DesktopInit /\ [][DesktopNext]_desktopVars

-----------------------------------------------------------------------------
(* Properties.                                                             *)

DesktopTypeOK ==
    /\ desktop.policy \in {"passthrough", "mac", "fixed"} /\ desktop.inexact \in BOOLEAN
    /\ desktop.plan # None =>
         \A v \in {desktop.plan.output.w, desktop.plan.output.h,
                   desktop.plan.stream.w, desktop.plan.stream.h, desktop.plan.stream.fps} :
             v \in Nat \ {0}

Under(v, most) == most \in {None, 0} \/ v <= most

\* The receiver can decode what is planned for it: no larger than its panel
\* and its ceiling, inside one H.264 entry of its videoCaps in every respect
\* at once, and inside the level the encoder signals, in size and in rate.
StreamIsDecodable ==
    desktop.plan # None =>
        LET s == desktop.plan.stream
            envelopes == Envelopes(desktop.hello)
        IN  /\ s.w <= Even(desktop.plan.facts.w) /\ s.h <= Even(desktop.plan.facts.h)
            /\ s.w % 2 = 0 /\ s.h % 2 = 0
            /\ Under(s.w, Ceiling(desktop.hello).w) /\ Under(s.h, Ceiling(desktop.hello).h)
            /\ \E i \in DOMAIN envelopes :
                 LET c == envelopes[i] IN
                 /\ Under(s.w, c.w) /\ Under(s.h, c.h)
                 /\ s.fps <= (IF c.fps = None THEN DefaultFps ELSE c.fps)
                 /\ c.pps # None => Area(s) * s.fps <= c.pps
            /\ Blocks(s) <= MaxBlocks /\ Blocks(s) * s.fps <= MaxBlockRate
            /\ s.fps <= PanelHz(desktop.hello)

\* When the stream has to be smaller than the desktop that was wanted, the
\* desktop is made as small, so that capture is one to one and only the
\* receiver scales, and once.  (A stream of less than four pixels a side is
\* less than a point of a Mac's desktop.)
CappedIsOneToOne ==
    desktop.plan # None /\ ~desktop.plan.explicit
      /\ desktop.plan.stream.w >= 4 /\ desktop.plan.stream.h >= 4 =>
        [w |-> Even(desktop.plan.output.w), h |-> Even(desktop.plan.output.h)]
          = [w |-> desktop.plan.stream.w, h |-> desktop.plan.stream.h]

\* Whatever panel, ceilings, envelopes and rates a hello announces, and
\* whatever size the user asked for, its plan can be decoded, and is not
\* scaled twice (plan, stream_size, the level fit).
PlanFits == StreamIsDecodable /\ CappedIsOneToOne
=============================================================================
