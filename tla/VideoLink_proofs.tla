-------------------------- MODULE VideoLink_proofs --------------------------
(***************************************************************************)
(* Proofs about the video path, for any pictures, parameter sets, queue    *)
(* and TCP capacities, for every quirk of the encoder (but one where an    *)
(* IDR that was asked for has to come), and however often the connection,  *)
(* the display, the encoder and the decoder are lost.                      *)
(***************************************************************************)
EXTENDS VideoLink, Sessions_proofs, SequenceTheorems

-----------------------------------------------------------------------------
(* The encode thread.                                                      *)

PipeStates ==
    [at : {"off", "poll", "choose", "encode", "send"},
     slot : Frames \cup {None}, pending : Frames \cup {None},
     last : Frames \cup {None}, work : Frames \cup {None},
     capped : BOOLEAN, opened : ParamSets \cup {None},
     fresh : BOOLEAN, force : BOOLEAN, forced : BOOLEAN,
     held : Seq(EncodedUnits), out : Seq(EncodedUnits)]

\* What the thread has in hand where it is, and that it is asked for an IDR
\* in only one place at a time; a new encoder has put out nothing yet.
PipeSound ==
    /\ enc.at = "encode" => enc.work # None /\ enc.opened # None
    /\ enc.at # "encode" => ~enc.forced
    /\ enc.at = "send" <=> enc.out # << >>
    /\ enc.fresh => enc.held = << >> /\ enc.out = << >>
    /\ ~Running => enc = Stopped /\ encoded = << >>

PipeInv == PipelineTypeOK /\ PipeSound

\* The next unit to leave the queue: the encoder has it, or is to make it.
Oncoming ==
    IF encoded # << >> THEN encoded
    ELSE IF enc.out # << >> THEN enc.out ELSE enc.held

NextIsIdr ==
    IF Oncoming = << >> THEN enc.fresh \/ enc.opened = None ELSE Head(Oncoming).idr

IdrIsComing ==
    \/ enc.force \/ enc.forced
    \/ Holds(encoded) \/ Holds(enc.out) \/ Holds(enc.held)

\* What a step of the encode thread, or of who hands it pictures, keeps.
PipeKept ==
    /\ PipeInv' /\ Running'
    /\ NextIsIdr => NextIsIdr'
    /\ "fails" \notin Quirks => (IdrIsComing => IdrIsComing')

LEMMA PipeTyped == PipelineTypeOK <=> /\ enc \in PipeStates /\ encoded \in Seq(EncodedUnits)
                                      /\ Len(encoded) <= QueueSize
BY DEF PipelineTypeOK, PipeStates

LEMMA HoldsOfTail ==
    ASSUME NEW S, NEW q \in Seq(S), q # << >>
    PROVE  Holds(q) => IsIdr(Head(q)) \/ Holds(Tail(q))
<1> SUFFICES ASSUME Holds(q), ~IsIdr(Head(q)) PROVE Holds(Tail(q))
  OBVIOUS
<1>1. PICK i \in 1 .. Len(q) : IsIdr(q[i])
  BY DEF Holds
<1>2. Head(q) = q[1] /\ i # 1
  BY <1>1
<1>3. i - 1 \in 1 .. Len(Tail(q)) /\ Tail(q)[i - 1] = q[i]
  BY <1>1, <1>2, HeadTailProperties
<1>4. DOMAIN Tail(q) = 1 .. Len(Tail(q))
  BY HeadTailProperties, LenProperties
<1> QED
  BY <1>1, <1>3, <1>4 DEF Holds

LEMMA HoldsOfAppend ==
    ASSUME NEW S, NEW q \in Seq(S), NEW u \in S
    PROVE  /\ Holds(q) => Holds(Append(q, u))
           /\ IsIdr(u) => Holds(Append(q, u))
<1>1. /\ DOMAIN q = 1 .. Len(q) /\ Len(q) \in Nat
      /\ DOMAIN Append(q, u) = 1 .. Len(q) + 1
      /\ \A i \in 1 .. Len(q) : Append(q, u)[i] = q[i]
      /\ Append(q, u)[Len(q) + 1] = u
  BY LenProperties, AppendProperties
<1> HIDE DEF IsIdr
<1> QED
  BY <1>1 DEF Holds

\* A step that leaves the encoder, and all it has put out, alone.
LEMMA QuietStep ==
    ASSUME PipeInv, Running, NEW next \in PipeStates, enc' = next, UNCHANGED encoded,
           next.out = enc.out, next.held = enc.held, next.fresh = enc.fresh,
           next.opened = enc.opened, next.force = enc.force,
           \/ next.at = enc.at /\ next.work = enc.work /\ next.forced = enc.forced
           \/ /\ next.at \in {"poll", "choose"} /\ enc.at # "send" /\ ~next.forced
              /\ "fails" \notin Quirks => ~enc.forced
    PROVE  PipeKept
<1>1. PipelineTypeOK'
  BY PipeTyped DEF PipeInv, PipelineTypeOK, PipeStates
<1>2. Running'
  BY DEF Running
<1>3. PipeSound'
  BY <1>2 DEF PipeInv, PipeSound, Running
<1>4. Oncoming' = Oncoming /\ (NextIsIdr => NextIsIdr')
  BY DEF Oncoming, NextIsIdr
<1>5. "fails" \notin Quirks => (IdrIsComing => IdrIsComing')
  BY DEF IdrIsComing, Holds
<1> QED
  BY <1>1, <1>2, <1>3, <1>4, <1>5 DEF PipeKept, PipeInv

LEMMA Captures ==
    ASSUME PipeInv, NEW f \in Frames, Capture(f)
    PROVE  PipeKept
<1>1. PICK next : next = [enc EXCEPT !.slot = f]
  OBVIOUS
<1>2. enc \in PipeStates /\ Running
  BY PipeTyped DEF PipeInv, Capture
<1>3. /\ next \in PipeStates /\ next.at = enc.at /\ next.out = enc.out /\ next.held = enc.held
      /\ next.fresh = enc.fresh /\ next.opened = enc.opened /\ next.force = enc.force
      /\ next.forced = enc.forced /\ next.work = enc.work
  BY <1>1, <1>2 DEF PipeStates
<1> QED
  BY <1>1, <1>2, <1>3, QuietStep DEF Capture

LEMMA Waits ==
    ASSUME PipeInv, CapPasses \/ Poll \/ WaitForSlot \/ OpenFails \/ EncodeFails
    PROVE  PipeKept
<1>0. enc \in PipeStates /\ PipeSound
  BY PipeTyped DEF PipeInv
<1>1. CASE CapPasses
  <2>1. PICK next : next = [enc EXCEPT !.capped = FALSE]
    OBVIOUS
  <2>2. Running /\ enc' = next /\ UNCHANGED encoded
    BY <1>0, <1>1, <2>1 DEF CapPasses, PipeSound, Running, Stopped
  <2>3. /\ next \in PipeStates /\ next.at = enc.at /\ next.out = enc.out /\ next.held = enc.held
        /\ next.fresh = enc.fresh /\ next.opened = enc.opened /\ next.force = enc.force
        /\ next.forced = enc.forced /\ next.work = enc.work
    BY <1>0, <2>1 DEF PipeStates
  <2> QED
    BY <2>2, <2>3, QuietStep
<1>2. CASE Poll
  <2>1. PICK pending \in Frames \cup {None} :
          pending = IF enc.slot # None THEN enc.slot ELSE enc.pending
    BY <1>0 DEF PipeStates
  <2>2. PICK next : next = [enc EXCEPT !.at = "choose", !.slot = None, !.pending = pending]
    OBVIOUS
  <2>3. enc.at = "poll" /\ enc' = next /\ UNCHANGED encoded
    BY <1>0, <1>2, <2>1, <2>2 DEF Poll
  <2>4. /\ next \in PipeStates /\ next.at = "choose" /\ next.out = enc.out /\ next.held = enc.held
        /\ next.fresh = enc.fresh /\ next.opened = enc.opened /\ next.force = enc.force
        /\ next.forced = enc.forced
    BY <1>0, <2>2 DEF PipeStates
  <2> QED
    BY <1>0, <2>3, <2>4, QuietStep DEF PipeSound, Running
<1>3. CASE WaitForSlot
  <2>1. PICK next : next = [enc EXCEPT !.at = "poll"]
    OBVIOUS
  <2>2. enc.at = "choose" /\ enc' = next /\ UNCHANGED encoded
    BY <1>3, <2>1 DEF WaitForSlot
  <2>3. /\ next \in PipeStates /\ next.at = "poll" /\ next.out = enc.out /\ next.held = enc.held
        /\ next.fresh = enc.fresh /\ next.opened = enc.opened /\ next.force = enc.force
        /\ next.forced = enc.forced
    BY <1>0, <2>1 DEF PipeStates
  <2> QED
    BY <1>0, <2>2, <2>3, QuietStep DEF PipeSound, Running
<1>4. CASE OpenFails
  <2>1. PICK last \in Frames \cup {None} : last = IF Replays THEN None ELSE enc.last
    BY <1>0 DEF PipeStates
  <2>2. PICK next : next = [enc EXCEPT !.at = "poll", !.pending = None, !.last = last,
                                       !.capped = TRUE]
    OBVIOUS
  <2>3. enc.at = "choose" /\ enc' = next /\ UNCHANGED encoded
    BY <1>4, <2>1, <2>2 DEF OpenFails, Ready
  <2>4. /\ next \in PipeStates /\ next.at = "poll" /\ next.out = enc.out /\ next.held = enc.held
        /\ next.fresh = enc.fresh /\ next.opened = enc.opened /\ next.force = enc.force
        /\ next.forced = enc.forced
    BY <1>0, <2>2 DEF PipeStates
  <2> QED
    BY <1>0, <2>3, <2>4, QuietStep DEF PipeSound, Running
<1>5. CASE EncodeFails
  <2>1. PICK next : next = [enc EXCEPT !.at = "poll", !.forced = FALSE, !.last = enc.work,
                                       !.work = None]
    OBVIOUS
  <2>2. /\ enc.at = "encode" /\ enc' = next /\ UNCHANGED encoded
        /\ "fails" \notin Quirks => ~enc.forced
    BY <1>5, <2>1 DEF EncodeFails
  <2>3. /\ next \in PipeStates /\ next.at = "poll" /\ next.out = enc.out /\ next.held = enc.held
        /\ next.fresh = enc.fresh /\ next.opened = enc.opened /\ next.force = enc.force
        /\ ~next.forced
    BY <1>0, <2>1 DEF PipeStates
  <2> QED
    BY <2>2, <2>3, QuietStep DEF Running
<1> QED
  BY <1>1, <1>2, <1>3, <1>4, <1>5

\* A new encoder starts with an IDR; else the request goes on with the picture.
LEMMA Begins ==
    ASSUME PipeInv, BeginEncode
    PROVE  PipeKept
<1>0. /\ enc \in PipeStates /\ encoded \in Seq(EncodedUnits) /\ Len(encoded) <= QueueSize
      /\ PipeSound /\ enc.at = "choose" /\ UNCHANGED encoded
  BY PipeTyped DEF PipeInv, BeginEncode, Ready
<1>1. Chosen \in Frames
  BY <1>0 DEF BeginEncode, Ready, Replays, Chosen, PipeStates
<1>2. PICK work \in Frames, size \in ParamSets : work = Chosen /\ size = Chosen.size
  BY <1>1 DEF Frames
<1>3. PICK reopens \in BOOLEAN : reopens = (enc.opened # size)
  OBVIOUS
<1>4. PICK last \in Frames \cup {None}, held \in Seq(EncodedUnits) :
        /\ last = IF Replays THEN None ELSE enc.last
        /\ held = IF reopens THEN << >> ELSE enc.held
  <2>1. /\ (IF Replays THEN None ELSE enc.last) \in Frames \cup {None}
        /\ enc.held \in Seq(EncodedUnits) /\ << >> \in Seq(EncodedUnits)
    BY <1>0, EmptySeq DEF PipeStates
  <2> QED
    BY <2>1, Zenon
<1>5. PICK fresh \in BOOLEAN, forced \in BOOLEAN :
        /\ fresh = (enc.fresh \/ reopens)
        /\ forced = (enc.force \/ reopens)
  OBVIOUS
<1>6. PICK next : next = [enc EXCEPT !.at = "encode", !.work = work, !.pending = None,
                            !.last = last, !.capped = TRUE, !.opened = size, !.fresh = fresh,
                            !.held = held, !.forced = forced, !.force = FALSE]
  OBVIOUS
<1>7. enc' = next
  BY <1>0, <1>2, <1>3, <1>4, <1>5, <1>6, Zenon DEF BeginEncode, Reopens
<1>8. /\ next \in PipeStates /\ next.at = "encode" /\ next.work = work /\ next.opened = size
      /\ next.fresh = fresh /\ next.held = held /\ next.forced = forced /\ next.force = FALSE
      /\ next.out = enc.out
  BY ZenonT(30), <1>0, <1>6 DEF PipeStates
<1>9. work # None /\ size # None
  BY <1>2, WireAssumption, PipelineAssumption
<1>10. PipelineTypeOK'
  BY <1>0, <1>7, <1>8 DEF PipelineTypeOK, PipeStates
<1>11. Running'
  BY <1>7, <1>8 DEF Running
<1>12. enc.out = << >> /\ ~enc.forced
  BY <1>0 DEF PipeSound
<1>13. PipeSound'
  BY <1>0, <1>4, <1>5, <1>7, <1>8, <1>9, <1>11, <1>12 DEF PipeSound
<1>14. NextIsIdr => NextIsIdr'
  BY <1>0, <1>3, <1>4, <1>5, <1>7, <1>8, <1>9, <1>12 DEF NextIsIdr, Oncoming
<1>15. IdrIsComing => IdrIsComing'
  BY <1>0, <1>4, <1>5, <1>7, <1>8, <1>12 DEF IdrIsComing, Holds
<1> QED
  BY <1>10, <1>11, <1>13, <1>14, <1>15 DEF PipeKept, PipeInv

\* A unit comes out, or is held back with the one that comes next.
LEMMA Encodes ==
    ASSUME PipeInv, EncodeOk
    PROVE  PipeKept
<1>0. /\ enc \in PipeStates /\ encoded \in Seq(EncodedUnits) /\ Len(encoded) <= QueueSize
      /\ PipeSound /\ enc.at = "encode" /\ UNCHANGED encoded
  BY PipeTyped DEF PipeInv, EncodeOk
<1>1. PICK idr \in IdrChoices, lag \in BOOLEAN :
        LET unit == UnitOf(enc.work, idr)
            out  == IF lag THEN enc.held ELSE Append(enc.held, unit)
        IN  enc' = [enc EXCEPT
                      !.at = IF out = << >> THEN "poll" ELSE "send",
                      !.out = out,
                      !.held = IF lag THEN <<unit>> ELSE << >>,
                      !.fresh = FALSE,
                      !.forced = FALSE,
                      !.force = AskedAgain(out),
                      !.last = enc.work,
                      !.work = None]
  BY DEF EncodeOk
<1>2. PICK unit : unit = UnitOf(enc.work, idr)
  OBVIOUS
<1>3. /\ unit \in EncodedUnits /\ unit.idr = idr /\ unit.type = "video"
      /\ enc.fresh => idr
  <2>1. enc.work \in Frames /\ idr \in BOOLEAN /\ (enc.fresh => idr)
    BY <1>0 DEF PipeSound, PipeStates, IdrChoices
  <2>2. enc.work.pic \in Pictures /\ enc.work.size \in ParamSets
    BY <2>1 DEF Frames
  <2> QED
    BY <1>2, <2>1, <2>2 DEF UnitOf, EncodedUnits
<1>4. PICK out \in Seq(EncodedUnits), held \in Seq(EncodedUnits) :
        /\ out = IF lag THEN enc.held ELSE Append(enc.held, unit)
        /\ held = IF lag THEN <<unit>> ELSE << >>
  <2>1. /\ enc.held \in Seq(EncodedUnits) /\ Append(enc.held, unit) \in Seq(EncodedUnits)
        /\ << >> \in Seq(EncodedUnits) /\ <<unit>> \in Seq(EncodedUnits)
    BY <1>0, <1>3, EmptySeq, AppendProperties DEF PipeStates
  <2> QED
    BY <2>1, Zenon
<1>5. PICK force \in BOOLEAN, at \in {"poll", "send"} :
        /\ force = AskedAgain(out)
        /\ at = IF out = << >> THEN "poll" ELSE "send"
  BY DEF AskedAgain
<1>6. PICK next : next = [enc EXCEPT !.at = at, !.out = out, !.held = held, !.fresh = FALSE,
                            !.forced = FALSE, !.force = force, !.last = enc.work, !.work = None]
  OBVIOUS
<1>7. enc' = next
  BY <1>1, <1>2, <1>4, <1>5, <1>6, Zenon
<1>8. /\ next \in PipeStates /\ next.at = at /\ next.out = out /\ next.held = held
      /\ ~next.fresh /\ ~next.forced /\ next.force = force /\ next.opened = enc.opened
  BY <1>0, <1>6 DEF PipeStates
<1>9. PipelineTypeOK'
  BY <1>0, <1>7, <1>8 DEF PipelineTypeOK, PipeStates
<1>10. Running'
  BY <1>5, <1>7, <1>8 DEF Running
<1>11. PipeSound'
  BY <1>5, <1>7, <1>8, <1>10 DEF PipeSound
<1>12. /\ enc.held \in Seq(EncodedUnits) /\ enc.out = << >> /\ enc.opened # None
       /\ enc.fresh => enc.held = << >>
  BY <1>0 DEF PipeSound, PipeStates
<1>13. /\ Append(enc.held, unit) # << >> /\ <<unit>> # << >> /\ Head(<<unit>>) = unit
       /\ Head(Append(enc.held, unit)) = IF enc.held = << >> THEN unit ELSE Head(enc.held)
  BY <1>3, <1>12, AppendProperties, HeadTailAppend
<1>14. NextIsIdr => NextIsIdr'
  <2>1. CASE encoded # << >>
    BY <1>0, <2>1 DEF NextIsIdr, Oncoming
  <2>2. CASE encoded = << >> /\ lag
    BY <1>0, <1>3, <1>4, <1>7, <1>8, <1>12, <1>13, <2>2 DEF NextIsIdr, Oncoming
  <2>3. CASE encoded = << >> /\ ~lag
    BY <1>0, <1>3, <1>4, <1>7, <1>8, <1>12, <1>13, <2>3 DEF NextIsIdr, Oncoming
  <2> QED
    BY <2>1, <2>2, <2>3
<1>15. IdrIsComing => IdrIsComing'
  <2>1. enc'.out = out /\ enc'.force = force /\ encoded' = encoded
    BY <1>0, <1>7, <1>8
  <2>2. Holds(encoded) => Holds(encoded')
    BY <2>1
  <2>3. Holds(enc.held) => Holds(out)
    BY <1>3, <1>4, <1>12, HoldsOfAppend
  <2>4. enc.force => force
    BY <1>5 DEF AskedAgain
  <2>5. enc.forced => force \/ Holds(out)
    <3>1. \A i \in DOMAIN out : out[i].type = "video"
      <4>1. ASSUME NEW i \in DOMAIN out PROVE out[i] \in EncodedUnits
        BY LenProperties, ElementOfSeq
      <4> QED
        BY <4>1 DEF EncodedUnits
    <3> QED
      BY <1>5, <3>1 DEF AskedAgain, Holds, IsIdr
  <2>6. ~Holds(enc.out)
    BY <1>12 DEF Holds
  <2>7. IdrIsComing => enc'.force \/ Holds(enc'.out) \/ Holds(encoded')
    BY <2>1, <2>2, <2>3, <2>4, <2>5, <2>6 DEF IdrIsComing
  <2> QED
    BY <2>7 DEF IdrIsComing, Holds
<1> QED
  BY <1>9, <1>10, <1>11, <1>14, <1>15 DEF PipeKept, PipeInv

\* The channel never holds more than it has room for, in the order they came.
LEMMA Queues ==
    ASSUME PipeInv, SendUnit
    PROVE  PipeKept
<1>0. /\ enc \in PipeStates /\ encoded \in Seq(EncodedUnits) /\ Len(encoded) < QueueSize
      /\ PipeSound /\ enc.at = "send" /\ enc.out # << >> /\ enc.out \in Seq(EncodedUnits)
  BY PipeTyped DEF PipeInv, SendUnit, PipeSound, PipeStates
<1>1. PICK unit \in EncodedUnits, out \in Seq(EncodedUnits) :
        /\ unit = Head(enc.out) /\ out = Tail(enc.out)
        /\ Len(out) = Len(enc.out) - 1
  BY <1>0, HeadTailProperties
<1>2. PICK at \in {"poll", "send"} : at = IF Len(enc.out) = 1 THEN "poll" ELSE enc.at
  BY <1>0
<1>3. PICK next : next = [enc EXCEPT !.at = at, !.out = out]
  OBVIOUS
<1>4. enc' = next /\ encoded' = Append(encoded, unit)
  BY <1>1, <1>2, <1>3 DEF SendUnit
<1>5. /\ next \in PipeStates /\ next.at = at /\ next.out = out /\ next.held = enc.held
      /\ next.fresh = enc.fresh /\ next.opened = enc.opened
      /\ next.force = enc.force /\ next.forced = enc.forced
  BY <1>0, <1>3 DEF PipeStates
<1>6. /\ encoded' \in Seq(EncodedUnits) /\ encoded' # << >> /\ Len(encoded') = Len(encoded) + 1
      /\ Head(encoded') = IF encoded = << >> THEN unit ELSE Head(encoded)
  BY <1>0, <1>1, <1>4, AppendProperties, HeadTailAppend
<1>7. PipelineTypeOK'
  <2>1. Len(encoded') <= QueueSize
    <3>1. Len(encoded) \in Nat
      BY <1>0, LenProperties
    <3> QED
      BY <1>0, <1>6, <3>1, PipelineAssumption
  <2> QED
    BY <1>4, <1>5, <1>6, <2>1 DEF PipelineTypeOK, PipeStates
<1>8. Running'
  BY <1>2, <1>4, <1>5 DEF Running
<1>9. out = << >> <=> at = "poll"
  <2>1. /\ Len(enc.out) \in Nat /\ Len(out) \in Nat
        /\ out = << >> <=> Len(out) = 0
    BY <1>0, <1>1, LenProperties, EmptySeq
  <2> QED
    BY <1>0, <1>1, <1>2, <2>1
<1>10. PipeSound'
  BY <1>0, <1>2, <1>4, <1>5, <1>8, <1>9 DEF PipeSound
<1>11. NextIsIdr => NextIsIdr'
  BY <1>0, <1>1, <1>4, <1>6 DEF NextIsIdr, Oncoming
<1>12. IdrIsComing => IdrIsComing'
  <2>1. Holds(enc.out) => IsIdr(unit) \/ Holds(out)
    BY <1>0, <1>1, HoldsOfTail
  <2>2. /\ Holds(encoded) => Holds(encoded')
        /\ IsIdr(unit) => Holds(encoded')
    BY <1>0, <1>1, <1>4, HoldsOfAppend
  <2>3. enc'.out = out /\ enc'.held = enc.held /\ enc'.force = enc.force /\ enc'.forced = enc.forced
    BY <1>4, <1>5
  <2>4. IdrIsComing => \/ enc'.force \/ enc'.forced
                       \/ Holds(encoded') \/ Holds(enc'.out) \/ Holds(enc'.held)
    BY <2>1, <2>2, <2>3 DEF IdrIsComing
  <2> QED
    BY <2>4 DEF IdrIsComing, Holds
<1> QED
  BY <1>7, <1>8, <1>10, <1>11, <1>12 DEF PipeKept, PipeInv

LEMMA ThreadKeeps ==
    ASSUME PipeInv, EncodeThread \/ CapPasses
    PROVE  PipeKept
BY Waits, Begins, Encodes, Queues DEF EncodeThread

LEMMA StoppedIs ==
    /\ Stopped \in PipeStates /\ Stopped.at = "off" /\ Stopped.opened = None
    /\ ~Stopped.forced /\ ~Stopped.fresh /\ Stopped.out = << >> /\ Stopped.held = << >>
<1>1. << >> \in Seq(EncodedUnits)
  BY EmptySeq
<1> HIDE DEF EncodedUnits
<1> QED
  BY <1>1 DEF Stopped, PipeStates

LEMMA StartsAnew ==
    ASSUME StartPipeline
    PROVE  PipeInv' /\ Running' /\ NextIsIdr' /\ IdrIsComing'
<1>1. PICK s \in PipeStates :
        /\ s = Started /\ s.at = "poll" /\ s.force /\ s.opened = None /\ ~s.forced
        /\ s.out = << >> /\ s.held = << >> /\ ~s.fresh
  <2>1. PICK k \in PipeStates :
          /\ k = Stopped /\ k.opened = None /\ ~k.forced
          /\ k.out = << >> /\ k.held = << >> /\ ~k.fresh
    BY StoppedIs
  <2>2. Started = [k EXCEPT !.at = "poll", !.force = TRUE]
    BY <2>1 DEF Started
  <2>3. PICK s : s = [k EXCEPT !.at = "poll", !.force = TRUE]
    OBVIOUS
  <2>4. /\ s \in PipeStates /\ s.at = "poll" /\ s.force /\ s.opened = None /\ ~s.forced
        /\ s.out = << >> /\ s.held = << >> /\ ~s.fresh
    BY <2>1, <2>3 DEF PipeStates
  <2> QED
    BY <2>2, <2>3, <2>4
<1>2. enc' = s /\ encoded' = << >> /\ Len(encoded') = 0 /\ encoded' \in Seq(EncodedUnits)
  BY <1>1, EmptySeq DEF StartPipeline
<1>3. Running' /\ PipeSound' /\ NextIsIdr' /\ IdrIsComing'
  BY <1>1, <1>2 DEF Running, PipeSound, NextIsIdr, Oncoming, IdrIsComing
<1> QED
  BY <1>1, <1>2, <1>3, PipelineAssumption DEF PipeInv, PipelineTypeOK, PipeStates

LEMMA IsStopped ==
    ASSUME StopPipeline
    PROVE  PipeInv' /\ ~Running' /\ NextIsIdr'
<1>1. PICK s \in PipeStates :
        /\ s = Stopped /\ s.at = "off" /\ s.opened = None /\ ~s.forced
        /\ s.out = << >> /\ s.held = << >> /\ ~s.fresh
  BY StoppedIs
<1>2. enc' = s /\ encoded' = << >> /\ Len(encoded') = 0 /\ encoded' \in Seq(EncodedUnits)
  BY <1>1, EmptySeq DEF StopPipeline
<1>3. ~Running' /\ PipeSound' /\ NextIsIdr'
  BY <1>1, <1>2 DEF Running, PipeSound, NextIsIdr, Oncoming, Stopped
<1> QED
  BY <1>1, <1>2, <1>3, PipelineAssumption DEF PipeInv, PipelineTypeOK, PipeStates

\* The session asks for an IDR, or does not.
LEMMA Asks ==
    ASSUME PipeInv, UNCHANGED encoded, enc' = enc \/ enc' = WithIdrForced
    PROVE  /\ PipeInv' /\ Running' = Running
           /\ NextIsIdr => NextIsIdr'
           /\ IdrIsComing => IdrIsComing'
           /\ Running /\ enc' = WithIdrForced => IdrIsComing'
<1>0. enc \in PipeStates /\ PipeSound
  BY PipeTyped DEF PipeInv
<1>1. CASE enc' = enc
  <2>1. PipeInv' /\ Running' = Running /\ (NextIsIdr => NextIsIdr') /\ (IdrIsComing => IdrIsComing')
    BY <1>1 DEF PipeInv, PipelineTypeOK, PipeSound, Running, NextIsIdr, Oncoming, IdrIsComing, Holds
  <2>2. Running /\ enc' = WithIdrForced => enc'.force
    BY <1>0 DEF WithIdrForced, PipeStates
  <2> QED
    BY <2>1, <2>2 DEF IdrIsComing
<1>2. CASE Running /\ enc' = WithIdrForced
  <2>1. PICK next : next = [enc EXCEPT !.force = TRUE]
    OBVIOUS
  <2>2. enc' = next
    BY <1>2, <2>1 DEF WithIdrForced
  <2>3. /\ next \in PipeStates /\ next.force /\ next.at = enc.at /\ next.work = enc.work
        /\ next.out = enc.out /\ next.held = enc.held /\ next.fresh = enc.fresh
        /\ next.opened = enc.opened /\ next.forced = enc.forced
    BY <1>0, <2>1 DEF PipeStates
  <2>4. PipelineTypeOK'
    BY <2>2, <2>3 DEF PipeInv, PipelineTypeOK, PipeStates
  <2>5. Running'
    BY <1>2, <2>2, <2>3 DEF Running
  <2>6. PipeSound'
    BY <1>0, <2>2, <2>3, <2>5 DEF PipeSound
  <2>7. NextIsIdr => NextIsIdr'
    BY <2>2, <2>3 DEF NextIsIdr, Oncoming
  <2>8. IdrIsComing'
    BY <2>2, <2>3 DEF IdrIsComing
  <2> QED
    BY <1>2, <2>4, <2>5, <2>6, <2>7, <2>8 DEF PipeInv
<1> QED
  BY <1>1, <1>2 DEF WithIdrForced

\* The session takes the oldest unit.
LEMMA Takes ==
    ASSUME PipeInv, TakeEncoded
    PROVE  /\ PipeInv' /\ Running /\ Running'
           /\ Head(encoded) \in EncodedUnits
           /\ NextIsIdr => Head(encoded).idr
           /\ IdrIsComing => IdrIsComing' \/ Head(encoded).idr
<1>0. /\ enc \in PipeStates /\ encoded \in Seq(EncodedUnits) /\ Len(encoded) <= QueueSize
      /\ PipeSound /\ encoded # << >> /\ encoded' = Tail(encoded) /\ UNCHANGED enc
  BY PipeTyped DEF PipeInv, TakeEncoded
<1>1. /\ Head(encoded) \in EncodedUnits /\ encoded' \in Seq(EncodedUnits)
      /\ Len(encoded') = Len(encoded) - 1
  BY <1>0, HeadTailProperties
<1>2. Len(encoded) \in Nat /\ Len(encoded') <= QueueSize
  BY <1>0, <1>1, LenProperties, PipelineAssumption
<1>3. Running /\ Running'
  BY <1>0 DEF PipeSound, Running
<1>4. PipeInv'
  BY <1>0, <1>1, <1>2, <1>3 DEF PipeInv, PipelineTypeOK, PipeStates, PipeSound
<1>5. NextIsIdr => Head(encoded).idr
  BY <1>0 DEF NextIsIdr, Oncoming
<1>6. Holds(encoded) => Head(encoded).idr \/ Holds(encoded')
  BY <1>0, HoldsOfTail DEF IsIdr
<1>7. Holds(enc.out)' = Holds(enc.out) /\ Holds(enc.held)' = Holds(enc.held)
  BY <1>0 DEF Holds
<1>8. Holds(encoded)' = Holds(encoded')
  BY DEF Holds
<1>9. IdrIsComing => IdrIsComing' \/ Head(encoded).idr
  BY <1>0, <1>6, <1>7, <1>8 DEF IdrIsComing
<1> QED
  BY <1>1, <1>3, <1>4, <1>5, <1>9

-----------------------------------------------------------------------------
(* The connection.                                                         *)

\* What this composition says in either direction.
Heard == Hellos \cup {Kf}
Announced == {Welcome(OurPv)} \cup [type : {"updateRequired", "streamConfig"}]
CutUnits ==
    [type : {"video"}, ok : {TRUE}, idr : BOOLEAN, params : ParamSets \cup {None},
     pic : Pictures, cut : BOOLEAN]
Said == Announced \cup CutUnits

LinkTyped ==
    /\ SenderTypeOK /\ ReceiverTypeOK
    /\ up \in Seq(Heard) /\ down \in Seq(Said)
    /\ screen \in [pic : Pictures, owed : BOOLEAN]
    /\ broken \in [sent : BOOLEAN, fed : BOOLEAN, orphan : BOOLEAN]

\* The two ends are connected together, and there is a pipeline only where
\* video may be sent.
Connected ==
    /\ snd.connected = rcv.connected
    /\ ~snd.connected => up = << >> /\ down = << >> /\ ~Running
    /\ Running => ReadyForVideo

\* No P frame under way was cut off from the unit before it.
Uncut(q) == \A i \in DOMAIN q : q[i].type = "video" /\ ~q[i].idr => ~q[i].cut

\* Where the chain is cut, an IDR is owed: by the session or by the encoder on
\* the one end, to the decoder on the other.
Chain ==
    /\ EnteredWithParams
    /\ broken.sent => snd.needIdr \/ NextIsIdr
    /\ broken.fed => rcv.waitingForIdr
    /\ Uncut(down)
    /\ ReferenceChain

Announces(q) ==
    /\ q # << >> /\ q[1].type = "welcome"
    /\ \E j \in DOMAIN q : /\ q[j].type = "streamConfig"
                           /\ \A i \in 1 .. j : q[i].type # "video"

\* Until the receiver hears the welcome, its hello is on the way or the
\* sender's announcements are.
Shaken ==
    rcv.connected /\ rcv.senderPv = None =>
        \/ /\ up # << >> /\ Head(up).type = "hello"
           /\ down = << >> /\ ~Running
        \/ Announces(down)

LinkInv == LinkTyped /\ PipeInv /\ Connected /\ Chain /\ Shaken

LinkKept ==
    /\ LinkInv'
    /\ "fails" \notin Quirks /\ OwedIdrIsComing => OwedIdrIsComing'

-----------------------------------------------------------------------------
(* Messages.                                                               *)

LEMMA SaidAre ==
    ASSUME NEW m \in Said
    PROVE  \/ m \in CutUnits /\ m.type = "video"
           \/ m = Welcome(OurPv) /\ m.type = "welcome"
           \/ m.type \in {"updateRequired", "streamConfig"}
<1>1. CASE m \in CutUnits
  BY <1>1 DEF CutUnits
<1>2. CASE m = Welcome(OurPv)
  BY <1>2 DEF Welcome
<1>3. CASE m \in [type : {"updateRequired", "streamConfig"}]
  BY <1>3
<1> QED
  BY <1>1, <1>2, <1>3 DEF Said, Announced

LEMMA HeardAre ==
    ASSUME NEW m \in Heard
    PROVE  m \in ReceiverMsgs /\ ((m \in Hellos /\ m.type = "hello") \/ (m = Kf /\ m.type = "kf"))
BY DEF Heard, Hellos, Kf, ReceiverMsgs

\* What is added at the end changes nothing for what is before it.
LEMMA Adds ==
    ASSUME NEW q \in Seq(Said), NEW r \in Seq(Said)
    PROVE  /\ q \o r \in Seq(Said)
           /\ Announces(q) => Announces(q \o r)
           /\ Uncut(q) /\ Uncut(r) => Uncut(q \o r)
<1> DEFINE t == q \o r
<1>1. /\ t \in Seq(Said) /\ Len(t) = Len(q) + Len(r)
      /\ \A i \in 1 .. Len(t) : t[i] = IF i <= Len(q) THEN q[i] ELSE r[i - Len(q)]
      /\ DOMAIN t = 1 .. Len(t) /\ DOMAIN q = 1 .. Len(q) /\ DOMAIN r = 1 .. Len(r)
      /\ Len(q) \in Nat /\ Len(r) \in Nat
  BY ConcatProperties, LenProperties
<1> HIDE DEF t
<1>2. ASSUME Uncut(q), Uncut(r) PROVE Uncut(t)
  <2> SUFFICES ASSUME NEW i \in 1 .. Len(t), t[i].type = "video", ~t[i].idr
               PROVE  ~t[i].cut
    BY <1>1 DEF Uncut
  <2>1. CASE i <= Len(q)
    BY <1>1, <1>2, <2>1 DEF Uncut
  <2>2. CASE i > Len(q)
    <3>1. i - Len(q) \in 1 .. Len(r) /\ t[i] = r[i - Len(q)]
      BY <1>1, <2>2
    <3> QED
      BY <1>1, <1>2, <3>1 DEF Uncut
  <2> QED
    BY <1>1, <2>1, <2>2
<1>3. ASSUME Announces(q) PROVE Announces(t)
  <2>1. PICK j \in 1 .. Len(q) : /\ q[j].type = "streamConfig"
                                 /\ \A i \in 1 .. j : q[i].type # "video"
    BY <1>1, <1>3 DEF Announces
  <2>2. j \in 1 .. Len(t) /\ \A i \in 1 .. j : t[i] = q[i]
    BY <1>1, <2>1
  <2>3. t # << >>
    BY <1>1, <2>1, EmptySeq
  <2> QED
    BY <1>1, <1>3, <2>1, <2>2, <2>3 DEF Announces
<1> QED
  BY <1>1, <1>2, <1>3 DEF t

LEMMA Goes ==
    ASSUME NEW q \in Seq(Said), q # << >>
    PROVE  /\ Head(q) \in Said /\ Head(q) = q[1] /\ Tail(q) \in Seq(Said)
           /\ Uncut(q) => Uncut(Tail(q))
           /\ Uncut(q) /\ Head(q).type = "video" /\ ~Head(q).idr => ~Head(q).cut
<1>1. /\ Head(q) \in Said /\ Tail(q) \in Seq(Said) /\ Len(Tail(q)) = Len(q) - 1
      /\ \A i \in 1 .. Len(Tail(q)) : Tail(q)[i] = q[i + 1]
      /\ DOMAIN q = 1 .. Len(q) /\ DOMAIN Tail(q) = 1 .. Len(Tail(q)) /\ Len(q) \in Nat \ {0}
  BY HeadTailProperties, LenProperties, EmptySeq
<1>2. Head(q) = q[1]
  OBVIOUS
<1>3. Uncut(q) => Uncut(Tail(q))
  BY <1>1 DEF Uncut
<1> QED
  BY <1>1, <1>2, <1>3 DEF Uncut

LEMMA OneMessage ==
    ASSUME NEW m \in Said
    PROVE  /\ <<m>> \in Seq(Said)
           /\ (m.type = "video" /\ ~m.idr => ~m.cut) => Uncut(<<m>>)
           /\ \A q \in Seq(Said) : Append(q, m) = q \o <<m>>
<1>1. <<m>> \in Seq(Said)
  OBVIOUS
<1>2. \A q \in Seq(Said) : Append(q, m) = q \o <<m>>
  BY AppendIsConcat
<1>3. DOMAIN <<m>> = {1} /\ <<m>>[1] = m
  OBVIOUS
<1> HIDE DEF Said
<1> QED
  BY <1>1, <1>2, <1>3 DEF Uncut

\* What the sender answers, and what its first answer amounts to.
LEMMA Answers ==
    ASSUME NEW m \in Heard
    PROVE  /\ SenderReplies(m) \in Seq(Said) /\ Uncut(SenderReplies(m))
           /\ m.type = "hello" =>
                Announces((<< >> \o SenderReplies(m)) \o <<[type |-> "streamConfig"]>>)
<1> DEFINE w == Welcome(OurPv)
           n == [type |-> "updateRequired"]
           c == [type |-> "streamConfig"]
<1>1. /\ w \in Said /\ n \in Said /\ c \in Said
      /\ w.type = "welcome" /\ n.type = "updateRequired" /\ c.type = "streamConfig"
  BY DEF Said, Announced, Welcome
<1>2. SenderReplies(m) = (IF m.type = "hello" THEN HelloReplies(m) ELSE << >>)
  BY HeardAre DEF SenderReplies
<1>3. HelloReplies(m) \in {<<w>> \o <<n>>, <<w>> \o << >>}
  BY DEF HelloReplies
<1> HIDE DEF w, n, c, Said
<1>4. /\ <<w>> \in Seq(Said) /\ <<n>> \in Seq(Said) /\ <<c>> \in Seq(Said)
      /\ << >> \in Seq(Said)
  BY <1>1, EmptySeq
<1>5. PICK r \in Seq(Said) :
        /\ r = HelloReplies(m) /\ Len(r) \in {1, 2} /\ r[1] = w
        /\ \A i \in 1 .. Len(r) : r[i] \in {w, n}
  <2>1. CASE HelloReplies(m) = <<w>> \o <<n>>
    <3>1. PICK r : r = <<w>> \o <<n>>
      OBVIOUS
    <3>2. /\ r \in Seq(Said) /\ Len(r) = 2
          /\ \A i \in 1 .. 2 : r[i] = IF i <= 1 THEN <<w>>[i] ELSE <<n>>[i - 1]
      BY <1>4, <3>1, ConcatProperties
    <3>3. r[1] = w /\ r[2] = n
      BY <3>2
    <3>4. /\ r = HelloReplies(m) /\ Len(r) \in {1, 2}
          /\ \A i \in 1 .. Len(r) : r[i] \in {w, n}
      BY <2>1, <3>1, <3>2, <3>3
    <3> QED
      BY <3>2, <3>3, <3>4
  <2>2. CASE HelloReplies(m) = <<w>> \o << >>
    <3>1. PICK r \in Seq(Said) : r = <<w>>
      BY <1>4
    <3>2. Len(r) = 1 /\ r[1] = w /\ \A i \in 1 .. Len(r) : r[i] \in {w, n}
      BY <3>1
    <3>3. r = HelloReplies(m)
      BY <1>4, <2>2, <3>1, ConcatEmptySeq
    <3> QED
      BY <3>2, <3>3
  <2> QED
    BY <1>3, <2>1, <2>2
<1>6. DOMAIN r = 1 .. Len(r) /\ Uncut(r)
  BY <1>1, <1>5, LenProperties DEF Uncut
<1>7. Uncut(<< >>)
  BY DEF Uncut
<1>8. Announces((<< >> \o r) \o <<c>>)
  <2> DEFINE t == r \o <<c>>
  <2>1. << >> \o r = r
    BY ConcatEmptySeq
  <2>2. /\ t \in Seq(Said) /\ Len(t) = Len(r) + 1 /\ t[Len(r) + 1] = c
        /\ \A i \in 1 .. Len(r) : t[i] = r[i]
        /\ DOMAIN t = 1 .. Len(t) /\ t # << >>
    BY <1>1, <1>4, AppendIsConcat, AppendProperties, LenProperties
  <2> HIDE DEF t
  <2>3. \A i \in 1 .. Len(r) + 1 : t[i].type # "video"
    BY <1>1, <1>5, <2>2
  <2>4. Announces(t)
    BY <1>1, <1>5, <2>2, <2>3 DEF Announces
  <2> QED
    BY <2>1, <2>4 DEF t
<1> QED
  BY <1>2, <1>4, <1>5, <1>6, <1>7, <1>8 DEF c

-----------------------------------------------------------------------------
(* The steps of the connection and of the sender.                          *)

\* A step of the sender's side that leaves the receiver's.
LEMMA Parts ==
    ASSUME LinkInv
    PROVE  /\ LinkTyped /\ PipeInv /\ PipeSound /\ Connected /\ Chain /\ Shaken
           /\ SenderTypeOK /\ ReceiverTypeOK /\ EnteredWithParams
           /\ up \in Seq(Heard) /\ down \in Seq(Said)
           /\ broken \in [sent : BOOLEAN, fed : BOOLEAN, orphan : BOOLEAN]
BY DEF LinkInv, LinkTyped, PipeInv, Chain

LEMMA Dials ==
    ASSUME LinkInv, Dial
    PROVE  LinkKept
<1>0. /\ snd' = Fresh(TRUE) /\ rcv' = Reset(TRUE, rcv.offer) /\ up' = <<HelloFrame>>
      /\ UNCHANGED <<enc, encoded, down, screen>>
      /\ broken' = [broken EXCEPT !.sent = TRUE, !.fed = TRUE]
      /\ down = << >> /\ ~Running
  BY Parts DEF Dial, SenderConnect, ReceiverConnect, pipeVars, Connected
<1>1. SenderTypeOK'
  BY <1>0, FreshTyped
<1>2. rcv.offer \in Ports \cup {None}
  BY Parts DEF ReceiverTypeOK
<1>3. ReceiverTypeOK'
  BY <1>0, <1>2, ResetTyped DEF ReceiverTypeOK
<1>4. HelloFrame \in Heard /\ HelloFrame.type = "hello"
  BY <1>2, WireAssumption DEF HelloFrame, Heard, Hellos
<1>5. up' \in Seq(Heard) /\ up' # << >> /\ Head(up') = HelloFrame
  <2> HIDE DEF HelloFrame, Heard
  <2> QED
    BY <1>0, <1>4
<1>6. /\ broken' \in [sent : BOOLEAN, fed : BOOLEAN, orphan : BOOLEAN]
      /\ broken'.orphan = broken.orphan
  BY <1>0, Parts
<1>7. LinkTyped'
  BY <1>0, <1>1, <1>3, <1>5, <1>6, Parts DEF LinkTyped
<1>8. /\ snd'.connected /\ rcv'.connected /\ snd'.needIdr /\ rcv'.waitingForIdr
  BY <1>0 DEF Fresh, Reset
<1>9. PipeInv' /\ ~Running'
  BY <1>0, Parts DEF PipeInv, PipelineTypeOK, PipeSound, Running
<1>10. Connected'
  BY <1>8, <1>9 DEF Connected
<1>11. Chain'
  BY <1>0, <1>6, <1>8, Parts DEF Chain, EnteredWithParams, ReferenceChain, Uncut
<1>12. Shaken'
  BY <1>0, <1>4, <1>5, <1>9 DEF Shaken
<1> QED
  BY <1>7, <1>9, <1>10, <1>11, <1>12 DEF LinkKept, LinkInv, OwedIdrIsComing

LEMMA HangsUp ==
    ASSUME LinkInv, HangUp
    PROVE  LinkKept
<1>0. /\ SenderDisconnect /\ ReceiverDisconnect /\ StopPipeline
      /\ up' = << >> /\ down' = << >> /\ screen' = [screen EXCEPT !.owed = FALSE]
      /\ UNCHANGED broken
  BY DEF HangUp
<1>1. SenderTypeOK' /\ ReceiverTypeOK'
  BY <1>0, Parts, SenderStepTyped, ReceiverStepTyped DEF SenderNext, ReceiverNext
<1>2. /\ snd'.connected = FALSE /\ rcv'.connected = FALSE
      /\ snd'.needIdr = snd.needIdr /\ rcv'.waitingForIdr = rcv.waitingForIdr
  BY <1>0, Parts DEF SenderDisconnect, ReceiverDisconnect, SenderTypeOK, ReceiverTypeOK
<1>3. PipeInv' /\ ~Running' /\ NextIsIdr'
  BY <1>0, IsStopped
<1>4. LinkTyped'
  <2>1. up' \in Seq(Heard) /\ down' \in Seq(Said)
    BY <1>0, EmptySeq
  <2>2. screen' \in [pic : Pictures, owed : BOOLEAN]
    BY <1>0, Parts DEF LinkTyped
  <2> QED
    BY <1>0, <1>1, <2>1, <2>2, Parts DEF LinkTyped
<1>5. Connected' /\ Shaken'
  BY <1>0, <1>2, <1>3 DEF Connected, Shaken
<1>6. EnteredWithParams'
  BY <1>0, Parts, EnteredStep DEF ReceiverNext
<1>7. Chain'
  BY <1>0, <1>2, <1>3, <1>6, Parts DEF Chain, ReferenceChain, Uncut
<1> QED
  BY <1>3, <1>4, <1>5, <1>7 DEF LinkKept, LinkInv, OwedIdrIsComing

\* A hello or a kf: the session owes an IDR, and asks the encoder for it.
LEMMA Hears ==
    ASSUME LinkInv, NEW m \in Heard, SenderHears(m)
    PROVE  /\ SenderTypeOK' /\ snd.connected /\ snd'.connected /\ snd'.needIdr
           /\ ReadyForVideo => ReadyForVideo'
           /\ m.type = "hello" => ReadyForVideo'
           /\ RequestsKeyframe(m) \/ snd.needIdr
<1>1. m \in ReceiverMsgs /\ ((m \in Hellos /\ m.type = "hello") \/ (m = Kf /\ m.type = "kf"))
  BY HeardAre
<1>2. SenderTypeOK'
  BY <1>1, Parts, SenderStepTyped DEF SenderNext
<1>3. CASE m \in Hellos /\ m.type = "hello"
  <2>1. HearHello(m)
    BY <1>3 DEF SenderHears, PassedUp
  <2>2. /\ snd.connected /\ snd'.connected /\ snd'.needIdr /\ snd'.hello = m
    BY <2>1, Parts DEF HearHello, SenderTypeOK
  <2>3. m # None
    BY <1>3, NoneIsNoHello
  <2> QED
    BY <1>2, <1>3, <2>2, <2>3 DEF ReadyForVideo, RequestsKeyframe
<1>4. CASE m.type = "kf"
  <2>1. HearKf
    BY <1>4 DEF SenderHears, PassedUp
  <2>2. /\ snd.connected /\ snd'.connected /\ snd'.needIdr /\ snd'.hello = snd.hello
    BY <2>1, Parts DEF HearKf, SenderTypeOK
  <2> QED
    BY <1>2, <1>4, <2>2 DEF ReadyForVideo, RequestsKeyframe
<1> QED
  BY <1>1, <1>3, <1>4

LEMMA SenderGetsIt ==
    ASSUME LinkInv, SenderGets
    PROVE  LinkKept
<1>1. PICK m : m = Head(up)
  OBVIOUS
<1>2. PICK first \in BOOLEAN : first = (m.type = "hello" /\ ~Running)
  OBVIOUS
<1>3. /\ up # << >> /\ SenderHears(m) /\ up' = Tail(up) /\ UNCHANGED <<rcv, broken>>
      /\ down' = (down \o SenderReplies(m))
                   \o (IF first THEN <<[type |-> "streamConfig"]>> ELSE << >>)
      /\ first => StartCapture
      /\ ~first => UNCHANGED <<encoded, screen>> /\ (enc' = enc \/ enc' = WithIdrForced)
      /\ ~first /\ RequestsKeyframe(m) => enc' = WithIdrForced
  BY <1>1, <1>2 DEF SenderGets
<1>4. m \in Heard /\ up' \in Seq(Heard)
  BY <1>1, <1>3, Parts, HeadTailProperties
<1>5. /\ SenderTypeOK' /\ snd.connected /\ snd'.connected /\ snd'.needIdr
      /\ ReadyForVideo => ReadyForVideo'
      /\ m.type = "hello" => ReadyForVideo'
      /\ RequestsKeyframe(m) \/ snd.needIdr
  BY <1>3, <1>4, Hears
<1>6. PICK r \in Seq(Said), c \in Seq(Said) :
        /\ r = SenderReplies(m) /\ Uncut(r)
        /\ c = (IF first THEN <<[type |-> "streamConfig"]>> ELSE << >>) /\ Uncut(c)
  <2>1. [type |-> "streamConfig"] \in Said
    BY DEF Said, Announced
  <2>2. <<[type |-> "streamConfig"]>> \in Seq(Said) /\ Uncut(<<[type |-> "streamConfig"]>>)
    BY <2>1, OneMessage
  <2>3. << >> \in Seq(Said) /\ Uncut(<< >>)
    BY EmptySeq DEF Uncut
  <2>4. SenderReplies(m) \in Seq(Said) /\ Uncut(SenderReplies(m))
    BY <1>4, Answers
  <2> QED
    BY <2>2, <2>3, <2>4
<1>7. /\ down' = (down \o r) \o c /\ down' \in Seq(Said) /\ Uncut(down')
      /\ Announces(down) => Announces(down')
  <2>1. down' = (down \o r) \o c /\ down \in Seq(Said) /\ Uncut(down)
    BY <1>3, <1>6, Parts DEF Chain
  <2>2. /\ down \o r \in Seq(Said) /\ Uncut(down \o r)
        /\ Announces(down) => Announces(down \o r)
    BY <1>6, <2>1, Adds
  <2> QED
    BY <1>6, <2>1, <2>2, Adds
<1>8. /\ PipeInv' /\ (NextIsIdr => NextIsIdr') /\ (Running' <=> first \/ Running)
      /\ IdrIsComing => IdrIsComing'
      /\ first \/ (Running /\ RequestsKeyframe(m)) => IdrIsComing'
  <2>1. CASE first
    BY <1>2, <1>3, <2>1, StartsAnew DEF StartCapture
  <2>2. CASE ~first
    BY <1>3, <2>2, Parts, Asks
  <2> QED
    BY <2>1, <2>2
<1>9. LinkTyped'
  <2>1. screen' \in [pic : Pictures, owed : BOOLEAN]
    BY <1>3, Parts DEF LinkTyped, StartCapture
  <2>2. ReceiverTypeOK'
    BY <1>3, Parts DEF ReceiverTypeOK
  <2> QED
    BY <1>3, <1>4, <1>5, <1>7, <2>1, <2>2, Parts DEF LinkTyped
<1>10. Connected'
  BY <1>2, <1>3, <1>5, <1>8, Parts DEF Connected
<1>11. Chain'
  <2>1. Uncut(down)'
    BY <1>7 DEF Uncut
  <2> QED
    BY <1>3, <1>5, <2>1, Parts DEF Chain, EnteredWithParams, ReferenceChain
<1>12. Shaken'
  <2> SUFFICES ASSUME rcv.connected, rcv.senderPv = None PROVE Announces(down)'
    BY <1>3 DEF Shaken
  <2>1. Announces(down')
    <3>1. CASE Announces(down)
      BY <1>7, <3>1
    <3>2. CASE m.type = "hello" /\ down = << >> /\ ~Running
      BY <1>2, <1>3, <1>4, <3>2, Answers
    <3> QED
      BY <1>1, <3>1, <3>2, Parts DEF Shaken
  <2> QED
    BY <2>1 DEF Announces
<1>13. "fails" \notin Quirks /\ OwedIdrIsComing => OwedIdrIsComing'
  BY <1>2, <1>5, <1>8 DEF OwedIdrIsComing, IdrIsComing
<1> QED
  BY <1>8, <1>9, <1>10, <1>11, <1>12, <1>13 DEF LinkKept, LinkInv

LEMMA Rebuilds ==
    ASSUME LinkInv, Rebuild
    PROVE  LinkKept
<1>1. /\ Running /\ StartCapture /\ down' = Append(down, [type |-> "streamConfig"])
      /\ broken' = [broken EXCEPT !.sent = TRUE] /\ UNCHANGED <<snd, rcv, up>>
  BY DEF Rebuild
<1>2. PipeInv' /\ Running' /\ NextIsIdr' /\ IdrIsComing'
  BY <1>1, StartsAnew DEF StartCapture
<1>3. PICK c \in Said : c = [type |-> "streamConfig"]
  BY DEF Said, Announced
<1>4. /\ down' = down \o <<c>> /\ <<c>> \in Seq(Said) /\ Uncut(<<c>>)
  BY <1>1, <1>3, Parts, OneMessage
<1>5. down' \in Seq(Said) /\ Uncut(down') /\ (Announces(down) => Announces(down'))
  BY <1>4, Parts, Adds DEF Chain
<1>6. /\ broken' \in [sent : BOOLEAN, fed : BOOLEAN, orphan : BOOLEAN]
      /\ broken'.orphan = broken.orphan /\ broken'.fed = broken.fed
  BY <1>1, Parts
<1>7. LinkTyped'
  <2>1. screen' \in [pic : Pictures, owed : BOOLEAN]
    BY <1>1, Parts DEF LinkTyped, StartCapture
  <2> QED
    BY <1>1, <1>5, <1>6, <2>1, Parts DEF LinkTyped, SenderTypeOK, ReceiverTypeOK
<1>8. Connected'
  BY <1>1, <1>2, Parts DEF Connected, ReadyForVideo
<1>9. Chain'
  BY <1>1, <1>2, <1>5, <1>6, Parts DEF Chain, EnteredWithParams, ReferenceChain, Uncut
<1>10. Shaken'
  BY <1>1, <1>5, Parts DEF Shaken, Announces
<1> QED
  BY <1>2, <1>7, <1>8, <1>9, <1>10 DEF LinkKept, LinkInv, OwedIdrIsComing, IdrIsComing

\* A P frame goes out only after the unit before it, or nothing does.
LEMMA Sends ==
    ASSUME LinkInv, SendEncoded
    PROVE  LinkKept
<1>1. PICK u : u = Head(encoded)
  OBVIOUS
<1>2. /\ TakeEncoded /\ PushFrame(u.idr) /\ UNCHANGED <<rcv, up, screen>>
      /\ down' = IF Sendable(u.idr) THEN Append(down, Cut(u)) ELSE down
      /\ broken' = [broken EXCEPT !.sent = ~Sendable(u.idr)]
  BY <1>1 DEF SendEncoded
<1>3. /\ PipeInv' /\ Running /\ Running' /\ u \in EncodedUnits
      /\ NextIsIdr => u.idr
      /\ IdrIsComing => IdrIsComing' \/ u.idr
  BY <1>1, <1>2, Parts, Takes
<1>4. PICK idr \in BOOLEAN, sendable \in BOOLEAN, sent \in BOOLEAN :
        /\ idr = u.idr /\ sendable = Sendable(u.idr) /\ sent = ~sendable
  BY <1>3 DEF EncodedUnits, Sendable
<1>5. ReadyForVideo /\ (sendable <=> (snd.needIdr => idr))
  BY <1>3, <1>4, Parts DEF Connected, Sendable
<1>6. SenderTypeOK'
  BY <1>2, <1>4, Parts, SenderStepTyped DEF SenderNext
<1>7. /\ snd'.connected = snd.connected /\ snd'.hello = snd.hello
      /\ snd'.needIdr <=> snd.needIdr /\ ~(sendable /\ idr)
  <2>1. PICK owed \in BOOLEAN : owed = (snd.needIdr /\ ~(sendable /\ idr))
    BY Parts DEF SenderTypeOK
  <2>2. snd' = [snd EXCEPT !.needIdr = owed]
    BY <1>2, <1>4, <2>1, Zenon DEF PushFrame
  <2> QED
    BY <2>1, <2>2, Parts DEF SenderTypeOK
<1>8. /\ broken' \in [sent : BOOLEAN, fed : BOOLEAN, orphan : BOOLEAN]
      /\ broken'.orphan = broken.orphan /\ broken'.fed = broken.fed /\ broken'.sent = sent
  <2>1. broken' = [broken EXCEPT !.sent = sent]
    BY <1>2, <1>4, Zenon
  <2> QED
    BY <2>1, Parts
<1>9. down' \in Seq(Said) /\ Uncut(down') /\ (Announces(down) => Announces(down'))
  <2>1. CASE ~sendable
    BY <1>2, <1>4, <2>1, Parts DEF Chain
  <2>2. CASE sendable
    <3>1. PICK cut \in BOOLEAN : cut = broken.sent
      BY Parts
    <3>2. PICK c : c = Cut(u)
      OBVIOUS
    <3>3. c \in Said /\ c.idr = idr /\ c.cut = cut
      BY <1>3, <1>4, <3>1, <3>2 DEF Cut, EncodedUnits, Said, CutUnits
    <3>4. ~idr => ~cut
      BY <1>3, <1>4, <1>5, <2>2, <3>1, Parts DEF Chain
    <3>5. <<c>> \in Seq(Said) /\ Uncut(<<c>>) /\ down' = down \o <<c>>
      BY <1>2, <1>4, <2>2, <3>2, <3>3, <3>4, Parts, OneMessage
    <3> QED
      BY <3>5, Parts, Adds DEF Chain
  <2> QED
    BY <2>1, <2>2
<1>10. LinkTyped'
  BY <1>2, <1>6, <1>8, <1>9, Parts DEF LinkTyped, ReceiverTypeOK
<1>11. Connected'
  BY <1>2, <1>3, <1>7, Parts DEF Connected, ReadyForVideo
<1>12. Chain'
  <2>1. sent => snd'.needIdr
    BY <1>4, <1>5, <1>7
  <2> QED
    BY <1>2, <1>8, <1>9, <2>1, Parts DEF Chain, EnteredWithParams, ReferenceChain, Uncut
<1>13. Shaken'
  BY <1>2, <1>3, <1>9, Parts DEF Shaken, Announces
<1>14. "fails" \notin Quirks /\ OwedIdrIsComing => OwedIdrIsComing'
  BY <1>3, <1>4, <1>5, <1>7 DEF OwedIdrIsComing, IdrIsComing
<1> QED
  BY <1>3, <1>10, <1>11, <1>12, <1>13, <1>14 DEF LinkKept, LinkInv

\* A step of the capture or the encode thread, seen from the link.
LEMMA ThreadStep ==
    ASSUME LinkInv, PipeKept, Running, UNCHANGED <<snd, rcv, up, down, broken>>,
           screen' \in [pic : Pictures, owed : BOOLEAN]
    PROVE  LinkKept
<1>1. LinkTyped' /\ Connected' /\ Chain' /\ Shaken'
  BY Parts DEF PipeKept, LinkTyped, SenderTypeOK, ReceiverTypeOK, Connected, ReadyForVideo, Chain,
               EnteredWithParams, ReferenceChain, Uncut, Shaken, Announces
<1> QED
  BY <1>1 DEF PipeKept, LinkKept, LinkInv, OwedIdrIsComing, IdrIsComing

LEMMA Threads ==
    ASSUME LinkInv, FirstFrame \/ Damage \/ EncoderStep
    PROVE  LinkKept
<1>1. screen \in [pic : Pictures, owed : BOOLEAN]
  BY Parts DEF LinkTyped
<1>2. CASE FirstFrame
  <2>1. PICK f \in Frames : Capture(f)
    BY <1>1, <1>2 DEF FirstFrame, Frames
  <2>2. PipeKept /\ Running
    BY <2>1, Parts, Captures DEF Capture
  <2>3. screen' \in [pic : Pictures, owed : BOOLEAN] /\ UNCHANGED <<snd, rcv, up, down, broken>>
    BY <1>1, <1>2 DEF FirstFrame
  <2> QED
    BY <2>2, <2>3, ThreadStep
<1>3. CASE Damage
  <2>1. PICK f \in Frames : Capture(f) /\ screen' = [pic |-> f.pic, owed |-> FALSE]
    BY <1>3 DEF Damage
  <2>2. PipeKept /\ Running
    BY <2>1, Parts, Captures DEF Capture
  <2>3. screen' \in [pic : Pictures, owed : BOOLEAN] /\ UNCHANGED <<snd, rcv, up, down, broken>>
    BY <1>3, <2>1 DEF Damage, Frames
  <2> QED
    BY <2>2, <2>3, ThreadStep
<1>4. CASE EncoderStep
  <2>1. PipeKept
    BY <1>4, Parts, ThreadKeeps DEF EncoderStep
  <2>2. Running
    <3>1. CASE Running
      BY <3>1
    <3>2. CASE enc = Stopped
      BY <1>4, <3>2 DEF EncoderStep, EncodeThread, Poll, WaitForSlot, BeginEncode, OpenFails,
                        Ready, EncodeOk, EncodeFails, SendUnit, CapPasses, Stopped
    <3> QED
      BY <3>1, <3>2, Parts DEF PipeSound
  <2> QED
    BY <1>1, <1>4, <2>1, <2>2, ThreadStep DEF EncoderStep
<1> QED
  BY <1>2, <1>3, <1>4

-----------------------------------------------------------------------------
(* The receiver's steps.                                                   *)

\* A step of the receiver's leaves the sender's side, but for what it says.
LEMMA ReceiverStep ==
    ASSUME LinkInv, UNCHANGED <<snd, enc, encoded, screen>>,
           ReceiverTypeOK', EnteredWithParams',
           rcv'.connected = rcv.connected, up' = up \/ (up' = Append(up, Kf) /\ rcv.connected),
           down' = down \/ (down # << >> /\ down' = Tail(down) /\ rcv'.senderPv # None),
           broken' \in [sent : BOOLEAN, fed : BOOLEAN, orphan : BOOLEAN],
           broken'.sent = broken.sent, broken'.fed => rcv'.waitingForIdr, ~broken'.orphan,
           rcv'.senderPv = None => rcv.senderPv = None
    PROVE  LinkKept
<1>1. Kf \in Heard
  BY DEF Heard
<1>2. /\ up' \in Seq(Heard) /\ (up' = << >> => up = << >>)
      /\ up # << >> => up' # << >> /\ Head(up') = Head(up)
      /\ up # << >> => rcv.connected
  <2>1. up \in Seq(Heard) /\ (up # << >> => rcv.connected)
    BY Parts DEF Connected
  <2>2. /\ Append(up, Kf) \in Seq(Heard) /\ Append(up, Kf) # << >>
        /\ up # << >> => Head(Append(up, Kf)) = Head(up)
    BY <1>1, <2>1, AppendProperties, HeadTailAppend
  <2> QED
    BY <2>1, <2>2
<1>3. down' \in Seq(Said) /\ Uncut(down') /\ (down = << >> => down' = << >>)
  BY Parts, Goes DEF Chain
<1>4. LinkTyped'
  BY <1>2, <1>3, Parts DEF LinkTyped, SenderTypeOK
<1>5. PipeInv' /\ Running' = Running /\ NextIsIdr' = NextIsIdr
  BY Parts DEF PipeInv, PipelineTypeOK, PipeSound, Running, NextIsIdr, Oncoming
<1>6. Connected'
  BY <1>3, <1>5, Parts DEF Connected, ReadyForVideo
<1>7. Chain'
  BY <1>3, <1>5, Parts DEF Chain, ReferenceChain, Uncut
<1>8. Shaken'
  BY <1>2, <1>3, <1>5, Parts DEF Shaken, Announces
<1>9. OwedIdrIsComing => OwedIdrIsComing'
  BY <1>5 DEF OwedIdrIsComing, Holds
<1> QED
  BY <1>4, <1>5, <1>6, <1>7, <1>8, <1>9 DEF LinkKept, LinkInv

\* One that leaves the chain where it is.
LEMMA Unbroken ==
    ASSUME LinkInv, UNCHANGED <<snd, enc, encoded, screen, up, broken>>,
           ReceiverTypeOK', EnteredWithParams',
           rcv'.connected = rcv.connected, rcv'.waitingForIdr = rcv.waitingForIdr,
           down' = down \/ (down # << >> /\ down' = Tail(down) /\ rcv'.senderPv # None),
           rcv'.senderPv = None => rcv.senderPv = None
    PROVE  LinkKept
<1>1. /\ broken' \in [sent : BOOLEAN, fed : BOOLEAN, orphan : BOOLEAN]
      /\ broken'.sent = broken.sent /\ (broken'.fed => rcv'.waitingForIdr) /\ ~broken'.orphan
  BY Parts DEF Chain, ReferenceChain
<1> QED
  BY <1>1, ReceiverStep

\* What is read out of a unit does not depend on what else it carries.
LEMMA GetsUnit ==
    ASSUME LinkInv, NEW u \in CutUnits, HearVideo(u)
    PROVE  /\ ReceiverTypeOK' /\ EnteredWithParams'
           /\ rcv'.connected = rcv.connected /\ rcv'.senderPv = rcv.senderPv
           /\ ~Decodable(u) => rcv'.waitingForIdr
           /\ Decodable(u) /\ ~u.idr => ~rcv.waitingForIdr
<1>1. PICK w \in Units : w.ok = u.ok /\ w.idr = u.idr /\ w.params = u.params
  <2>1. /\ [type |-> "video", ok |-> u.ok, idr |-> u.idr, params |-> u.params] \in Units
    BY DEF Units, CutUnits
  <2> QED
    BY <2>1
<1>2. /\ NextParams(w) = NextParams(u) /\ (StillWaiting(w) <=> StillWaiting(u))
      /\ Decodable(w) <=> Decodable(u)
  BY <1>1 DEF NextParams, StillWaiting, ResetsDecoder, Decodable
<1>3. HearVideo(w)
  BY <1>1, <1>2 DEF HearVideo
<1>4. ReceiverTypeOK' /\ EnteredWithParams'
  BY <1>3, Parts, ReceiverStepTyped, EnteredStep DEF ReceiverNext
<1>5. PICK waits, params, age :
        /\ waits \in BOOLEAN /\ waits = (~u.ok \/ StillWaiting(u)) /\ params = NextParams(u)
        /\ rcv' = [rcv EXCEPT !.rxAge = 0, !.params = params, !.waitingForIdr = waits, !.kfAge = age]
  BY DEF HearVideo
<1>6. /\ rcv'.connected = rcv.connected /\ rcv'.senderPv = rcv.senderPv
      /\ rcv'.waitingForIdr = waits /\ rcv'.params = params
  BY <1>5, Parts DEF ReceiverTypeOK
<1>7. ~Decodable(u) => rcv'.waitingForIdr
  BY <1>4, <1>5, <1>6 DEF Decodable, EnteredWithParams
<1>8. Decodable(u) /\ ~u.idr => ~rcv.waitingForIdr
  BY DEF Decodable, StillWaiting
<1> QED
  BY <1>4, <1>6, <1>7, <1>8

LEMMA KfIs == KfFrames = << >> \/ (rcv.connected /\ KfFrames = <<Kf>>)
BY DEF KfFrames

LEMMA KfAppended ==
    ASSUME LinkInv, up' = up \o KfFrames
    PROVE  up' = up \/ (up' = Append(up, Kf) /\ rcv.connected)
<1>1. up \in Seq(Heard) /\ Kf \in Heard
  BY Parts DEF Heard
<1>2. up \o << >> = up /\ up \o <<Kf>> = Append(up, Kf)
  BY <1>1, ConcatEmptySeq, AppendIsConcat
<1> QED
  BY <1>2, KfIs

LEMMA ReceiverGetsIt ==
    ASSUME LinkInv, ReceiverGets
    PROVE  LinkKept
<1>1. PICK m : m = Head(down)
  OBVIOUS
<1>2. /\ down # << >> /\ ReceiverHears(m) /\ down' = Tail(down)
      /\ IF m.type = "video" THEN ReceiverGetsVideo(m) ELSE UNCHANGED <<up, dec, broken, spent>>
      /\ UNCHANGED <<snd, enc, encoded, screen>>
  BY <1>1 DEF ReceiverGets, pipeVars
<1>3. /\ m \in Said /\ m = down[1]
      /\ m.type = "video" /\ ~m.idr => ~m.cut
  BY <1>1, <1>2, Parts, Goes DEF Chain
<1>4. rcv.connected /\ (rcv.senderPv = None => m.type = "welcome")
  BY <1>2, <1>3, Parts DEF Connected, Shaken, Announces
<1>5. CASE m \in CutUnits /\ m.type = "video"
  <2>1. HearVideo(m) /\ ReceiverGetsVideo(m)
    BY <1>2, <1>5 DEF ReceiverHears, PassedDown
  <2>2. /\ ReceiverTypeOK' /\ EnteredWithParams'
        /\ rcv'.connected = rcv.connected /\ rcv'.senderPv = rcv.senderPv
        /\ ~Decodable(m) => rcv'.waitingForIdr
        /\ Decodable(m) /\ ~m.idr => ~rcv.waitingForIdr
    BY <1>5, <2>1, GetsUnit
  <2>3. up' = up \/ (up' = Append(up, Kf) /\ rcv.connected)
    <3>1. up' = up \o VideoReplies(m)
      BY <2>1 DEF ReceiverGetsVideo
    <3>2. up \o << >> = up
      BY Parts, ConcatEmptySeq
    <3> QED
      BY <3>1, <3>2, KfAppended DEF VideoReplies
  <2>4. PICK fed \in BOOLEAN, orphan \in BOOLEAN :
          /\ fed = ~Decodable(m)
          /\ orphan = (broken.orphan \/ (Decodable(m) /\ ~m.idr /\ (m.cut \/ broken.fed)))
    BY Parts, Zenon DEF Decodable
  <2>5. broken' = [broken EXCEPT !.fed = fed, !.orphan = orphan]
    BY <2>1, <2>4, Zenon DEF ReceiverGetsVideo
  <2>6. /\ broken' \in [sent : BOOLEAN, fed : BOOLEAN, orphan : BOOLEAN]
        /\ broken'.sent = broken.sent /\ broken'.fed = fed /\ broken'.orphan = orphan
    BY <2>5, Parts
  <2>7. ~orphan
    BY <1>3, <1>5, <2>2, <2>4, Parts DEF Chain, ReferenceChain
  <2>8. broken'.fed => rcv'.waitingForIdr
    BY <2>2, <2>4, <2>6
  <2>9. rcv'.senderPv # None
    BY <1>4, <1>5, <2>2
  <2>10. /\ UNCHANGED <<snd, enc, encoded, screen>>
         /\ down # << >> /\ down' = Tail(down) /\ ~broken'.orphan
    BY <1>2, <2>6, <2>7
  <2> QED
    BY <2>2, <2>3, <2>6, <2>8, <2>9, <2>10, ReceiverStep
<1>6. CASE m = Welcome(OurPv) /\ m.type = "welcome"
  <2>1. HearWelcome(Welcome(OurPv))
    BY <1>2, <1>6 DEF ReceiverHears, PassedDown
  <2>2. ReceiverTypeOK' /\ EnteredWithParams'
    BY <2>1, Parts, ReceiverStepTyped, EnteredStep, WireAssumption DEF ReceiverNext
  <2>3. /\ rcv'.connected = rcv.connected /\ rcv'.senderPv = OurPv
        /\ rcv'.waitingForIdr = rcv.waitingForIdr
    BY <2>1, Parts DEF HearWelcome, Welcome, ReceiverTypeOK
  <2>4. OurPv # None
    BY WireAssumption DEF OurPv
  <2>5. /\ UNCHANGED <<snd, enc, encoded, screen, up, broken>>
        /\ down # << >> /\ down' = Tail(down) /\ rcv'.senderPv # None
    BY <1>2, <1>6, <2>3, <2>4
  <2> QED
    BY <2>2, <2>3, <2>5, Unbroken
<1>7. CASE m.type \in {"updateRequired", "streamConfig"}
  <2>1. ReceiverHearOther
    BY <1>2, <1>7 DEF ReceiverHears, PassedDown
  <2>2. ReceiverTypeOK' /\ EnteredWithParams'
    BY <2>1, Parts, ReceiverStepTyped, EnteredStep DEF ReceiverNext
  <2>3. /\ rcv'.connected = rcv.connected /\ rcv'.senderPv = rcv.senderPv
        /\ rcv'.waitingForIdr = rcv.waitingForIdr
    BY <2>1, Parts DEF ReceiverHearOther, ReceiverTypeOK
  <2>4. /\ UNCHANGED <<snd, enc, encoded, screen, up, broken>>
        /\ down # << >> /\ down' = Tail(down) /\ rcv'.senderPv # None
    BY <1>2, <1>4, <1>7, <2>3
  <2> QED
    BY <2>2, <2>3, <2>4, Unbroken
<1> QED
  BY <1>3, <1>5, <1>6, <1>7, SaidAre

LEMMA ReceiverWaits ==
    ASSUME LinkInv, ReportDecodeLost \/ KfClock
    PROVE  LinkKept
<1>1. CASE ReportDecodeLost
  <2>1. /\ DecodeLost /\ up' = up \o KfFrames /\ broken' = [broken EXCEPT !.fed = TRUE]
        /\ UNCHANGED <<snd, enc, encoded, down, screen>>
    BY <1>1 DEF ReportDecodeLost, pipeVars
  <2>2. ReceiverTypeOK' /\ EnteredWithParams'
    BY <2>1, Parts, ReceiverStepTyped, EnteredStep DEF ReceiverNext
  <2>3. /\ rcv'.connected = rcv.connected /\ rcv'.senderPv = rcv.senderPv /\ rcv'.waitingForIdr
    BY <2>1, Parts DEF DecodeLost, ReceiverTypeOK
  <2>4. /\ broken' \in [sent : BOOLEAN, fed : BOOLEAN, orphan : BOOLEAN]
        /\ broken'.sent = broken.sent /\ broken'.orphan = broken.orphan
    BY <2>1, Parts
  <2>5. (broken'.fed => rcv'.waitingForIdr) /\ ~broken'.orphan
    BY <2>3, <2>4, Parts DEF Chain, ReferenceChain
  <2>6. up' = up \/ (up' = Append(up, Kf) /\ rcv.connected)
    BY <2>1, KfAppended
  <2>7. rcv'.senderPv = None => rcv.senderPv = None
    BY <2>3
  <2>8. UNCHANGED <<snd, enc, encoded, screen>> /\ down' = down
    BY <2>1
  <2> QED
    BY <2>2, <2>3, <2>4, <2>5, <2>6, <2>7, <2>8, ReceiverStep
<1>2. CASE KfClock
  <2>1. rcv' = [rcv EXCEPT !.kfAge = KfAged]
        /\ UNCHANGED <<snd, enc, encoded, up, down, screen, broken>>
    BY <1>2 DEF KfClock, pipeVars
  <2>2. PICK age \in KfAges \cup {None} : age = KfAged
    BY Parts, KfClockTyped
  <2>3. /\ ReceiverTypeOK'
        /\ rcv'.connected = rcv.connected /\ rcv'.senderPv = rcv.senderPv
        /\ rcv'.waitingForIdr = rcv.waitingForIdr /\ rcv'.params = rcv.params
    BY <2>1, <2>2, Parts DEF ReceiverTypeOK
  <2>4. EnteredWithParams'
    BY <2>3, Parts DEF EnteredWithParams
  <2> QED
    BY <2>1, <2>3, <2>4, Unbroken
<1> QED
  BY <1>1, <1>2

-----------------------------------------------------------------------------
(* The theorems.                                                           *)

LEMMA LinkBegins ==
    ASSUME LinkInit
    PROVE  LinkInv /\ OwedIdrIsComing
<1>1. PICK offer \in Ports \cup {None} : rcv = Reset(FALSE, offer)
  BY DEF LinkInit, ReceiverInit
<1>2. /\ snd = Fresh(FALSE) /\ enc = Stopped /\ encoded = << >> /\ up = << >> /\ down = << >>
      /\ screen \in [pic : Pictures, owed : BOOLEAN]
      /\ broken = [sent |-> TRUE, fed |-> TRUE, orphan |-> FALSE]
  BY DEF LinkInit, SenderInit, PipelineInit
<1>3. SenderTypeOK /\ snd.connected = FALSE /\ snd.needIdr
  BY <1>2, SenderRanges DEF Fresh, SenderTypeOK, ImplicitPv
<1>4. ReceiverTypeOK /\ rcv.connected = FALSE /\ rcv.waitingForIdr
  BY <1>1, ResetTyped DEF ReceiverTypeOK, Reset
<1>5. << >> \in Seq(EncodedUnits) /\ << >> \in Seq(Heard) /\ << >> \in Seq(Said)
      /\ Len(<< >>) = 0
  BY EmptySeq
<1>6. PipeInv /\ ~Running
  BY <1>2, <1>5, StoppedIs, PipeTyped, PipelineAssumption DEF PipeInv, PipeSound, Running
<1>7. LinkTyped
  BY <1>2, <1>3, <1>4, <1>5 DEF LinkTyped
<1>8. Connected /\ Shaken
  BY <1>2, <1>3, <1>4, <1>6 DEF Connected, Shaken
<1>9. Chain
  <2>1. Uncut(down)
    BY <1>2 DEF Uncut
  <2>2. ~broken.orphan
    BY <1>2
  <2> QED
    BY <1>3, <1>4, <2>1, <2>2 DEF Chain, EnteredWithParams, ReferenceChain
<1> QED
  BY <1>6, <1>7, <1>8, <1>9 DEF LinkInv, OwedIdrIsComing

LEMMA LinkStep ==
    ASSUME LinkInv, [LinkNext]_vars
    PROVE  LinkKept
<1>1. CASE LinkNext
  BY <1>1, Dials, HangsUp, SenderGetsIt, Rebuilds, Sends, Threads, ReceiverGetsIt, ReceiverWaits
  DEF LinkNext
<1>2. CASE UNCHANGED vars
  <2>1. UNCHANGED <<snd, rcv, enc, encoded, up, down, screen, broken>>
    BY <1>2 DEF vars
  <2>2. ReceiverTypeOK' /\ EnteredWithParams'
    BY <2>1, Parts DEF ReceiverTypeOK, EnteredWithParams
  <2>3. /\ rcv'.connected = rcv.connected /\ rcv'.senderPv = rcv.senderPv
        /\ rcv'.waitingForIdr = rcv.waitingForIdr
    BY <2>1
  <2> QED
    BY <2>1, <2>2, <2>3, Unbroken
<1> QED
  BY <1>1, <1>2

(* The state of the video path has its type: queues and channels hold what *)
(* they should and the queue of encoded units is never over its capacity.  *)
THEOREM VideoTyped == LinkSafety => []LinkInv
<1>1. LinkInit => LinkInv
  BY LinkBegins
<1>2. LinkInv /\ [LinkNext]_vars => LinkInv'
  BY LinkStep DEF LinkKept
<1> QED
  BY <1>1, <1>2, PTL DEF LinkSafety

(* The queue of encoded units never holds more than it has room for        *)
(* (EncodePipeline::start).                                                *)
THEOREM QueueIsBounded == LinkSafety => []PipelineTypeOK
<1>1. LinkInv => PipelineTypeOK
  BY Parts DEF PipeInv
<1> QED
  BY <1>1, VideoTyped, PTL

(* No P frame reaches the decoder unless the unit it refers to did, however *)
(* often the connection, the display, the encoder or the decoder was lost  *)
(* in between (push_encoded_frame, build, on_video).                       *)
THEOREM ChainIsWhole == LinkSafety => []ReferenceChain
<1>1. LinkInv => ReferenceChain
  BY Parts DEF Chain
<1> QED
  BY <1>1, VideoTyped, PTL

(* The receiver hears the welcome first, and the stream's configuration    *)
(* before any video (session.rs, send_stream_config).                      *)
THEOREM ShakesHands == LinkSafety => []HandshakeOrder
<1>1. LinkInv => HandshakeOrder
  <2> SUFFICES ASSUME LinkInv, rcv.connected, rcv.senderPv = None, NEW i \in DOMAIN down
               PROVE  /\ down[i].type # "welcome" => Preceded(down, i, "welcome")
                      /\ down[i].type = "video" => Preceded(down, i, "streamConfig")
    BY DEF HandshakeOrder
  <2>1. Announces(down) /\ DOMAIN down = 1 .. Len(down) /\ Len(down) \in Nat
    <3>1. DOMAIN down = 1 .. Len(down) /\ Len(down) \in Nat
      BY Parts, LenProperties
    <3>2. down # << >>
      BY <3>1
    <3> QED
      BY <3>1, <3>2, Parts DEF Shaken
  <2>2. PICK j \in 1 .. Len(down) : /\ down[j].type = "streamConfig"
                                    /\ \A k \in 1 .. j : down[k].type # "video"
    BY <2>1 DEF Announces
  <2>3. down[i].type # "welcome" => 1 \in 1 .. i - 1 /\ down[1].type = "welcome"
    BY <2>1 DEF Announces
  <2>4. down[i].type = "video" => j \in 1 .. i - 1
    BY <2>1, <2>2
  <2> QED
    BY <2>2, <2>3, <2>4 DEF Preceded
<1> QED
  BY <1>1, VideoTyped, PTL

(* An IDR that the session owes is asked of the encoder or on its way out  *)
(* of it, unless the encoder fails at the very picture it was asked to     *)
(* make one of: a kf that comes meanwhile may be ignored (sender.rs:332).  *)
THEOREM OwedIdrIsOnItsWay ==
    ASSUME "fails" \notin Quirks
    PROVE  LinkSafety => []OwedIdrIsComing
<1>1. LinkInit => LinkInv /\ OwedIdrIsComing
  BY LinkBegins
<1>2. LinkInv /\ OwedIdrIsComing /\ [LinkNext]_vars => LinkInv' /\ OwedIdrIsComing'
  BY LinkStep DEF LinkKept
<1> QED
  BY <1>1, <1>2, PTL DEF LinkSafety
=============================================================================
