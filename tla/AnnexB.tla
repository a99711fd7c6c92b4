------------------------------- MODULE AnnexB -------------------------------
(***************************************************************************)
(* From what an encoder emits to the access units that go on the wire:     *)
(* normalize_start_codes, nal_units and access_units in                    *)
(* linux/crates/opendisplay-proto/src/video.rs, which the encoders         *)
(* (od-sender/src/encoder) and the fake sender call on every packet.       *)
(*                                                                         *)
(* An encoder's stream is a sequence of NAL units with start codes of its  *)
(* choice.  A byte is 0, 1, 3 or a unit's header; of a header only the     *)
(* type counts, and for slice data whether it begins a picture.            *)
(***************************************************************************)
EXTENDS Naturals, Sequences, SequencesExt

CONSTANTS
    NalKinds,       \* the kinds of unit an encoder emits, see Header
    MaxNals,        \* bound: units in a stream
    Codes           \* lengths of start codes after the first

ASSUME AnnexBAssumption ==
    /\ NalKinds \subseteq {"aud", "sei", "spsA", "spsB", "pps", "idr", "idrNext", "p", "pNext"}
    /\ MaxNals \in Nat
    /\ Codes \subseteq {3, 4, 5}

VARIABLE annexb     \* the packet on its way, and access_units' locals

annexbVars == <<annexb>>

-----------------------------------------------------------------------------
Header(kind) == CASE kind = "aud" -> 9 [] kind = "sei" -> 6 [] kind = "spsA" -> 107
                  [] kind = "spsB" -> 207 [] kind = "pps" -> 8
                  [] kind = "idr" -> 105 [] kind = "idrNext" -> 5
                  [] kind = "p" -> 101 [] kind = "pNext" -> 11

Kind(nal) == CHOOSE k \in NalKinds : Header(k) = nal[1]

StartCode == <<0, 0, 0, 1>>

\* Payloads, with zeros that an encoder keeps apart by a 3.
Tails == {<<>>, <<0, 0, 3>>, <<0, 0, 3, 1>>}

CodeOf(n) == [i \in 1 .. n - 1 |-> 0] \o <<1>>
Body(kind, tail) == <<Header(kind)>> \o tail

\* A picture's further slices follow its first.
Encodable(kinds) ==
    \A i \in DOMAIN kinds :
        /\ kinds[i] = "idrNext" => i > 1 /\ kinds[i - 1] \in {"idr", "idrNext"}
        /\ kinds[i] = "pNext" => i > 1 /\ kinds[i - 1] \in {"p", "pNext"}

Bodies(s) == [i \in DOMAIN s.kinds |-> Body(s.kinds[i], s.tail)]

Raw(s) == FlattenSeq([i \in DOMAIN s.kinds |->
            (IF i = 1 THEN StartCode ELSE CodeOf(s.code)) \o Bodies(s)[i]]) \o s.zeros

-----------------------------------------------------------------------------
(* normalize_start_codes and nal_units.                                    *)

At(bytes, i, code) == i + Len(code) - 1 <= Len(bytes) /\ SubSeq(bytes, i, i + Len(code) - 1) = code

\* Mutant: a three-byte code passes for data.
LongCodeAt(bytes, i) == IF At(bytes, i, StartCode) THEN 4 ELSE 0

\* The start code at i: its length, or 0.
CodeAt(bytes, i) ==
    CASE At(bytes, i, <<0, 0, 1>>) -> 3 [] At(bytes, i, StartCode) -> 4 [] OTHER -> 0

\* What is before the first start code is dropped, and so are the zeros at the end.
Normalized(bytes) ==
    LET from[i \in 1 .. Len(bytes) + 1] ==
            IF i > Len(bytes) THEN <<>>
            ELSE LET n == CodeAt(bytes, i)
                 IN  IF n > 0 THEN StartCode \o from[i + n] ELSE <<bytes[i]>> \o from[i + 1]
        first == CHOOSE i \in DOMAIN bytes :
                   CodeAt(bytes, i) > 0 /\ \A j \in 1 .. i - 1 : CodeAt(bytes, j) = 0
        unit == from[first]
    IN  SubSeq(unit, 1, CHOOSE n \in DOMAIN unit :
                         unit[n] # 0 /\ \A m \in n + 1 .. Len(unit) : unit[m] = 0)

\* nal_units: split at four-byte codes only, as a receiver does.
NalUnits(bytes) ==
    LET from[i \in 1 .. Len(bytes) + 1] ==
            IF i > Len(bytes) THEN <<<<>>>>
            ELSE IF At(bytes, i, StartCode) THEN <<<<>>>> \o from[i + 4]
            ELSE LET rest == from[i + 1] IN [rest EXCEPT ![1] = <<bytes[i]>> \o @]
    IN  SelectSeq(Tail(from[1]), LAMBDA nal : nal # <<>>)

-----------------------------------------------------------------------------
(* access_units.                                                           *)

NoUnit == [nals |-> <<>>, vcl |-> FALSE, idr |-> FALSE, sps |-> FALSE, pps |-> FALSE]

Slices == {"idr", "idrNext", "p", "pNext"}
FirstSlices == {"idr", "p"}
SpsKinds == {"spsA", "spsB"}

\* Mutant: every slice begins a picture.
BeginsOnAnySlice(kind) == annexb.unit.vcl /\ kind \in Slices \cup SpsKinds \cup {"aud", "pps", "sei"}

StartsNewPicture(kind) ==
    annexb.unit.vcl /\ kind \in FirstSlices \cup SpsKinds \cup {"aud", "pps", "sei"}

\* Mutant: a unit goes out as it was collected.
FlushedBare == Append(annexb.units, [nals |-> annexb.unit.nals, idr |-> annexb.unit.idr, added |-> <<>>])

\* flush: an IDR goes out with the last parameter sets.
Flushed ==
    LET u == annexb.unit IN
    Append(annexb.units,
           [nals |-> u.nals, idr |-> u.idr,
            added |-> (IF u.idr /\ ~u.sps THEN annexb.lastSps ELSE <<>>)
                        \o (IF u.idr /\ ~u.pps THEN annexb.lastPps ELSE <<>>)])

With(u, nal) ==
    [nals |-> Append(u.nals, nal),
     vcl |-> u.vcl \/ Kind(nal) \in Slices,
     idr |-> u.idr \/ Kind(nal) \in {"idr", "idrNext"},
     sps |-> u.sps \/ Kind(nal) \in SpsKinds,
     pps |-> u.pps \/ Kind(nal) = "pps"]

AnnexBInit ==
    annexb = [emitted |-> <<>>, step |-> "idle", packet |-> <<>>, nals |-> <<>>,
              unit |-> NoUnit, units |-> <<>>, lastSps |-> <<>>, lastPps |-> <<>>]

\* The encoder has a packet.
Encodes ==
    /\ annexb.step = "idle"
    /\ \E ks \in BoundedSeq(NalKinds, MaxNals), n \in Codes, t \in Tails, z \in {<<>>, <<0>>} :
        LET s == [kinds |-> ks, code |-> n, tail |-> t, zeros |-> z] IN
        /\ ks # <<>> /\ Encodable(ks)
        /\ annexb' = [annexb EXCEPT !.emitted = Bodies(s), !.step = "raw", !.packet = Raw(s)]

NormalizeCodes ==
    /\ annexb.step = "raw"
    /\ annexb' = [annexb EXCEPT !.step = "normalized", !.packet = Normalized(annexb.packet)]

Split ==
    /\ annexb.step = "normalized"
    /\ annexb' = [annexb EXCEPT !.step = "split", !.packet = <<>>, !.nals = NalUnits(annexb.packet)]

Group ==
    /\ annexb.step = "split" /\ annexb.nals # <<>>
    /\ LET nal == Head(annexb.nals)
           new == StartsNewPicture(Kind(nal))
       IN  annexb' = [annexb EXCEPT
                        !.nals = Tail(@),
                        !.units = IF new THEN Flushed ELSE @,
                        !.unit = With(IF new THEN NoUnit ELSE @, nal),
                        !.lastSps = IF Kind(nal) \in SpsKinds THEN <<nal>> ELSE @,
                        !.lastPps = IF Kind(nal) = "pps" THEN <<nal>> ELSE @]

GroupLast ==
    /\ annexb.step = "split" /\ annexb.nals = <<>> /\ annexb.unit.nals # <<>>
    /\ annexb' = [annexb EXCEPT !.units = Flushed, !.unit = NoUnit]

AnnexBNext == Encodes \/ NormalizeCodes \/ Split \/ Group \/ GroupLast
AnnexBSpec == AnnexBInit /\ [][AnnexBNext]_annexbVars

-----------------------------------------------------------------------------
(* Properties.                                                             *)

AnnexBTypeOK ==
    /\ annexb.step \in {"idle", "raw", "normalized", "split"}
    /\ annexb.unit.nals # <<>> => annexb.step = "split"
    /\ Len(annexb.lastSps) <= 1 /\ Len(annexb.lastPps) <= 1
    /\ \A n \in DOMAIN annexb.units : annexb.units[n].nals # <<>>

WithoutTrailingZeros(nal) ==
    SubSeq(nal, 1, CHOOSE n \in 1 .. Len(nal) :
                     nal[n] # 0 /\ \A m \in n + 1 .. Len(nal) : nal[m] = 0)

\* Whatever start codes the encoder uses, a receiver, which only knows the
\* four-byte one, finds exactly the units that were emitted (a zero that
\* belongs to the next start code may stay at the end of one), and grouping
\* them loses none and keeps their order.
NothingIsLost ==
    annexb.step = "split" =>
        LET grouped == FlattenSeq([i \in DOMAIN annexb.units |-> annexb.units[i].nals])
                         \o annexb.unit.nals \o annexb.nals
        IN  [i \in DOMAIN grouped |-> WithoutTrailingZeros(grouped[i])] = annexb.emitted

\* The units of the stream up to the nth access unit's end.
UpTo(n) == FlattenSeq([i \in 1 .. n |-> annexb.units[i].nals])

LastOf(kinds, seq) ==
    LET places == {i \in DOMAIN seq : Kind(seq[i]) \in kinds}
    IN  {seq[i] : i \in {j \in places : \A k \in places : k <= j}}

\* A decoder can start at every IDR: its unit carries the parameter sets in
\* force, though the encoder sent them long before.
IdrCarriesSets ==
    \A n \in DOMAIN annexb.units : annexb.units[n].idr =>
        LastOf(SpsKinds, UpTo(n)) \cup LastOf({"pps"}, UpTo(n))
          \subseteq ToSet(annexb.units[n].added) \cup ToSet(annexb.units[n].nals)

\* A unit is one picture: no second one in it, and no slice of it elsewhere.
OnePicture ==
    \A n \in DOMAIN annexb.units :
        LET kinds == [i \in DOMAIN annexb.units[n].nals |-> Kind(annexb.units[n].nals[i])] IN
        /\ Len(SelectSeq(kinds, LAMBDA k : k \in FirstSlices)) <= 1
        /\ \A i \in DOMAIN kinds : kinds[i] \in {"idrNext", "pNext"} =>
              \E j \in 1 .. i - 1 : kinds[j] \in FirstSlices

\* The units the encoder's bytes are split into are the ones a link may drop
\* and a decoder may start at (normalize_start_codes, split_annexb,
\* AccessUnitSplitter).
UnitsAreSound == NothingIsLost /\ IdrCarriesSets /\ OnePicture
=============================================================================
