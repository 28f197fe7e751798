------------------------ MODULE FeaturePipelineProofs ------------------------
(***************************************************************************)
(* The feature pipeline, in two parts.                                     *)
(*                                                                         *)
(* Of FeatureStream: it keeps to its packets' boundaries until the first   *)
(* oversize packet has gone by, for any number of packets, any counts and  *)
(* any sizes of the buffers.                                               *)
(*                                                                         *)
(* Of FeatureParity: its book is that of the server's reflex lane, and its *)
(* features are those that the test expects, for any packets and any size  *)
(* of a byte, until one of the causes that tell them apart is seen.  A     *)
(* packet is followed delta by delta, and all that is said of numbers is   *)
(* what wrapping, saturating and dividing have in common.                  *)
(***************************************************************************)
EXTENDS FeatureStream, FeatureParity, WellFoundedInduction, TLAPS


Rec == [at : Nat, count : Counts, reset : BOOLEAN]
Feature == [of : Nat, deltas : Nat, own : BOOLEAN]

(* Types, as far as the proof needs them. *)
Types ==
    /\ packets \in Seq(Rec)
    /\ len \in Nat
    /\ rp \in Nat
    /\ pc \in {"header", "parse", "update", "emit"}
    /\ {of, count, read, updated} \subseteq Nat
    /\ own \in BOOLEAN
    /\ feats \in Seq(Feature)

(* Where packet k begins, or will begin. *)
Boundary(k) == IF k \in DOMAIN packets THEN packets[k].at ELSE len

(* Packets lie one behind the other. *)
Layout ==
    /\ \A k \in DOMAIN packets : packets[k].at + Size(packets[k]) = Boundary(k + 1)
    /\ \A k \in DOMAIN packets : packets[k].at + Size(packets[k]) <= len
    /\ \A j, k \in DOMAIN packets : j < k => packets[j].at + Size(packets[j]) <= packets[k].at
    /\ packets = <<>> => len = 0

(* No oversize packet among the first k. *)
Clean(k) == \A j \in DOMAIN packets : j <= k => Fits(packets[j])

(* Between packets the parser is at a boundary ... *)
AtBoundary ==
    (pc = "header" /\ Clean(Len(feats))) =>
        /\ Len(feats) <= Len(packets)
        /\ rp = Boundary(Len(feats) + 1)

(* ... and inside one, at the right place in the right packet. *)
InPacket ==
    (pc # "header" /\ Clean(Len(feats))) =>
        /\ Len(feats) + 1 \in DOMAIN packets
        /\ of = Len(feats) + 1
        /\ own
        /\ count = Smaller(packets[of].count, DeltaCap)
        /\ rp = packets[of].at + HdrBeats + DeltaBeats * read

LoopCounters ==
    /\ pc = "header" => read = 0 /\ updated = 0
    /\ pc = "parse" => read < count /\ updated = 0
    /\ pc = "update" => read = count /\ updated < count
    /\ pc = "emit" => read = count /\ updated = count

IInv == Types /\ Layout /\ AtBoundary /\ InPacket /\ LoopCounters /\ CorrectUntilOversize

-----------------------------------------------------------------------------
(* A packet covers at least its header, and what fits the pipeline fits the *)
(* server's buffer.                                                         *)
LEMMA SizeFacts ==
    ASSUME NEW p \in Rec
    PROVE  /\ Size(p) \in Nat
           /\ Size(p) >= HdrBeats
           /\ Smaller(p.count, DeltaCap) \in Nat
           /\ HdrBeats + DeltaBeats * Smaller(p.count, DeltaCap) <= Size(p)
           /\ Fits(p) => /\ Smaller(p.count, DeltaCap) = p.count
                         /\ Size(p) = HdrBeats + DeltaBeats * p.count
PROOF
<1>1. p.count \in Nat
  BY StreamAssumption DEF Rec
<1> QED
  BY <1>1, StreamAssumption DEF Size, Smaller, Fits, HdrBeats, DeltaBeats

LEMMA InitIInv == Init => IInv
BY StreamAssumption
   DEF Init, IInv, Types, Layout, AtBoundary, InPacket, LoopCounters, CorrectUntilOversize,
       Boundary, Rec, Feature, Clean

(* More input moves no boundary that exists. *)
LEMMA StreamIInv ==
    ASSUME IInv, NEW c \in Counts, NEW reset \in BOOLEAN, Stream(c, reset)
    PROVE  IInv'
PROOF
<1> DEFINE p == [at |-> len, count |-> c, reset |-> reset]
<1> DEFINE n == Len(packets)
<1>1. /\ packets \in Seq(Rec)
      /\ len \in Nat
      /\ p \in Rec
      /\ n \in Nat
  BY StreamAssumption DEF IInv, Types, Rec
<1>2. /\ packets' = Append(packets, p)
      /\ len' = len + Size(p)
      /\ UNCHANGED <<rp, pc, of, count, read, updated, own, feats>>
  BY DEF Stream
<1>3. /\ Len(packets') = n + 1
      /\ DOMAIN packets' = 1 .. n + 1
      /\ DOMAIN packets = 1 .. n
      /\ packets'[n + 1] = p
      /\ \A k \in 1 .. n : packets'[k] = packets[k]
      /\ packets' \in Seq(Rec)
      /\ packets' # <<>>
  BY <1>1, <1>2
<1>4. Size(p) \in Nat /\ Size(p) >= HdrBeats /\ len' \in Nat /\ len <= len'
  BY <1>1, <1>2, SizeFacts DEF HdrBeats
<1>5. Types'
  BY <1>2, <1>3, <1>4 DEF IInv, Types
<1>6. \A k \in 1 .. n + 1 : Boundary(k)' = Boundary(k)
  BY <1>1, <1>2, <1>3 DEF Boundary
<1>7. Layout'
  <2>1. \A k \in 1 .. n + 1 : packets'[k].at + Size(packets'[k]) = Boundary(k + 1)'
    <3> SUFFICES ASSUME NEW k \in 1 .. n + 1
                 PROVE  packets'[k].at + Size(packets'[k]) = Boundary(k + 1)'
      OBVIOUS
    <3>1. CASE k \in 1 .. n
      BY <1>1, <1>3, <1>6, <3>1 DEF IInv, Layout
    <3>2. CASE k = n + 1
      BY <1>1, <1>2, <1>3, <3>2 DEF Boundary
    <3> QED
      BY <3>1, <3>2, <1>1
  <2>2. \A k \in 1 .. n + 1 : packets'[k].at + Size(packets'[k]) <= len'
    <3> SUFFICES ASSUME NEW k \in 1 .. n + 1
                 PROVE  packets'[k].at + Size(packets'[k]) <= len'
      OBVIOUS
    <3>1. CASE k = n + 1
      BY <1>1, <1>2, <1>3, <1>4, <3>1
    <3>2. CASE k \in 1 .. n
      <4>1. packets[k] \in Rec /\ Size(packets[k]) \in Nat
        BY <1>1, <1>3, <3>2, SizeFacts
      <4>2. packets[k].at + Size(packets[k]) <= len
        BY <1>3, <3>2 DEF IInv, Layout
      <4> QED
        BY <1>1, <1>3, <1>4, <3>2, <4>1, <4>2 DEF Rec
    <3> QED
      BY <3>1, <3>2, <1>1
  <2>3. \A j, k \in 1 .. n + 1 : j < k => packets'[j].at + Size(packets'[j]) <= packets'[k].at
    BY <1>1, <1>3 DEF IInv, Layout
  <2> QED
    BY <1>3, <2>1, <2>2, <2>3 DEF Layout
<1>8. Len(feats) \in Nat
  BY DEF IInv, Types
<1>9. Clean(Len(feats))' => Clean(Len(feats))
  BY <1>1, <1>2, <1>3 DEF Clean
<1>10. AtBoundary'
  BY <1>1, <1>2, <1>3, <1>6, <1>8, <1>9 DEF IInv, AtBoundary
<1>11. InPacket'
  BY <1>1, <1>2, <1>3, <1>8, <1>9 DEF IInv, InPacket
<1>12. LoopCounters'
  BY <1>2 DEF IInv, LoopCounters
<1>13. CorrectUntilOversize'
  BY <1>1, <1>2, <1>3 DEF IInv, CorrectUntilOversize
<1> QED
  BY <1>5, <1>7, <1>10, <1>11, <1>12, <1>13 DEF IInv

(* At a boundary the parser finds the header of the packet that is due. *)
LEMMA ReadHeaderIInv ==
    ASSUME IInv, ReadHeader
    PROVE  IInv'
PROOF
<1> DEFINE k == Len(feats) + 1
<1>1. PICK i \in Nat, n \in Nat :
         /\ BeginPacket(i, n)
         /\ i # 0 => /\ i \in DOMAIN packets
                     /\ packets[i].at = rp
                     /\ n = Smaller(packets[i].count, DeltaCap)
         /\ i = 0 => OffBoundary
  <2>1. CASE \E i \in DOMAIN packets :
                HeaderOf(i) /\ BeginPacket(i, Smaller(packets[i].count, DeltaCap))
    <3>1. PICK i \in DOMAIN packets :
             HeaderOf(i) /\ BeginPacket(i, Smaller(packets[i].count, DeltaCap))
      BY <2>1
    <3>2. packets[i] \in Rec /\ i \in Nat /\ i # 0
      BY DEF IInv, Types
    <3>3. Smaller(packets[i].count, DeltaCap) \in Nat
      BY <3>2, SizeFacts
    <3> QED
      BY <3>1, <3>2, <3>3 DEF HeaderOf
  <2>2. CASE OffBoundary /\ \E n \in 0 .. DeltaCap : BeginPacket(0, n)
    BY <2>2, StreamAssumption
  <2> QED
    BY <2>1, <2>2 DEF ReadHeader
<1>2. /\ pc = "header"
      /\ rp + HdrBeats <= len
  BY DEF ReadHeader
<1>3. /\ UNCHANGED <<packets, len, read, updated, feats>>
      /\ of' = i
      /\ count' = n
      /\ own' = TRUE
      /\ rp' = rp + HdrBeats
      /\ pc' = IF n = 0 THEN "emit" ELSE "parse"
  BY <1>1 DEF BeginPacket, inputVars
<1>4. /\ packets \in Seq(Rec)
      /\ {len, rp, Len(feats)} \subseteq Nat
      /\ read = 0
      /\ updated = 0
  BY <1>2 DEF IInv, Types, LoopCounters
<1>5. Types'
  BY <1>1, <1>3, <1>4 DEF IInv, Types, HdrBeats
<1>6. Layout' /\ CorrectUntilOversize' /\ Clean(Len(feats))' = Clean(Len(feats))
  BY <1>3 DEF IInv, Layout, Boundary, CorrectUntilOversize, Clean
<1>7. AtBoundary'
  BY <1>3 DEF AtBoundary
<1>8. InPacket'
  <2> SUFFICES ASSUME Clean(Len(feats))
               PROVE  /\ k \in DOMAIN packets
                      /\ i = k
                      /\ n = Smaller(packets[k].count, DeltaCap)
                      /\ packets[k].at = rp
    BY <1>3, <1>4, <1>6 DEF InPacket, HdrBeats, DeltaBeats
  <2>1. Len(feats) <= Len(packets) /\ rp = Boundary(k)
    BY <1>2 DEF IInv, AtBoundary
  <2>2. k \in DOMAIN packets /\ packets[k].at = rp
    BY <1>2, <1>4, <2>1 DEF Boundary, HdrBeats
  <2>3. i \in DOMAIN packets /\ packets[i].at = rp
    BY <1>1, <2>2 DEF OffBoundary
  <2>4. i = k
    <3>1. /\ packets[i] \in Rec /\ packets[k] \in Rec
          /\ Size(packets[i]) \in Nat /\ Size(packets[i]) >= HdrBeats
          /\ Size(packets[k]) \in Nat /\ Size(packets[k]) >= HdrBeats
      BY <1>4, <2>2, <2>3, SizeFacts
    <3>2. /\ i < k => packets[i].at + Size(packets[i]) <= packets[k].at
          /\ k < i => packets[k].at + Size(packets[k]) <= packets[i].at
      BY <2>2, <2>3 DEF IInv, Layout
    <3>3. ~ (i < k) /\ ~ (k < i)
      BY <1>4, <2>2, <2>3, <3>1, <3>2 DEF HdrBeats
    <3> QED
      BY <1>1, <1>4, <3>3
  <2> QED
    BY <1>1, <2>2, <2>3, <2>4, <1>4
<1>9. LoopCounters'
  BY <1>1, <1>3, <1>4 DEF LoopCounters
<1> QED
  BY <1>5, <1>6, <1>7, <1>8, <1>9 DEF IInv

(* Inside a packet the next two beats are its next delta. *)
LEMMA ReadDeltaIInv ==
    ASSUME IInv, ReadDelta
    PROVE  IInv'
PROOF
<1>1. /\ pc = "parse"
      /\ read' = read + 1
      /\ rp' = rp + DeltaBeats
      /\ own' = (own /\ IsDeltaOf(of))
      /\ pc' = IF read' = count THEN "update" ELSE "parse"
      /\ UNCHANGED <<packets, len, of, count, updated, feats>>
  BY DEF ReadDelta, inputVars
<1>2. /\ packets \in Seq(Rec)
      /\ {len, rp, read, count, of, updated} \subseteq Nat
      /\ read < count
      /\ updated = 0
      /\ own \in BOOLEAN
  BY <1>1 DEF IInv, Types, LoopCounters
<1>3. Types'
  BY <1>1, <1>2 DEF IInv, Types, DeltaBeats
<1>4. Layout' /\ CorrectUntilOversize' /\ Clean(Len(feats))' = Clean(Len(feats))
  BY <1>1 DEF IInv, Layout, Boundary, CorrectUntilOversize, Clean
<1>5. AtBoundary'
  BY <1>1 DEF AtBoundary
<1>6. InPacket'
  <2> SUFFICES ASSUME Clean(Len(feats))
               PROVE  /\ Len(feats) + 1 \in DOMAIN packets
                      /\ of = Len(feats) + 1
                      /\ own'
                      /\ count = Smaller(packets[of].count, DeltaCap)
                      /\ rp' = packets[of].at + HdrBeats + DeltaBeats * (read + 1)
    BY <1>1, <1>4 DEF InPacket
  <2>1. /\ Len(feats) + 1 \in DOMAIN packets
        /\ of = Len(feats) + 1
        /\ own
        /\ count = Smaller(packets[of].count, DeltaCap)
        /\ rp = packets[of].at + HdrBeats + DeltaBeats * read
    BY <1>1 DEF IInv, InPacket
  <2>2. packets[of] \in Rec
    BY <1>2, <2>1
  <2>3. Size(packets[of]) \in Nat /\ HdrBeats + DeltaBeats * count <= Size(packets[of])
    BY <2>1, <2>2, SizeFacts
  <2>4. packets[of].at \in Nat
    BY <2>2 DEF Rec
  <2>5. /\ packets[of].at + HdrBeats <= rp
        /\ rp + DeltaBeats <= packets[of].at + Size(packets[of])
        /\ rp + DeltaBeats = packets[of].at + HdrBeats + DeltaBeats * (read + 1)
    <3> DEFINE at == packets[of].at
    <3> DEFINE size == Size(packets[of])
    <3>1. /\ at \in Nat /\ size \in Nat /\ read \in Nat /\ count \in Nat /\ rp \in Nat
          /\ read < count
          /\ rp = at + 4 + 2 * read
          /\ 4 + 2 * count <= size
      BY <1>2, <2>1, <2>3, <2>4 DEF HdrBeats, DeltaBeats
    <3> HIDE DEF at, size
    <3>2. /\ at + 4 <= rp
          /\ rp + 2 <= at + size
          /\ rp + 2 = at + 4 + 2 * (read + 1)
      BY <3>1
    <3> QED
      BY <3>2 DEF at, size, HdrBeats, DeltaBeats
  <2>6. IsDeltaOf(of)
    BY <2>1, <2>5 DEF IsDeltaOf
  <2>7. own'
    BY <1>1, <2>1, <2>6, Zenon
  <2> QED
    BY <1>1, <2>1, <2>5, <2>7
<1>7. LoopCounters'
  BY <1>1, <1>2 DEF LoopCounters
<1> QED
  BY <1>3, <1>4, <1>5, <1>6, <1>7 DEF IInv

LEMMA UpdateBookIInv ==
    ASSUME IInv, UpdateBook
    PROVE  IInv'
PROOF
<1>1. /\ pc = "update"
      /\ updated' = updated + 1
      /\ pc' = IF updated' = count THEN "emit" ELSE "update"
      /\ UNCHANGED <<packets, len, rp, of, count, read, own, feats>>
  BY DEF UpdateBook, inputVars
<1>2. Types'
  BY <1>1 DEF IInv, Types
<1>3. Layout' /\ CorrectUntilOversize'
  BY <1>1 DEF IInv, Layout, Boundary, CorrectUntilOversize
<1>4. AtBoundary' /\ InPacket'
  BY <1>1 DEF IInv, AtBoundary, InPacket, Clean
<1>5. LoopCounters'
  BY <1>1 DEF IInv, Types, LoopCounters
<1> QED
  BY <1>2, <1>3, <1>4, <1>5 DEF IInv

(* The beat written is the due packet's, and the parser has reached the     *)
(* next boundary unless the packet was too large.                           *)
LEMMA EmitIInv ==
    ASSUME IInv, Emit
    PROVE  IInv'
PROOF
<1> DEFINE f == [of |-> of, deltas |-> updated, own |-> own]
<1> DEFINE n == Len(feats)
<1>1. /\ pc = "emit"
      /\ feats' = Append(feats, f)
      /\ pc' = "header"
      /\ read' = 0
      /\ updated' = 0
      /\ UNCHANGED <<packets, len, rp, of, count, own>>
  BY DEF Emit, inputVars
<1>2. /\ packets \in Seq(Rec)
      /\ {len, rp, read, count, of, updated} \subseteq Nat
      /\ read = count
      /\ updated = count
      /\ own \in BOOLEAN
      /\ feats \in Seq(Feature)
      /\ f \in Feature
      /\ n \in Nat
  BY <1>1 DEF IInv, Types, LoopCounters, Feature
<1>3. /\ Len(feats') = n + 1
      /\ DOMAIN feats' = 1 .. n + 1
      /\ DOMAIN feats = 1 .. n
      /\ feats'[n + 1] = f
      /\ \A i \in 1 .. n : feats'[i] = feats[i]
      /\ feats' \in Seq(Feature)
  BY <1>1, <1>2
<1>4. Types'
  BY <1>1, <1>2, <1>3 DEF IInv, Types
<1>5. Layout'
  BY <1>1 DEF IInv, Layout, Boundary
<1>6. AtBoundary'
  <2> SUFFICES ASSUME Clean(n + 1)
               PROVE  /\ n + 1 <= Len(packets)
                      /\ rp = Boundary(n + 2)
    BY <1>1, <1>2, <1>3 DEF AtBoundary, Boundary, Clean
  <2>1. Clean(n)
    BY <1>2 DEF Clean
  <2>2. /\ n + 1 \in DOMAIN packets
        /\ count = Smaller(packets[n + 1].count, DeltaCap)
        /\ rp = packets[n + 1].at + HdrBeats + DeltaBeats * count
    BY <1>1, <1>2, <2>1 DEF IInv, InPacket
  <2>3. packets[n + 1] \in Rec /\ Fits(packets[n + 1])
    BY <1>2, <2>2 DEF Clean
  <2>4. /\ Size(packets[n + 1]) = HdrBeats + DeltaBeats * count
        /\ packets[n + 1].at \in Nat
    BY <2>2, <2>3, SizeFacts DEF Rec
  <2>5. packets[n + 1].at + Size(packets[n + 1]) = Boundary(n + 2)
    BY <1>2, <2>2 DEF IInv, Layout
  <2> QED
    BY <1>2, <2>2, <2>4, <2>5, SMTT(60) DEF HdrBeats, DeltaBeats
<1>7. InPacket'
  BY <1>1 DEF InPacket
<1>8. LoopCounters'
  BY <1>1 DEF LoopCounters
<1>9. CorrectUntilOversize'
  <2> SUFFICES ASSUME NEW i \in 1 .. n + 1,
                      \A j \in DOMAIN packets : j < i => Fits(packets[j])
               PROVE  /\ i \in DOMAIN packets
                      /\ feats'[i] = [of |-> i, deltas |-> Smaller(packets[i].count, DeltaCap),
                                      own |-> TRUE]
    BY <1>1, <1>3 DEF CorrectUntilOversize
  <2>1. CASE i \in 1 .. n
    BY <1>3, <2>1 DEF IInv, CorrectUntilOversize
  <2>2. CASE i = n + 1
    <3>1. Clean(n)
      BY <1>2, <2>2 DEF Clean
    <3>2. /\ n + 1 \in DOMAIN packets
          /\ of = n + 1
          /\ own = TRUE
          /\ updated = Smaller(packets[n + 1].count, DeltaCap)
      BY <1>1, <1>2, <3>1 DEF IInv, InPacket
    <3> QED
      BY <1>3, <2>2, <3>2
  <2> QED
    BY <1>2, <2>1, <2>2
<1> QED
  BY <1>4, <1>5, <1>6, <1>7, <1>8, <1>9 DEF IInv

LEMMA StutterIInv ==
    ASSUME IInv, UNCHANGED vars
    PROVE  IInv'
BY DEF vars, inputVars, IInv, Types, Layout, AtBoundary, InPacket, LoopCounters,
       CorrectUntilOversize, Boundary, Clean

LEMMA IInvInductive == IInv /\ [Next]_vars => IInv'
PROOF
<1> SUFFICES ASSUME IInv, [Next]_vars
             PROVE  IInv'
  OBVIOUS
<1>1. CASE \E c \in Counts, reset \in BOOLEAN : Stream(c, reset)
  BY <1>1, StreamIInv
<1>2. CASE ReadHeader
  BY <1>2, ReadHeaderIInv
<1>3. CASE ReadDelta
  BY <1>3, ReadDeltaIInv
<1>4. CASE UpdateBook
  BY <1>4, UpdateBookIInv
<1>5. CASE Emit
  BY <1>5, EmitIInv
<1>6. CASE UNCHANGED vars
  BY <1>6, StutterIInv
<1> QED
  BY <1>1, <1>2, <1>3, <1>4, <1>5, <1>6 DEF Next, Pipeline

-----------------------------------------------------------------------------
(* Whatever counts the clients send, every feature beat up to and including *)
(* that of the first oversize packet is the beat of the packet of its own   *)
(* number, over its own first deltas.                                       *)
THEOREM StreamStaysAligned == Spec => []CorrectUntilOversize
PROOF
<1>1. Init => IInv
  BY InitIInv
<1>2. IInv /\ [Next]_vars => IInv'
  BY IInvInductive
<1>3. IInv => CorrectUntilOversize
  BY DEF IInv
<1> QED
  BY <1>1, <1>2, <1>3, PTL DEF Spec

(* If no client sends more deltas than the pipeline accepts, every feature  *)
(* beat is the beat of the packet of its own number, over all its deltas.   *)
THEOREM OneFeaturePerPacket ==
    ASSUME \A c \in Counts : c <= DeltaCap
    PROVE  Spec => []FeatureOfItsPacket
PROOF
<1>1. Init => IInv
  BY InitIInv
<1>2. IInv /\ [Next]_vars => IInv'
  BY IInvInductive
<1>3. IInv => FeatureOfItsPacket
  <2> SUFFICES ASSUME IInv, NEW i \in DOMAIN feats
               PROVE  /\ i \in DOMAIN packets
                      /\ feats[i] = [of |-> i, deltas |-> packets[i].count, own |-> TRUE]
    BY DEF FeatureOfItsPacket
  <2>1. \A j \in DOMAIN packets : packets[j] \in Rec
    BY DEF IInv, Types
  <2>2. \A j \in DOMAIN packets : Fits(packets[j])
    BY <2>1 DEF Fits, Rec
  <2>3. /\ i \in DOMAIN packets
        /\ feats[i] = [of |-> i, deltas |-> Smaller(packets[i].count, DeltaCap),
                        own |-> TRUE]
    BY <2>2 DEF IInv, CorrectUntilOversize
  <2> QED
    BY <2>1, <2>2, <2>3, SizeFacts
<1> QED
  BY <1>1, <1>2, <1>3, PTL DEF Spec

-----------------------------------------------------------------------------
(* The state along the deltas of a packet.  The recursive function of Along *)
(* is the one that satisfies its equation: that there is one follows from   *)
(* the least length without.                                                *)

Pl == 0
Ps == 1
Test == 2

Step(lane, s, d) ==
    IF lane = Pl THEN PlDelta(s, d) ELSE IF lane = Ps THEN PsDelta(s, d) ELSE TestDelta(s, d)

IsAlong(f, lane, begin, deltas, n) ==
    f = [k \in 0 .. n |-> IF k = 0 THEN begin ELSE Step(lane, f[k - 1], deltas[k])]

LEMMA LeastNat ==
    ASSUME NEW T, T \subseteq Nat, T # {}
    PROVE  \E m \in T : \A x \in T : m <= x
<1>1. PICK m \in T : \A y \in T : ~ (<<y, m>> \in OpToRel(<, Nat))
  BY NatLessThanWellFounded, WFMin
<1>2. \A y \in T : ~ (y < m)
  BY <1>1 DEF OpToRel
<1> QED
  BY <1>2

LEMMA AlongExists ==
    ASSUME NEW lane, NEW begin, NEW deltas, NEW n \in Nat
    PROVE  \E f : IsAlong(f, lane, begin, deltas, n)
<1> DEFINE T == {i \in Nat : ~ \E f : IsAlong(f, lane, begin, deltas, i)}
<1> SUFFICES ASSUME T # {} PROVE FALSE
  OBVIOUS
<1>1. PICK m \in T : \A x \in T : m <= x
  BY LeastNat
<1>2. m # 0
  <2>1. IsAlong([k \in 0 .. 0 |-> begin], lane, begin, deltas, 0)
    BY DEF IsAlong
  <2> QED
    BY <2>1
<1>3. m - 1 \in Nat /\ m - 1 \notin T
  BY <1>1, <1>2
<1>4. PICK f : IsAlong(f, lane, begin, deltas, m - 1)
  BY <1>3
<1> DEFINE g == [k \in 0 .. m |-> IF k <= m - 1 THEN f[k] ELSE Step(lane, f[m - 1], deltas[m])]
<1>5. \A k \in 0 .. m - 1 : f[k] = IF k = 0 THEN begin ELSE Step(lane, f[k - 1], deltas[k])
  BY <1>4 DEF IsAlong
<1>6. \A k \in 0 .. m - 1 : g[k] = f[k]
  BY <1>3
<1>7. g[m] = Step(lane, f[m - 1], deltas[m])
  BY <1>3
<1>8. \A k \in 0 .. m : g[k] = IF k = 0 THEN begin ELSE Step(lane, g[k - 1], deltas[k])
  <2> HIDE DEF g
  <2> SUFFICES ASSUME NEW k \in 0 .. m
               PROVE  g[k] = IF k = 0 THEN begin ELSE Step(lane, g[k - 1], deltas[k])
    OBVIOUS
  <2>1. CASE k = m
    BY <1>2, <1>3, <1>6, <1>7, <2>1
  <2>2. CASE k \in 0 .. m - 1
    <3>1. k # 0 => k - 1 \in 0 .. m - 1
      BY <2>2, <1>3
    <3> QED
      BY <1>5, <1>6, <2>2, <3>1
  <2> QED
    BY <1>3, <2>1, <2>2
<1>9. IsAlong(g, lane, begin, deltas, m)
  <2> DEFINE h == [k \in 0 .. m |-> IF k = 0 THEN begin ELSE Step(lane, g[k - 1], deltas[k])]
  <2>1. g = h
    <3>1. \A k \in 0 .. m : g[k] = h[k]
      BY <1>8
    <3> QED
      BY <3>1
  <2> QED
    BY <2>1 DEF IsAlong
<1> QED
  BY <1>9

LEMMA AlongIs ==
    ASSUME NEW begin, NEW deltas, Len(deltas) \in Nat
    PROVE  /\ IsAlong(Along(PlDelta, begin, deltas), Pl, begin, deltas, Len(deltas))
           /\ IsAlong(Along(PsDelta, begin, deltas), Ps, begin, deltas, Len(deltas))
           /\ IsAlong(Along(TestDelta, begin, deltas), Test, begin, deltas, Len(deltas))
<1>1. IsAlong(Along(PlDelta, begin, deltas), Pl, begin, deltas, Len(deltas))
  <2> DEFINE n == Len(deltas)
             A == Along(PlDelta, begin, deltas)
  <2>1. PICK f : IsAlong(f, Pl, begin, deltas, n)
    BY AlongExists
  <2>2. f = [k \in 0 .. n |-> IF k = 0 THEN begin ELSE PlDelta(f[k - 1], deltas[k])]
    BY <2>1 DEF IsAlong, Step, Pl
  <2>3. A = CHOOSE g : g = [k \in 0 .. n |-> IF k = 0 THEN begin ELSE PlDelta(g[k - 1], deltas[k])]
    BY DEF Along
  <2>4. A = [k \in 0 .. n |-> IF k = 0 THEN begin ELSE PlDelta(A[k - 1], deltas[k])]
    BY <2>2, <2>3
  <2> QED
    BY <2>4 DEF IsAlong, Step, Pl
<1>2. IsAlong(Along(PsDelta, begin, deltas), Ps, begin, deltas, Len(deltas))
  <2> DEFINE n == Len(deltas)
             A == Along(PsDelta, begin, deltas)
  <2>1. PICK f : IsAlong(f, Ps, begin, deltas, n)
    BY AlongExists
  <2>2. f = [k \in 0 .. n |-> IF k = 0 THEN begin ELSE PsDelta(f[k - 1], deltas[k])]
    BY <2>1 DEF IsAlong, Step, Pl, Ps
  <2>3. A = CHOOSE g : g = [k \in 0 .. n |-> IF k = 0 THEN begin ELSE PsDelta(g[k - 1], deltas[k])]
    BY DEF Along
  <2>4. A = [k \in 0 .. n |-> IF k = 0 THEN begin ELSE PsDelta(A[k - 1], deltas[k])]
    BY <2>2, <2>3
  <2> QED
    BY <2>4 DEF IsAlong, Step, Pl, Ps
<1>3. IsAlong(Along(TestDelta, begin, deltas), Test, begin, deltas, Len(deltas))
  <2> DEFINE n == Len(deltas)
             A == Along(TestDelta, begin, deltas)
  <2>1. PICK f : IsAlong(f, Test, begin, deltas, n)
    BY AlongExists
  <2>2. f = [k \in 0 .. n |-> IF k = 0 THEN begin ELSE TestDelta(f[k - 1], deltas[k])]
    BY <2>1 DEF IsAlong, Step, Pl, Ps, Test
  <2>3. A = CHOOSE g : g = [k \in 0 .. n |-> IF k = 0 THEN begin ELSE TestDelta(g[k - 1], deltas[k])]
    BY DEF Along
  <2>4. A = [k \in 0 .. n |-> IF k = 0 THEN begin ELSE TestDelta(A[k - 1], deltas[k])]
    BY <2>2, <2>3
  <2> QED
    BY <2>4 DEF IsAlong, Step, Pl, Ps, Test
<1> QED
  BY <1>1, <1>2, <1>3

(* Numbers with a property that passes from each to the next. *)
LEMMA Upwards ==
    ASSUME NEW T, NEW n \in Nat, 0 \in T, \A k \in 1 .. n : k - 1 \in T => k \in T
    PROVE  \A k \in 0 .. n : k \in T
<1> DEFINE B == {i \in 0 .. n : i \notin T}
<1> SUFFICES ASSUME B # {} PROVE FALSE
  OBVIOUS
<1>0. B \subseteq Nat
  OBVIOUS
<1>1. PICK m \in B : \A x \in B : m <= x
  <2> HIDE DEF B
  <2> QED
    BY <1>0, LeastNat
<1>2. m \in 1 .. n /\ m \notin T
  BY <1>1
<1>3. m - 1 \in 0 .. n /\ m - 1 \notin B
  BY <1>1, <1>2
<1>4. m - 1 \in T
  BY <1>3
<1> QED
  BY <1>2, <1>4

-----------------------------------------------------------------------------
(* Sizes and widths. *)

LEMMA Sizes ==
    /\ Base \in Nat /\ Base \div 2 \in Nat /\ Base = 2 * (Base \div 2) /\ Base >= 2
    /\ Narrow \in Nat /\ Narrow = 2 * (Base * (Base \div 2)) /\ Narrow \div 2 = Base * (Base \div 2)
    /\ Narrow > 0 /\ Narrow \div 2 \in Nat
    /\ Wide \in Nat /\ Wide > 0 /\ Wide = 2 * (Wide \div 2) /\ Wide \div 2 \in Nat
    /\ Long \in Nat /\ Long >= Wide
<1> DEFINE h == Base \div 2
<1>1. Base \in Nat \ {0} /\ Base % 2 = 0
  BY ParityAssumption
<1>2. h \in Nat /\ Base = 2 * h /\ Base >= 2 /\ h >= 1
  BY <1>1
<1> HIDE DEF h
<1> DEFINE m == Base * h
<1>3. m \in Nat /\ m >= 1
  BY ONLY <1>2
<1>4. Narrow = 2 * m
  BY ONLY <1>2 DEF Narrow
<1> HIDE DEF m
<1>5. Narrow \in Nat /\ Narrow \div 2 = m /\ Narrow > 0
  BY ONLY <1>3, <1>4
<1> DEFINE v == Narrow * m
<1>6. v \in Nat /\ v >= 1
  BY ONLY <1>3, <1>5
<1>7. Wide = 2 * v
  BY ONLY <1>3, <1>4, <1>5 DEF Wide
<1> HIDE DEF v
<1>8. Wide \in Nat /\ Wide \div 2 = v /\ Wide >= 1
  BY ONLY <1>6, <1>7
<1>9. Long \in Nat /\ Long >= Wide
  BY ONLY <1>8 DEF Long
<1>10. Base * h = m
  BY DEF m
<1> QED
  BY <1>2, <1>3, <1>4, <1>5, <1>6, <1>7, <1>8, <1>9, <1>10 DEF h

LEMMA Int32Type == \A x \in Int : Int32(x) \in Int
BY Sizes DEF Int32

LEMMA Division ==
    ASSUME NEW b \in Nat, b > 0, NEW q \in Int, NEW c \in Nat, c < b
    PROVE  (b * q + c) % b = c /\ (b * q + c) \div b = q
<1> DEFINE x == b * q + c
           d == x \div b
           m == x % b
<1>1. x \in Int /\ d \in Int /\ m \in Nat /\ m < b /\ x = b * d + m
  OBVIOUS
<1>2. b * q + c = b * d + m
  BY <1>1
<1> HIDE DEF x, d, m
<1>3. q - d \in Int /\ b * (q - d) = m - c
  BY ONLY <1>1, <1>2, b \in Nat, q \in Int, c \in Nat
<1>4. q - d = 0
  <2> DEFINE k == q - d
  <2>1. k \in Int /\ b * k < b /\ b * k > -b
    BY ONLY <1>1, <1>3, b \in Nat, c \in Nat, c < b
  <2> HIDE DEF k
  <2>2. k < 1
    <3>1. k >= 1 => b * k >= b
      BY ONLY <2>1, b \in Nat
    <3> QED
      BY ONLY <2>1, <3>1, b \in Nat
  <2>3. k > -1
    <3>1. k <= -1 => b * k <= -b
      BY ONLY <2>1, b \in Nat
    <3> QED
      BY ONLY <2>1, <3>1, b \in Nat
  <2>4. k = 0
    BY ONLY <2>1, <2>2, <2>3
  <2> QED
    BY <2>4 DEF k
<1>5. d = q /\ m = c
  BY ONLY <1>1, <1>2, <1>4, b \in Nat, q \in Int, c \in Nat
<1> QED
  BY <1>5 DEF x, d, m

(* The flags of a packet are not taken for a reset while its count has room *)
(* below the bit of the reset.                                              *)
LEMMA FlagsKept ==
    ASSUME NEW packet, Len(packet.deltas) \in Nat, Len(packet.deltas) < MostDeltas,
           packet.reset \in BOOLEAN
    PROVE  /\ PsFlags(packet) < Narrow \div 2
           /\ Lower(PsFlags(packet) % (Narrow \div 2), Len(packet.deltas)) = Len(packet.deltas)
<1> DEFINE h == Base \div 2
           c == Len(packet.deltas)
           r == IF packet.reset THEN h ELSE 0
           x == Flags(packet)
<1>1. h \in Nat /\ Base = 2 * h /\ Base \in Nat /\ Base >= 2 /\ c \in Nat /\ c < h /\ r \in 0 .. h
      /\ Narrow \div 2 = Base * h
  BY Sizes DEF MostDeltas
<1>2. x = Base * r + c
  <2>1. x = (IF packet.reset THEN Narrow \div 2 ELSE 0) + c
    BY DEF Flags
  <2>2. (IF packet.reset THEN Narrow \div 2 ELSE 0) = Base * r
    <3>1. Narrow \div 2 = Base * h /\ Base * 0 = 0
      BY Sizes
    <3> QED
      BY <3>1
  <2> QED
    BY <2>1, <2>2
<1> HIDE DEF h, c, r, x
<1>3. x % Base = c /\ x \div Base = r
  <2>1. r \in Int /\ c < Base /\ Base > 0
    BY <1>1
  <2> QED
    BY <1>1, <1>2, <2>1, Division
<1>4. r % Base = r
  BY ONLY <1>1
<1>5. PsFlags(packet) = c * Base + r
  BY ONLY <1>3, <1>4 DEF PsFlags, Swapped16, x
<1>6. c * Base + r < Base * h
  <2>1. c + 1 <= h
    BY ONLY <1>1
  <2>2. Base * (c + 1) <= Base * h
    BY ONLY <1>1, <2>1
  <2>3. Base * (c + 1) = c * Base + Base
    BY ONLY <1>1
  <2>4. c * Base \in Nat /\ Base * h \in Nat
    BY ONLY <1>1
  <2>5. r < Base
    BY ONLY <1>1
  <2> QED
    BY ONLY <1>1, <2>2, <2>3, <2>4, <2>5
<1>7. c <= c * Base + r /\ c * Base + r \in Nat
  <2>1. c * Base >= c /\ c * Base \in Nat
    BY ONLY <1>1
  <2> QED
    BY ONLY <1>1, <2>1
<1>8. PsFlags(packet) \in Nat /\ PsFlags(packet) < Narrow \div 2 /\ c <= PsFlags(packet)
  BY <1>1, <1>5, <1>6, <1>7
<1>9. PsFlags(packet) % (Narrow \div 2) = PsFlags(packet)
  <2> DEFINE f == PsFlags(packet)
             m == Narrow \div 2
  <2>1. f \in Nat /\ m \in Nat /\ f < m
    BY <1>8, Sizes
  <2> HIDE DEF f, m
  <2>2. (m * 0 + f) % m = f
    BY <2>1, Division
  <2>3. m * 0 + f = f
    BY ONLY <2>1
  <2> QED
    BY <2>2, <2>3 DEF f, m
<1> QED
  BY <1>1, <1>8, <1>9 DEF Lower, c

-----------------------------------------------------------------------------
(* The states of the three computations. *)

Levels == 0 .. NLevels - 1
Level == [p : Int, q : Int]
Books == [{0, 1} -> [Levels -> Level]]

Shaped(s) ==
    s \in [book : Books, ofi : {s.ofi}, imb : {s.imb}, burst : {s.burst}, vol : {s.vol},
           mid : {s.mid}, last : {s.last}]

(* r has the averages of s. *)
Others(r, s) ==
    /\ r.imb = s.imb /\ r.burst = s.burst /\ r.vol = s.vol
    /\ r.mid = s.mid /\ r.last = s.last

Put(s, a, l, v, w) == [s EXCEPT !.book[a][l] = v, !.ofi = w]

LEMMA PutShaped ==
    ASSUME NEW s, Shaped(s), NEW a \in {0, 1}, NEW l \in Levels, NEW v \in Level, NEW w,
           NEW r, r = Put(s, a, l, v, w)
    PROVE  /\ Shaped(r) /\ r.ofi = w /\ Others(r, s)
           /\ \A x \in {0, 1}, y \in Levels :
                 r.book[x][y] = IF x = a /\ y = l THEN v ELSE s.book[x][y]
<1> DEFINE b == [s.book EXCEPT ![a][l] = v]
<1>1. s.book \in Books
  BY DEF Shaped
<1>2. /\ b \in Books
      /\ \A x \in {0, 1}, y \in Levels :
            b[x][y] = IF x = a /\ y = l THEN v ELSE s.book[x][y]
  BY ONLY <1>1, a \in {0, 1}, l \in Levels, v \in Level DEF Books
<1>3. r = [s EXCEPT !.book = b, !.ofi = w]
  BY DEF Shaped, Put
<1> HIDE DEF b
<1>4. /\ r.book = b /\ r.ofi = w /\ Others(r, s)
      /\ Shaped(r)
  BY ONLY <1>2, <1>3, Shaped(s) DEF Shaped, Others
<1> QED
  BY <1>2, <1>4

LEMMA OfiShaped ==
    ASSUME NEW s, Shaped(s), NEW w, NEW r, r = [s EXCEPT !.ofi = w]
    PROVE  Shaped(r) /\ r.ofi = w /\ r.book = s.book /\ Others(r, s)
BY DEF Shaped, Others

WrappedLevel(l, d) == LevelAfter(l, d, Int32)
ExactLevel(l, d) == LevelAfter(l, d, Unbounded)

LEMMA LevelTyped ==
    ASSUME NEW l \in Level, NEW d \in Delta
    PROVE  WrappedLevel(l, d) \in Level /\ ExactLevel(l, d) \in Level
<1>1. d.action \in 0 .. 3 /\ d.price \in Int /\ d.qty \in Int /\ l.p \in Int /\ l.q \in Int
  BY DEF Delta, Level
<1>2. Int32(l.q + d.qty) \in Int /\ l.q + d.qty \in Int
  BY <1>1, Int32Type
<1> QED
  BY <1>1, <1>2 DEF WrappedLevel, ExactLevel, LevelAfter, Level, Higher, Unbounded

(* What a delta does to each of them. *)
LEMMA PlDeltaDoes ==
    ASSUME NEW s, Shaped(s), NEW d \in Delta, NEW r, r = PlDelta(s, d)
    PROVE  /\ Shaped(r) /\ Others(r, s) /\ r.ofi = Int32(s.ofi + Flow(d))
           /\ \A x \in {0, 1}, y \in Levels :
                 r.book[x][y] = IF x = d.side /\ y = d.level
                                THEN WrappedLevel(s.book[x][y], d) ELSE s.book[x][y]
<1>1. d.side \in {0, 1} /\ d.level \in Nat /\ (d.level < NLevels <=> d.level \in Levels)
  BY ParityAssumption DEF Delta, Levels
<1>2. CASE d.level < NLevels
  <2> DEFINE v == WrappedLevel(s.book[d.side][d.level], d)
             w == Int32(s.ofi + Flow(d))
  <2>1. r = Put(s, d.side, d.level, v, w)
    BY <1>2 DEF PlDelta, AtLevel, Put, WrappedLevel
  <2>2. s.book[d.side][d.level] \in Level
    BY <1>1, <1>2 DEF Shaped, Books
  <2>3. v \in Level
    BY <2>2, LevelTyped
  <2>4. v = WrappedLevel(s.book[d.side][d.level], d) /\ w = Int32(s.ofi + Flow(d))
    OBVIOUS
  <2> HIDE DEF v, w
  <2>5. /\ Shaped(r) /\ r.ofi = w /\ Others(r, s)
        /\ \A x \in {0, 1}, y \in Levels :
              r.book[x][y] = IF x = d.side /\ y = d.level THEN v ELSE s.book[x][y]
    BY <1>1, <1>2, <2>1, <2>3, PutShaped
  <2> QED
    BY <2>4, <2>5
<1>3. CASE ~ (d.level < NLevels)
  <2>1. r = [s EXCEPT !.ofi = Int32(s.ofi + Flow(d))]
    BY <1>3 DEF PlDelta
  <2> QED
    BY <1>1, <1>3, <2>1, OfiShaped
<1> QED
  BY <1>2, <1>3

LEMMA PlDeltaParts ==
    \A s : \A d \in Delta : Shaped(s) =>
        /\ PlDelta(s, d).ofi = Int32(s.ofi + Flow(d))
        /\ \A x \in {0, 1}, y \in Levels :
              PlDelta(s, d).book[x][y] = IF x = d.side /\ y = d.level
                                         THEN WrappedLevel(s.book[x][y], d) ELSE s.book[x][y]
<1> SUFFICES ASSUME NEW s, NEW d \in Delta, Shaped(s), NEW r, r = PlDelta(s, d)
             PROVE  /\ r.ofi = Int32(s.ofi + Flow(d))
                    /\ \A x \in {0, 1}, y \in Levels :
                          r.book[x][y] = IF x = d.side /\ y = d.level
                                         THEN WrappedLevel(s.book[x][y], d) ELSE s.book[x][y]
  OBVIOUS
<1>1. r.ofi = Int32(s.ofi + Flow(d))
  BY PlDeltaDoes
<1>2. \A x \in {0, 1}, y \in Levels :
         r.book[x][y] = IF x = d.side /\ y = d.level
                        THEN WrappedLevel(s.book[x][y], d) ELSE s.book[x][y]
  BY PlDeltaDoes
<1> QED
  BY <1>1, <1>2

LEMMA PsDeltaDoes ==
    ASSUME NEW s, Shaped(s), NEW d \in Delta, NEW r, r = PsDelta(s, d)
    PROVE  /\ Shaped(r)
           /\ \A x \in {0, 1}, y \in Levels :
                 r.book[x][y] = IF x = d.side /\ y = d.level
                                THEN ExactLevel(s.book[x][y], d) ELSE s.book[x][y]
<1>1. d.side \in {0, 1} /\ d.level \in Nat /\ (d.level < NLevels <=> d.level \in Levels)
  BY ParityAssumption DEF Delta, Levels
<1>2. CASE d.level < NLevels
  <2> DEFINE v == ExactLevel(s.book[d.side][d.level], d)
             w == Unbounded(s.ofi + Flow(d))
  <2>1. r = Put(s, d.side, d.level, v, w)
    BY <1>2 DEF PsDelta, AtLevel, Put, ExactLevel
  <2>2. s.book[d.side][d.level] \in Level
    BY <1>1, <1>2 DEF Shaped, Books
  <2>3. v \in Level
    BY <2>2, LevelTyped
  <2>4. v = ExactLevel(s.book[d.side][d.level], d)
    OBVIOUS
  <2> HIDE DEF v, w
  <2>5. /\ Shaped(r)
        /\ \A x \in {0, 1}, y \in Levels :
              r.book[x][y] = IF x = d.side /\ y = d.level THEN v ELSE s.book[x][y]
    BY <1>1, <1>2, <2>1, <2>3, PutShaped
  <2> QED
    BY <2>4, <2>5
<1>3. CASE ~ (d.level < NLevels)
  BY <1>1, <1>3 DEF PsDelta
<1> QED
  BY <1>2, <1>3

LEMMA TestDeltaDoes ==
    ASSUME NEW s, Shaped(s), NEW d \in Delta, NEW r, r = TestDelta(s, d)
    PROVE  /\ Shaped(r) /\ Others(r, s) /\ r.ofi = Sat32(s.ofi + Flow(d))
           /\ d.level < NLevels =>
                 \A x \in {0, 1}, y \in Levels :
                    r.book[x][y] = IF x = d.side /\ y = d.level
                                   THEN ExactLevel(s.book[x][y], d) ELSE s.book[x][y]
<1> DEFINE l == IF d.level < NLevels THEN d.level ELSE 0
           v == ExactLevel(s.book[d.side][l], d)
           w == Sat32(s.ofi + Flow(d))
<1>1. d.side \in {0, 1} /\ l \in Levels
  BY ParityAssumption DEF Delta, Levels
<1>2. r = Put(s, d.side, l, v, w)
  BY DEF TestDelta, AtLevel, Put, ExactLevel
<1>3. v \in Level
  <2>1. s.book[d.side][l] \in Level
    BY <1>1 DEF Shaped, Books
  <2> QED
    BY <2>1, LevelTyped
<1>4. v = ExactLevel(s.book[d.side][l], d) /\ w = Sat32(s.ofi + Flow(d))
  OBVIOUS
<1>5. d.level < NLevels => l = d.level
  OBVIOUS
<1> HIDE DEF l, v, w
<1>6. /\ Shaped(r) /\ r.ofi = w /\ Others(r, s)
      /\ \A x \in {0, 1}, y \in Levels :
            r.book[x][y] = IF x = d.side /\ y = l THEN v ELSE s.book[x][y]
  BY <1>1, <1>2, <1>3, PutShaped
<1> QED
  BY <1>4, <1>5, <1>6

LEMMA AlongShaped ==
    ASSUME NEW lane \in {Pl, Ps, Test}, NEW begin, Shaped(begin), NEW deltas \in Seq(Delta),
           NEW f, IsAlong(f, lane, begin, deltas, Len(deltas))
    PROVE  /\ f[0] = begin
           /\ \A k \in 1 .. Len(deltas) :
                 f[k] = Step(lane, f[k - 1], deltas[k]) /\ deltas[k] \in Delta
           /\ \A k \in 0 .. Len(deltas) : Shaped(f[k])
<1> DEFINE n == Len(deltas)
           T == {k \in 0 .. n : Shaped(f[k])}
<1>1. n \in Nat /\ \A k \in 1 .. n : deltas[k] \in Delta
  OBVIOUS
<1>2. \A k \in 0 .. n : f[k] = IF k = 0 THEN begin ELSE Step(lane, f[k - 1], deltas[k])
  BY DEF IsAlong
<1>3. 0 \in T
  BY <1>1, <1>2
<1>4. ASSUME NEW k \in 1 .. n, k - 1 \in T PROVE k \in T
  <2>1. Shaped(f[k - 1]) /\ k \in 0 .. n /\ f[k] = Step(lane, f[k - 1], deltas[k])
    BY <1>1, <1>2, <1>4
  <2>2. Shaped(f[k])
    <3>1. /\ Shaped(PlDelta(f[k - 1], deltas[k]))
          /\ Shaped(PsDelta(f[k - 1], deltas[k]))
          /\ Shaped(TestDelta(f[k - 1], deltas[k]))
      BY <1>1, <2>1, PlDeltaDoes, PsDeltaDoes, TestDeltaDoes
    <3> QED
      BY <2>1, <3>1 DEF Step
  <2> QED
    BY <2>1, <2>2
<1> HIDE DEF T
<1>5. \A k \in 0 .. n : k \in T
  BY <1>1, <1>3, <1>4, Upwards
<1> QED
  BY <1>1, <1>2, <1>5 DEF T

-----------------------------------------------------------------------------
(* What the other two keep of the book that the pipeline keeps. *)

SamePrices(a, b) == \A x \in {0, 1}, y \in Levels : a.book[x][y].p = b.book[x][y].p

SameQuantities(a, b) == \A x \in {0, 1}, y \in Levels : a.book[x][y].q = b.book[x][y].q

LEMMA LevelsAgree ==
    ASSUME NEW l, NEW m, NEW d \in Delta
    PROVE  /\ l.p = m.p => ExactLevel(l, d).p = WrappedLevel(m, d).p
           /\ /\ l.q = m.q
              /\ d.action \in {1, 2} => Int32(m.q + d.qty) = m.q + d.qty
              => ExactLevel(l, d).q = WrappedLevel(m, d).q
<1>1. d.action \in 0 .. 3
  BY DEF Delta
<1>2. /\ WrappedLevel(m, d).p = IF d.action = 0 THEN d.price ELSE m.p
      /\ ExactLevel(l, d).p = IF d.action = 0 THEN d.price ELSE l.p
  BY DEF WrappedLevel, ExactLevel, LevelAfter
<1>3. CASE d.action = 0
  BY <1>2, <1>3 DEF WrappedLevel, ExactLevel, LevelAfter
<1>4. CASE d.action \in {1, 2}
  BY <1>2, <1>4 DEF WrappedLevel, ExactLevel, LevelAfter, Unbounded
<1>5. CASE d.action = 3
  BY <1>2, <1>5 DEF WrappedLevel, ExactLevel, LevelAfter
<1> QED
  BY <1>1, <1>3, <1>4, <1>5

(* Either of the other two, unless the level is beyond the book of the test. *)
LEMMA OtherDoes ==
    ASSUME NEW lane \in {Ps, Test}, NEW s, Shaped(s), NEW d \in Delta,
           lane = Ps \/ d.level < NLevels,
           NEW r, r = Step(lane, s, d)
    PROVE  \A x \in {0, 1}, y \in Levels :
              r.book[x][y] = IF x = d.side /\ y = d.level
                             THEN ExactLevel(s.book[x][y], d) ELSE s.book[x][y]
<1>1. CASE lane = Ps
  <2>1. r = PsDelta(s, d)
    BY <1>1 DEF Step, Ps, Pl
  <2> QED
    BY <2>1, PsDeltaDoes
<1>2. CASE lane = Test
  <2>1. r = TestDelta(s, d) /\ d.level < NLevels
    BY <1>2 DEF Step, Test, Ps, Pl
  <2> QED
    BY <2>1, TestDeltaDoes
<1> QED
  BY <1>1, <1>2

LEMMA BooksAgree ==
    ASSUME NEW lane \in {Ps, Test}, NEW begin, Shaped(begin), NEW first, Shaped(first),
           NEW deltas \in Seq(Delta),
           NEW f, IsAlong(f, lane, begin, deltas, Len(deltas)),
           NEW g, IsAlong(g, Pl, first, deltas, Len(deltas)),
           lane = Ps \/ \A k \in 1 .. Len(deltas) : deltas[k].level < NLevels
    PROVE  /\ SamePrices(begin, first) => SamePrices(f[Len(deltas)], g[Len(deltas)])
           /\ /\ SameQuantities(begin, first)
              /\ \A k \in 1 .. Len(deltas) :
                    deltas[k].level < NLevels /\ deltas[k].action \in {1, 2} =>
                       LET sum == g[k - 1].book[deltas[k].side][deltas[k].level].q + deltas[k].qty
                       IN Int32(sum) = sum
              => SameQuantities(f[Len(deltas)], g[Len(deltas)])
<1> DEFINE n == Len(deltas)
<1>1. n \in Nat /\ n \in 0 .. n
  OBVIOUS
<1>2. /\ f[0] = begin
      /\ \A k \in 1 .. n : f[k] = Step(lane, f[k - 1], deltas[k]) /\ deltas[k] \in Delta
      /\ \A k \in 0 .. n : Shaped(f[k])
  BY AlongShaped
<1>3. /\ g[0] = first
      /\ \A k \in 1 .. n : g[k] = Step(Pl, g[k - 1], deltas[k]) /\ deltas[k] \in Delta
      /\ \A k \in 0 .. n : Shaped(g[k])
  BY AlongShaped
<1>4. ASSUME NEW k \in 1 .. n
      PROVE  /\ \A x \in {0, 1}, y \in Levels :
                   f[k].book[x][y] = IF x = deltas[k].side /\ y = deltas[k].level
                                     THEN ExactLevel(f[k - 1].book[x][y], deltas[k])
                                     ELSE f[k - 1].book[x][y]
             /\ \A x \in {0, 1}, y \in Levels :
                   g[k].book[x][y] = IF x = deltas[k].side /\ y = deltas[k].level
                                     THEN WrappedLevel(g[k - 1].book[x][y], deltas[k])
                                     ELSE g[k - 1].book[x][y]
  <2>1. k - 1 \in 0 .. n /\ k \in 0 .. n
    BY <1>1
  <2>2. /\ Shaped(f[k - 1]) /\ Shaped(g[k - 1]) /\ deltas[k] \in Delta
        /\ f[k] = Step(lane, f[k - 1], deltas[k]) /\ g[k] = PlDelta(g[k - 1], deltas[k])
        /\ lane = Ps \/ deltas[k].level < NLevels
    BY <1>2, <1>3, <2>1 DEF Step
  <2> DEFINE r == f[k]
             q == g[k]
             r1 == f[k - 1]
             q1 == g[k - 1]
             d == deltas[k]
  <2>3. /\ Shaped(r1) /\ Shaped(q1) /\ d \in Delta /\ r = Step(lane, r1, d) /\ q = PlDelta(q1, d)
        /\ lane = Ps \/ d.level < NLevels
    BY <2>2
  <2> HIDE DEF r, q, r1, q1, d
  <2>4. SUFFICES ASSUME NEW x \in {0, 1}, NEW y \in Levels
                 PROVE  /\ r.book[x][y] = IF x = d.side /\ y = d.level
                                          THEN ExactLevel(r1.book[x][y], d) ELSE r1.book[x][y]
                        /\ q.book[x][y] = IF x = d.side /\ y = d.level
                                          THEN WrappedLevel(q1.book[x][y], d) ELSE q1.book[x][y]
    BY DEF r, q, r1, q1, d
  <2>5. r.book[x][y] = IF x = d.side /\ y = d.level
                       THEN ExactLevel(r1.book[x][y], d) ELSE r1.book[x][y]
    BY <2>3, OtherDoes
  <2>6. q.book[x][y] = IF x = d.side /\ y = d.level
                       THEN WrappedLevel(q1.book[x][y], d) ELSE q1.book[x][y]
    BY <2>3, PlDeltaParts
  <2> QED
    BY <2>5, <2>6
<1>5. ASSUME SamePrices(begin, first) PROVE SamePrices(f[n], g[n])
  <2> DEFINE T == {k \in 0 .. n : SamePrices(f[k], g[k])}
  <2>1. 0 \in T
    BY <1>1, <1>2, <1>3, <1>5
  <2>2. ASSUME NEW k \in 1 .. n, k - 1 \in T PROVE k \in T
    <3>1. \A x \in {0, 1}, y \in Levels : f[k - 1].book[x][y].p = g[k - 1].book[x][y].p
      BY <2>2 DEF SamePrices
    <3>2. \A x \in {0, 1}, y \in Levels : f[k].book[x][y].p = g[k].book[x][y].p
      <4> TAKE x \in {0, 1}, y \in Levels
      <4>1. deltas[k] \in Delta
        BY <1>2
      <4>2. ExactLevel(f[k - 1].book[x][y], deltas[k]).p
            = WrappedLevel(g[k - 1].book[x][y], deltas[k]).p
        BY <3>1, <4>1, LevelsAgree
      <4>3. CASE x = deltas[k].side /\ y = deltas[k].level
        <5>1. f[k].book[x][y] = ExactLevel(f[k - 1].book[x][y], deltas[k])
          BY <1>4, <4>3
        <5>2. g[k].book[x][y] = WrappedLevel(g[k - 1].book[x][y], deltas[k])
          BY <1>4, <4>3
        <5> QED
          BY <4>2, <5>1, <5>2
      <4>4. CASE ~ (x = deltas[k].side /\ y = deltas[k].level)
        <5>1. f[k].book[x][y] = f[k - 1].book[x][y] /\ g[k].book[x][y] = g[k - 1].book[x][y]
          BY <1>4, <4>4
        <5> QED
          BY <3>1, <5>1
      <4> QED
        BY <4>3, <4>4
    <3> QED
      BY <3>2, <1>1 DEF SamePrices
  <2> HIDE DEF T
  <2>3. n \in T
    BY <1>1, <2>1, <2>2, Upwards
  <2> QED
    BY <2>3 DEF T
<1>6. ASSUME SameQuantities(begin, first),
             \A k \in 1 .. n :
                deltas[k].level < NLevels /\ deltas[k].action \in {1, 2} =>
                   LET sum == g[k - 1].book[deltas[k].side][deltas[k].level].q + deltas[k].qty
                   IN Int32(sum) = sum
      PROVE  SameQuantities(f[n], g[n])
  <2> DEFINE T == {k \in 0 .. n : SameQuantities(f[k], g[k])}
  <2>1. 0 \in T
    BY <1>1, <1>2, <1>3, <1>6
  <2>2. ASSUME NEW k \in 1 .. n, k - 1 \in T PROVE k \in T
    <3>1. \A x \in {0, 1}, y \in Levels : f[k - 1].book[x][y].q = g[k - 1].book[x][y].q
      BY <2>2 DEF SameQuantities
    <3>2. \A x \in {0, 1}, y \in Levels : f[k].book[x][y].q = g[k].book[x][y].q
      <4> TAKE x \in {0, 1}, y \in Levels
      <4>1. deltas[k] \in Delta
        BY <1>2
      <4>2. CASE x = deltas[k].side /\ y = deltas[k].level
        <5>1. deltas[k].level < NLevels
          BY <4>2, ParityAssumption DEF Levels
        <5>2. deltas[k].action \in {1, 2} =>
                 Int32(g[k - 1].book[x][y].q + deltas[k].qty) = g[k - 1].book[x][y].q + deltas[k].qty
          BY <1>6, <4>2, <5>1
        <5>3. ExactLevel(f[k - 1].book[x][y], deltas[k]).q
              = WrappedLevel(g[k - 1].book[x][y], deltas[k]).q
          BY <3>1, <4>1, <5>2, LevelsAgree
        <5>4. f[k].book[x][y] = ExactLevel(f[k - 1].book[x][y], deltas[k])
          BY <1>4, <4>2
        <5>5. g[k].book[x][y] = WrappedLevel(g[k - 1].book[x][y], deltas[k])
          BY <1>4, <4>2
        <5> QED
          BY <5>3, <5>4, <5>5
      <4>3. CASE ~ (x = deltas[k].side /\ y = deltas[k].level)
        <5>1. f[k].book[x][y] = f[k - 1].book[x][y] /\ g[k].book[x][y] = g[k - 1].book[x][y]
          BY <1>4, <4>3
        <5> QED
          BY <3>1, <5>1
      <4> QED
        BY <4>2, <4>3
    <3> QED
      BY <3>2, <1>1 DEF SameQuantities
  <2> HIDE DEF T
  <2>3. n \in T
    BY <1>1, <2>1, <2>2, Upwards
  <2> QED
    BY <2>3 DEF T
<1> QED
  BY <1>5, <1>6

-----------------------------------------------------------------------------
(* What a packet does to each of them. *)

BurstAfter(s, dt) == Clamp(s.burst - (s.burst * dt) \div TauBurst + Narrow, 0, Wide - 1)

WrappedVol(s, dt) ==
    Clamp(s.vol + Quotient((Abs(Int32(Mid(s) - s.mid)) * Narrow - s.vol) * dt, TauVol), 0, Wide - 1)

ExactVol(s, dt) ==
    Clamp(s.vol + ((Abs(Mid(s) - s.mid) * Narrow - s.vol) * dt) \div TauVol, 0, Wide - 1)

Imbalance(s) == Scaled(s, Quotient)

LEMMA EmptyShaped == \A t : Shaped(EmptySince(t))
<1> SUFFICES ASSUME NEW t PROVE Shaped(EmptySince(t))
  OBVIOUS
<1> DEFINE b == [side \in {0, 1} |-> [level \in 0 .. NLevels - 1 |-> [p |-> 0, q |-> 0]]]
<1>1. b \in Books
  BY DEF Books, Levels, Level
<1>2. EmptySince(t) = [book |-> b, ofi |-> 0, imb |-> 0, burst |-> 0, vol |-> 0, mid |-> 0, last |-> t]
  BY DEF EmptySince
<1> HIDE DEF b
<1> QED
  BY <1>1, <1>2 DEF Shaped

LEMMA PlAfterDoes ==
    ASSUME NEW packet, packet.deltas \in Seq(Delta), Shaped(pl),
           NEW s, s = PlAlong(packet)[Len(packet.deltas)], NEW r, r = PlAfter(packet)
    PROVE  /\ Shaped(s) /\ Shaped(r) /\ r.book = s.book /\ r.ofi = s.ofi
           /\ r.imb = Imbalance(s) /\ r.burst = BurstAfter(s, PlDt(packet.t))
           /\ r.vol = WrappedVol(s, PlDt(packet.t)) /\ r.mid = Mid(s) /\ r.last = packet.t
<1> DEFINE n == Len(packet.deltas)
           dt == PlDt(packet.t)
<1>1. n \in Nat /\ n \in 0 .. n
  OBVIOUS
<1>2. IsAlong(PlAlong(packet), Pl, pl, packet.deltas, n)
  BY <1>1, AlongIs DEF PlAlong
<1>3. Shaped(s)
  BY <1>1, <1>2, AlongShaped
<1>4. r = [[s EXCEPT !.burst = BurstAfter(s, dt), !.vol = WrappedVol(s, dt), !.mid = Mid(s)]
           EXCEPT !.imb = Imbalance(s), !.last = packet.t]
  BY DEF PlAfter, Averages, BurstAfter, WrappedVol, Imbalance
<1> DEFINE b == BurstAfter(s, dt)
           v == WrappedVol(s, dt)
           m == Mid(s)
           u == [s EXCEPT !.burst = b, !.vol = v, !.mid = m]
<1>5. r = [u EXCEPT !.imb = Imbalance(s), !.last = packet.t]
  BY <1>4
<1>6. b = BurstAfter(s, PlDt(packet.t)) /\ v = WrappedVol(s, PlDt(packet.t)) /\ m = Mid(s)
  OBVIOUS
<1>7. u = [s EXCEPT !.burst = b, !.vol = v, !.mid = m]
  OBVIOUS
<1> HIDE DEF dt, b, v, m, u
<1>8. /\ Shaped(u) /\ u.book = s.book /\ u.ofi = s.ofi /\ u.burst = b
      /\ u.vol = v /\ u.mid = m
  BY <1>3, <1>7 DEF Shaped
<1>9. /\ Shaped(r) /\ r.book = u.book /\ r.ofi = u.ofi /\ r.burst = u.burst
      /\ r.vol = u.vol /\ r.mid = u.mid /\ r.imb = Imbalance(s) /\ r.last = packet.t
  BY <1>5, <1>8 DEF Shaped
<1> QED
  BY <1>3, <1>6, <1>8, <1>9

LEMMA PsAfterDoes ==
    ASSUME NEW packet, packet.deltas \in Seq(Delta), packet.reset \in BOOLEAN, Shaped(ps),
           NEW r, r = PsAfter(packet)
    PROVE  /\ Shaped(r)
           /\ Len(packet.deltas) < MostDeltas =>
                 r.book = Along(PsDelta, ps, packet.deltas)[Len(packet.deltas)].book
<1> DEFINE size == Len(packet.deltas)
           flags == PsFlags(packet)
           n == Lower(flags % (Narrow \div 2), size)
           begin == IF flags >= Narrow \div 2 THEN EmptySince(None) ELSE ps
           a == Along(PsDelta, begin, packet.deltas)
           s == [a[n] EXCEPT !.imb = 0, !.last = Swapped64(packet.t)]
           dt == IF begin.last = None THEN 0 ELSE Higher(0, s.last - begin.last)
           b == BurstAfter(s, dt)
           v == ExactVol(s, dt)
           u == [s EXCEPT !.burst = b, !.vol = v, !.mid = Mid(s)]
           w == IF dt > 0 THEN u ELSE s
<1>1. size \in Nat /\ flags \in Nat
  <2>1. Narrow \div 2 \in Nat /\ Base \in Nat /\ Base > 0 /\ size \in Nat
    BY Sizes
  <2> DEFINE x == Flags(packet)
             y == x % Base
             z == (x \div Base) % Base
  <2>2. x \in Nat
    BY <2>1 DEF Flags
  <2> HIDE DEF size, x
  <2>3. y \in Nat /\ z \in Nat
    BY ONLY <2>1, <2>2
  <2>4. flags = y * Base + z
    BY DEF PsFlags, Swapped16, x
  <2> HIDE DEF y, z, flags
  <2>5. y * Base \in Nat
    BY ONLY <2>1, <2>3
  <2> QED
    BY ONLY <2>1, <2>3, <2>4, <2>5
<1>2. n \in 0 .. size
  <2>1. Narrow \div 2 \in Nat /\ Narrow \div 2 > 0
    <3>1. Base >= 2 /\ Base \div 2 \in Nat /\ Base = 2 * (Base \div 2) /\ Narrow \div 2 = Base * (Base \div 2)
      BY Sizes
    <3> DEFINE h == Base \div 2
    <3>2. h \in Nat /\ h >= 1 /\ Base = 2 * h
      BY <3>1
    <3> HIDE DEF h
    <3>3. 2 * h * h \in Nat /\ 2 * h * h > 0
      BY ONLY <3>2
    <3> QED
      BY <3>1, <3>2, <3>3 DEF h
  <2>2. flags % (Narrow \div 2) \in Nat
    BY <1>1, <2>1
  <2> HIDE DEF flags, size
  <2> QED
    BY <1>1, <2>2 DEF Lower
<1>3. Shaped(begin)
  BY EmptyShaped
<1>4. IsAlong(a, Ps, begin, packet.deltas, size)
  BY <1>1, AlongIs
<1>5. Shaped(a[n])
  <2> HIDE DEF a, n, begin
  <2> QED
    BY <1>2, <1>3, <1>4, AlongShaped
<1>6. r = [w EXCEPT !.imb = Scaled(s, Floor)]
  BY DEF PsAfter, Averages, BurstAfter, ExactVol, Unbounded, Floor
<1>7. Shaped(s) /\ s.book = a[n].book
  <2> HIDE DEF a, n
  <2> QED
    BY <1>5 DEF Shaped
<1>8. Shaped(w) /\ w.book = s.book
  <2>1. Shaped(u) /\ u.book = s.book
    <3> HIDE DEF s, b, v
    <3> QED
      BY <1>7 DEF Shaped
  <2> HIDE DEF u, s
  <2> QED
    BY <1>7, <2>1
<1>9. Shaped(r) /\ r.book = w.book
  <2> HIDE DEF w, s
  <2> QED
    BY <1>6, <1>8 DEF Shaped
<1>10. ASSUME size < MostDeltas PROVE begin = ps /\ n = size
  <2>1. flags < Narrow \div 2 /\ n = size
    BY <1>1, <1>10, FlagsKept
  <2> QED
    BY <1>1, <2>1, Sizes
<1> HIDE DEF n, begin, s, w
<1> QED
  BY <1>7, <1>8, <1>9, <1>10

(* The recomputation of a packet from the variables begin of the test. *)
TestFrom(begin, deltas, t) ==
    LET s == [Along(TestDelta, begin, deltas)[Len(deltas)] EXCEPT !.last = t]
        dt == IF begin.last = None THEN 0 ELSE Higher(0, t - begin.last)
    IN [Averages(s, dt, Unbounded, Floor) EXCEPT !.imb = Scaled(s, Quotient)]

TestDt(begin, t) == IF begin.last = None THEN 0 ELSE Higher(0, t - begin.last)

LEMMA TestFromDoes ==
    ASSUME NEW deltas \in Seq(Delta), NEW begin, Shaped(begin), NEW t,
           NEW a, a = Along(TestDelta, begin, deltas)[Len(deltas)],
           NEW r, r = TestFrom(begin, deltas, t)
    PROVE  /\ Shaped(a) /\ Shaped(r) /\ r.book = a.book /\ r.ofi = a.ofi
           /\ r.imb = Imbalance(a) /\ r.burst = BurstAfter(a, TestDt(begin, t))
           /\ r.vol = ExactVol(a, TestDt(begin, t)) /\ r.mid = Mid(a) /\ r.last = t
<1> DEFINE n == Len(deltas)
           s == [a EXCEPT !.last = t]
           dt == TestDt(begin, t)
           b == BurstAfter(s, dt)
           v == ExactVol(s, dt)
           m == Mid(s)
           u == [s EXCEPT !.burst = b, !.vol = v, !.mid = m]
<1>1. n \in Nat /\ n \in 0 .. n
  OBVIOUS
<1>2. IsAlong(Along(TestDelta, begin, deltas), Test, begin, deltas, n)
  BY <1>1, AlongIs
<1>3. Shaped(a)
  BY <1>1, <1>2, AlongShaped
<1>4. r = [u EXCEPT !.imb = Imbalance(s)]
  BY DEF TestFrom, TestDt, Averages, BurstAfter, ExactVol, Imbalance, Unbounded, Floor
<1>5. /\ Shaped(s) /\ s.book = a.book /\ s.ofi = a.ofi /\ s.burst = a.burst /\ s.vol = a.vol
      /\ s.mid = a.mid /\ s.last = t
  BY <1>3 DEF Shaped
<1>6. b = BurstAfter(a, dt) /\ v = ExactVol(a, dt) /\ m = Mid(a) /\ Imbalance(s) = Imbalance(a)
  <2> HIDE DEF s, dt
  <2> QED
    BY <1>5 DEF BurstAfter, ExactVol, Mid, Imbalance, Scaled
<1> HIDE DEF s, dt, b, v, m
<1>7. /\ Shaped(u) /\ u.book = s.book /\ u.ofi = s.ofi /\ u.burst = b /\ u.vol = v /\ u.mid = m
      /\ u.last = s.last
  BY <1>5 DEF Shaped
<1> HIDE DEF u
<1>8. /\ Shaped(r) /\ r.book = u.book /\ r.ofi = u.ofi /\ r.burst = u.burst /\ r.vol = u.vol
      /\ r.mid = u.mid /\ r.imb = Imbalance(s) /\ r.last = u.last
  BY <1>4, <1>7 DEF Shaped
<1> QED
  BY <1>3, <1>5, <1>6, <1>7, <1>8 DEF dt

LEMMA TestAfterIs ==
    ASSUME NEW packet
    PROVE  TestAfter(packet) = TestFrom(TestBegin(packet), packet.deltas, packet.t)
BY DEF TestAfter, TestFrom

(* Reading the features of the FPGA leaves the book alone. *)
LEMMA MisreadShaped ==
    ASSUME NEW s, Shaped(s), NEW feat, NEW r, r = Misread(s, feat)
    PROVE  Shaped(r) /\ r.book = s.book
<1> DEFINE a == Int32(Swapped32(feat.ofi % Wide))
           x == Swapped16(feat.imb % Narrow)
           b == IF x >= Narrow \div 2 THEN x - Narrow ELSE x
           c == Swapped32(feat.burst)
           d == Swapped32(feat.vol)
<1>1. r = [s EXCEPT !.ofi = a, !.imb = b, !.burst = c, !.vol = d]
  BY DEF Misread
<1> HIDE DEF a, b, c, d
<1> QED
  BY <1>1 DEF Shaped

-----------------------------------------------------------------------------
(* The shape of the state. *)

Missed == {"reset", "reply", "late", "unfed"}

PacketTyped ==
    wire.to # "nobody" =>
        /\ wire.deltas \in Seq(Delta) /\ Len(wire.deltas) \in 1 .. MostDeltas
        /\ wire.t \in Times /\ wire.reset \in BOOLEAN

ParityShape ==
    /\ Shaped(pl) /\ Shaped(ps) /\ Shaped(test)
    /\ PacketTyped
    /\ late # <<>> => "late" \in apart

LEMMA Packets == \A b \in Batches : b \in Seq(Delta) /\ Len(b) \in 1 .. MostDeltas
BY ParityAssumption

LEMMA ParityInitShape == ParityInit => ParityShape
<1> SUFFICES ASSUME ParityInit PROVE ParityShape
  OBVIOUS
<1>1. Shaped(pl) /\ Shaped(ps) /\ Shaped(test)
  BY EmptyShaped DEF ParityInit
<1> QED
  BY <1>1 DEF ParityInit, ParityShape, PacketTyped, Idle

LEMMA SentShape ==
    ASSUME ParityShape, NEW deltas \in Batches, NEW t \in Times, NEW reset \in BOOLEAN,
           Send(deltas, t, reset)
    PROVE  ParityShape'
<1>1. wire' = [to |-> "server", deltas |-> deltas, t |-> t, reset |-> reset]
      /\ UNCHANGED <<pl, late, ps, test, apart>>
  BY DEF Send
<1>2. PacketTyped'
  <2>1. deltas \in Seq(Delta) /\ Len(deltas) \in 1 .. MostDeltas
    BY Packets
  <2>2. wire'.deltas = deltas /\ wire'.t = t /\ wire'.reset = reset
    BY <1>1
  <2> QED
    BY <2>1, <2>2 DEF PacketTyped
<1> QED
  BY <1>1, <1>2 DEF ParityShape, Shaped

(* A reply, or none, leaves the packet on the wire what it was. *)
Kept ==
    \/ wire' = Idle
    \/ wire'.to = "client" /\ wire'.deltas = wire.deltas /\ wire'.t = wire.t /\ wire'.reset = wire.reset

LEMMA KeptTyped == PacketTyped /\ wire.to = "server" /\ Kept => PacketTyped'
BY DEF PacketTyped, Kept, Idle

LEMMA ServedShape ==
    ASSUME ParityShape, ServeFromPl
    PROVE  ParityShape' /\ Kept /\ ps'.book = PsAfter(wire).book
<1>1. /\ Arrived /\ pl' = PlAfter(wire)
      /\ ps' = Misread(PsAfter(wire), Head(Append(late, Features(pl'))))
      /\ late' = Tail(Append(late, Features(pl')))
      /\ wire' = Reply(ps') /\ apart' = apart \cup Causes(wire)
      /\ test' = test
  BY DEF ServeFromPl
<1>2. wire.deltas \in Seq(Delta) /\ wire.reset \in BOOLEAN
  BY <1>1 DEF ParityShape, PacketTyped, Arrived
<1>3. Shaped(pl')
  BY <1>1, <1>2, PlAfterDoes DEF ParityShape
<1>4. Shaped(PsAfter(wire))
  BY <1>2, PsAfterDoes DEF ParityShape
<1>5. Shaped(ps') /\ ps'.book = PsAfter(wire).book
  BY <1>1, <1>4, MisreadShaped
<1>6. Kept
  BY <1>1 DEF Kept, Reply
<1>7. PacketTyped'
  BY <1>1, <1>6, KeptTyped DEF ParityShape, Arrived
<1>8. late' # <<>> => "late" \in apart'
  <2>1. CASE late = <<>>
    BY <1>1, <2>1
  <2>2. CASE late # <<>>
    BY <1>1, <2>2 DEF ParityShape
  <2> QED
    BY <2>1, <2>2
<1> QED
  BY <1>1, <1>3, <1>5, <1>6, <1>7, <1>8 DEF ParityShape

LEMMA FallbackShape ==
    ASSUME ParityShape, Arrived, Fallback
    PROVE  /\ Shaped(ps') /\ ps' = PsAfter(wire) /\ Kept /\ PacketTyped' /\ test' = test
           /\ wire.deltas \in Seq(Delta) /\ wire.reset \in BOOLEAN
<1>1. wire.deltas \in Seq(Delta) /\ wire.reset \in BOOLEAN
  BY DEF ParityShape, PacketTyped, Arrived
<1>2. Shaped(ps') /\ ps' = PsAfter(wire) /\ test' = test
  BY <1>1, PsAfterDoes DEF ParityShape, Fallback
<1>3. Kept
  <2>1. wire' = Reply(ps') \/ wire' = Idle
    BY DEF Fallback
  <2> QED
    BY <2>1 DEF Kept, Reply
<1>4. PacketTyped'
  BY <1>3, KeptTyped DEF ParityShape, Arrived
<1> QED
  BY <1>1, <1>2, <1>3, <1>4

LEMMA LateShape ==
    ASSUME ParityShape, ServeLate
    PROVE  ParityShape' /\ Kept /\ ps' = PsAfter(wire)
<1>1. /\ Arrived /\ Fallback /\ pl' = PlAfter(wire)
      /\ apart' = apart \cup Causes(wire) \cup {"late"}
  BY DEF ServeLate
<1>2. /\ Shaped(ps') /\ ps' = PsAfter(wire) /\ Kept /\ PacketTyped' /\ test' = test
      /\ wire.deltas \in Seq(Delta)
  BY <1>1, FallbackShape
<1>3. Shaped(pl')
  BY <1>1, <1>2, PlAfterDoes DEF ParityShape
<1> QED
  BY <1>1, <1>2, <1>3 DEF ParityShape

LEMMA UnfedShape ==
    ASSUME ParityShape, ServeUnfed
    PROVE  ParityShape' /\ Kept /\ ps' = PsAfter(wire)
<1>1. /\ Arrived /\ Fallback /\ UNCHANGED <<pl, late>> /\ apart' = apart \cup {"unfed"}
  BY DEF ServeUnfed
<1>2. Shaped(ps') /\ ps' = PsAfter(wire) /\ Kept /\ PacketTyped' /\ test' = test
  BY <1>1, FallbackShape
<1> QED
  BY <1>1, <1>2 DEF ParityShape

LEMMA BeginShaped ==
    ASSUME ParityShape
    PROVE  Shaped(TestBegin(wire))
BY EmptyShaped DEF TestBegin, ParityShape

LEMMA RecordShape ==
    ASSUME ParityShape, Record
    PROVE  ParityShape'
<1>1. /\ wire.to = "client" /\ test' = TestAfter(wire) /\ wire' = Idle
      /\ UNCHANGED <<pl, late, ps, apart>>
  BY DEF Record
<1>2. wire.deltas \in Seq(Delta)
  BY <1>1 DEF ParityShape, PacketTyped
<1>3. Shaped(test')
  <2>1. Shaped(TestBegin(wire)) /\ test' = TestFrom(TestBegin(wire), wire.deltas, wire.t)
    BY <1>1, BeginShaped, TestAfterIs
  <2> QED
    BY <1>2, <2>1, TestFromDoes
<1>4. PacketTyped'
  BY <1>1 DEF PacketTyped, Idle
<1> QED
  BY <1>1, <1>3, <1>4 DEF ParityShape

LEMMA LoseShape ==
    ASSUME ParityShape, Lose
    PROVE  ParityShape'
<1>1. wire' = Idle /\ UNCHANGED <<pl, late, ps, test>> /\ apart \subseteq apart'
  BY DEF Lose
<1>2. PacketTyped'
  BY <1>1 DEF PacketTyped, Idle
<1> QED
  BY <1>1, <1>2 DEF ParityShape

-----------------------------------------------------------------------------
(* What it means that a cause was not seen. *)

LEMMA NoCause ==
    ASSUME NEW packet, packet.deltas \in Seq(Delta)
    PROVE  /\ "reset" \notin Causes(packet) => ~ packet.reset \/ pl = EmptySince(0)
           /\ "level" \notin Causes(packet) =>
                 \A k \in 1 .. Len(packet.deltas) : packet.deltas[k].level < NLevels
           /\ "ofi" \notin Causes(packet) =>
                 \A k \in 1 .. Len(packet.deltas) : ~ OfiOverflows(packet, k)
           /\ "qty" \notin Causes(packet) =>
                 \A k \in 1 .. Len(packet.deltas) : ~ QtyOverflows(packet, k)
           /\ "vol" \notin Causes(packet) => ~ VolDiffers(packet)
           /\ "time" \notin Causes(packet) =>
                 pl.last = 0 \/ packet.t - pl.last \in 0 .. Wide - 1
           /\ "count" \notin Causes(packet) => Len(packet.deltas) # MostDeltas
<1>1. DOMAIN packet.deltas = 1 .. Len(packet.deltas)
  OBVIOUS
<1>2. \A k \in 1 .. Len(packet.deltas) : packet.deltas[k].level \in Nat /\ NLevels \in Nat
  <2>1. \A k \in 1 .. Len(packet.deltas) : packet.deltas[k] \in Delta
    OBVIOUS
  <2>2. \A d \in Delta : d.level \in Nat
    BY DEF Delta
  <2> QED
    BY <2>1, <2>2, ParityAssumption
<1>3. "level" \notin Causes(packet) =>
         \A k \in 1 .. Len(packet.deltas) : ~ (packet.deltas[k].level >= NLevels)
  BY <1>1 DEF Causes
<1>4. "level" \notin Causes(packet) =>
         \A k \in 1 .. Len(packet.deltas) : packet.deltas[k].level < NLevels
  BY <1>2, <1>3
<1>5. /\ "reset" \notin Causes(packet) => ~ packet.reset \/ pl = EmptySince(0)
      /\ "vol" \notin Causes(packet) => ~ VolDiffers(packet)
      /\ "time" \notin Causes(packet) => pl.last = 0 \/ packet.t - pl.last \in 0 .. Wide - 1
      /\ "count" \notin Causes(packet) => Len(packet.deltas) # MostDeltas
  BY DEF Causes
<1>6. /\ "ofi" \notin Causes(packet) =>
            \A k \in 1 .. Len(packet.deltas) : ~ OfiOverflows(packet, k)
      /\ "qty" \notin Causes(packet) =>
            \A k \in 1 .. Len(packet.deltas) : ~ QtyOverflows(packet, k)
  BY <1>1 DEF Causes
<1> QED
  BY <1>4, <1>5, <1>6

LEMMA QtyFits ==
    ASSUME NEW packet, packet.deltas \in Seq(Delta), "qty" \notin Causes(packet)
    PROVE  \A k \in 1 .. Len(packet.deltas) :
              packet.deltas[k].level < NLevels /\ packet.deltas[k].action \in {1, 2} =>
                 LET sum == PlAlong(packet)[k - 1].book[packet.deltas[k].side][packet.deltas[k].level].q
                            + packet.deltas[k].qty
                 IN Int32(sum) = sum
BY NoCause DEF QtyOverflows, Before

LEMMA BooksEqual ==
    ASSUME NEW a, Shaped(a), NEW b, Shaped(b), SamePrices(a, b), SameQuantities(a, b)
    PROVE  a.book = b.book
<1>1. a.book \in Books /\ b.book \in Books
  BY DEF Shaped
<1>2. \A x \in {0, 1}, y \in Levels : a.book[x][y] \in Level /\ b.book[x][y] \in Level
  BY <1>1 DEF Books
<1>3. \A l, m \in Level : l.p = m.p /\ l.q = m.q => l = m
  BY DEF Level
<1>4. \A x \in {0, 1}, y \in Levels : a.book[x][y] = b.book[x][y]
  BY <1>2, <1>3 DEF SamePrices, SameQuantities
<1>5. \A x \in {0, 1} : a.book[x] = b.book[x]
  <2> TAKE x \in {0, 1}
  <2>1. a.book[x] \in [Levels -> Level] /\ b.book[x] \in [Levels -> Level]
    BY <1>1 DEF Books
  <2> QED
    BY <1>4, <2>1
<1> QED
  BY <1>1, <1>5 DEF Books

(* A packet whose causes do not set the two lanes apart. *)
LEMMA LanesStep ==
    ASSUME NEW packet, packet.deltas \in Seq(Delta), packet.reset \in BOOLEAN,
           Len(packet.deltas) <= MostDeltas, Shaped(pl), Shaped(ps), ps.book = pl.book,
           "qty" \notin Causes(packet), "count" \notin Causes(packet)
    PROVE  PsAfter(packet).book = PlAfter(packet).book
<1> DEFINE n == Len(packet.deltas)
           f == Along(PsDelta, ps, packet.deltas)
           g == PlAlong(packet)
<1>1. n \in Nat /\ n \in 0 .. n /\ n < MostDeltas
  <2>1. n # MostDeltas
    BY NoCause
  <2>2. MostDeltas \in Nat /\ n \in Nat /\ n <= MostDeltas
    BY Sizes DEF MostDeltas
  <2> QED
    BY <2>1, <2>2
<1>2. IsAlong(f, Ps, ps, packet.deltas, n) /\ IsAlong(g, Pl, pl, packet.deltas, n)
  BY <1>1, AlongIs DEF PlAlong
<1>3. SamePrices(ps, pl) /\ SameQuantities(ps, pl)
  BY DEF SamePrices, SameQuantities
<1>4. \A k \in 1 .. n :
         packet.deltas[k].level < NLevels /\ packet.deltas[k].action \in {1, 2} =>
            LET sum == g[k - 1].book[packet.deltas[k].side][packet.deltas[k].level].q
                       + packet.deltas[k].qty
            IN Int32(sum) = sum
  BY QtyFits
<1>5. PsAfter(packet).book = f[n].book /\ PlAfter(packet).book = g[n].book
  BY <1>1, PsAfterDoes, PlAfterDoes
<1>6. Shaped(f[n]) /\ Shaped(g[n])
  <2> HIDE DEF f, g
  <2> QED
    BY <1>1, <1>2, AlongShaped
<1> HIDE DEF f, g
<1>7. SamePrices(f[n], g[n]) /\ SameQuantities(f[n], g[n])
  BY <1>2, <1>3, <1>4, BooksAgree
<1> QED
  BY <1>5, <1>6, <1>7, BooksEqual

-----------------------------------------------------------------------------
(* The lanes. *)

(* What carries over to the next state: the computations of ParityShape and *)
(* the books of the two lanes.                                              *)
LanesInv == ParityShape /\ LanesAgree

LEMMA LanesPreserved ==
    LanesInv /\ [ParityNext]_parityVars => LanesInv'
<1> SUFFICES ASSUME ParityShape, LanesAgree, [ParityNext]_parityVars
             PROVE  ParityShape' /\ LanesAgree'
  BY DEF LanesInv
<1> DEFINE Apart == {"unfed", "qty", "count"}
<1>0. LanesAgree <=> (apart \cap Apart = {} => ps.book = pl.book)
  BY DEF LanesAgree
<1>00. LanesAgree' <=> (apart' \cap Apart = {} => ps'.book = pl'.book)
  BY DEF LanesAgree
<1>a. Arrived => /\ wire.deltas \in Seq(Delta) /\ Len(wire.deltas) <= MostDeltas
                 /\ wire.reset \in BOOLEAN
  BY Sizes DEF Arrived, ParityShape, PacketTyped, MostDeltas
<1>b. ASSUME Arrived, apart' \cap Apart = {}, apart \cup Causes(wire) \subseteq apart'
      PROVE  PsAfter(wire).book = PlAfter(wire).book
  <2>1. "qty" \notin Causes(wire) /\ "count" \notin Causes(wire)
    BY <1>b
  <2>2. ps.book = pl.book
    BY <1>0, <1>b
  <2> QED
    BY <1>a, <1>b, <2>1, <2>2, LanesStep DEF ParityShape
<1>1. ASSUME NEW deltas \in Batches, NEW t \in Times, NEW reset \in BOOLEAN,
             Send(deltas, t, reset)
      PROVE  ParityShape' /\ LanesAgree'
  <2>1. UNCHANGED <<apart, ps, pl>>
    BY <1>1 DEF Send
  <2> QED
    BY <1>0, <1>00, <1>1, <2>1, SentShape
<1>2. CASE ServeFromPl
  <2>1. /\ Arrived /\ pl' = PlAfter(wire) /\ apart \cup Causes(wire) \subseteq apart'
        /\ ParityShape' /\ ps'.book = PsAfter(wire).book
    BY <1>2, ServedShape DEF ServeFromPl
  <2> QED
    BY <1>00, <1>b, <2>1
<1>3. CASE ServeLate
  <2>1. /\ Arrived /\ pl' = PlAfter(wire) /\ apart \cup Causes(wire) \subseteq apart'
        /\ ParityShape' /\ ps' = PsAfter(wire)
    BY <1>3, LateShape DEF ServeLate
  <2> QED
    BY <1>00, <1>b, <2>1
<1>4. CASE ServeUnfed
  <2>1. ParityShape' /\ "unfed" \in apart'
    BY <1>4, UnfedShape DEF ServeUnfed
  <2> QED
    BY <1>00, <2>1
<1>5. CASE Record
  <2>1. ParityShape' /\ UNCHANGED <<apart, ps, pl>>
    BY <1>5, RecordShape DEF Record
  <2> QED
    BY <1>0, <1>00, <2>1
<1>6. CASE Lose
  <2>1. ParityShape' /\ UNCHANGED <<ps, pl>> /\ apart \subseteq apart'
    BY <1>6, LoseShape DEF Lose
  <2> QED
    BY <1>0, <1>00, <2>1
<1>7. CASE UNCHANGED parityVars
  BY <1>7 DEF parityVars, ParityShape, PacketTyped, Shaped, LanesAgree
<1> QED
  BY <1>1, <1>2, <1>3, <1>4, <1>5, <1>6, <1>7 DEF ParityNext

(* The reflex lane and the FPGA keep the same book, whatever packets,       *)
(* replies and time limits are missed, as long as no quantity overflows, no *)
(* packet is kept from the FPGA and no count is taken for the reset bit:    *)
(* processor_thread of feature_echo_mt.py, update_book of                   *)
(* feature_pipeline.cpp.                                                    *)
THEOREM BooksInStep == ParitySpec => []LanesAgree
<1>1. ParityInit => LanesInv
  <2>1. ParityInit => ps.book = pl.book
    BY DEF ParityInit, EmptySince
  <2> QED
    BY <2>1, ParityInitShape DEF LanesInv, LanesAgree
<1> QED
  BY <1>1, LanesPreserved, PTL DEF ParitySpec, LanesInv

-----------------------------------------------------------------------------
(* The arithmetic of the three. *)

LEMMA NotWrapped ==
    \A x \in Int : Int32(x) = x => Sat32(x) = x
<1> SUFFICES ASSUME NEW x \in Int, Int32(x) = x PROVE Sat32(x) = x
  OBVIOUS
<1> DEFINE h == Wide \div 2
           m == (x + h) % Wide
<1>1. h \in Nat /\ Wide \in Nat /\ Wide > 0 /\ Wide = 2 * h
  BY Sizes
<1>2. x = m - h
  BY DEF Int32
<1>3. Sat32(x) = Clamp(x, -h, h - 1)
  BY DEF Sat32
<1> HIDE DEF h
<1>4. m \in 0 .. Wide - 1
  BY ONLY <1>1, x \in Int
<1> HIDE DEF m
<1>5. x >= -h /\ x <= h - 1
  BY ONLY <1>1, <1>2, <1>4
<1> QED
  BY ONLY <1>1, <1>3, <1>5, x \in Int DEF Clamp, Higher, Lower

(* Truncation is the floor where nothing is cut off below zero. *)
LEMMA SameQuotient ==
    ASSUME NEW a \in Int, NEW b \in Nat, b > 0, a < 0 => a % b = 0
    PROVE  Quotient(a, b) = a \div b
<1>1. CASE a >= 0
  BY <1>1 DEF Quotient
<1>2. CASE a < 0
  <2> DEFINE q == a \div b
             m == a % b
  <2>1. q \in Int /\ m = 0 /\ a = b * q + m
    BY <1>2
  <2> HIDE DEF q, m
  <2>2. -a = b * (-q) + 0 /\ -q \in Int
    BY ONLY <2>1, b \in Nat
  <2>3. (b * (-q) + 0) \div b = -q
    BY ONLY <2>1, <2>2, b \in Nat, b > 0, Division
  <2>4. (-a) \div b = -q
    BY ONLY <2>2, <2>3
  <2>5. Quotient(a, b) = -((-a) \div b)
    BY <1>2 DEF Quotient
  <2> QED
    BY <2>1, <2>4, <2>5 DEF q
<1> QED
  BY <1>1, <1>2

LEMMA QuotientInt == \A a \in Int, b \in Nat \ {0} : Quotient(a, b) \in Int /\ a \div b \in Int
BY DEF Quotient

LEMMA FlowInt == \A d \in Delta : Flow(d) \in Int
BY DEF Delta, Flow

LEMMA MidInt ==
    ASSUME NEW s, Shaped(s)
    PROVE  Mid(s) \in Int
<1>1. 0 \in Levels
  BY ParityAssumption DEF Levels
<1>2. s.book[0][0] \in Level /\ s.book[1][0] \in Level
  BY <1>1 DEF Shaped, Books
<1> QED
  BY <1>2 DEF Mid, Level

LEMMA TopAgrees ==
    ASSUME NEW a, NEW b
    PROVE  /\ SamePrices(a, b) => Mid(a) = Mid(b)
           /\ SameQuantities(a, b) => Imbalance(a) = Imbalance(b)
<1>1. 0 \in Levels
  BY ParityAssumption DEF Levels
<1>2. SamePrices(a, b) => a.book[0][0].p = b.book[0][0].p /\ a.book[1][0].p = b.book[1][0].p
  BY <1>1 DEF SamePrices
<1>3. SameQuantities(a, b) => a.book[0][0].q = b.book[0][0].q /\ a.book[1][0].q = b.book[1][0].q
  BY <1>1 DEF SameQuantities
<1> QED
  BY <1>2, <1>3 DEF Mid, Imbalance, Scaled

LEMMA ClampInt == \A x, l, h \in Int : Clamp(x, l, h) \in Int
BY DEF Clamp, Higher, Lower

(* The numbers that the pipeline keeps. *)
Numbers(s) == s.ofi \in Int /\ s.vol \in Int /\ s.mid \in Int /\ s.last \in Nat

LEMMA DtNat ==
    ASSUME NEW t \in Int, pl.last \in Nat
    PROVE  PlDt(t) \in Nat
<1>1. Long \in Nat /\ Long > 0 /\ Wide \in Nat /\ Wide > 0
  BY Sizes
<1>2. (t - pl.last) % Long \in Nat
  BY <1>1
<1> QED
  BY <1>1, <1>2 DEF PlDt, Lower

LEMMA VolInt ==
    ASSUME NEW s, Shaped(s), s.vol \in Int, s.mid \in Int, NEW dt \in Nat
    PROVE  WrappedVol(s, dt) \in Int
<1> DEFINE x == Int32(Mid(s) - s.mid)
           c == (Abs(x) * Narrow - s.vol) * dt
           q == Quotient(c, TauVol)
<1>1. x \in Int
  BY MidInt, Int32Type
<1>2. Narrow \in Nat /\ Wide \in Nat /\ TauVol \in Nat \ {0}
  BY Sizes, ParityAssumption
<1> HIDE DEF x
<1>3. Abs(x) \in Int
  BY <1>1 DEF Abs
<1> DEFINE y == Abs(x)
<1>4. y \in Int /\ c = (y * Narrow - s.vol) * dt
  BY <1>3
<1> HIDE DEF y
<1>5. c \in Int
  BY <1>2, <1>4
<1> HIDE DEF c
<1>6. q \in Int
  BY <1>2, <1>5, QuotientInt
<1>7. WrappedVol(s, dt) = Clamp(s.vol + q, 0, Wide - 1)
  BY DEF WrappedVol, q, c, x
<1> HIDE DEF q
<1>8. s.vol + q \in Int /\ 0 \in Int /\ Wide - 1 \in Int
  BY <1>2, <1>6
<1>9. Clamp(s.vol + q, 0, Wide - 1) \in Int
  BY <1>8, ClampInt
<1> QED
  BY <1>7, <1>9

LEMMA VolAgrees ==
    ASSUME NEW a, NEW b, Shaped(b), a.vol = b.vol, a.mid = b.mid, Mid(a) = Mid(b),
           b.vol \in Int, b.mid \in Int, NEW dt \in Nat,
           LET moved == Mid(b) - b.mid
               change == (Abs(moved) * Narrow - b.vol) * dt
           IN Int32(moved) = moved /\ ~ (change < 0 /\ change % TauVol # 0)
    PROVE  ExactVol(a, dt) = WrappedVol(b, dt)
<1> DEFINE moved == Mid(b) - b.mid
           y == Abs(moved)
           change == (y * Narrow - b.vol) * dt
<1>1. moved \in Int
  BY MidInt
<1>2. Narrow \in Nat /\ TauVol \in Nat /\ TauVol > 0
  BY Sizes, ParityAssumption
<1>3. y \in Int
  <2> HIDE DEF moved
  <2> QED
    BY <1>1 DEF Abs
<1>4. change \in Int
  <2> HIDE DEF y
  <2> QED
    BY <1>2, <1>3
<1>5. Int32(moved) = moved /\ (change < 0 => change % TauVol = 0)
  OBVIOUS
<1>6. ExactVol(a, dt) = Clamp(b.vol + change \div TauVol, 0, Wide - 1)
  BY DEF ExactVol
<1>7. WrappedVol(b, dt) = Clamp(b.vol + Quotient(change, TauVol), 0, Wide - 1)
  BY <1>5 DEF WrappedVol
<1> HIDE DEF change
<1>8. Quotient(change, TauVol) = change \div TauVol
  BY <1>2, <1>4, <1>5, SameQuotient
<1> QED
  BY <1>6, <1>7, <1>8

-----------------------------------------------------------------------------
(* What the test makes of the packets, next to what the pipeline does. *)

LEMMA OthersAlong ==
    ASSUME NEW lane \in {Pl, Test}, NEW begin, Shaped(begin), NEW deltas \in Seq(Delta),
           NEW f, IsAlong(f, lane, begin, deltas, Len(deltas))
    PROVE  \A k \in 0 .. Len(deltas) : Others(f[k], begin)
<1> DEFINE n == Len(deltas)
           T == {k \in 0 .. n : Others(f[k], begin)}
<1>1. n \in Nat
  OBVIOUS
<1>2. /\ f[0] = begin
      /\ \A k \in 1 .. n : f[k] = Step(lane, f[k - 1], deltas[k]) /\ deltas[k] \in Delta
      /\ \A k \in 0 .. n : Shaped(f[k])
  BY AlongShaped
<1>3. 0 \in T
  BY <1>1, <1>2 DEF Others
<1>4. ASSUME NEW k \in 1 .. n, k - 1 \in T PROVE k \in T
  <2>1. /\ k - 1 \in 0 .. n /\ k \in 0 .. n /\ Others(f[k - 1], begin)
    BY <1>1, <1>4
  <2>2. Shaped(f[k - 1]) /\ f[k] = Step(lane, f[k - 1], deltas[k]) /\ deltas[k] \in Delta
    BY <1>2, <2>1
  <2>3. Others(f[k], f[k - 1])
    <3>1. Others(PlDelta(f[k - 1], deltas[k]), f[k - 1])
      BY <2>2, PlDeltaDoes
    <3>2. Others(TestDelta(f[k - 1], deltas[k]), f[k - 1])
      BY <2>2, TestDeltaDoes
    <3>3. f[k] = PlDelta(f[k - 1], deltas[k]) \/ f[k] = TestDelta(f[k - 1], deltas[k])
      BY <2>2 DEF Step, Pl, Ps, Test
    <3> QED
      BY <3>1, <3>2, <3>3
  <2> QED
    BY <2>1, <2>3 DEF Others
<1> HIDE DEF T
<1>5. \A k \in 0 .. n : k \in T
  BY <1>1, <1>3, <1>4, Upwards
<1> QED
  BY <1>5 DEF T

LEMMA OfiAlong ==
    ASSUME NEW begin, Shaped(begin), NEW first, Shaped(first), first.ofi \in Int,
           NEW deltas \in Seq(Delta),
           NEW f, IsAlong(f, Test, begin, deltas, Len(deltas)),
           NEW g, IsAlong(g, Pl, first, deltas, Len(deltas))
    PROVE  /\ g[Len(deltas)].ofi \in Int
           /\ /\ begin.ofi = first.ofi
              /\ \A k \in 1 .. Len(deltas) :
                    LET sum == g[k - 1].ofi + Flow(deltas[k]) IN Int32(sum) = sum
              => f[Len(deltas)].ofi = g[Len(deltas)].ofi
<1> DEFINE n == Len(deltas)
<1>1. n \in Nat /\ n \in 0 .. n
  OBVIOUS
<1>2. /\ f[0] = begin
      /\ \A k \in 1 .. n : f[k] = Step(Test, f[k - 1], deltas[k]) /\ deltas[k] \in Delta
      /\ \A k \in 0 .. n : Shaped(f[k])
  BY AlongShaped
<1>3. /\ g[0] = first
      /\ \A k \in 1 .. n : g[k] = Step(Pl, g[k - 1], deltas[k]) /\ deltas[k] \in Delta
      /\ \A k \in 0 .. n : Shaped(g[k])
  BY AlongShaped
<1>4. ASSUME NEW k \in 1 .. n
      PROVE  /\ f[k].ofi = Sat32(f[k - 1].ofi + Flow(deltas[k]))
             /\ g[k].ofi = Int32(g[k - 1].ofi + Flow(deltas[k]))
             /\ Flow(deltas[k]) \in Int
  <2>1. k - 1 \in 0 .. n /\ k \in 0 .. n
    BY <1>1
  <2>2. /\ Shaped(f[k - 1]) /\ Shaped(g[k - 1]) /\ deltas[k] \in Delta
        /\ f[k] = TestDelta(f[k - 1], deltas[k]) /\ g[k] = PlDelta(g[k - 1], deltas[k])
    BY <1>2, <1>3, <2>1 DEF Step, Pl, Ps, Test
  <2>3. f[k].ofi = Sat32(f[k - 1].ofi + Flow(deltas[k]))
    BY <2>2, TestDeltaDoes
  <2>4. g[k].ofi = Int32(g[k - 1].ofi + Flow(deltas[k]))
    BY <2>2, PlDeltaParts
  <2> QED
    BY <2>2, <2>3, <2>4, FlowInt
<1>5. \A k \in 0 .. n : g[k].ofi \in Int
  <2> DEFINE T == {k \in 0 .. n : g[k].ofi \in Int}
  <2>1. 0 \in T
    BY <1>1, <1>3
  <2>2. ASSUME NEW k \in 1 .. n, k - 1 \in T PROVE k \in T
    <3>1. g[k - 1].ofi + Flow(deltas[k]) \in Int /\ k \in 0 .. n
      BY <1>1, <1>4, <2>2
    <3> QED
      BY <1>4, <3>1, Int32Type
  <2> HIDE DEF T
  <2>3. \A k \in 0 .. n : k \in T
    BY <1>1, <2>1, <2>2, Upwards
  <2> QED
    BY <2>3 DEF T
<1>6. ASSUME begin.ofi = first.ofi,
             \A k \in 1 .. n : LET sum == g[k - 1].ofi + Flow(deltas[k]) IN Int32(sum) = sum
      PROVE  f[n].ofi = g[n].ofi
  <2> DEFINE T == {k \in 0 .. n : f[k].ofi = g[k].ofi}
  <2>1. 0 \in T
    BY <1>1, <1>2, <1>3, <1>6
  <2>2. ASSUME NEW k \in 1 .. n, k - 1 \in T PROVE k \in T
    <3> DEFINE sum == g[k - 1].ofi + Flow(deltas[k])
    <3>1. k \in 0 .. n /\ k - 1 \in 0 .. n /\ f[k - 1].ofi = g[k - 1].ofi
      BY <1>1, <2>2
    <3>2. sum \in Int /\ Int32(sum) = sum
      BY <1>4, <1>5, <1>6, <3>1
    <3>3. f[k].ofi = Sat32(sum) /\ g[k].ofi = Int32(sum)
      BY <1>4, <3>1
    <3> HIDE DEF sum
    <3> QED
      BY <3>1, <3>2, <3>3, NotWrapped
  <2> HIDE DEF T
  <2>3. n \in T
    BY <1>1, <2>1, <2>2, Upwards
  <2> QED
    BY <2>3 DEF T
<1> QED
  BY <1>1, <1>5, <1>6

(* The variables a of the test and b of the pipeline agree but for the      *)
(* causes in why.                                                           *)
Agree(a, b, why) ==
    /\ IF b.last = 0 THEN a.last = None ELSE a.last = b.last
    /\ "ofi" \notin why => a.ofi = b.ofi
    /\ "level" \notin why => SamePrices(a, b) /\ a.mid = b.mid
    /\ why \cap {"level", "qty"} = {} => SameQuantities(a, b) /\ a.imb = b.imb
    /\ "time" \notin why => a.burst = b.burst
    /\ why \cap {"level", "time", "vol"} = {} => a.vol = b.vol

LEMMA AgreeLonger ==
    ASSUME NEW a, NEW b, NEW why, NEW more, why \subseteq more, Agree(a, b, why)
    PROVE  Agree(a, b, more)
BY DEF Agree

LEMMA TimesInt == \A t \in Times : t \in Nat /\ t # 0
BY ParityAssumption, Sizes

LEMMA NumbersStep ==
    ASSUME NEW packet, packet.deltas \in Seq(Delta), packet.t \in Times, Shaped(pl), Numbers(pl)
    PROVE  /\ Numbers(PlAfter(packet))
           /\ LET s == PlAlong(packet)[Len(packet.deltas)]
              IN s.ofi \in Int /\ s.vol = pl.vol /\ s.mid = pl.mid /\ s.burst = pl.burst
<1> DEFINE n == Len(packet.deltas)
           g == PlAlong(packet)
           f == Along(TestDelta, pl, packet.deltas)
           s == g[n]
           dt == PlDt(packet.t)
<1>1. n \in Nat /\ n \in 0 .. n
  OBVIOUS
<1>2. IsAlong(g, Pl, pl, packet.deltas, n) /\ IsAlong(f, Test, pl, packet.deltas, n)
  BY <1>1, AlongIs DEF PlAlong
<1>3. pl.ofi \in Int /\ pl.vol \in Int /\ pl.mid \in Int /\ pl.last \in Nat
  BY DEF Numbers
<1>4. packet.t \in Nat
  BY TimesInt
<1>5. /\ Shaped(s) /\ PlAfter(packet).ofi = s.ofi /\ PlAfter(packet).vol = WrappedVol(s, dt)
      /\ PlAfter(packet).mid = Mid(s) /\ PlAfter(packet).last = packet.t
  BY PlAfterDoes
<1> HIDE DEF g, f, dt
<1>6. s.ofi \in Int
  BY <1>2, <1>3, OfiAlong
<1>7. Others(s, pl)
  BY <1>1, <1>2, OthersAlong
<1>8. s.vol = pl.vol /\ s.mid = pl.mid /\ s.burst = pl.burst
  BY <1>7 DEF Others
<1>9. dt \in Nat
  <2>1. packet.t \in Int
    BY <1>4
  <2>2. PlDt(packet.t) \in Nat
    BY <1>3, <2>1, DtNat
  <2> QED
    BY <2>2 DEF dt
<1> HIDE DEF s
<1>10. WrappedVol(s, dt) \in Int /\ Mid(s) \in Int
  BY <1>3, <1>5, <1>8, <1>9, VolInt, MidInt
<1>11. Numbers(PlAfter(packet))
  BY <1>4, <1>5, <1>6, <1>10 DEF Numbers
<1> QED
  BY <1>6, <1>8, <1>11 DEF s, g

LEMMA DtAgrees ==
    ASSUME NEW t \in Times, NEW begin, pl.last \in Nat,
           IF pl.last = 0 THEN begin.last = None ELSE begin.last = pl.last,
           pl.last = 0 \/ t - pl.last \in 0 .. Wide - 1
    PROVE  TestDt(begin, t) = PlDt(t)
<1>1. t \in Nat
  BY TimesInt
<1>2. CASE pl.last = 0
  BY <1>2 DEF TestDt, PlDt
<1>3. CASE pl.last # 0
  <2> DEFINE d == t - pl.last
  <2>1. begin.last = pl.last /\ begin.last # None /\ d \in 0 .. Wide - 1
    BY <1>3, ParityAssumption
  <2>2. Wide \in Nat /\ Long \in Nat /\ Long >= Wide
    BY Sizes
  <2>3. TestDt(begin, t) = Higher(0, d)
    BY <2>1 DEF TestDt
  <2>4. PlDt(t) = Lower(d % Long, Wide - 1)
    BY <1>3 DEF PlDt
  <2> HIDE DEF d
  <2>5. d \in Nat /\ d < Long /\ d <= Wide - 1
    BY ONLY <2>1, <2>2
  <2>6. d % Long = d
    <3>1. Long * 0 + d = d /\ 0 \in Int /\ Long > 0
      BY ONLY <2>2, <2>5
    <3>2. (Long * 0 + d) % Long = d
      BY <2>2, <2>5, <3>1, Division
    <3> QED
      BY ONLY <3>1, <3>2
  <2>7. Higher(0, d) = d /\ Lower(d, Wide - 1) = d
    BY ONLY <2>2, <2>5 DEF Higher, Lower
  <2> QED
    BY <2>3, <2>4, <2>6, <2>7
<1> QED
  BY <1>2, <1>3

(* A packet keeps them in agreement but for what it causes. *)
LEMMA AgreeStep ==
    ASSUME NEW packet, packet.deltas \in Seq(Delta), packet.t \in Times,
           Shaped(pl), Numbers(pl), NEW begin, Shaped(begin),
           NEW why, Causes(packet) \subseteq why, Agree(begin, pl, why)
    PROVE  Agree(TestFrom(begin, packet.deltas, packet.t), PlAfter(packet), why)
<1> DEFINE n == Len(packet.deltas)
           t == packet.t
           f == Along(TestDelta, begin, packet.deltas)
           g == PlAlong(packet)
           a == f[n]
           s == g[n]
           u == TestFrom(begin, packet.deltas, t)
           r == PlAfter(packet)
<1>1. n \in Nat /\ n \in 0 .. n
  OBVIOUS
<1>2. IsAlong(f, Test, begin, packet.deltas, n) /\ IsAlong(g, Pl, pl, packet.deltas, n)
  BY <1>1, AlongIs DEF PlAlong
<1>3. /\ Shaped(s) /\ Shaped(r) /\ r.book = s.book /\ r.ofi = s.ofi /\ r.imb = Imbalance(s)
      /\ r.burst = BurstAfter(s, PlDt(t)) /\ r.vol = WrappedVol(s, PlDt(t)) /\ r.mid = Mid(s)
      /\ r.last = t
  BY PlAfterDoes
<1>4. /\ Shaped(a) /\ Shaped(u) /\ u.book = a.book /\ u.ofi = a.ofi /\ u.imb = Imbalance(a)
      /\ u.burst = BurstAfter(a, TestDt(begin, t)) /\ u.vol = ExactVol(a, TestDt(begin, t))
      /\ u.mid = Mid(a) /\ u.last = t
  BY TestFromDoes
<1>5. s.ofi \in Int /\ s.vol = pl.vol /\ s.mid = pl.mid /\ s.burst = pl.burst
  BY NumbersStep
<1>6. pl.ofi \in Int /\ pl.vol \in Int /\ pl.mid \in Int /\ pl.last \in Nat
  BY DEF Numbers
<1>7. \A k \in 1 .. n :
         "qty" \notin why /\ packet.deltas[k].level < NLevels /\ packet.deltas[k].action \in {1, 2} =>
            LET sum == g[k - 1].book[packet.deltas[k].side][packet.deltas[k].level].q
                       + packet.deltas[k].qty
            IN Int32(sum) = sum
  BY QtyFits
<1>8. \A k \in 1 .. n :
         "ofi" \notin why => LET sum == g[k - 1].ofi + Flow(packet.deltas[k]) IN Int32(sum) = sum
  BY NoCause DEF OfiOverflows, Before
<1>9. "level" \notin why => \A k \in 1 .. n : packet.deltas[k].level < NLevels
  BY NoCause
<1>10. "time" \notin why => pl.last = 0 \/ t - pl.last \in 0 .. Wide - 1
  BY NoCause
<1>11. "vol" \notin why =>
          LET moved == Mid(s) - pl.mid
              change == (Abs(moved) * Narrow - pl.vol) * PlDt(t)
          IN Int32(moved) = moved /\ ~ (change < 0 /\ change % TauVol # 0)
  BY NoCause DEF VolDiffers
<1> HIDE DEF f, g, u, r
<1>12. Others(a, begin)
  BY <1>1, <1>2, OthersAlong
<1>13. a.vol = begin.vol /\ a.mid = begin.mid /\ a.burst = begin.burst
  BY <1>12 DEF Others
<1>14. t \in Nat /\ t # 0 /\ PlDt(t) \in Nat
  <2>0. t \in Times
    OBVIOUS
  <2> HIDE DEF t
  <2>1. t \in Nat /\ t # 0
    BY <2>0, TimesInt
  <2>2. t \in Int
    BY <2>1
  <2>3. PlDt(t) \in Nat
    BY <1>6, <2>2, DtNat
  <2> QED
    BY <2>1, <2>3
<1>15. "time" \notin why => TestDt(begin, t) = PlDt(t)
  BY <1>6, <1>10, DtAgrees DEF Agree
<1>16. "ofi" \notin why => u.ofi = r.ofi
  BY <1>2, <1>3, <1>4, <1>6, <1>8, OfiAlong DEF Agree
<1>17. "level" \notin why => SamePrices(a, s)
  BY <1>2, <1>9, BooksAgree DEF Agree
<1>18. why \cap {"level", "qty"} = {} => SameQuantities(a, s)
  BY <1>2, <1>7, <1>9, BooksAgree DEF Agree
<1> HIDE DEF a, s, t
<1>19. "level" \notin why => SamePrices(u, r) /\ u.mid = r.mid
  BY <1>3, <1>4, <1>17, TopAgrees DEF SamePrices
<1>20. why \cap {"level", "qty"} = {} => SameQuantities(u, r) /\ u.imb = r.imb
  BY <1>3, <1>4, <1>18, TopAgrees DEF SameQuantities
<1>21. "time" \notin why => u.burst = r.burst
  BY <1>3, <1>4, <1>5, <1>13, <1>15 DEF BurstAfter, Agree
<1>22. why \cap {"level", "time", "vol"} = {} => u.vol = r.vol
  <2> SUFFICES ASSUME why \cap {"level", "time", "vol"} = {} PROVE u.vol = r.vol
    OBVIOUS
  <2>1. a.vol = s.vol /\ a.mid = s.mid /\ Mid(a) = Mid(s)
    BY <1>5, <1>13, <1>17, TopAgrees DEF Agree
  <2>2. LET moved == Mid(s) - s.mid
            change == (Abs(moved) * Narrow - s.vol) * PlDt(t)
        IN Int32(moved) = moved /\ ~ (change < 0 /\ change % TauVol # 0)
    BY <1>5, <1>11
  <2>3. ExactVol(a, PlDt(t)) = WrappedVol(s, PlDt(t))
    BY <1>3, <1>5, <1>6, <1>14, <2>1, <2>2, VolAgrees
  <2> QED
    BY <1>3, <1>4, <1>15, <2>3
<1> QED
  BY <1>3, <1>4, <1>14, <1>16, <1>19, <1>20, <1>21, <1>22 DEF Agree, u, r, t

-----------------------------------------------------------------------------
(* What the test finds in a reply. *)

(* Features of the FPGA as processor_thread reads them. *)
Read(feat) ==
    [ofi |-> Int32(Swapped32(feat.ofi % Wide)),
     imb |-> LET x == Swapped16(feat.imb % Narrow) IN IF x >= Narrow \div 2 THEN x - Narrow ELSE x,
     burst |-> Swapped32(feat.burst),
     vol |-> Swapped32(feat.vol)]

LEMMA MisreadReads ==
    /\ \A s, feat : Shaped(s) => Features(Misread(s, feat)) = Read(feat)
    /\ \A s : LET m == Misread(Features(s), Features(s))
                  e == Read(Features(s))
              IN m.ofi = e.ofi /\ m.imb = e.imb /\ m.burst = e.burst /\ m.vol = e.vol
<1>1. ASSUME NEW s, NEW feat, Shaped(s) PROVE Features(Misread(s, feat)) = Read(feat)
  <2> DEFINE a == Int32(Swapped32(feat.ofi % Wide))
             x == Swapped16(feat.imb % Narrow)
             b == IF x >= Narrow \div 2 THEN x - Narrow ELSE x
             c == Swapped32(feat.burst)
             d == Swapped32(feat.vol)
             r == Misread(s, feat)
  <2>1. r = [s EXCEPT !.ofi = a, !.imb = b, !.burst = c, !.vol = d]
    BY DEF Misread
  <2>2. Read(feat) = [ofi |-> a, imb |-> b, burst |-> c, vol |-> d]
    BY DEF Read
  <2> HIDE DEF a, b, c, d, r
  <2>3. r.ofi = a /\ r.imb = b /\ r.burst = c /\ r.vol = d
    BY <1>1, <2>1 DEF Shaped
  <2> QED
    BY <2>2, <2>3 DEF Features, r
<1>2. ASSUME NEW s
      PROVE  LET m == Misread(Features(s), Features(s))
                 e == Read(Features(s))
             IN m.ofi = e.ofi /\ m.imb = e.imb /\ m.burst = e.burst /\ m.vol = e.vol
  <2> DEFINE feat == Features(s)
             a == Int32(Swapped32(feat.ofi % Wide))
             x == Swapped16(feat.imb % Narrow)
             b == IF x >= Narrow \div 2 THEN x - Narrow ELSE x
             c == Swapped32(feat.burst)
             d == Swapped32(feat.vol)
             m == Misread(feat, feat)
             e == Read(feat)
  <2>1. m = [feat EXCEPT !.ofi = a, !.imb = b, !.burst = c, !.vol = d]
    BY DEF Misread
  <2>2. e = [ofi |-> a, imb |-> b, burst |-> c, vol |-> d]
    BY DEF Read
  <2> HIDE DEF a, b, c, d, m, e
  <2>3. feat = [ofi |-> s.ofi, imb |-> s.imb, burst |-> s.burst, vol |-> s.vol]
    BY DEF Features
  <2>4. m.ofi = a /\ m.imb = b /\ m.burst = c /\ m.vol = d
    BY <2>1, <2>3
  <2>5. e.ofi = a /\ e.imb = b /\ e.burst = c /\ e.vol = d
    BY <2>2
  <2> QED
    BY <2>4, <2>5 DEF m, e
<1> QED
  BY <1>1, <1>2

LEMMA ReadsAgree ==
    ASSUME NEW a, NEW b
    PROVE  /\ a.ofi = b.ofi => Read(Features(a)).ofi = Read(Features(b)).ofi
           /\ a.imb = b.imb => Read(Features(a)).imb = Read(Features(b)).imb
           /\ a.burst = b.burst => Read(Features(a)).burst = Read(Features(b)).burst
           /\ a.vol = b.vol => Read(Features(a)).vol = Read(Features(b)).vol
BY DEF Read, Features

(* What the test will have computed once the reply under way is recorded,   *)
(* or has, agrees with the pipeline, and the reply holds the pipeline's.    *)
TestFollows ==
    apart \cap Missed = {} =>
        IF wire.to = "client"
        THEN /\ wire.found = Read(Features(pl))
             /\ Agree(TestFrom(TestBegin(wire), wire.deltas, wire.t), pl, apart)
        ELSE Agree(test, pl, apart)

TestInv == ParityShape /\ Numbers(pl) /\ TestFollows /\ TestAgrees

LEMMA EmptyAgrees == \A why : Agree(EmptySince(None), EmptySince(0), why)
<1> DEFINE a == EmptySince(None)
           b == EmptySince(0)
<1>1. /\ b.last = 0 /\ a.last = None /\ a.book = b.book /\ a.ofi = b.ofi /\ a.imb = b.imb
      /\ a.burst = b.burst /\ a.vol = b.vol /\ a.mid = b.mid
  BY DEF EmptySince
<1> HIDE DEF a, b
<1>2. \A why : Agree(a, b, why)
  BY <1>1 DEF Agree, SamePrices, SameQuantities
<1> QED
  BY <1>2 DEF a, b

LEMMA TestInit == ParityInit => TestInv
<1> SUFFICES ASSUME ParityInit PROVE TestInv
  OBVIOUS
<1>1. ParityShape
  BY ParityInitShape
<1>2. Numbers(pl)
  BY DEF ParityInit, EmptySince, Numbers
<1>3. TestFollows
  BY EmptyAgrees DEF ParityInit, Idle, TestFollows
<1>4. TestAgrees
  BY DEF ParityInit, TestAgrees
<1> QED
  BY <1>1, <1>2, <1>3, <1>4 DEF TestInv

LEMMA AgreesKept ==
    ASSUME TestAgrees, compared' = compared, apart \subseteq apart'
    PROVE  TestAgrees'
BY DEF TestAgrees

(* The pipeline has the packet. *)
LEMMA FedNumbers ==
    ASSUME ParityShape, Numbers(pl), Arrived, pl' = PlAfter(wire)
    PROVE  Numbers(pl')
<1>1. wire.deltas \in Seq(Delta) /\ wire.t \in Times
  BY DEF ParityShape, PacketTyped, Arrived
<1> QED
  BY <1>1, NumbersStep DEF ParityShape

LEMMA ServedFollows ==
    ASSUME TestInv, ServeFromPl
    PROVE  TestFollows'
<1> SUFFICES ASSUME apart' \cap Missed = {}
             PROVE  /\ wire'.to = "client"
                    /\ wire'.found = Read(Features(pl'))
                    /\ Agree(TestFrom(TestBegin(wire)', wire'.deltas, wire'.t), pl', apart')
  BY DEF TestFollows
<1>1. /\ Arrived /\ pl' = PlAfter(wire) /\ wire' = Reply(ps')
      /\ ps' = Misread(PsAfter(wire), Head(Append(late, Features(pl'))))
      /\ apart' = apart \cup Causes(wire) /\ test' = test
  BY DEF ServeFromPl
<1>2. /\ wire.deltas \in Seq(Delta) /\ wire.t \in Times /\ wire.reset \in BOOLEAN
      /\ Shaped(pl) /\ Shaped(ps) /\ Shaped(test) /\ Numbers(pl)
  BY <1>1 DEF TestInv, ParityShape, PacketTyped, Arrived
<1>3. apart \cap Missed = {} /\ Causes(wire) \cap Missed = {}
  BY <1>1
<1>4. Agree(test, pl, apart')
  <2>1. Agree(test, pl, apart)
    BY <1>1, <1>3 DEF TestInv, TestFollows, Arrived
  <2> QED
    BY <1>1, <2>1, AgreeLonger
<1>5. Agree(TestBegin(wire), pl, apart') /\ Shaped(TestBegin(wire))
  <2>1. CASE wire.reset
    <3>1. pl = EmptySince(0)
      BY <1>2, <1>3, <2>1, NoCause DEF Missed
    <3>2. TestBegin(wire) = EmptySince(None)
      BY <2>1 DEF TestBegin
    <3> QED
      BY <3>1, <3>2, EmptyAgrees, EmptyShaped
  <2>2. CASE ~ wire.reset
    BY <1>2, <1>4, <2>2 DEF TestBegin
  <2> QED
    BY <2>1, <2>2
<1>6. Agree(TestFrom(TestBegin(wire), wire.deltas, wire.t), pl', apart')
  <2>1. Causes(wire) \subseteq apart'
    BY <1>1
  <2> QED
    BY <1>1, <1>2, <1>5, <2>1, AgreeStep
<1>7. /\ wire'.to = "client" /\ wire'.deltas = wire.deltas /\ wire'.t = wire.t
      /\ wire'.reset = wire.reset /\ wire'.found = Features(ps')
  BY <1>1 DEF Reply
<1>8. TestBegin(wire)' = TestBegin(wire)
  BY <1>1, <1>7 DEF TestBegin
<1>9. wire'.found = Read(Features(pl'))
  <2>1. late = <<>>
    BY <1>3 DEF TestInv, ParityShape, Missed
  <2>2. ps' = Misread(PsAfter(wire), Features(pl'))
    BY <1>1, <2>1
  <2>3. Shaped(PsAfter(wire))
    BY <1>2, PsAfterDoes
  <2>4. Features(ps') = Read(Features(pl'))
    BY <2>2, <2>3, MisreadReads
  <2> QED
    BY <1>7, <2>4
<1> QED
  BY <1>6, <1>7, <1>8, <1>9

LEMMA RecordFollows ==
    ASSUME TestInv, Record
    PROVE  TestFollows' /\ TestAgrees'
<1>1. /\ wire.to = "client" /\ test' = TestAfter(wire) /\ wire' = Idle
      /\ compared' = [found |-> wire.found, expected |-> Features(test')]
      /\ UNCHANGED <<pl, apart>>
  BY DEF Record
<1>2. test' = TestFrom(TestBegin(wire), wire.deltas, wire.t)
  BY <1>1, TestAfterIs
<1>3. apart \cap Missed = {} => wire.found = Read(Features(pl)) /\ Agree(test', pl, apart)
  BY <1>1, <1>2 DEF TestInv, TestFollows
<1>4. TestFollows'
  BY <1>1, <1>3 DEF TestFollows, Idle
<1>5. TestAgrees'
  <2> DEFINE m == Misread(Features(test'), Features(test'))
             e == Read(Features(test'))
             p == Read(Features(pl))
  <2>1. compared'.found = wire.found /\ compared'.expected = Features(test')
    BY <1>1
  <2>2. m.ofi = e.ofi /\ m.imb = e.imb /\ m.burst = e.burst /\ m.vol = e.vol
    BY MisreadReads
  <2>3. /\ test'.ofi = pl.ofi => e.ofi = p.ofi
        /\ test'.imb = pl.imb => e.imb = p.imb
        /\ test'.burst = pl.burst => e.burst = p.burst
        /\ test'.vol = pl.vol => e.vol = p.vol
    BY ReadsAgree
  <2>4. apart \cap Missed = {} =>
          /\ wire.found = p
          /\ "ofi" \notin apart => test'.ofi = pl.ofi
          /\ apart \cap {"level", "qty"} = {} => test'.imb = pl.imb
          /\ "time" \notin apart => test'.burst = pl.burst
          /\ apart \cap {"level", "time", "vol"} = {} => test'.vol = pl.vol
    BY <1>3 DEF Agree
  <2>5. LET missed == {"reset", "reply", "late", "unfed"}
            found == compared'.found
        IN /\ apart \cap (missed \cup {"ofi"}) = {} => found.ofi = m.ofi
           /\ apart \cap (missed \cup {"level", "qty"}) = {} => found.imb = m.imb
           /\ apart \cap (missed \cup {"time"}) = {} => found.burst = m.burst
           /\ apart \cap (missed \cup {"level", "time", "vol"}) = {} => found.vol = m.vol
    <3> HIDE DEF m, e, p
    <3>1. \A s : apart \cap (Missed \cup s) = {} => apart \cap Missed = {} /\ apart \cap s = {}
      OBVIOUS
    <3> QED
      BY <2>1, <2>2, <2>3, <2>4, <3>1 DEF Missed
  <2> QED
    BY <1>1, <2>1, <2>5 DEF TestAgrees
<1> QED
  BY <1>4, <1>5

LEMMA TestPreserved ==
    TestInv /\ [ParityNext]_parityVars => TestInv'
<1> SUFFICES ASSUME TestInv, [ParityNext]_parityVars PROVE TestInv'
  OBVIOUS
<1>a. ParityShape /\ Numbers(pl) /\ TestFollows /\ TestAgrees
  BY DEF TestInv
<1>1. ASSUME NEW deltas \in Batches, NEW t \in Times, NEW reset \in BOOLEAN,
             Send(deltas, t, reset)
      PROVE  TestInv'
  <2>1. /\ wire = Idle /\ wire'.to = "server" /\ UNCHANGED <<apart, pl, test, compared>>
    BY <1>1 DEF Send
  <2>2. TestFollows'
    BY <1>a, <2>1 DEF TestFollows, Idle
  <2> QED
    BY <1>a, <1>1, <2>1, <2>2, SentShape, AgreesKept DEF TestInv, Numbers
<1>2. CASE ServeFromPl
  <2>1. /\ Arrived /\ pl' = PlAfter(wire) /\ apart \subseteq apart' /\ compared' = compared
    BY <1>2 DEF ServeFromPl
  <2> QED
    BY <1>a, <1>2, <2>1, ServedShape, FedNumbers, ServedFollows, AgreesKept DEF TestInv
<1>3. CASE ServeLate
  <2>1. /\ Arrived /\ pl' = PlAfter(wire) /\ "late" \in apart' /\ apart \subseteq apart'
        /\ compared' = compared
    BY <1>3 DEF ServeLate, Fallback
  <2>2. TestFollows'
    BY <2>1 DEF TestFollows, Missed
  <2> QED
    BY <1>a, <1>3, <2>1, <2>2, LateShape, FedNumbers, AgreesKept DEF TestInv
<1>4. CASE ServeUnfed
  <2>1. /\ pl' = pl /\ "unfed" \in apart' /\ apart \subseteq apart' /\ compared' = compared
    BY <1>4 DEF ServeUnfed, Fallback
  <2>2. TestFollows'
    BY <2>1 DEF TestFollows, Missed
  <2> QED
    BY <1>a, <1>4, <2>1, <2>2, UnfedShape, AgreesKept DEF TestInv, Numbers
<1>5. CASE Record
  <2>1. pl' = pl
    BY <1>5 DEF Record
  <2> QED
    BY <1>a, <1>5, <2>1, RecordShape, RecordFollows DEF TestInv, Numbers
<1>6. CASE Lose
  <2>1. /\ wire' = Idle /\ UNCHANGED <<pl, test, compared>> /\ apart \subseteq apart'
        /\ wire.to = "client" => "reply" \in apart'
        /\ wire.to # "client" => apart' = apart
    BY <1>6 DEF Lose
  <2>2. TestFollows'
    <3>1. CASE wire.to = "client"
      BY <2>1, <3>1 DEF TestFollows, Missed
    <3>2. CASE wire.to # "client"
      BY <1>a, <2>1, <3>2 DEF TestFollows, Idle
    <3> QED
      BY <3>1, <3>2
  <2> QED
    BY <1>a, <1>6, <2>1, <2>2, LoseShape, AgreesKept DEF TestInv, Numbers
<1>7. CASE UNCHANGED parityVars
  <2>1. UNCHANGED <<wire, pl, late, ps, test, compared, apart>>
    BY <1>7 DEF parityVars
  <2>2. ParityShape' /\ Numbers(pl)' /\ TestAgrees'
    BY <1>a, <2>1 DEF ParityShape, PacketTyped, Shaped, Numbers, TestAgrees
  <2>3. TestFollows'
    BY <1>a, <2>1 DEF TestFollows, TestBegin
  <2> QED
    BY <2>2, <2>3 DEF TestInv
<1> QED
  BY <1>1, <1>2, <1>3, <1>4, <1>5, <1>6, <1>7 DEF ParityNext

(* In every reply that the test recomputes, each feature of the FPGA is the *)
(* one expected, in the other order of bytes, unless a cause that tells the *)
(* two apart was seen: validate_features_off_packets.py and                 *)
(* feature_pipeline.cpp.                                                    *)
THEOREM FeaturesAsExpected == ParitySpec => []TestAgrees
BY TestInit, TestPreserved, PTL DEF ParitySpec, TestInv

==============================================================================
