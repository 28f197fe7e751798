---------------------------- MODULE FeatureStream ----------------------------
(***************************************************************************)
(* How the feature pipeline of the FPGA cuts its input into packets        *)
(* (fpga/ip/feature_pipe/feature_pipeline.cpp).  The AXI stream is a row   *)
(* of 64-bit beats: four of header, then two per delta.  TLAST is never    *)
(* looked at: where a packet ends is computed from the delta count of its  *)
(* header, so one wrong length moves every later boundary.                 *)
(*                                                                         *)
(* A beat is its position in the stream.  The contents of the deltas and   *)
(* the arithmetic of the features are outside this module; what is kept is *)
(* from which packet each header and each delta was read.                  *)
(***************************************************************************)
EXTENDS Integers, Sequences

CONSTANTS
    MaxPackets,  \* bound: packets handed to the pipeline
    Counts,      \* the delta counts a client announces and sends
    RecvCap,     \* deltas that fit the server's recvfrom and buffer (254)
    DeltaCap,    \* deltas of a packet that the pipeline accepts (128)
    FifoDepths   \* depths of the stream `ds' between parser and book: 8 in
                 \* hardware, without a bound in the C simulation

HdrBeats == 4
DeltaBeats == 2

ASSUME StreamAssumption ==
    /\ MaxPackets \in Nat
    /\ Counts \subseteq Nat
    /\ {RecvCap, DeltaCap} \subseteq Nat \ {0}
    /\ FifoDepths \subseteq Nat \ {0}
    /\ DeltaCap <= RecvCap

VARIABLES
    depth,      \* the depth of ds in this build
    packets,    \* history: where each packet begins and what its flags say
    len,        \* beats written to the stream
    rp,         \* beats read from it
    pc,         \* "header", "parse", "update" or "emit"
    of,         \* the packet whose header was read, 0 for something else
    count,      \* packet_delta_count
    read,       \* deltas read and pushed into ds
    updated,    \* deltas popped from ds and applied to the book
    own,        \* every delta read was one of packet `of'
    feats       \* history: the feature beats written

inputVars == <<packets, len>>
vars == <<depth, inputVars, rp, pc, of, count, read, updated, own, feats>>

Smaller(m, n) == IF m <= n THEN m ELSE n

Size(packet) == HdrBeats + DeltaBeats * Smaller(packet.count, RecvCap)

Init ==
    /\ depth \in FifoDepths
    /\ packets = <<>>
    /\ len = 0
    /\ rp = 0
    /\ pc = "header"
    /\ of = 0
    /\ count = 0
    /\ read = 0
    /\ updated = 0
    /\ own = TRUE
    /\ feats = <<>>

-----------------------------------------------------------------------------
(* The server streams a datagram of c deltas in, cut at its buffer. *)
Stream(c, reset) ==
    /\ Len(packets) < MaxPackets
    /\ LET packet == [at |-> len, count |-> c, reset |-> reset] IN
       /\ packets' = Append(packets, packet)
       /\ len' = len + Size(packet)
    /\ UNCHANGED <<rp, pc, of, count, read, updated, own, feats>>

-----------------------------------------------------------------------------
(* parse_stream_one_packet reads four beats and takes the delta count from  *)
(* the flags, whatever their reset bit.  The four blocking reads are one    *)
(* step: nothing can be seen between them.                                  *)
BeginPacket(i, n) ==
    /\ of' = i
    /\ count' = n
    /\ own' = TRUE
    /\ rp' = rp + HdrBeats
    /\ pc' = IF n = 0 THEN "emit" ELSE "parse"
    /\ UNCHANGED <<inputVars, read, updated, feats>>

(* Off a boundary the word where the flags should be belongs to a quantity  *)
(* or a time: it may be any number.                                         *)
HeaderOf(i) == i \in DOMAIN packets /\ packets[i].at = rp
OffBoundary == \A i \in DOMAIN packets : packets[i].at # rp

(* Slip: the reset bit is taken as part of the count. *)
ReadHeaderUnmasked ==
    /\ pc = "header"
    /\ rp + HdrBeats <= len
    /\ \/ \E i \in DOMAIN packets :
            HeaderOf(i) /\ BeginPacket(i, IF packets[i].reset THEN DeltaCap
                                          ELSE Smaller(packets[i].count, DeltaCap))
       \/ OffBoundary /\ \E n \in 0 .. DeltaCap : BeginPacket(0, n)

ReadHeader ==
    /\ pc = "header"
    /\ rp + HdrBeats <= len
    /\ \/ \E i \in DOMAIN packets :
            HeaderOf(i) /\ BeginPacket(i, Smaller(packets[i].count, DeltaCap))
       \/ OffBoundary /\ \E n \in 0 .. DeltaCap : BeginPacket(0, n)

IsDeltaOf(i) ==
    /\ i \in DOMAIN packets
    /\ packets[i].at + HdrBeats <= rp
    /\ rp + DeltaBeats <= packets[i].at + Size(packets[i])

(* One round of the parser's loop.  The write to ds waits while ds is full; *)
(* nothing is popped before the parser has returned.                        *)
ReadDelta ==
    /\ pc = "parse"
    /\ rp + DeltaBeats <= len
    /\ read - updated < depth
    /\ read' = read + 1
    /\ rp' = rp + DeltaBeats
    /\ own' = (own /\ IsDeltaOf(of))
    /\ pc' = IF read' = count THEN "update" ELSE "parse"
    /\ UNCHANGED <<inputVars, of, count, updated, feats>>

UpdateBook ==
    /\ pc = "update"
    /\ read - updated > 0
    /\ updated' = updated + 1
    /\ pc' = IF updated' = count THEN "emit" ELSE "update"
    /\ UNCHANGED <<inputVars, rp, of, count, read, own, feats>>

(* Slip: a packet without deltas is not answered. *)
EmitUnlessEmpty ==
    /\ pc = "emit"
    /\ count > 0
    /\ feats' = Append(feats, [of |-> of, deltas |-> updated, own |-> own])
    /\ pc' = "header"
    /\ read' = 0
    /\ updated' = 0
    /\ UNCHANGED <<inputVars, rp, of, count, own>>

Emit ==
    /\ pc = "emit"
    /\ feats' = Append(feats, [of |-> of, deltas |-> updated, own |-> own])
    /\ pc' = "header"
    /\ read' = 0
    /\ updated' = 0
    /\ UNCHANGED <<inputVars, rp, of, count, own>>

Pipeline == ReadHeader \/ ReadDelta \/ UpdateBook \/ Emit

Next ==
    /\ \/ \E c \in Counts, reset \in BOOLEAN : Stream(c, reset)
       \/ Pipeline
    /\ UNCHANGED depth

Spec == Init /\ [][Next]_vars

(* The pipeline runs off the FPGA's clock and never stops by itself; no one *)
(* has to send.                                                             *)
FairSpec == Spec /\ WF_vars(Pipeline /\ UNCHANGED depth)

-----------------------------------------------------------------------------
(* The counters of the loops stay within the packet and the queue. *)
TypeOK ==
    /\ depth \in FifoDepths
    /\ packets \in Seq([at : Nat, count : Counts, reset : BOOLEAN])
    /\ len \in Nat
    /\ rp \in 0 .. len
    /\ pc \in {"header", "parse", "update", "emit"}
    /\ of \in 0 .. Len(packets)
    /\ count \in 0 .. DeltaCap
    /\ read \in 0 .. count
    /\ updated \in 0 .. read
    /\ read - updated <= depth
    /\ own \in BOOLEAN
    /\ feats \in Seq([of : Nat, deltas : Nat, own : BOOLEAN])

Fits(packet) == packet.count <= DeltaCap

(* The n-th feature beat is the n-th packet's: computed from its header and *)
(* from all of its deltas and no other's, although nothing but the counts   *)
(* tells the pipeline where a packet ends.  Clients pair replies with       *)
(* requests on the strength of this ("one feature beat per packet",         *)
(* feature_pipeline.cpp:288).                                               *)
FeatureOfItsPacket ==
    \A i \in DOMAIN feats :
        /\ i \in DOMAIN packets
        /\ feats[i] = [of |-> i, deltas |-> packets[i].count, own |-> TRUE]

(* The same for any counts, up to the first packet with more deltas than    *)
(* the pipeline accepts: that one is still answered from its own first      *)
(* deltas, and only what comes after it is cut in the wrong places.         *)
CorrectUntilOversize ==
    \A i \in DOMAIN feats :
        (\A j \in DOMAIN packets : j < i => Fits(packets[j]))
        => /\ i \in DOMAIN packets
           /\ feats[i] = [of |-> i, deltas |-> Smaller(packets[i].count, DeltaCap),
                          own |-> TRUE]

(* Every packet streamed in comes out as a feature beat, unless it or one   *)
(* before it has more deltas than ds can hold or the pipeline accepts: the  *)
(* parser fills ds, and only when it has returned is anything read from it. *)
EveryPacketAnswered ==
    \A n \in 1 .. MaxPackets :
        Len(packets) >= n
        ~> \/ Len(feats) >= n
           \/ \E j \in DOMAIN packets :
                 j <= n /\ (packets[j].count > depth \/ ~ Fits(packets[j]))

=============================================================================
