------------------------------- MODULE PlDevice -------------------------------
(***************************************************************************)
(* The programmable logic as the servers' registers show it: an AXI DMA    *)
(* channel that streams a packet in (MM2S), the feature pipeline, whose    *)
(* result goes to a feature queue and to the MLP, and two receive channels *)
(* (S2MM) that move one feature record and one score to memory.            *)
(*                                                                         *)
(* The logic itself is outside this module: a packet is a number and its   *)
(* features and its score are that number.  What is kept is what a driver  *)
(* can get wrong: transfers that outlive the call that started them, a     *)
(* completion flag that stays set, and queues that fill up.                *)
(***************************************************************************)
EXTENDS Naturals, Sequences

CONSTANTS
    Packet,     \* identities of packets
    None,
    FeatCap,    \* bound of the feature queue in front of the receive channel
    ScoreCap    \* bound of the score queue (about 14 on the board)

ASSUME DeviceAssumption ==
    /\ None \notin Packet
    /\ FeatCap \in Nat \ {0}
    /\ ScoreCap \in Nat \ {0}

VARIABLES
    mm2s,       \* the packet being streamed in, or None
    feats,      \* feature records not yet moved to memory
    scores,     \* scores, computed or about to be, not yet moved to memory
    dma_out,    \* the feature receive channel
    dma_score   \* the score receive channel

deviceVars == <<mm2s, feats, scores, dma_out, dma_score>>

(* A receive channel: a transfer is outstanding, the IOC bit, the error     *)
(* bits, and the buffer it writes.                                          *)
Channel == [busy : BOOLEAN, ioc : BOOLEAN, err : BOOLEAN, buf : Packet \cup {None}]

DeviceInit ==
    /\ mm2s = None
    /\ feats = <<>>
    /\ scores = <<>>
    /\ dma_out = [busy |-> FALSE, ioc |-> FALSE, err |-> FALSE, buf |-> None]
    /\ dma_score = dma_out

DeviceTypeOK ==
    /\ mm2s \in Packet \cup {None}
    /\ feats \in Seq(Packet)
    /\ Len(feats) <= FeatCap
    /\ scores \in Seq(Packet)
    /\ Len(scores) <= ScoreCap
    /\ dma_out \in Channel
    /\ dma_score \in Channel

-----------------------------------------------------------------------------
(* Register writes.  A length written to a channel that is busy is ignored, *)
(* and a channel that has stopped on an error stays stopped.                *)
StartS2MM(channel) == [channel EXCEPT !.busy = ~ channel.err]

StartMM2S(packet) == IF mm2s = None THEN packet ELSE mm2s

ClearIOC(channel) == [channel EXCEPT !.ioc = FALSE]

-----------------------------------------------------------------------------
(* The pipeline takes the packet and emits its features, to the receive     *)
(* channel and to the MLP; either queue being full stops it.                *)
Pipeline ==
    /\ mm2s # None
    /\ Len(feats) < FeatCap
    /\ Len(scores) < ScoreCap
    /\ mm2s' = None
    /\ feats' = Append(feats, mm2s)
    /\ scores' = Append(scores, mm2s)
    /\ UNCHANGED <<dma_out, dma_score>>

Complete(channel, item) == [channel EXCEPT !.busy = FALSE, !.ioc = TRUE, !.buf = item]

FeatureTransfer ==
    /\ dma_out.busy
    /\ feats # <<>>
    /\ dma_out' = Complete(dma_out, Head(feats))
    /\ feats' = Tail(feats)
    /\ UNCHANGED <<mm2s, scores, dma_score>>

ScoreTransfer ==
    /\ dma_score.busy
    /\ scores # <<>>
    /\ dma_score' = Complete(dma_score, Head(scores))
    /\ scores' = Tail(scores)
    /\ UNCHANGED <<mm2s, feats, dma_out>>

Fail(channel) == [channel EXCEPT !.busy = FALSE, !.err = TRUE]

(* A transfer of either channel fails with one of the error bits. *)
TransferError ==
    /\ \/ dma_out.busy /\ dma_out' = Fail(dma_out) /\ UNCHANGED dma_score
       \/ dma_score.busy /\ dma_score' = Fail(dma_score) /\ UNCHANGED dma_out
    /\ UNCHANGED <<mm2s, feats, scores>>

=============================================================================
