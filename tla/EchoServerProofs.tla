---------------------------- MODULE EchoServerProofs ----------------------------
(***************************************************************************)
(* Proofs about the echo servers, for any number of packets, any sizes of  *)
(* the queues, with or without the PL and with any of the faults: types,   *)
(* counters and drains; that the servers implement a reply server; and to  *)
(* which packet the results of the PL go.                                  *)
(***************************************************************************)
EXTENDS EchoServer, SequenceTheorems, FiniteSetTheorems, TLAPS

(* A thread holds something exactly in the places where it should. *)
Places ==
    /\ rx.pc = "put" <=> rx.pkt # None
    /\ tx.pc = "send" <=> tx.reply # None
    /\ proc = "get" <=> cur = None

One(condition) == IF condition THEN 1 ELSE 0

(* Every datagram inside the server is counted, or about to be. *)
CountInv ==
    stats["tx_pkts"] + One(tx.pc = "send") + Len(txq) + One(proc # "get") + Len(rxq)
        <= stats["rx_pkts"] + One(rx.pc = "count")

(* Every score of the device but that of the packet in progress stands for  *)
(* a completion whose score was not drained, a transfer that was abandoned  *)
(* or a failed copy.                                                        *)
ScoreInv ==
    Len(scores) + One(mm2s # None) + One(dma_score.ioc)
        <= missed + stats["pl_timeouts"] + stats["pl_errors"]
           + One(proc \in {"poll", "drain", "score"})

IInv == TypeOK /\ Places /\ CountInv /\ ScoreInv

-----------------------------------------------------------------------------
LEMMA InitIInv == Init => IInv
<1> SUFFICES ASSUME Init PROVE IInv
  OBVIOUS
<1>1. TypeOK
  <2>1. DeviceTypeOK
    BY DeviceAssumption DEF Init, DeviceInit, DeviceTypeOK, Channel
  <2>2. wide \in BOOLEAN /\ cserver \in BOOLEAN
    BY ServerAssumption, Zenon DEF Init
  <2>. QED  BY <2>1, <2>2, ServerAssumption DEF Init, TypeOK
<1>2. Places
  BY DEF Init, Places
<1>3. CountInv
  BY DEF Init, CountInv, Counters, One
<1>4. ScoreInv
  BY DEF Init, DeviceInit, ScoreInv, Counters, One
<1>. QED  BY <1>1, <1>2, <1>3, <1>4 DEF IInv

(* What counting does to one counter. *)
LEMMA CountEffect ==
  ASSUME TypeOK, NEW S, Count(S)
  PROVE  /\ stats' \in [Counters -> Nat]
         /\ \A c \in Counters : stats'[c] = stats[c] + (IF c \in S THEN 1 ELSE 0)
BY DEF TypeOK, Count

-----------------------------------------------------------------------------
(* Types and places: one lemma for each thread, and one for the device. *)

LEMMA ClientTypes ==
  ASSUME TypeOK, Places, NEW kind \in Kind, Send(kind)
  PROVE  TypeOK' /\ Places'
<1>1. [id |-> next, kind |-> kind] \in Datagram
  BY ServerAssumption DEF TypeOK, Send, Datagram
<1>2. sock' \in Seq(Datagram) /\ Len(sock') <= SockCap
  <2>1. CASE Len(sock) < SockCap /\ sock' = Append(sock, [id |-> next, kind |-> kind])
    BY <1>1, <2>1, ServerAssumption DEF TypeOK
  <2>2. CASE UNCHANGED sock
    BY <2>2 DEF TypeOK
  <2>. QED  BY <2>1, <2>2 DEF Send
<1>. QED  BY <1>2, ServerAssumption
             DEF Send, TypeOK, Places, deviceVars, DeviceTypeOK, Channel

LEMMA ReceiverTypes ==
  ASSUME TypeOK, Places, Receiver \/ ReceiverDies
  PROVE  TypeOK' /\ Places'
<1>1. CASE Receive
  <2>1. Head(sock) \in Datagram /\ sock' \in Seq(Datagram) /\ Len(sock') <= SockCap
    BY <1>1, ServerAssumption DEF Receive, TypeOK
  <2>2. Head(sock) # None
    BY <2>1, NoneAssumption
  <2>. QED  BY <1>1, <2>1, <2>2 DEF Receive, TypeOK, Places, deviceVars, DeviceTypeOK, Channel
<1>2. CASE ReceiverPut
  <2>1. rx.pkt \in Datagram
    BY <1>2 DEF ReceiverPut, TypeOK, Places
  <2>2. rxq' \in Seq(Datagram) /\ Len(rxq') <= QueueSize
    BY <1>2, <2>1, ServerAssumption DEF ReceiverPut, TypeOK
  <2>. QED  BY <1>2, <2>2 DEF ReceiverPut, TypeOK, Places, deviceVars, DeviceTypeOK, Channel
<1>3. CASE ReceiverCount
  <2>1. stats' \in [Counters -> Nat]
    BY <1>3, CountEffect DEF ReceiverCount
  <2>2. rx.pkt = None
    BY <1>3 DEF ReceiverCount, Places
  <2>3. rx' = [pc |-> "recv", pkt |-> None]
    BY <1>3, <2>2 DEF ReceiverCount, TypeOK
  <2>4. /\ rx' \in [pc : {"recv", "put", "count", "dead"}, pkt : Datagram \cup {None}]
         /\ rx'.pc # "put" /\ rx'.pkt = None
    BY <2>3
  <2>. QED  BY <1>3, <2>1, <2>4 DEF ReceiverCount, TypeOK, Places, deviceVars, DeviceTypeOK,
                                    Channel
<1>4. CASE ReceiverDies
  <2>1. rx.pkt = None
    BY <1>4 DEF ReceiverDies, Places
  <2>2. rx' = [pc |-> "dead", pkt |-> None]
    BY <1>4, <2>1 DEF ReceiverDies, TypeOK
  <2>3. /\ rx' \in [pc : {"recv", "put", "count", "dead"}, pkt : Datagram \cup {None}]
         /\ rx'.pc # "put" /\ rx'.pkt = None
    BY <2>2
  <2>. QED  BY <1>4, <2>3 DEF ReceiverDies, TypeOK, Places, deviceVars, DeviceTypeOK, Channel
<1>. QED  BY <1>1, <1>2, <1>3, <1>4 DEF Receiver

LEMMA SenderTypes ==
  ASSUME TypeOK, Places, Sender \/ SenderDies
  PROVE  TypeOK' /\ Places'
<1>1. CASE SenderGet
  <2>1. Head(txq) \in Reply /\ txq' \in Seq(Reply) /\ Len(txq') <= QueueSize
    BY <1>1, ServerAssumption DEF SenderGet, TypeOK
  <2>2. Head(txq) # None
    BY <2>1, NoneAssumption
  <2>. QED  BY <1>1, <2>1, <2>2 DEF SenderGet, TypeOK, Places, deviceVars, DeviceTypeOK, Channel
<1>2. CASE SenderSend
  <2>1. tx.reply \in Reply
    BY <1>2 DEF SenderSend, TypeOK, Places
  <2>2. sent' \in Seq(Reply)
    BY <1>2, <2>1 DEF SenderSend, TypeOK
  <2>3. stats' \in [Counters -> Nat]
    BY <1>2, CountEffect DEF SenderSend
  <2>. QED  BY <1>2, <2>2, <2>3
               DEF SenderSend, TypeOK, Places, deviceVars, DeviceTypeOK, Channel
<1>3. CASE SenderDies
  BY <1>3 DEF SenderDies, TypeOK, Places, deviceVars, DeviceTypeOK, Channel
<1>. QED  BY <1>1, <1>2, <1>3 DEF Sender

(* What every step of the processor that takes a datagram does. *)
LEMMA FetchTypes ==
  ASSUME TypeOK, NEW kind \in Kind, Fetch(kind)
  PROVE  /\ Head(rxq) \in Datagram /\ Head(rxq).id \in Packet
         /\ rxq' \in Seq(Datagram) /\ Len(rxq') <= QueueSize
<1>1. rxq \in Seq(Datagram) /\ rxq # <<>> /\ Len(rxq) <= QueueSize /\ rxq' = Tail(rxq)
  BY DEF Fetch, TypeOK
<1>2. Head(rxq) \in Datagram /\ rxq' \in Seq(Datagram) /\ Len(rxq') = Len(rxq) - 1
  BY <1>1
<1>3. Head(rxq).id \in Packet
  BY <1>2 DEF Datagram
<1>. QED  BY <1>1, <1>2, <1>3, ServerAssumption

LEMMA ProcessorTypes ==
  ASSUME TypeOK, Places, Processor \/ StartFails
  PROVE  TypeOK' /\ Places'
<1>1. CASE GetJunk
  <2>1. rxq' \in Seq(Datagram) /\ Len(rxq') <= QueueSize
    BY <1>1, FetchTypes DEF GetJunk, Kind
  <2>. QED  BY <1>1, <2>1
               DEF GetJunk, Fetch, TypeOK, Places, deviceVars, DeviceTypeOK, Channel
<1>2. CASE GetPing
  <2>1. /\ rxq' \in Seq(Datagram) /\ Len(rxq') <= QueueSize
        /\ Head(rxq).id \in Packet
    BY <1>2, FetchTypes DEF GetPing, Kind
  <2>2. cur' \in Reply /\ cur' # None
    BY <1>2, <2>1, NoneAssumption DEF GetPing, Reply
  <2>. QED  BY <1>2, <2>1, <2>2
               DEF GetPing, Fetch, TypeOK, Places, deviceVars, DeviceTypeOK, Channel
<1>3. CASE GetDeltas
  <2>1. /\ rxq' \in Seq(Datagram) /\ Len(rxq') <= QueueSize
        /\ Head(rxq).id \in Packet
    BY <1>3, FetchTypes DEF GetDeltas, Kind
  <2>2. cur' \in Reply /\ cur' # None
    BY <1>3, <2>1, NoneAssumption DEF GetDeltas, Reply
  <2>3. stats' \in [Counters -> Nat]
    BY <1>3, CountEffect DEF GetDeltas, TypeOK
  <2>. QED  BY <1>3, <2>1, <2>2, <2>3
               DEF GetDeltas, Fetch, TypeOK, Places, deviceVars, DeviceTypeOK, Channel
<1>4. CASE Start
  <2>1. cur \in Reply
    BY <1>4 DEF Start, TypeOK, Places
  <2>2. mm2s' \in Packet \cup {None}
    BY <1>4, <2>1 DEF Start, StartMM2S, TypeOK, DeviceTypeOK, Reply
  <2>3. dma_out' \in Channel
    BY <1>4 DEF Start, StartS2MM, TypeOK, DeviceTypeOK, Channel
  <2>. QED  BY <1>4, <2>2, <2>3 DEF Start, TypeOK, Places, DeviceTypeOK
<1>5. CASE StartFails
  <2>1. stats' \in [Counters -> Nat]
    BY <1>5, CountEffect DEF StartFails
  <2>. QED  BY <1>5, <2>1 DEF StartFails, TypeOK, Places, deviceVars, DeviceTypeOK, Channel
<1>6. CASE PollDone
  <2>1. dma_out' \in Channel
    BY <1>6 DEF PollDone, ClearIOC, TypeOK, DeviceTypeOK, Channel
  <2>. QED  BY <1>6, <2>1 DEF PollDone, TypeOK, Places, DeviceTypeOK
<1>7. ASSUME NEW counters, GiveUp(counters) PROVE TypeOK' /\ Places'
  <2>1. stats' \in [Counters -> Nat]
    BY <1>7, CountEffect DEF GiveUp
  <2>. QED  BY <1>7, <2>1 DEF GiveUp, TypeOK, Places, deviceVars, DeviceTypeOK, Channel
<1>8. CASE DrainStart
  <2>1. dma_score' \in Channel
    BY <1>8 DEF DrainStart, StartS2MM, TypeOK, DeviceTypeOK, Channel
  <2>. QED  BY <1>8, <2>1 DEF DrainStart, TypeOK, Places, DeviceTypeOK
<1>9. CASE DrainDone
  <2>1. dma_score' \in Channel
    BY <1>9 DEF DrainDone, ClearIOC, TypeOK, DeviceTypeOK, Channel
  <2>. QED  BY <1>9, <2>1 DEF DrainDone, TypeOK, Places, DeviceTypeOK
<1>10. CASE DrainMiss
  BY <1>10 DEF DrainMiss, TypeOK, Places, deviceVars, DeviceTypeOK, Channel
<1>15. CASE DrainAbsent
  BY <1>15 DEF DrainAbsent, TypeOK, Places, deviceVars, DeviceTypeOK, Channel
<1>11. CASE ReadResult
  <2>1. cur \in Reply
    BY <1>11 DEF ReadResult, TypeOK, Places
  <2>2. dma_out.buf \in Packet \cup {None} /\ dma_score.buf \in Packet \cup {None}
    BY DEF TypeOK, DeviceTypeOK, Channel
  <2>3. cur' \in Reply
    BY <1>11, <2>1, <2>2 DEF ReadResult, Reply
  <2>4. cur' # None
    BY <2>3, NoneAssumption
  <2>5. imb' \in Packet \cup {None}
    BY <1>11, <2>2 DEF ReadResult, TypeOK
  <2>6. stats' \in [Counters -> Nat]
    BY <1>11, CountEffect DEF ReadResult
  <2>7. wide' \in BOOLEAN
    BY <1>11, Zenon DEF ReadResult
  <2>. QED  BY <1>11, <2>3, <2>4, <2>5, <2>6, <2>7
               DEF ReadResult, TypeOK, Places, deviceVars, DeviceTypeOK, Channel
<1>12. CASE FallbackMt
  BY <1>12 DEF FallbackMt, TypeOK, Places, deviceVars, DeviceTypeOK, Channel
<1>13. CASE FallbackC
  <2>1. cur \in Reply /\ imb \in Packet
    BY <1>13 DEF FallbackC, Unpackable, TypeOK, Places
  <2>2. cur' \in Reply /\ cur' # None /\ proc' = "put"
    BY <1>13, <2>1, NoneAssumption DEF FallbackC, Reply
  <2>3. stats' \in [Counters -> Nat]
    BY <1>13, CountEffect DEF FallbackC
  <2>. QED  BY <1>13, <2>2, <2>3
               DEF FallbackC, TypeOK, Places, deviceVars, DeviceTypeOK, Channel
<1>16. CASE FallbackRaises
  <2>1. stats' \in [Counters -> Nat]
    BY <1>16, CountEffect DEF FallbackRaises, TypeOK
  <2>. QED  BY <1>16, <2>1
               DEF FallbackRaises, TypeOK, Places, deviceVars, DeviceTypeOK, Channel
<1>14. CASE ProcessorPut
  <2>1. cur \in Reply
    BY <1>14 DEF ProcessorPut, TypeOK, Places
  <2>2. txq' \in Seq(Reply) /\ Len(txq') <= QueueSize
    BY <1>14, <2>1, ServerAssumption DEF ProcessorPut, TypeOK
  <2>. QED  BY <1>14, <2>2
               DEF ProcessorPut, TypeOK, Places, deviceVars, DeviceTypeOK, Channel
<1>. QED  BY <1>1, <1>2, <1>3, <1>4, <1>5, <1>6, <1>7, <1>8, <1>9, <1>10, <1>11, <1>12,
             <1>13, <1>14, <1>15, <1>16 DEF Processor, PollError, PollTimeout

LEMMA DeviceTypes ==
  ASSUME TypeOK, Places, Device
  PROVE  TypeOK' /\ Places'
<1>1. DeviceTypeOK'
  <2>1. CASE Pipeline
    <3>1. mm2s \in Packet
      BY <2>1 DEF Pipeline, TypeOK, DeviceTypeOK
    <3>2. feats' \in Seq(Packet) /\ Len(feats') <= FeatCap
      BY <2>1, <3>1, DeviceAssumption DEF Pipeline, TypeOK, DeviceTypeOK
    <3>3. scores' \in Seq(Packet) /\ Len(scores') <= ScoreCap
      BY <2>1, <3>1, DeviceAssumption DEF Pipeline, TypeOK, DeviceTypeOK
    <3>. QED  BY <2>1, <3>2, <3>3 DEF Pipeline, TypeOK, DeviceTypeOK
  <2>2. CASE FeatureTransfer
    <3>1. Head(feats) \in Packet /\ feats' \in Seq(Packet) /\ Len(feats') <= FeatCap
      BY <2>2, DeviceAssumption DEF FeatureTransfer, TypeOK, DeviceTypeOK
    <3>2. dma_out' \in Channel
      BY <2>2, <3>1 DEF FeatureTransfer, Complete, TypeOK, DeviceTypeOK, Channel
    <3>. QED  BY <2>2, <3>1, <3>2 DEF FeatureTransfer, TypeOK, DeviceTypeOK
  <2>3. CASE ScoreTransfer
    <3>1. Head(scores) \in Packet /\ scores' \in Seq(Packet) /\ Len(scores') <= ScoreCap
      BY <2>3, DeviceAssumption DEF ScoreTransfer, TypeOK, DeviceTypeOK
    <3>2. dma_score' \in Channel
      BY <2>3, <3>1 DEF ScoreTransfer, Complete, TypeOK, DeviceTypeOK, Channel
    <3>. QED  BY <2>3, <3>1, <3>2 DEF ScoreTransfer, TypeOK, DeviceTypeOK
  <2>4. CASE TransferError
    <3>1. dma_out' \in Channel /\ dma_score' \in Channel
      BY <2>4 DEF TransferError, Fail, TypeOK, DeviceTypeOK, Channel
    <3>. QED  BY <2>4, <3>1 DEF TransferError, TypeOK, DeviceTypeOK
  <2>. QED  BY <2>1, <2>2, <2>3, <2>4 DEF Device
<1>. QED  BY <1>1 DEF Device, threadVars, TypeOK, Places

LEMMA NextTypes == TypeOK /\ Places /\ [Next]_vars => TypeOK' /\ Places'
<1>1. ASSUME TypeOK, Places, UNCHANGED vars PROVE TypeOK' /\ Places'
  BY <1>1 DEF vars, threadVars, deviceVars, TypeOK, DeviceTypeOK, Channel, Places
<1>. QED  BY <1>1, ClientTypes, ReceiverTypes, SenderTypes, ProcessorTypes, DeviceTypes
          DEF Next

-----------------------------------------------------------------------------
(* The counters, as numbers. *)
LEMMA Numbers ==
  ASSUME TypeOK
  PROVE  /\ \A c \in Counters : stats[c] \in Nat
         /\ {Len(txq), Len(rxq), Len(scores), missed} \subseteq Nat
         /\ {"rx_pkts", "tx_pkts", "pl_timeouts", "pl_errors"} \subseteq Counters
         /\ QueueSize \in Nat
BY ServerAssumption, SMTT(60) DEF TypeOK, DeviceTypeOK, Counters

LEMMA NextCount ==
  ASSUME TypeOK, Places, CountInv, [Next]_vars
  PROVE  CountInv'
<1>0. /\ stats["tx_pkts"] \in Nat /\ stats["rx_pkts"] \in Nat
      /\ Len(txq) \in Nat /\ Len(rxq) \in Nat
      /\ "tx_pkts" \in Counters /\ "rx_pkts" \in Counters
  BY Numbers
<1>1. ASSUME NEW kind \in Kind, Send(kind) PROVE CountInv'
  BY <1>1 DEF Send, CountInv
<1>2. CASE Receive
  BY <1>0, <1>2 DEF Receive, CountInv, One
<1>3. CASE ReceiverPut
  <2>1. Len(rxq') = Len(rxq) + 1
    BY <1>3 DEF ReceiverPut, TypeOK
  <2>. QED  BY <1>0, <1>3, <2>1 DEF ReceiverPut, CountInv, One
<1>4. CASE ReceiverCount
  <2>1. stats'["rx_pkts"] = stats["rx_pkts"] + 1 /\ stats'["tx_pkts"] = stats["tx_pkts"]
    BY <1>0, <1>4, CountEffect DEF ReceiverCount
  <2>2. rx.pc = "count" /\ rx'.pc = "recv"
    BY <1>4 DEF ReceiverCount, TypeOK
  <2>. QED  BY <1>0, <1>4, <2>1, <2>2 DEF ReceiverCount, CountInv, One
<1>5. CASE ReceiverDies
  <2>1. rx.pc = "recv" /\ rx'.pc = "dead"
    BY <1>5 DEF ReceiverDies, TypeOK
  <2>. QED  BY <1>0, <1>5, <2>1 DEF ReceiverDies, CountInv, One
<1>6. ASSUME NEW kind, Fetch(kind),
             stats' = stats \/ Count({"pl_used"})
      PROVE  CountInv'
  <2>1. Len(rxq') = Len(rxq) - 1 /\ proc = "get"
    BY <1>6 DEF Fetch, TypeOK
  <2>2. stats'["rx_pkts"] = stats["rx_pkts"] /\ stats'["tx_pkts"] = stats["tx_pkts"]
    BY <1>0, <1>6, CountEffect
  <2>. QED  BY <1>0, <1>6, <2>1, <2>2 DEF Fetch, CountInv, One
<1>7. CASE Processor \/ StartFails
  <2>1. CASE GetJunk \/ GetPing \/ GetDeltas
    BY <1>6, <2>1 DEF GetJunk, GetPing, GetDeltas
  <2>2. CASE Start \/ PollDone \/ DrainStart \/ DrainAbsent \/ DrainDone \/ DrainMiss
           \/ FallbackMt
    BY <1>0, <2>2 DEF Start, PollDone, DrainStart, DrainAbsent, DrainDone, DrainMiss,
                      FallbackMt, CountInv, One
  <2>3. CASE \/ StartFails \/ PollError \/ PollTimeout \/ ReadResult \/ FallbackC
             \/ (FallbackRaises /\ cserver)
    <3>1. \E S \in SUBSET {"pl_errors", "pl_timeouts", "pl_fallbacks", "pl_done"} : Count(S)
      <4>1. CASE PollError \/ PollTimeout
        BY <4>1 DEF PollError, PollTimeout, GiveUp
      <4>2. CASE StartFails \/ ReadResult \/ FallbackC \/ (FallbackRaises /\ cserver)
        BY <4>2 DEF StartFails, ReadResult, FallbackC, FallbackRaises
      <4>. QED  BY <2>3, <4>1, <4>2
    <3>2. stats'["rx_pkts"] = stats["rx_pkts"] /\ stats'["tx_pkts"] = stats["tx_pkts"]
      <4>1. PICK S \in SUBSET {"pl_errors", "pl_timeouts", "pl_fallbacks", "pl_done"} :
               Count(S)
        BY <3>1
      <4>2. "rx_pkts" \notin S /\ "tx_pkts" \notin S
        OBVIOUS
      <4>. QED  BY <1>0, <4>1, <4>2, CountEffect
    <3>3. proc # "get" /\ UNCHANGED <<rx, rxq, txq, tx>>
      BY <2>3 DEF StartFails, PollError, PollTimeout, GiveUp, ReadResult, FallbackC,
                  FallbackRaises
    <3>. QED  BY <1>0, <3>2, <3>3 DEF CountInv, One
  <2>4. CASE ProcessorPut
    <3>1. Len(txq') = Len(txq) + 1
      BY <2>4 DEF ProcessorPut, TypeOK
    <3>. QED  BY <1>0, <2>4, <3>1 DEF ProcessorPut, CountInv, One
  <2>5. CASE FallbackRaises /\ ~ cserver
    BY <1>0, <2>5 DEF FallbackRaises, CountInv, One
  <2>. QED  BY <1>7, <2>1, <2>2, <2>3, <2>4, <2>5 DEF Processor
<1>8. CASE SenderGet
  <2>1. Len(txq') = Len(txq) - 1
    BY <1>8 DEF SenderGet, TypeOK
  <2>2. tx.pc = "get" /\ tx'.pc = "send"
    BY <1>8 DEF SenderGet
  <2>. QED  BY <1>0, <1>8, <2>1, <2>2 DEF SenderGet, CountInv, One
<1>9. CASE SenderSend
  <2>1. stats'["rx_pkts"] = stats["rx_pkts"] /\ stats'["tx_pkts"] = stats["tx_pkts"] + 1
    BY <1>0, <1>9, CountEffect DEF SenderSend
  <2>2. tx.pc = "send" /\ tx'.pc = "get"
    BY <1>9 DEF SenderSend
  <2>. QED  BY <1>0, <1>9, <2>1, <2>2 DEF SenderSend, CountInv, One
<1>10. CASE SenderDies
  BY <1>0, <1>10 DEF SenderDies, CountInv, One
<1>11. CASE Device
  BY <1>11 DEF Device, threadVars, CountInv
<1>12. CASE UNCHANGED vars
  BY <1>12 DEF vars, threadVars, CountInv
<1>. QED  BY <1>1, <1>2, <1>3, <1>4, <1>5, <1>7, <1>8, <1>9, <1>10, <1>11, <1>12
          DEF Next, Receiver, Sender

(* Whether the pipeline holds a packet, whether a completion is unread and   *)
(* whether a packet is in progress, as numbers.                              *)
InPipe == One(mm2s # None)
Unread == One(dma_score.ioc)
Busy == One(proc \in {"poll", "drain", "score"})
Budget == missed + stats["pl_timeouts"] + stats["pl_errors"]

LEMMA ScoreSum ==
  /\ InPipe \in {0, 1} /\ Unread \in {0, 1} /\ Busy \in {0, 1}
  /\ ScoreInv <=> Len(scores) + InPipe + Unread <= Budget + Busy
BY DEF ScoreInv, InPipe, Unread, Busy, Budget, One

LEMMA ScoreSumPrimed ==
  /\ InPipe' \in {0, 1} /\ Unread' \in {0, 1} /\ Busy' \in {0, 1}
  /\ ScoreInv' <=> Len(scores') + InPipe' + Unread' <= Budget' + Busy'
BY DEF ScoreInv, InPipe, Unread, Busy, Budget, One

LEMMA NextScore ==
  ASSUME TypeOK, Places, ScoreInv, [Next]_vars
  PROVE  ScoreInv'
<1>0. /\ stats["pl_timeouts"] \in Nat /\ stats["pl_errors"] \in Nat
      /\ Len(scores) \in Nat /\ missed \in Nat
      /\ "pl_timeouts" \in Counters /\ "pl_errors" \in Counters
  BY Numbers
<1>1. ASSUME UNCHANGED <<scores, mm2s, dma_score, missed, proc>>,
             \/ UNCHANGED stats
             \/ Count({"rx_pkts"})
             \/ Count({"tx_pkts"})
      PROVE  ScoreInv'
  <2>1. /\ stats'["pl_timeouts"] = stats["pl_timeouts"]
        /\ stats'["pl_errors"] = stats["pl_errors"]
    BY <1>0, <1>1, CountEffect
  <2>. QED  BY <1>1, <2>1 DEF ScoreInv
<1>2. CASE (\E kind \in Kind : Send(kind)) \/ Receiver \/ ReceiverDies \/ Sender \/ SenderDies
  BY <1>1, <1>2 DEF Send, Receiver, Receive, ReceiverPut, ReceiverCount, ReceiverDies,
                    Sender, SenderGet, SenderSend, SenderDies, deviceVars
<1>3. ASSUME UNCHANGED <<scores, mm2s, dma_score, missed>>,
             proc \notin {"poll", "drain", "score"}, proc' \notin {"poll", "drain", "score"},
             UNCHANGED stats \/ (\E S : Count(S))
      PROVE  ScoreInv'
  <2>1. /\ stats'["pl_timeouts"] \in Nat /\ stats'["pl_timeouts"] >= stats["pl_timeouts"]
        /\ stats'["pl_errors"] \in Nat /\ stats'["pl_errors"] >= stats["pl_errors"]
    <3>1. CASE UNCHANGED stats
      BY <1>0, <3>1
    <3>2. ASSUME NEW S, Count(S)
          PROVE  /\ stats'["pl_timeouts"] \in Nat /\ stats'["pl_timeouts"] >= stats["pl_timeouts"]
                 /\ stats'["pl_errors"] \in Nat /\ stats'["pl_errors"] >= stats["pl_errors"]
      BY <1>0, <3>2, CountEffect
    <3>. QED  BY <1>3, <3>1, <3>2
  <2>2. InPipe' = InPipe /\ Unread' = Unread /\ Busy' = 0 /\ Busy = 0
    BY <1>3 DEF InPipe, Unread, Busy, One
  <2>3. Budget' \in Nat /\ Budget \in Nat /\ Budget' >= Budget
    <3>1. /\ Budget = missed + stats["pl_timeouts"] + stats["pl_errors"]
          /\ Budget' = missed + stats'["pl_timeouts"] + stats'["pl_errors"]
      BY <1>3 DEF Budget
    <3>2. missed \in Nat
      BY <1>0
    <3>3. Budget \in Nat /\ Budget' \in Nat
      BY <1>0, <2>1, <3>1, <3>2, SMTT(90)
    <3>. QED  BY <1>0, <2>1, <3>1, <3>2, <3>3, SMTT(90)
  <2>4. Len(scores') = Len(scores)
    BY <1>3
  <2>. QED  BY <1>0, <2>2, <2>3, <2>4, ScoreSum, ScoreSumPrimed
<1>4. CASE GetJunk \/ GetPing \/ GetDeltas \/ StartFails \/ ReadResult \/ FallbackMt \/ FallbackC
           \/ FallbackRaises \/ ProcessorPut
  <2>1. UNCHANGED <<scores, mm2s, dma_score, missed>>
    BY <1>4 DEF GetJunk, GetPing, GetDeltas, Fetch, StartFails, ReadResult, FallbackMt,
                FallbackC, FallbackRaises,
                ProcessorPut, deviceVars
  <2>2. proc \notin {"poll", "drain", "score"} /\ proc' \notin {"poll", "drain", "score"}
    BY <1>4 DEF GetJunk, GetPing, GetDeltas, Fetch, StartFails, ReadResult, FallbackMt,
                FallbackC, FallbackRaises,
                ProcessorPut
  <2>3. UNCHANGED stats \/ \E S : Count(S)
    BY <1>4 DEF GetJunk, GetPing, GetDeltas, StartFails, ReadResult, FallbackMt, FallbackC,
                FallbackRaises,
                ProcessorPut
  <2>. QED  BY <1>3, <2>1, <2>2, <2>3
<1>5. CASE Start
  <2>1. Unread' = Unread /\ Busy' = 1 /\ Busy = 0
    BY <1>5 DEF Start, Unread, Busy, One
  <2>2. InPipe' <= InPipe + 1
    BY DEF InPipe, One
  <2>3. Budget' = Budget /\ Budget \in Nat /\ Len(scores') = Len(scores)
    BY <1>0, <1>5 DEF Start, Budget
  <2>. QED  BY <1>0, <2>1, <2>2, <2>3, ScoreSum, ScoreSumPrimed
<1>6. ASSUME NEW S, GiveUp(S), S \cap {"pl_timeouts", "pl_errors"} # {} PROVE ScoreInv'
  <2>1. /\ stats'["pl_timeouts"] \in Nat /\ stats'["pl_errors"] \in Nat
        /\ stats'["pl_timeouts"] + stats'["pl_errors"]
              >= stats["pl_timeouts"] + stats["pl_errors"] + 1
    <3>1. /\ stats'["pl_timeouts"] = stats["pl_timeouts"] + (IF "pl_timeouts" \in S THEN 1 ELSE 0)
          /\ stats'["pl_errors"] = stats["pl_errors"] + (IF "pl_errors" \in S THEN 1 ELSE 0)
      BY <1>0, <1>6, CountEffect DEF GiveUp
    <3>. QED  BY <1>0, <1>6, <3>1
  <2>2. /\ UNCHANGED <<scores, mm2s, dma_score, missed>>
        /\ proc = "poll" /\ proc' = "fallback"
    BY <1>6 DEF GiveUp, deviceVars
  <2>3. InPipe' = InPipe /\ Unread' = Unread /\ Busy' = 0 /\ Busy = 1
    BY <2>2 DEF InPipe, Unread, Busy, One
  <2>4. Budget' \in Nat /\ Budget \in Nat /\ Budget' >= Budget + 1
    <3>1. /\ Budget = missed + stats["pl_timeouts"] + stats["pl_errors"]
          /\ Budget' = missed + stats'["pl_timeouts"] + stats'["pl_errors"]
      BY <2>2 DEF Budget
    <3>2. missed \in Nat
      BY <1>0
    <3>3. Budget \in Nat /\ Budget' \in Nat
      BY <1>0, <2>1, <3>1, <3>2, SMTT(90)
    <3>. QED  BY <1>0, <2>1, <3>1, <3>2, <3>3, SMTT(90)
  <2>5. Len(scores') = Len(scores)
    BY <2>2
  <2>. QED  BY <1>0, <2>3, <2>4, <2>5, ScoreSum, ScoreSumPrimed
<1>7. CASE PollError \/ PollTimeout
  BY <1>6, <1>7 DEF PollError, PollTimeout
<1>8. CASE PollDone
  BY <1>0, <1>8 DEF PollDone, ScoreInv, One
<1>9. CASE DrainStart
  <2>1. dma_score'.ioc = dma_score.ioc
    BY <1>9 DEF DrainStart, StartS2MM, TypeOK, DeviceTypeOK, Channel
  <2>. QED  BY <1>0, <1>9, <2>1 DEF DrainStart, ScoreInv, One
<1>10. CASE DrainDone
  <2>1. dma_score.ioc /\ ~ dma_score'.ioc
    BY <1>10 DEF DrainDone, ClearIOC, TypeOK, DeviceTypeOK, Channel
  <2>. QED  BY <1>0, <1>10, <2>1 DEF DrainDone, ScoreInv, One
<1>11. CASE DrainMiss \/ DrainAbsent
  <2>1. /\ UNCHANGED <<scores, mm2s, dma_score, stats>> /\ missed' = missed + 1
        /\ proc \in {"drain", "score"} /\ proc' = "read"
    BY <1>11 DEF DrainMiss, DrainAbsent, deviceVars
  <2>2. InPipe' = InPipe /\ Unread' = Unread /\ Busy' = 0 /\ Busy = 1
    BY <2>1 DEF InPipe, Unread, Busy, One
  <2>3. Budget' = Budget + 1 /\ Budget \in Nat /\ Len(scores') = Len(scores)
    BY <1>0, <2>1 DEF Budget
  <2>. QED  BY <1>0, <2>2, <2>3, ScoreSum, ScoreSumPrimed
<1>12. CASE Device
  <2>1. UNCHANGED <<missed, stats, proc>>
    BY <1>12 DEF Device, threadVars
  <2>2. CASE Pipeline
    <3>1. Len(scores') = Len(scores) + 1
      BY <2>2 DEF Pipeline, TypeOK, DeviceTypeOK
    <3>. QED  BY <1>0, <2>1, <2>2, <3>1 DEF Pipeline, ScoreInv, One
  <2>3. CASE FeatureTransfer \/ TransferError
    <3>1. dma_score'.ioc = dma_score.ioc
      BY <2>3 DEF FeatureTransfer, TransferError, Fail, TypeOK, DeviceTypeOK, Channel
    <3>2. UNCHANGED <<scores, mm2s>>
      BY <2>3 DEF FeatureTransfer, TransferError
    <3>. QED  BY <2>1, <3>1, <3>2 DEF ScoreInv
  <2>4. CASE ScoreTransfer
    <3>1. Len(scores') = Len(scores) - 1
      BY <2>4 DEF ScoreTransfer, TypeOK, DeviceTypeOK
    <3>2. InPipe' = InPipe /\ Busy' = Busy /\ Budget' = Budget /\ Budget \in Nat
      BY <1>0, <2>1, <2>4 DEF ScoreTransfer, InPipe, Busy, Budget, One
    <3>. QED  BY <1>0, <3>1, <3>2, ScoreSum, ScoreSumPrimed
  <2>. QED  BY <1>12, <2>2, <2>3, <2>4 DEF Device
<1>13. CASE UNCHANGED vars
  BY <1>13 DEF vars, threadVars, deviceVars, ScoreInv
<1>. QED  BY <1>2, <1>4, <1>5, <1>7, <1>8, <1>9, <1>10, <1>11, <1>12, <1>13
          DEF Next, Processor

-----------------------------------------------------------------------------
(* The inductive invariant of the servers. *)
THEOREM ServerInvariant == Spec => []IInv
<1>1. IInv /\ [Next]_vars => IInv'
  BY NextTypes, NextCount, NextScore DEF IInv
<1>. QED  BY <1>1, InitIInv, PTL DEF Spec

(* The types of every variable: no queue of the server or of the device     *)
(* outgrows its bound, whatever fails.                                      *)
THEOREM TypesOK == Spec => []TypeOK
<1>1. IInv => TypeOK
  BY DEF IInv
<1>. QED  BY <1>1, ServerInvariant, PTL

(* The printed counters are at most one datagram apart the wrong way round. *)
THEOREM CountersStayConsistent == Spec => []CountersConsistent
<1>1. IInv => CountersConsistent
  <2> SUFFICES ASSUME IInv PROVE CountersConsistent
    OBVIOUS
  <2>1. /\ stats["tx_pkts"] \in Nat /\ stats["rx_pkts"] \in Nat
        /\ Len(txq) \in Nat /\ Len(rxq) \in Nat
    BY Numbers DEF IInv
  <2>. QED  BY <2>1, SMTT(60) DEF IInv, CountInv, One, CountersConsistent
<1>. QED  BY <1>1, ServerInvariant, PTL

(* The queue of scores holds one for the packet in progress and one for     *)
(* each completion that was not drained and each transfer that was          *)
(* abandoned, no more.                                                      *)
THEOREM ScoresAreDrained == Spec => []DrainKeepsUp
<1>1. IInv => DrainKeepsUp
  <2> SUFFICES ASSUME IInv PROVE DrainKeepsUp
    OBVIOUS
  <2>1. /\ stats["pl_timeouts"] \in Nat /\ stats["pl_errors"] \in Nat
        /\ Len(scores) \in Nat /\ missed \in Nat
    BY Numbers DEF IInv
  <2>2. Budget \in Nat /\ Len(scores) <= Budget + 1
    BY <2>1, ScoreSum, SMTT(60) DEF IInv, Budget
  <2>. QED  BY <2>1, <2>2 DEF Budget, DrainKeepsUp
<1>. QED  BY <1>1, ServerInvariant, PTL

-----------------------------------------------------------------------------
(* The refinement.  A record is in one place at a time: the packets that    *)
(* were answered, those in the threads and queues and those in the socket   *)
(* form one line, in the order of sending, and every step moves the line.   *)
(* One sequence after another, under a name that the provers do not expand. *)
Cat(p, q) == p \o q

(* From the packets answered to those still in the socket's buffer. *)
Line == Cat(Cat(Ids(sent), InService), Ids(sock))

Increasing(s) == \A i, j \in DOMAIN s : i < j => s[i] < s[j]

Below(s, n) == \A i \in DOMAIN s : s[i] < n

(* The line is in the order of sending, so that no packet is in it twice. *)
Ordered == Increasing(Line) /\ Below(Line, next)

-----------------------------------------------------------------------------
(* Sequences of packets that have been cut in two places. *)

LEMMA IdsOf ==
    ASSUME NEW S, NEW s \in Seq(S), \A x \in S : x.id \in Packet
    PROVE  /\ Ids(s) \in Seq(Packet) /\ Len(Ids(s)) = Len(s)
           /\ \A x \in S : Ids(Append(s, x)) = Ids(s) \o <<x.id>>
           /\ s # <<>> => Ids(s) = <<Head(s).id>> \o Ids(Tail(s))
<1>1. \A t \in Seq(S) : /\ Ids(t) \in Seq(Packet) /\ Len(Ids(t)) = Len(t)
                        /\ \A i \in 1 .. Len(t) : Ids(t)[i] = t[i].id
  <2> SUFFICES ASSUME NEW t \in Seq(S)
               PROVE  /\ Ids(t) \in Seq(Packet) /\ Len(Ids(t)) = Len(t)
                      /\ \A i \in 1 .. Len(t) : Ids(t)[i] = t[i].id
    OBVIOUS
  <2>1. DOMAIN t = 1 .. Len(t) /\ Len(t) \in Nat /\ \A i \in 1 .. Len(t) : t[i] \in S
    OBVIOUS
  <2>2. Ids(t) = [i \in 1 .. Len(t) |-> t[i].id]
    BY <2>1 DEF Ids
  <2>3. Ids(t) \in [1 .. Len(t) -> Packet]
    BY <2>1, <2>2
  <2>4. Ids(t) \in Seq(Packet)
    BY <2>1, <2>3
  <2> QED
    BY <2>1, <2>2, <2>4
<1>2. ASSUME NEW x \in S
      PROVE  Ids(Append(s, x)) = Ids(s) \o <<x.id>>
  <2> DEFINE l == Ids(Append(s, x))
             r == Ids(s) \o <<x.id>>
  <2>1. Append(s, x) \in Seq(S) /\ Len(Append(s, x)) = Len(s) + 1 /\ Len(s) \in Nat
    OBVIOUS
  <2>2. l \in Seq(Packet) /\ Len(l) = Len(s) + 1
        /\ \A i \in 1 .. Len(s) + 1 : l[i] = Append(s, x)[i].id
    BY <1>1, <2>1
  <2>3. <<x.id>> \in Seq(Packet) /\ Len(<<x.id>>) = 1 /\ <<x.id>>[1] = x.id
    OBVIOUS
  <2>4. Ids(s) \in Seq(Packet) /\ Len(Ids(s)) = Len(s)
        /\ \A i \in 1 .. Len(s) : Ids(s)[i] = s[i].id
    BY <1>1
  <2>5. r \in Seq(Packet) /\ Len(r) = Len(s) + 1
        /\ \A i \in 1 .. Len(s) + 1 : r[i] = IF i <= Len(s) THEN Ids(s)[i] ELSE x.id
    BY <2>1, <2>3, <2>4
  <2>6. \A i \in 1 .. Len(s) + 1 : l[i] = r[i]
    BY <2>1, <2>2, <2>4, <2>5
  <2> HIDE DEF l, r
  <2>7. l = r
    BY <2>2, <2>5, <2>6, SeqEqual
  <2> QED
    BY <2>7 DEF l, r
<1>3. ASSUME s # <<>>
      PROVE  Ids(s) = <<Head(s).id>> \o Ids(Tail(s))
  <2> DEFINE r == <<Head(s).id>> \o Ids(Tail(s))
  <2>1. /\ Tail(s) \in Seq(S) /\ Len(Tail(s)) = Len(s) - 1 /\ Len(s) \in Nat /\ Len(s) >= 1
        /\ Head(s) = s[1] /\ s[1] \in S
        /\ \A i \in 1 .. Len(s) - 1 : Tail(s)[i] = s[i + 1]
    BY <1>3
  <2>2. /\ Ids(Tail(s)) \in Seq(Packet) /\ Len(Ids(Tail(s))) = Len(s) - 1
        /\ \A i \in 1 .. Len(s) - 1 : Ids(Tail(s))[i] = Tail(s)[i].id
    BY <1>1, <2>1
  <2>3. <<Head(s).id>> \in Seq(Packet) /\ Len(<<Head(s).id>>) = 1
        /\ <<Head(s).id>>[1] = s[1].id
    BY <2>1
  <2>4. Ids(s) \in Seq(Packet) /\ Len(Ids(s)) = Len(s)
        /\ \A i \in 1 .. Len(s) : Ids(s)[i] = s[i].id
    BY <1>1
  <2>5. r \in Seq(Packet) /\ Len(r) = Len(s)
        /\ \A i \in 1 .. Len(s) : r[i] = IF i = 1 THEN s[1].id ELSE Ids(Tail(s))[i - 1]
    <3>1. /\ r \in Seq(Packet) /\ Len(r) = 1 + Len(Ids(Tail(s)))
          /\ \A i \in 1 .. 1 + Len(Ids(Tail(s))) :
                r[i] = IF i <= 1 THEN <<Head(s).id>>[i] ELSE Ids(Tail(s))[i - 1]
      BY ONLY <2>2, <2>3, ConcatProperties
    <3> HIDE DEF r
    <3>2. Len(r) = Len(s)
      <4>1. Len(s) \in Nat
        BY <2>1
      <4>2. Len(Ids(Tail(s))) = Len(s) - 1
        BY <2>2
      <4>3. Len(r) = 1 + Len(Ids(Tail(s)))
        BY <3>1
      <4> QED
        BY ONLY <4>1, <4>2, <4>3
    <3>3. \A i \in 1 .. Len(s) : r[i] = IF i = 1 THEN s[1].id ELSE Ids(Tail(s))[i - 1]
      BY <2>1, <2>2, <2>3, <3>1
    <3> QED
      BY <3>1, <3>2, <3>3
  <2>6. \A i \in 1 .. Len(s) : Ids(s)[i] = r[i]
    <3> TAKE i \in 1 .. Len(s)
    <3>1. CASE i = 1
      BY <2>4, <2>5, <3>1
    <3>2. CASE i > 1
      <4>1. i - 1 \in 1 .. Len(s) - 1 /\ (i - 1) + 1 = i
        BY <2>1, <3>2
      <4>2. Ids(Tail(s))[i - 1] = s[i].id
        BY <2>1, <2>2, <4>1
      <4>3. r[i] = Ids(Tail(s))[i - 1]
        BY <2>5, <3>2
      <4>4. Ids(s)[i] = s[i].id
        BY <2>4
      <4> QED
        BY ONLY <4>2, <4>3, <4>4
    <3>3. i = 1 \/ i > 1
      BY <2>1
    <3> QED
      BY <3>1, <3>2, <3>3
  <2> HIDE DEF r
  <2>7. Ids(s) = r
    BY <2>4, <2>5, <2>6, SeqEqual
  <2> QED
    BY <2>7 DEF r
<1> QED
  BY <1>1, <1>2, <1>3

(* The line of a server whose sender, reply queue, processor, request queue *)
(* and receiver hold these packets.                                         *)
Serve(a, b, c, d, e) == Cat(Cat(Cat(Cat(a, b), c), d), e)

Replying == Held(tx.reply)
Built    == Ids(txq)
Working  == Held(cur)
Waiting  == Ids(rxq)
Fetched  == Held(rx.pkt)

LEMMA Assoc ==
    ASSUME NEW p \in Seq(Packet), NEW q \in Seq(Packet), NEW r \in Seq(Packet)
    PROVE  (p \o q) \o r = p \o (q \o r)
BY ConcatAssociative

LEMMA Cuts ==
    ASSUME NEW p \in Seq(Packet), NEW q \in Seq(Packet)
    PROVE  /\ p \o q \in Seq(Packet)
           /\ p \o <<>> = p /\ <<>> \o p = p
<1>1. p \o q \in Seq(Packet)
  BY ConcatProperties
<1>2. p \o <<>> = p /\ <<>> \o p = p
  BY ConcatEmptySeq
<1> QED
  BY <1>1, <1>2

LEMMA Cats ==
    ASSUME NEW p \in Seq(Packet), NEW q \in Seq(Packet)
    PROVE  /\ Cat(p, q) \in Seq(Packet)
           /\ Cat(p, <<>>) = p /\ Cat(<<>>, p) = p
BY Cuts DEF Cat

LEMMA Regroup ==
    ASSUME NEW p \in Seq(Packet), NEW q \in Seq(Packet), NEW r \in Seq(Packet)
    PROVE  Cat(Cat(p, q), r) = Cat(p, Cat(q, r))
BY Assoc, Zenon DEF Cat

(* A packet goes from the receiver to the queue, from there to the          *)
(* processor, on to the other queue and to the sender.                      *)
LEMMA MovesKeepLine ==
    ASSUME NEW a \in Seq(Packet), NEW b \in Seq(Packet), NEW c \in Seq(Packet),
           NEW d \in Seq(Packet), NEW e \in Seq(Packet), NEW x \in Seq(Packet)
    PROVE  /\ Serve(a, b, c, d, x) = Serve(a, b, c, Cat(d, x), <<>>)
           /\ Serve(a, b, <<>>, Cat(x, d), e) = Serve(a, b, x, d, e)
           /\ Serve(a, b, x, d, e) = Serve(a, Cat(b, x), <<>>, d, e)
           /\ Serve(<<>>, Cat(x, b), c, d, e) = Serve(x, b, c, d, e)
<1>1. /\ Cat(a, b) \in Seq(Packet) /\ Cat(b, x) \in Seq(Packet) /\ Cat(d, x) \in Seq(Packet)
      /\ Cat(x, b) \in Seq(Packet)
  BY Cats
<1>2. Cat(Cat(a, b), c) \in Seq(Packet)
  BY <1>1, Cats
<1>3. Serve(a, b, c, d, x) = Serve(a, b, c, Cat(d, x), <<>>)
  <2> DEFINE p == Cat(Cat(a, b), c)
  <2>1. p \in Seq(Packet)
    BY <1>2
  <2> HIDE DEF p
  <2>2. Cat(Cat(p, d), x) = Cat(p, Cat(d, x))
    BY <2>1, Regroup
  <2>3. Cat(p, Cat(d, x)) \in Seq(Packet)
    BY <1>1, <2>1, Cats
  <2>4. Cat(Cat(p, Cat(d, x)), <<>>) = Cat(p, Cat(d, x))
    BY <2>3, Cats
  <2> QED
    BY ONLY <2>2, <2>4 DEF Serve, p
<1>4. Serve(a, b, <<>>, Cat(x, d), e) = Serve(a, b, x, d, e)
  <2>1. Cat(Cat(a, b), <<>>) = Cat(a, b)
    BY <1>1, Cats
  <2>2. Cat(Cat(Cat(a, b), x), d) = Cat(Cat(a, b), Cat(x, d))
    BY <1>1, Regroup
  <2> QED
    BY ONLY <2>1, <2>2 DEF Serve
<1>5. Serve(a, b, x, d, e) = Serve(a, Cat(b, x), <<>>, d, e)
  <2>1. Cat(Cat(a, b), x) = Cat(a, Cat(b, x))
    BY Regroup
  <2>2. Cat(a, Cat(b, x)) \in Seq(Packet)
    BY <1>1, Cats
  <2>3. Cat(Cat(a, Cat(b, x)), <<>>) = Cat(a, Cat(b, x))
    BY <2>2, Cats
  <2> QED
    BY ONLY <2>1, <2>3 DEF Serve
<1>6. Serve(<<>>, Cat(x, b), c, d, e) = Serve(x, b, c, d, e)
  <2>1. Cat(<<>>, Cat(x, b)) = Cat(x, b)
    BY <1>1, Cats
  <2> QED
    BY ONLY <2>1 DEF Serve
<1> QED
  BY ONLY <1>3, <1>4, <1>5, <1>6

(* A packet in one of the threads stands between those before and those     *)
(* after it.                                                                *)
LEMMA LineTyped ==
    ASSUME NEW a \in Seq(Packet), NEW b \in Seq(Packet), NEW c \in Seq(Packet),
           NEW d \in Seq(Packet), NEW e \in Seq(Packet)
    PROVE  Serve(a, b, c, d, e) \in Seq(Packet)
<1>1. Cat(Cat(a, b), c) \in Seq(Packet)
  BY Cats
<1>2. Cat(Cat(Cat(a, b), c), d) \in Seq(Packet)
  BY <1>1, Cats
<1> QED
  BY <1>2, Cats DEF Serve

LEMMA FirstInLine ==
    ASSUME NEW a \in Seq(Packet), NEW b \in Seq(Packet), NEW c \in Seq(Packet),
           NEW d \in Seq(Packet), NEW e \in Seq(Packet)
    PROVE  Serve(a, b, c, d, e) = Cat(a, Serve(<<>>, b, c, d, e))
<1>1. Cat(b, c) \in Seq(Packet) /\ Cat(Cat(b, c), d) \in Seq(Packet)
  BY Cats
<1>2. Cat(<<>>, b) = b
  BY Cats
<1>3. Cat(Cat(a, b), c) = Cat(a, Cat(b, c))
  BY Regroup
<1>4. Cat(Cat(a, Cat(b, c)), d) = Cat(a, Cat(Cat(b, c), d))
  BY <1>1, Regroup
<1>5. Cat(Cat(a, Cat(Cat(b, c), d)), e) = Cat(a, Cat(Cat(Cat(b, c), d), e))
  BY <1>1, Regroup
<1> QED
  BY ONLY <1>2, <1>3, <1>4, <1>5 DEF Serve

LEMMA MiddleOfLine ==
    ASSUME NEW a \in Seq(Packet), NEW b \in Seq(Packet), NEW c \in Seq(Packet),
           NEW d \in Seq(Packet), NEW e \in Seq(Packet)
    PROVE  /\ Serve(a, b, c, d, e) = Cat(Cat(Cat(a, b), c), Cat(d, e))
           /\ Serve(a, b, <<>>, d, e) = Cat(Cat(a, b), Cat(d, e))
<1>1. Cat(a, b) \in Seq(Packet)
  BY Cats
<1>2. Cat(Cat(a, b), c) \in Seq(Packet) /\ Cat(Cat(a, b), <<>>) = Cat(a, b)
  BY <1>1, Cats
<1>3. Cat(Cat(Cat(Cat(a, b), c), d), e) = Cat(Cat(Cat(a, b), c), Cat(d, e))
  BY <1>2, Regroup
<1>4. Cat(Cat(Cat(a, b), d), e) = Cat(Cat(a, b), Cat(d, e))
  BY <1>1, Regroup
<1> QED
  BY ONLY <1>2, <1>3, <1>4 DEF Serve

LEMMA LastInLine ==
    ASSUME NEW a \in Seq(Packet), NEW b \in Seq(Packet), NEW c \in Seq(Packet),
           NEW d \in Seq(Packet), NEW e \in Seq(Packet)
    PROVE  Cat(Serve(a, b, c, d, <<>>), e) = Serve(a, b, c, d, e)
<1>1. Cat(Cat(a, b), c) \in Seq(Packet)
  BY Cats
<1>2. Cat(Cat(Cat(a, b), c), d) \in Seq(Packet)
  BY <1>1, Cats
<1>3. Cat(Cat(Cat(Cat(a, b), c), d), <<>>) = Cat(Cat(Cat(a, b), c), d)
  BY <1>2, Cats
<1> QED
  BY ONLY <1>3 DEF Serve

-----------------------------------------------------------------------------
(* What a step does to the line. *)

Keeps == UNCHANGED <<InService, Ids(sent), Ids(sock)>> /\ next' \in {next, next + 1}

Joins ==
    /\ UNCHANGED <<InService, Ids(sent)>>
    /\ next \in Packet /\ next' = next + 1
    /\ Ids(sock)' = Cat(Ids(sock), <<next>>)

Enters(h) ==
    /\ UNCHANGED <<Ids(sent), next>>
    /\ Ids(sock) = Cat(<<h>>, Ids(sock)')
    /\ InService' = Cat(InService, <<h>>)

Leaves(h) ==
    /\ UNCHANGED <<Ids(sock), next>>
    /\ InService = Cat(<<h>>, InService')
    /\ Ids(sent)' = Cat(Ids(sent), <<h>>)

Vanishes(p, h, q) ==
    /\ UNCHANGED <<Ids(sent), Ids(sock), next>>
    /\ InService = Cat(Cat(p, <<h>>), q)
    /\ InService' = Cat(p, q)

Move ==
    \/ Keeps
    \/ Joins
    \/ \E h \in Packet : Enters(h) \/ Leaves(h)
    \/ \E p, q \in Seq(Packet), h \in Packet : Vanishes(p, h, q)

Typed ==
    /\ Ids(sent) \in Seq(Packet) /\ Ids(sock) \in Seq(Packet)
    /\ InService \in Seq(Packet)

LEMMA IdsTyped ==
    ASSUME TypeOK
    PROVE  /\ Ids(sent) \in Seq(Packet) /\ Ids(sock) \in Seq(Packet)
           /\ Replying \in Seq(Packet) /\ Built \in Seq(Packet)
           /\ Working \in Seq(Packet) /\ Waiting \in Seq(Packet)
           /\ Fetched \in Seq(Packet)
           /\ InService \in Seq(Packet)
<1>1. \A x \in Reply \cup Datagram : x.id \in Packet
  BY DEF Reply, Datagram
<1>2. Ids(sent) \in Seq(Packet) /\ Built \in Seq(Packet)
  BY <1>1, IdsOf DEF TypeOK, Built
<1>3. Ids(sock) \in Seq(Packet) /\ Waiting \in Seq(Packet)
  BY <1>1, IdsOf DEF TypeOK, Waiting
<1>4. \A x \in Reply \cup Datagram \cup {None} : Held(x) \in Seq(Packet)
  BY <1>1 DEF Held
<1>5. Replying \in Seq(Packet) /\ Working \in Seq(Packet) /\ Fetched \in Seq(Packet)
  BY <1>4 DEF TypeOK, Replying, Working, Fetched
<1>6. InService = Serve(Replying, Built, Working, Waiting, Fetched)
  BY DEF InService, Serve, Cat, Replying, Built, Working, Waiting, Fetched
<1> QED
  BY <1>2, <1>3, <1>5, <1>6, LineTyped

LEMMA InServiceIs ==
    /\ InService = Serve(Replying, Built, Working, Waiting, Fetched)
    /\ InService' = Serve(Replying', Built', Working', Waiting', Fetched')
BY DEF InService, Serve, Cat, Replying, Built, Working, Waiting, Fetched

LEMMA HeldIs ==
    /\ Held(None) = <<>>
    /\ \A x \in Reply \cup Datagram :
          Held(x) = <<x.id>> /\ x.id \in Packet /\ <<x.id>> \in Seq(Packet)
<1>1. \A x \in Reply \cup Datagram : x.id \in Packet
  BY DEF Reply, Datagram
<1> QED
  BY <1>1, NoneAssumption DEF Held

LEMMA QueuesMove ==
    ASSUME TypeOK
    PROVE  /\ \A x \in Reply : Ids(Append(txq, x)) = Cat(Built, <<x.id>>)
           /\ \A x \in Reply : Ids(Append(sent, x)) = Cat(Ids(sent), <<x.id>>)
           /\ \A x \in Datagram : Ids(Append(rxq, x)) = Cat(Waiting, <<x.id>>)
           /\ \A x \in Datagram : Ids(Append(sock, x)) = Cat(Ids(sock), <<x.id>>)
           /\ txq # <<>> => Head(txq) \in Reply /\ Built = Cat(<<Head(txq).id>>, Ids(Tail(txq)))
           /\ rxq # <<>> => Head(rxq) \in Datagram /\ Waiting = Cat(<<Head(rxq).id>>, Ids(Tail(rxq)))
           /\ sock # <<>> => Head(sock) \in Datagram
                             /\ Ids(sock) = Cat(<<Head(sock).id>>, Ids(Tail(sock)))
<1>1. (\A x \in Reply : x.id \in Packet) /\ (\A x \in Datagram : x.id \in Packet)
  BY DEF Reply, Datagram
<1>2. txq \in Seq(Reply) /\ sent \in Seq(Reply) /\ rxq \in Seq(Datagram) /\ sock \in Seq(Datagram)
  BY DEF TypeOK
<1>3. ASSUME NEW S, NEW s \in Seq(S), s # <<>>
      PROVE  Head(s) \in S
  BY <1>3
<1> QED
  BY ONLY <1>1, <1>2, <1>3, IdsOf DEF Built, Waiting, Cat

-----------------------------------------------------------------------------
(* The sender. *)

LEMMA SenderMoves ==
    ASSUME TypeOK, Places, Sender \/ SenderDies
    PROVE  Move
<1>1. /\ Built \in Seq(Packet) /\ Working \in Seq(Packet)
      /\ Waiting \in Seq(Packet) /\ Fetched \in Seq(Packet)
  BY IdsTyped
<1>2. UNCHANGED <<Working, Waiting, Fetched, Ids(sock), next>>
  BY DEF Sender, SenderGet, SenderSend, SenderDies, Working, Waiting, Fetched
<1>3. CASE SenderGet
  <2> DEFINE h == Head(txq).id
  <2>1. Head(txq) \in Reply /\ Built = Cat(<<h>>, Built')
    BY <1>3, QueuesMove DEF SenderGet, Built
  <2>2. tx.reply = None /\ tx'.reply = Head(txq)
    BY <1>3 DEF SenderGet, Places
  <2>3. Replying = <<>> /\ Replying' = <<h>> /\ <<h>> \in Seq(Packet)
    BY <2>1, <2>2, HeldIs DEF Replying
  <2>4. Built' \in Seq(Packet)
    <3>1. \A x \in Reply : x.id \in Packet
      BY DEF Reply
    <3>2. txq' \in Seq(Reply)
      BY <1>3 DEF SenderGet, TypeOK
    <3> QED
      BY <3>1, <3>2, IdsOf DEF Built
  <2>5. InService' = InService
    <3> DEFINE x == <<h>>
    <3>1. /\ Built = Cat(x, Built') /\ Replying = <<>> /\ Replying' = x /\ x \in Seq(Packet)
      BY <2>1, <2>3
    <3> HIDE DEF x
    <3>2. Serve(<<>>, Cat(x, Built'), Working, Waiting, Fetched)
            = Serve(x, Built', Working, Waiting, Fetched)
      BY ONLY <1>1, <3>1, <2>4, MovesKeepLine
    <3>3. InService = Serve(<<>>, Cat(x, Built'), Working, Waiting, Fetched)
      BY ONLY <3>1, InServiceIs
    <3>4. InService' = Serve(x, Built', Working, Waiting, Fetched)
      BY ONLY <1>2, <3>1, InServiceIs
    <3> QED
      BY ONLY <3>2, <3>3, <3>4
  <2>6. UNCHANGED Ids(sent)
    BY <1>3 DEF SenderGet
  <2> QED
    BY <1>2, <2>5, <2>6 DEF Move, Keeps
<1>4. CASE SenderSend \/ SenderDies
  <2> DEFINE h == tx.reply.id
             others == Serve(<<>>, Built, Working, Waiting, Fetched)
  <2>1. tx.reply \in Reply /\ tx'.reply = None
    BY <1>4 DEF SenderSend, SenderDies, TypeOK, Places
  <2>2. /\ Replying = <<h>> /\ Replying' = <<>> /\ h \in Packet
        /\ <<h>> \in Seq(Packet) /\ <<>> \in Seq(Packet)
    BY <2>1, HeldIs DEF Replying
  <2>3. Built' = Built
    BY <1>4 DEF SenderSend, SenderDies, Built
  <2> HIDE DEF h
  <2>4. InService = Cat(<<h>>, others) /\ InService' = others /\ others \in Seq(Packet)
    <3> DEFINE x == <<h>>
    <3>1. Replying = x /\ Replying' = <<>> /\ x \in Seq(Packet) /\ <<>> \in Seq(Packet)
      BY <2>2
    <3> HIDE DEF x
    <3>2. Serve(x, Built, Working, Waiting, Fetched) = Cat(x, others)
      BY ONLY <1>1, <3>1, FirstInLine
    <3>3. others \in Seq(Packet)
      BY ONLY <1>1, <3>1, LineTyped
    <3>4. InService = Serve(x, Built, Working, Waiting, Fetched)
      BY ONLY <3>1, InServiceIs
    <3>5. InService' = others
      BY ONLY <1>2, <2>3, <3>1, InServiceIs
    <3> QED
      BY ONLY <3>2, <3>3, <3>4, <3>5 DEF x
  <2> HIDE DEF others
  <2>5. CASE SenderSend
    <3>1. Ids(sent)' = Cat(Ids(sent), <<h>>)
      BY <2>1, <2>5, QueuesMove DEF SenderSend, h
    <3> QED
      BY <1>2, <2>2, <2>4, <3>1 DEF Move, Leaves
  <2>6. CASE SenderDies
    <3>1. Ids(sent)' = Ids(sent)
      BY <2>6 DEF SenderDies
    <3>2. InService = Cat(Cat(<<>>, <<h>>), others) /\ InService' = Cat(<<>>, others)
      BY <2>2, <2>4, Cats
    <3>3. Vanishes(<<>>, h, others)
      BY <1>2, <3>1, <3>2 DEF Vanishes
    <3> QED
      BY <2>2, <2>4, <3>3 DEF Move
  <2> QED
    BY <1>4, <2>5, <2>6
<1> QED
  BY <1>3, <1>4 DEF Sender

-----------------------------------------------------------------------------
(* The receiver and the clients. *)

LEMMA ClientMoves ==
    ASSUME TypeOK, NEW kind \in Kind, Send(kind)
    PROVE  Move
<1>1. UNCHANGED <<Replying, Built, Working, Waiting, Fetched, Ids(sent)>> /\ next' = next + 1
  BY DEF Send, Replying, Built, Working, Waiting, Fetched
<1>2. UNCHANGED InService
  BY <1>1, InServiceIs
<1>3. CASE UNCHANGED sock
  BY <1>1, <1>2, <1>3 DEF Move, Keeps
<1>4. CASE sock' = Append(sock, [id |-> next, kind |-> kind])
  <2>1. next \in Packet
    BY ServerAssumption DEF Send, TypeOK
  <2>2. [id |-> next, kind |-> kind] \in Datagram
    BY <2>1 DEF Datagram
  <2>3. Ids(sock)' = Cat(Ids(sock), <<next>>)
    BY <1>4, <2>2, QueuesMove
  <2> QED
    BY <1>1, <1>2, <2>1, <2>3 DEF Move, Joins
<1> QED
  BY <1>3, <1>4 DEF Send

LEMMA ReceiverMoves ==
    ASSUME TypeOK, Places, Receiver \/ ReceiverDies
    PROVE  Move
<1>1. /\ Replying \in Seq(Packet) /\ Built \in Seq(Packet)
      /\ Working \in Seq(Packet) /\ Waiting \in Seq(Packet)
  BY IdsTyped
<1>2. UNCHANGED <<Replying, Built, Working, Ids(sent), next>>
  BY DEF Receiver, Receive, ReceiverPut, ReceiverCount, ReceiverDies, Replying, Built, Working
<1>3. CASE Receive
  <2> DEFINE h == Head(sock).id
             x == <<h>>
  <2>1. Head(sock) \in Datagram /\ Ids(sock) = Cat(x, Ids(sock)')
    BY <1>3, QueuesMove DEF Receive
  <2>2. rx.pkt = None /\ rx'.pkt = Head(sock) /\ UNCHANGED Waiting
    BY <1>3 DEF Receive, Places, Waiting
  <2>3. Fetched = <<>> /\ Fetched' = x /\ h \in Packet /\ x \in Seq(Packet)
    BY <2>1, <2>2, HeldIs DEF Fetched
  <2> HIDE DEF x
  <2>4. Cat(Serve(Replying, Built, Working, Waiting, <<>>), x)
          = Serve(Replying, Built, Working, Waiting, x)
    BY ONLY <1>1, <2>3, LastInLine
  <2>5. InService' = Cat(InService, x)
    BY ONLY <1>2, <2>2, <2>3, <2>4, InServiceIs
  <2>6. Enters(h)
    BY <1>2, <2>1, <2>5 DEF Enters, x
  <2> QED
    BY <2>3, <2>6 DEF Move
<1>4. CASE ReceiverPut
  <2> DEFINE x == <<rx.pkt.id>>
  <2>1. rx.pkt \in Datagram /\ rx'.pkt = None
    BY <1>4 DEF ReceiverPut, Places, TypeOK
  <2>2. Fetched = x /\ Fetched' = <<>> /\ x \in Seq(Packet)
    BY <2>1, HeldIs DEF Fetched
  <2>3. Waiting' = Cat(Waiting, x)
    BY <1>4, <2>1, QueuesMove DEF ReceiverPut, Waiting
  <2> HIDE DEF x
  <2>4. Serve(Replying, Built, Working, Waiting, x)
          = Serve(Replying, Built, Working, Cat(Waiting, x), <<>>)
    BY ONLY <1>1, <2>2, MovesKeepLine
  <2>5. UNCHANGED InService
    BY ONLY <1>2, <2>2, <2>3, <2>4, InServiceIs
  <2>6. UNCHANGED Ids(sock)
    BY <1>4 DEF ReceiverPut
  <2> QED
    BY <1>2, <2>5, <2>6 DEF Move, Keeps
<1>5. CASE ReceiverCount \/ ReceiverDies
  <2>1. UNCHANGED <<Waiting, Fetched, Ids(sock)>>
    BY <1>5 DEF ReceiverCount, ReceiverDies, TypeOK, Waiting, Fetched
  <2>2. UNCHANGED InService
    BY ONLY <1>2, <2>1, InServiceIs
  <2> QED
    BY <1>2, <2>1, <2>2 DEF Move, Keeps
<1> QED
  BY <1>3, <1>4, <1>5 DEF Receiver

-----------------------------------------------------------------------------
(* The processor and the device. *)

LEMMA ProcessorMoves ==
    ASSUME TypeOK, Places, Processor \/ StartFails
    PROVE  Move
<1>1. /\ Replying \in Seq(Packet) /\ Built \in Seq(Packet)
      /\ Waiting \in Seq(Packet) /\ Fetched \in Seq(Packet) /\ <<>> \in Seq(Packet)
  BY IdsTyped
<1>2. UNCHANGED <<Replying, Fetched, Ids(sent), Ids(sock), next>>
  BY DEF Processor, Fetch, GetJunk, GetPing, GetDeltas, Start, StartFails, PollDone, GiveUp,
         PollError, PollTimeout, DrainStart, DrainAbsent, DrainDone, DrainMiss, ReadResult,
         FallbackMt,
         FallbackC, FallbackRaises, ProcessorPut, Replying, Fetched
<1>3. CASE GetJunk \/ GetPing \/ GetDeltas
  <2> DEFINE h == Head(rxq).id
             x == <<h>>
  <2>1. Head(rxq) \in Datagram /\ Waiting = Cat(x, Waiting')
    BY <1>3, QueuesMove DEF GetJunk, GetPing, GetDeltas, Fetch, Waiting
  <2>2. h \in Packet /\ x \in Seq(Packet)
    BY <2>1, HeldIs
  <2>3. cur = None /\ UNCHANGED Built
    BY <1>3 DEF GetJunk, GetPing, GetDeltas, Fetch, Places, Built
  <2>4. Working = <<>>
    BY <2>3, HeldIs DEF Working
  <2>5. Waiting' \in Seq(Packet)
    <3>1. \A y \in Datagram : y.id \in Packet
      BY DEF Datagram
    <3>2. rxq \in Seq(Datagram) /\ rxq # <<>> /\ rxq' = Tail(rxq)
      BY <1>3 DEF GetJunk, GetPing, GetDeltas, Fetch, TypeOK
    <3>3. rxq' \in Seq(Datagram)
      BY <3>2
    <3> QED
      BY ONLY <3>1, <3>3, IdsOf DEF Waiting
  <2> HIDE DEF x
  <2>6. Serve(Replying, Built, <<>>, Cat(x, Waiting'), Fetched)
          = Serve(Replying, Built, x, Waiting', Fetched)
    BY ONLY <1>1, <2>2, <2>5, MovesKeepLine
  <2>7. InService = Serve(Replying, Built, x, Waiting', Fetched)
    BY ONLY <2>1, <2>4, <2>6, InServiceIs
  <2>8. CASE GetJunk
    <3> DEFINE p == Cat(Replying, Built)
               q == Cat(Waiting', Fetched)
    <3>1. Working' = <<>>
      BY <2>4, <2>8 DEF GetJunk, Working
    <3>2. p \in Seq(Packet) /\ q \in Seq(Packet)
      BY <1>1, <2>5, Cats
    <3>3. InService = Cat(Cat(p, x), q)
      BY ONLY <1>1, <2>2, <2>5, <2>7, MiddleOfLine
    <3>4. InService' = Cat(p, q)
      BY ONLY <1>1, <1>2, <2>3, <2>5, <3>1, InServiceIs, MiddleOfLine
    <3> HIDE DEF p, q
    <3>5. \E r \in Seq(Packet) : Vanishes(p, h, r)
      BY <1>2, <3>2, <3>3, <3>4 DEF Vanishes, x
    <3> QED
      BY <2>2, <3>2, <3>5 DEF Move
  <2>9. CASE GetPing \/ GetDeltas
    <3>1. cur' \in [id : {h}, feat : {None, PS}, score : {None}]
      BY <2>9 DEF GetPing, GetDeltas
    <3>2. cur' # None /\ cur'.id = h
      BY <2>2, <3>1, NoneAssumption DEF Reply
    <3>3. Working' = x
      BY <3>2 DEF Working, Held, x
    <3>4. UNCHANGED InService
      BY ONLY <1>2, <2>3, <2>7, <3>3, InServiceIs
    <3> QED
      BY <1>2, <3>4 DEF Move, Keeps
  <2> QED
    BY <1>3, <2>8, <2>9
<1>4. CASE ReadResult \/ FallbackC
  <2>1. cur \in Reply /\ cur'.id = cur.id /\ cur' \in Reply
    BY <1>4 DEF ReadResult, FallbackC, Unpackable, Places, TypeOK, DeviceTypeOK, Channel, Reply
  <2>2. UNCHANGED <<Built, Working, Waiting>>
    BY <1>4, <2>1, HeldIs DEF ReadResult, FallbackC, Built, Working, Waiting
  <2>3. UNCHANGED InService
    BY ONLY <1>2, <2>2, InServiceIs
  <2> QED
    BY <1>2, <2>3 DEF Move, Keeps
<1>5. CASE FallbackRaises
  <2> DEFINE x == <<cur.id>>
             p == Cat(Replying, Built)
             q == Cat(Waiting, Fetched)
  <2>1. cur \in Reply /\ cur' = None
    BY <1>5 DEF FallbackRaises, Places, TypeOK
  <2>2. Working = x /\ Working' = <<>> /\ cur.id \in Packet /\ x \in Seq(Packet)
    BY <2>1, HeldIs DEF Working
  <2>3. UNCHANGED <<Built, Waiting>>
    BY <1>5 DEF FallbackRaises, Built, Waiting
  <2>4. p \in Seq(Packet) /\ q \in Seq(Packet)
    BY <1>1, Cats
  <2> HIDE DEF x
  <2>5. InService = Cat(Cat(p, x), q)
    BY ONLY <1>1, <2>2, InServiceIs, MiddleOfLine
  <2>6. InService' = Cat(p, q)
    BY ONLY <1>1, <1>2, <2>2, <2>3, InServiceIs, MiddleOfLine
  <2> HIDE DEF p, q
  <2>7. Vanishes(p, cur.id, q)
    BY <1>2, <2>5, <2>6 DEF Vanishes, x
  <2> QED
    BY <2>2, <2>4, <2>7 DEF Move
<1>6. CASE ProcessorPut
  <2> DEFINE x == <<cur.id>>
  <2>1. cur \in Reply /\ cur' = None
    BY <1>6 DEF ProcessorPut, Places, TypeOK
  <2>2. Working = x /\ Working' = <<>> /\ x \in Seq(Packet)
    BY <2>1, HeldIs DEF Working
  <2>3. UNCHANGED Waiting /\ Built' = Cat(Built, x)
    BY <1>6, <2>1, QueuesMove DEF ProcessorPut, Built, Waiting
  <2> HIDE DEF x
  <2>4. Serve(Replying, Built, x, Waiting, Fetched)
          = Serve(Replying, Cat(Built, x), <<>>, Waiting, Fetched)
    BY ONLY <1>1, <2>2, MovesKeepLine
  <2>5. UNCHANGED InService
    BY ONLY <1>2, <2>2, <2>3, <2>4, InServiceIs
  <2> QED
    BY <1>2, <2>5 DEF Move, Keeps
<1>7. ASSUME UNCHANGED <<rxq, cur, txq>>
      PROVE  Move
  <2>1. UNCHANGED <<Built, Working, Waiting>>
    BY <1>7 DEF Built, Working, Waiting
  <2>2. UNCHANGED InService
    BY ONLY <1>2, <2>1, InServiceIs
  <2> QED
    BY <1>2, <2>2 DEF Move, Keeps
<1>8. CASE \/ Start \/ StartFails \/ PollDone \/ PollError \/ PollTimeout
           \/ DrainStart \/ DrainAbsent \/ DrainDone \/ DrainMiss \/ FallbackMt
  BY <1>7, <1>8 DEF Start, StartFails, PollDone, GiveUp, PollError, PollTimeout,
                    DrainStart, DrainAbsent, DrainDone, DrainMiss, FallbackMt
<1> QED
  BY <1>3, <1>4, <1>5, <1>6, <1>8 DEF Processor

(* Every step of the server is one of these moves. *)
LEMMA EveryStepMoves ==
    ASSUME TypeOK, Places, [Next]_vars
    PROVE  Move
<1>1. CASE Device \/ UNCHANGED vars
  <2>1. UNCHANGED threadVars
    BY <1>1 DEF Device, vars
  <2>2. UNCHANGED <<Replying, Built, Working, Waiting, Fetched, Ids(sent), Ids(sock), next>>
    BY <2>1 DEF threadVars, Replying, Built, Working, Waiting, Fetched
  <2>3. UNCHANGED InService
    BY <2>2, InServiceIs
  <2> QED
    BY <2>2, <2>3 DEF Move, Keeps
<1> QED
  BY <1>1, ClientMoves, ReceiverMoves, ProcessorMoves, SenderMoves DEF Next

-----------------------------------------------------------------------------
(* The order of the line. *)

(* A packet between two parts of a sequence, and the sequence without it. *)
LEMMA TakeOut ==
    ASSUME NEW u \in Seq(Packet), NEW v \in Seq(Packet), NEW h \in Packet,
           NEW s, s = u \o (<<h>> \o v), NEW t, t = u \o v
    PROVE  /\ s \in Seq(Packet) /\ Len(s) = Len(u) + 1 + Len(v)
           /\ t \in Seq(Packet) /\ Len(t) = Len(u) + Len(v)
           /\ Len(u) \in Nat /\ Len(v) \in Nat
           /\ s[Len(u) + 1] = h
           /\ \A i \in 1 .. Len(u) : s[i] = u[i]
           /\ \A i \in 1 .. Len(u) + Len(v) :
                 t[i] = s[IF i <= Len(u) THEN i ELSE i + 1]
<1> DEFINE w == <<h>> \o v
<1>1. /\ <<h>> \in Seq(Packet) /\ Len(<<h>>) = 1 /\ <<h>>[1] = h
      /\ Len(u) \in Nat /\ Len(v) \in Nat
  OBVIOUS
<1>2. /\ w \in Seq(Packet) /\ Len(w) = 1 + Len(v)
      /\ \A i \in 1 .. 1 + Len(v) : w[i] = IF i <= 1 THEN h ELSE v[i - 1]
  BY <1>1, ConcatProperties
<1> HIDE DEF w
<1>3. /\ s \in Seq(Packet) /\ Len(s) = Len(u) + (1 + Len(v))
      /\ \A i \in 1 .. Len(u) + (1 + Len(v)) :
            s[i] = IF i <= Len(u) THEN u[i] ELSE w[i - Len(u)]
  <2>1. s = u \o w
    BY DEF w
  <2>2. /\ u \o w \in Seq(Packet) /\ Len(u \o w) = Len(u) + Len(w)
        /\ \A i \in 1 .. Len(u) + Len(w) :
              (u \o w)[i] = IF i <= Len(u) THEN u[i] ELSE w[i - Len(u)]
    BY <1>2, ConcatProperties
  <2>3. Len(w) = 1 + Len(v)
    BY <1>2
  <2> QED
    BY ONLY <2>1, <2>2, <2>3
<1>4. /\ t \in Seq(Packet) /\ Len(t) = Len(u) + Len(v)
      /\ \A i \in 1 .. Len(u) + Len(v) : t[i] = IF i <= Len(u) THEN u[i] ELSE v[i - Len(u)]
  BY ConcatProperties
<1>5. s[Len(u) + 1] = h
  <2>1. Len(u) + 1 \in 1 .. Len(u) + (1 + Len(v)) /\ (Len(u) + 1) - Len(u) = 1
    BY ONLY <1>1
  <2>2. s[Len(u) + 1] = w[(Len(u) + 1) - Len(u)]
    BY ONLY <1>1, <1>3, <2>1
  <2>3. w[1] = h
    BY ONLY <1>1, <1>2
  <2> QED
    BY ONLY <2>1, <2>2, <2>3
<1>6. ASSUME NEW i \in 1 .. Len(u) + Len(v)
      PROVE  t[i] = s[IF i <= Len(u) THEN i ELSE i + 1]
  <2>0. i \in 1 .. Len(u) + Len(v) /\ i \in Nat
    BY <1>1, <1>6
  <2>1. CASE i <= Len(u)
    BY ONLY <1>1, <1>3, <1>4, <2>0, <2>1
  <2>2. CASE i > Len(u)
    <3>1. s[i + 1] = w[(i + 1) - Len(u)]
      BY ONLY <1>1, <1>3, <2>0, <2>2
    <3>2. w[(i + 1) - Len(u)] = v[((i + 1) - Len(u)) - 1]
      BY ONLY <1>1, <1>2, <2>0, <2>2
    <3>3. ((i + 1) - Len(u)) - 1 = i - Len(u)
      BY ONLY <1>1, <2>0
    <3>4. t[i] = v[i - Len(u)]
      BY ONLY <1>1, <1>4, <2>0, <2>2
    <3> QED
      BY ONLY <1>1, <2>0, <2>2, <3>1, <3>2, <3>3, <3>4
  <2>3. i <= Len(u) \/ i > Len(u)
    BY ONLY <1>1, <2>0
  <2> QED
    BY <2>1, <2>2, <2>3
<1>7. \A i \in 1 .. Len(u) : s[i] = u[i]
  BY ONLY <1>1, <1>3
<1>8. Len(s) = Len(u) + 1 + Len(v)
  BY ONLY <1>1, <1>3
<1> QED
  BY ONLY <1>1, <1>3, <1>4, <1>5, <1>6, <1>7, <1>8

LEMMA TakingKeepsOrder ==
    ASSUME NEW u \in Seq(Packet), NEW v \in Seq(Packet), NEW h \in Packet, NEW n,
           Increasing(Cat(u, Cat(<<h>>, v))), Below(Cat(u, Cat(<<h>>, v)), n)
    PROVE  Increasing(Cat(u, v)) /\ Below(Cat(u, v), n)
<1> DEFINE s == u \o (<<h>> \o v)
           t == u \o v
           at(i) == IF i <= Len(u) THEN i ELSE i + 1
<1>1. /\ DOMAIN s = 1 .. Len(u) + 1 + Len(v) /\ DOMAIN t = 1 .. Len(u) + Len(v)
      /\ Len(u) \in Nat /\ Len(v) \in Nat
      /\ \A i \in 1 .. Len(u) + Len(v) : t[i] = s[at(i)]
  <2>1. /\ s \in Seq(Packet) /\ Len(s) = Len(u) + 1 + Len(v)
        /\ t \in Seq(Packet) /\ Len(t) = Len(u) + Len(v)
        /\ Len(u) \in Nat /\ Len(v) \in Nat
        /\ \A i \in 1 .. Len(u) + Len(v) : t[i] = s[at(i)]
    BY TakeOut
  <2> HIDE DEF s, t
  <2> QED
    BY <2>1
<1>2. Increasing(s) /\ Below(s, n)
  BY DEF Cat
<1> HIDE DEF s, t
<1>3. \A i, j \in 1 .. Len(u) + Len(v) :
        /\ at(i) \in 1 .. Len(u) + 1 + Len(v)
        /\ i < j => at(i) < at(j)
  BY <1>1
<1> HIDE DEF at
<1>4. Increasing(t) /\ Below(t, n)
  BY ONLY <1>1, <1>2, <1>3 DEF Increasing, Below
<1> QED
  BY <1>4 DEF t, Cat

LEMMA JoiningKeepsOrder ==
    ASSUME NEW s \in Seq(Packet), NEW n \in Packet, Increasing(s), Below(s, n)
    PROVE  Increasing(Cat(s, <<n>>)) /\ Below(Cat(s, <<n>>), n + 1)
<1> DEFINE t == s \o <<n>>
<1>1. /\ DOMAIN s = 1 .. Len(s) /\ Len(s) \in Nat /\ n \in Nat
      /\ \A i \in 1 .. Len(s) : s[i] \in Nat
  BY ServerAssumption
<1>2. /\ DOMAIN t = 1 .. Len(s) + 1
      /\ \A i \in 1 .. Len(s) : t[i] = s[i]
      /\ t[Len(s) + 1] = n
  <2>1. <<n>> \in Seq(Packet) /\ Len(<<n>>) = 1 /\ <<n>>[1] = n
    OBVIOUS
  <2>2. /\ t \in Seq(Packet) /\ Len(t) = Len(s) + 1
        /\ \A i \in 1 .. Len(s) + 1 : t[i] = IF i <= Len(s) THEN s[i] ELSE <<n>>[i - Len(s)]
    BY <2>1, ConcatProperties
  <2> HIDE DEF t
  <2> QED
    BY <1>1, <2>1, <2>2
<1> HIDE DEF t
<1>3. \A i \in 1 .. Len(s) : s[i] < n
  BY <1>1 DEF Below
<1>4. Below(t, n + 1)
  BY <1>1, <1>2, <1>3 DEF Below
<1>5. Increasing(t)
  <2>1. \A i, j \in 1 .. Len(s) : i < j => s[i] < s[j]
    BY <1>1 DEF Increasing
  <2> QED
    BY ONLY <1>1, <1>2, <1>3, <2>1 DEF Increasing
<1> QED
  BY <1>4, <1>5 DEF t, Cat

(* What comes later in the line is not in what comes before. *)
LEMMA NotBefore ==
    ASSUME NEW u \in Seq(Packet), NEW v \in Seq(Packet), NEW h \in Packet,
           Increasing(Cat(u, Cat(<<h>>, v)))
    PROVE  \A i \in 1 .. Len(u) : u[i] # h
<1> DEFINE s == u \o (<<h>> \o v)
<1>1. /\ DOMAIN s = 1 .. Len(u) + 1 + Len(v) /\ Len(u) \in Nat /\ Len(v) \in Nat
      /\ s[Len(u) + 1] = h
      /\ \A i \in 1 .. Len(u) : s[i] = u[i]
  <2>1. /\ s \in Seq(Packet) /\ Len(s) = Len(u) + 1 + Len(v)
        /\ Len(u) \in Nat /\ Len(v) \in Nat /\ s[Len(u) + 1] = h
        /\ \A i \in 1 .. Len(u) : s[i] = u[i]
    BY TakeOut
  <2> HIDE DEF s
  <2> QED
    BY <2>1
<1>2. Increasing(s) /\ h \in Nat
  BY ServerAssumption DEF Cat
<1> HIDE DEF s
<1>3. \A i \in 1 .. Len(u) : s[i] < s[Len(u) + 1]
  BY <1>1, <1>2 DEF Increasing
<1> QED
  BY <1>1, <1>2, <1>3

(* The line before and after a move, cut where the packet is. *)
LEMMA Rearranged ==
    ASSUME NEW s \in Seq(Packet), NEW i \in Seq(Packet), NEW k \in Seq(Packet),
           NEW x \in Seq(Packet)
    PROVE  /\ Cat(Cat(s, i), Cat(k, x)) = Cat(Cat(Cat(s, i), k), x)
           /\ Cat(Cat(s, i), Cat(x, k)) = Cat(Cat(s, Cat(i, x)), k)
           /\ Cat(Cat(s, Cat(x, i)), k) = Cat(Cat(Cat(s, x), i), k)
BY Cats, Regroup, SMTT(60)

LEMMA RearrangedAround ==
    ASSUME NEW s \in Seq(Packet), NEW p \in Seq(Packet), NEW q \in Seq(Packet),
           NEW k \in Seq(Packet), NEW x \in Seq(Packet)
    PROVE  /\ Cat(Cat(s, Cat(Cat(p, x), q)), k) = Cat(Cat(s, p), Cat(x, Cat(q, k)))
           /\ Cat(Cat(s, Cat(p, q)), k) = Cat(Cat(s, p), Cat(q, k))
<1>1. ASSUME NEW r \in Seq(Packet)
      PROVE  Cat(Cat(s, Cat(p, r)), k) = Cat(Cat(s, p), Cat(r, k))
  BY Cats, Regroup
<1>2. Cat(Cat(p, x), q) = Cat(p, Cat(x, q)) /\ Cat(Cat(x, q), k) = Cat(x, Cat(q, k))
  BY Regroup
<1>3. Cat(x, q) \in Seq(Packet)
  BY Cats
<1> QED
  BY <1>1, <1>2, <1>3

LEMMA LineTypes == TypeOK => Typed
BY IdsTyped DEF Typed

LEMMA MoveKeepsOrder ==
    ASSUME Typed, Typed', Ordered, Move, next \in Nat
    PROVE  Ordered'
<1>1. /\ Ids(sent) \in Seq(Packet) /\ InService \in Seq(Packet)
      /\ Ids(sock) \in Seq(Packet) /\ Ids(sent)' \in Seq(Packet)
      /\ InService' \in Seq(Packet) /\ Ids(sock)' \in Seq(Packet)
      /\ \A x \in Packet : <<x>> \in Seq(Packet)
  BY DEF Typed
<1>2. Line \in Seq(Packet)
  BY <1>1, Cats DEF Line
<1>3. Increasing(Line) /\ Below(Line, next)
  BY DEF Ordered
<1>4. CASE Keeps
  <2>1. Line' = Line /\ next' \in {next, next + 1}
    BY <1>4 DEF Keeps, Line
  <2>2. \A i \in DOMAIN Line : Line[i] \in Nat
    BY <1>2, ServerAssumption
  <2>3. Below(Line, next')
    BY <1>3, <2>1, <2>2 DEF Below
  <2> QED
    BY <1>3, <2>1, <2>3 DEF Ordered
<1>5. CASE Joins
  <2>1. Line' = Cat(Cat(Ids(sent), InService), Cat(Ids(sock), <<next>>)) /\ next \in Packet
    BY <1>5 DEF Joins, Line
  <2>2. Line' = Cat(Line, <<next>>)
    <3> DEFINE S == Ids(sent)
               I == InService
               K == Ids(sock)
               X == <<next>>
    <3>1. /\ S \in Seq(Packet)
          /\ I \in Seq(Packet)
          /\ K \in Seq(Packet)
          /\ X \in Seq(Packet)
      BY <1>1, <2>1
    <3> HIDE DEF S, I, K, X
    <3>2. Cat(Cat(S, I), Cat(K, X)) = Cat(Cat(Cat(S, I), K), X)
      BY ONLY <3>1, Rearranged
    <3> QED
      BY ONLY <2>1, <3>2 DEF S, I, K, X, Line
  <2> QED
    BY <1>2, <1>3, <1>5, <2>1, <2>2, JoiningKeepsOrder DEF Joins, Ordered
<1>6. ASSUME NEW h \in Packet, Enters(h)
      PROVE  Ordered'
  <2>1. /\ Line = Cat(Cat(Ids(sent), InService), Cat(<<h>>, Ids(sock)'))
        /\ Line' = Cat(Cat(Ids(sent), Cat(InService, <<h>>)), Ids(sock)')
        /\ next' = next
    BY <1>6 DEF Enters, Line
  <2>2. Line' = Line
    <3> DEFINE S == Ids(sent)
               I == InService
               K == Ids(sock)'
               X == <<h>>
    <3>1. /\ S \in Seq(Packet)
          /\ I \in Seq(Packet)
          /\ K \in Seq(Packet)
          /\ X \in Seq(Packet)
      BY <1>1
    <3> HIDE DEF S, I, K, X
    <3>2. Cat(Cat(S, I), Cat(X, K)) = Cat(Cat(S, Cat(I, X)), K)
      BY ONLY <3>1, Rearranged
    <3> QED
      BY ONLY <2>1, <3>2 DEF S, I, K, X
  <2> QED
    BY <1>3, <2>1, <2>2 DEF Ordered
<1>7. ASSUME NEW h \in Packet, Leaves(h)
      PROVE  Ordered'
  <2>1. /\ Line = Cat(Cat(Ids(sent), Cat(<<h>>, InService')), Ids(sock))
        /\ Line' = Cat(Cat(Cat(Ids(sent), <<h>>), InService'), Ids(sock))
        /\ next' = next
    BY <1>7 DEF Leaves, Line
  <2>2. Line' = Line
    <3> DEFINE S == Ids(sent)
               I == InService'
               K == Ids(sock)
               X == <<h>>
    <3>1. /\ S \in Seq(Packet)
          /\ I \in Seq(Packet)
          /\ K \in Seq(Packet)
          /\ X \in Seq(Packet)
      BY <1>1
    <3> HIDE DEF S, I, K, X
    <3>2. Cat(Cat(S, Cat(X, I)), K) = Cat(Cat(Cat(S, X), I), K)
      BY ONLY <3>1, Rearranged
    <3> QED
      BY ONLY <2>1, <3>2 DEF S, I, K, X
  <2> QED
    BY <1>3, <2>1, <2>2 DEF Ordered
<1>8. ASSUME NEW p \in Seq(Packet), NEW q \in Seq(Packet), NEW h \in Packet,
             Vanishes(p, h, q)
      PROVE  Ordered'
  <2> DEFINE u == Cat(Ids(sent), p)
             v == Cat(q, Ids(sock))
  <2>1. /\ Line = Cat(Cat(Ids(sent), Cat(Cat(p, <<h>>), q)), Ids(sock))
        /\ Line' = Cat(Cat(Ids(sent), Cat(p, q)), Ids(sock))
        /\ next' = next
    BY <1>8 DEF Vanishes, Line
  <2>2. u \in Seq(Packet) /\ v \in Seq(Packet)
    BY <1>1, Cats
  <2>3. Line = Cat(u, Cat(<<h>>, v)) /\ Line' = Cat(u, v)
    <3> DEFINE S == Ids(sent)
               K == Ids(sock)
               X == <<h>>
    <3>1. /\ S \in Seq(Packet)
          /\ K \in Seq(Packet)
          /\ X \in Seq(Packet)
      BY <1>1
    <3> HIDE DEF S, K, X
    <3>2. /\ Cat(Cat(S, Cat(Cat(p, X), q)), K) = Cat(Cat(S, p), Cat(X, Cat(q, K)))
          /\ Cat(Cat(S, Cat(p, q)), K) = Cat(Cat(S, p), Cat(q, K))
      BY ONLY <3>1, RearrangedAround, p \in Seq(Packet), q \in Seq(Packet)
    <3> QED
      BY ONLY <2>1, <3>2 DEF S, K, X, u, v
  <2> HIDE DEF u, v
  <2>4. Increasing(Cat(u, v)) /\ Below(Cat(u, v), next)
    BY <1>3, <2>2, <2>3, TakingKeepsOrder
  <2> QED
    BY <2>1, <2>3, <2>4 DEF Ordered
<1> QED
  BY <1>4, <1>5, <1>6, <1>7, <1>8 DEF Move

-----------------------------------------------------------------------------
(* What the moves are to the reply server. *)

LEMMA CatIsAppend ==
    ASSUME NEW s \in Seq(Packet), NEW x \in Packet
    PROVE  Cat(s, <<x>>) = Append(s, x)
BY DEF Cat

LEMMA CatIsCons ==
    ASSUME NEW s \in Seq(Packet), NEW x \in Packet, NEW t, t = Cat(<<x>>, s)
    PROVE  t # <<>> /\ Head(t) = x /\ Tail(t) = s
<1>1. <<x>> \in Seq(Packet) /\ Len(<<x>>) = 1 /\ <<x>>[1] = x /\ Len(s) \in Nat
  OBVIOUS
<1>2. /\ t \in Seq(Packet) /\ Len(t) = 1 + Len(s)
      /\ \A i \in 1 .. 1 + Len(s) : t[i] = IF i <= 1 THEN x ELSE s[i - 1]
  BY <1>1, ConcatProperties DEF Cat
<1>3. t # <<>> /\ Head(t) = x
  BY ONLY <1>1, <1>2
<1>4. /\ Tail(t) \in Seq(Packet) /\ Len(Tail(t)) = Len(s)
      /\ \A i \in 1 .. Len(s) : Tail(t)[i] = s[i]
  <2>1. /\ Tail(t) \in Seq(Packet) /\ Len(Tail(t)) = Len(t) - 1
        /\ \A i \in 1 .. Len(Tail(t)) : Tail(t)[i] = t[i + 1]
    BY <1>2, <1>3, HeadTailProperties
  <2>2. Len(Tail(t)) = Len(s)
    BY <1>1, <1>2, <2>1
  <2>3. \A i \in 1 .. Len(s) : Tail(t)[i] = s[i]
    BY ONLY <1>1, <1>2, <2>1, <2>2
  <2> QED
    BY <2>1, <2>2, <2>3
<1>5. Tail(t) = s
  BY <1>4, SeqEqual
<1> QED
  BY <1>3, <1>5

LEMMA CatIsRemoval ==
    ASSUME NEW p \in Seq(Packet), NEW q \in Seq(Packet), NEW x \in Packet,
           NEW s, s = Cat(Cat(p, <<x>>), q), NEW i, i = Len(p) + 1
    PROVE  i \in DOMAIN s /\ SubSeq(s, 1, i - 1) \o SubSeq(s, i + 1, Len(s)) = Cat(p, q)
<1> DEFINE t == p \o q
           n == Len(p)
           m == Len(q)
<1>1. s = p \o (<<x>> \o q)
  <2>1. <<x>> \in Seq(Packet)
    OBVIOUS
  <2> QED
    BY <2>1, Assoc DEF Cat
<1>2. /\ s \in Seq(Packet) /\ Len(s) = n + 1 + m /\ n \in Nat /\ m \in Nat
      /\ DOMAIN s = 1 .. n + 1 + m
      /\ \A j \in 1 .. n : s[j] = p[j]
      /\ \A j \in 1 .. n + m : t[j] = s[IF j <= n THEN j ELSE j + 1]
  <2>1. /\ s \in Seq(Packet) /\ Len(s) = n + 1 + m /\ n \in Nat /\ m \in Nat
        /\ \A j \in 1 .. n : s[j] = p[j]
        /\ \A j \in 1 .. n + m : t[j] = s[IF j <= n THEN j ELSE j + 1]
    <3>1. p \in Seq(Packet) /\ q \in Seq(Packet) /\ x \in Packet /\ t = p \o q
      OBVIOUS
    <3> HIDE DEF t
    <3> QED
      BY ONLY <1>1, <3>1, TakeOut
  <2>2. DOMAIN s = 1 .. Len(s)
    BY <2>1
  <2> HIDE DEF t, n, m
  <2> QED
    BY ONLY <2>1, <2>2
<1>3. /\ t \in Seq(Packet)
      /\ \A j \in 1 .. n + m : t[j] = IF j <= n THEN p[j] ELSE q[j - n]
  BY ConcatProperties
<1>4. p \in Seq(Packet) /\ q \in Seq(Packet) /\ Len(p) = n /\ Len(q) = m /\ i = n + 1
  OBVIOUS
<1>5. t = Cat(p, q)
  BY DEF Cat
<1> HIDE DEF t, n, m
<1>6. SubSeq(s, 1, i - 1) = p
  <2>1. i - 1 = n /\ 1 \in Int /\ n \in Int /\ \A j \in 1 .. n : s[j] \in Packet
    BY ONLY <1>2, <1>4
  <2>2. /\ SubSeq(s, 1, n) \in Seq(Packet)
        /\ Len(SubSeq(s, 1, n)) = IF 1 <= n THEN n - 1 + 1 ELSE 0
        /\ \A j \in 1 .. n - 1 + 1 : SubSeq(s, 1, n)[j] = s[1 + j - 1]
    BY <2>1, SubSeqProperties
  <2>3. Len(SubSeq(s, 1, n)) = Len(p)
    BY ONLY <1>2, <1>4, <2>2
  <2>4. \A j \in 1 .. n : SubSeq(s, 1, n)[j] = p[j]
    <3> TAKE j \in 1 .. n
    <3>1. j \in 1 .. n - 1 + 1 /\ 1 + j - 1 = j
      BY <1>2
    <3> QED
      BY <1>2, <2>2, <3>1
  <2>5. SubSeq(s, 1, n) = p
    BY <1>4, <2>2, <2>3, <2>4, SeqEqual
  <2> QED
    BY <2>1, <2>5
<1>7. SubSeq(s, i + 1, Len(s)) = q
  <2> DEFINE r == SubSeq(s, n + 2, n + 1 + m)
  <2>1. i + 1 = n + 2 /\ n + 2 \in Int /\ n + 1 + m \in Int
        /\ \A j \in n + 2 .. n + 1 + m : s[j] \in Packet
    BY ONLY <1>2, <1>4
  <2>2. /\ r \in Seq(Packet)
        /\ Len(r) = IF n + 2 <= n + 1 + m THEN (n + 1 + m) - (n + 2) + 1 ELSE 0
        /\ \A j \in 1 .. (n + 1 + m) - (n + 2) + 1 : r[j] = s[(n + 2) + j - 1]
    BY <2>1, SubSeqProperties
  <2> HIDE DEF r
  <2>3. Len(r) = Len(q)
    BY ONLY <1>2, <1>4, <2>2
  <2>4. \A j \in 1 .. m : r[j] = q[j]
    <3> SUFFICES ASSUME NEW j \in 1 .. m PROVE r[j] = q[j]
      OBVIOUS
    <3>1. j \in 1 .. (n + 1 + m) - (n + 2) + 1 /\ (n + 2) + j - 1 = (n + j) + 1
      BY <1>2
    <3>2. n + j \in 1 .. n + m /\ ~ (n + j <= n) /\ (n + j) - n = j
      BY <1>2
    <3>3. r[j] = s[(n + j) + 1]
      BY ONLY <2>2, <3>1
    <3>4. t[n + j] = s[(n + j) + 1]
      BY ONLY <1>2, <3>2
    <3>5. t[n + j] = q[j]
      BY ONLY <1>3, <3>2
    <3> QED
      BY ONLY <3>3, <3>4, <3>5
  <2>5. r = q
    BY <1>4, <2>2, <2>3, <2>4, SeqEqual
  <2> QED
    BY <1>2, <2>1, <2>5 DEF r
<1>8. i \in DOMAIN s
  BY ONLY <1>2, <1>4
<1> QED
  BY <1>5, <1>6, <1>7, <1>8 DEF t

LEMMA MoveIsAbstract ==
    ASSUME Typed, Typed', Ordered, Move
    PROVE  Abstract!Next \/ UNCHANGED <<InService, Ids(sent)>>
<1>1. /\ Ids(sent) \in Seq(Packet) /\ InService \in Seq(Packet)
      /\ Ids(sock)' \in Seq(Packet) /\ InService' \in Seq(Packet)
  BY DEF Typed
<1>2. CASE Keeps \/ Joins
  BY <1>2 DEF Keeps, Joins
<1>3. ASSUME NEW h \in Packet, Enters(h)
      PROVE  Abstract!Accept(h)
  <2> DEFINE u == Cat(Ids(sent), InService)
  <2>1. Line = Cat(u, Cat(<<h>>, Ids(sock)')) /\ u \in Seq(Packet)
    BY <1>1, <1>3, Cats DEF Line, Enters
  <2> HIDE DEF u
  <2>2. \A i \in 1 .. Len(u) : u[i] # h
    BY <1>1, <2>1, NotBefore DEF Ordered
  <2>3. /\ Len(u) = Len(Ids(sent)) + Len(InService)
        /\ \A i \in 1 .. Len(Ids(sent)) + Len(InService) :
              u[i] = IF i <= Len(Ids(sent)) THEN Ids(sent)[i]
                                            ELSE InService[i - Len(Ids(sent))]
    BY <1>1, ConcatProperties DEF u, Cat
  <2>4. \A i \in DOMAIN Ids(sent) : Ids(sent)[i] # h
    BY ONLY <1>1, <2>2, <2>3, SMTT(60)
  <2>5. \A i \in DOMAIN InService : InService[i] # h
    <3> DEFINE a == Len(Ids(sent))
               b == Len(InService)
    <3>1. a \in Nat /\ b \in Nat /\ DOMAIN InService = 1 .. b
      BY <1>1
    <3> HIDE DEF a, b
    <3> SUFFICES ASSUME NEW i \in 1 .. b PROVE InService[i] # h
      BY <3>1
    <3>2. a + i \in 1 .. a + b /\ ~ (a + i <= a) /\ (a + i) - a = i
      BY <3>1
    <3>3. u[a + i] = InService[(a + i) - a] /\ a + i \in 1 .. Len(u)
      BY ONLY <2>3, <3>2 DEF a, b
    <3> QED
      BY ONLY <2>2, <3>2, <3>3
  <2>6. InService' = Append(InService, h) /\ Ids(sent)' = Ids(sent)
    BY <1>1, <1>3, CatIsAppend DEF Enters
  <2> QED
    BY <2>4, <2>5, <2>6 DEF Abstract!Accept, Abstract!ToSet
<1>4. ASSUME NEW h \in Packet, Leaves(h)
      PROVE  Abstract!Answer
  <2>1. InService # <<>> /\ Head(InService) = h /\ Tail(InService) = InService'
    BY <1>1, <1>4, CatIsCons DEF Leaves
  <2>2. Ids(sent)' = Append(Ids(sent), h)
    BY <1>1, <1>4, CatIsAppend DEF Leaves
  <2> QED
    BY <2>1, <2>2 DEF Abstract!Answer
<1>5. ASSUME NEW p \in Seq(Packet), NEW q \in Seq(Packet), NEW h \in Packet,
             Vanishes(p, h, q)
      PROVE  \E i \in DOMAIN InService : Abstract!Drop(i)
  <2> DEFINE i == Len(p) + 1
  <2>1. InService = Cat(Cat(p, <<h>>), q) /\ InService' = Cat(p, q) /\ Ids(sent)' = Ids(sent)
    BY <1>5 DEF Vanishes
  <2>2. /\ i \in DOMAIN InService
        /\ SubSeq(InService, 1, i - 1) \o SubSeq(InService, i + 1, Len(InService)) = Cat(p, q)
    BY <2>1, CatIsRemoval
  <2> HIDE DEF i
  <2>3. Abstract!Drop(i)
    BY <2>1, <2>2 DEF Abstract!Drop, Abstract!RemoveAt
  <2> QED
    BY <2>2, <2>3
<1> QED
  BY <1>2, <1>3, <1>4, <1>5 DEF Move, Abstract!Next

-----------------------------------------------------------------------------
LEMMA InitOrdered == Init => Abstract!Init /\ Ordered
<1> SUFFICES ASSUME Init PROVE Abstract!Init /\ Ordered
  OBVIOUS
<1>1. /\ Ids(sent) = <<>> /\ Ids(sock) = <<>> /\ Ids(txq) = <<>> /\ Ids(rxq) = <<>>
      /\ Held(tx.reply) = <<>> /\ Held(cur) = <<>> /\ Held(rx.pkt) = <<>>
  BY DEF Init, Ids, Held
<1>2. InService = <<>> /\ Line = <<>>
  BY <1>1 DEF InService, Line, Cat
<1> QED
  BY <1>1, <1>2 DEF Abstract!Init, Ordered, Increasing, Below

LEMMA StepOrdered ==
    IInv /\ IInv' /\ Ordered /\ [Next]_vars
        => Ordered' /\ [Abstract!Next]_<<InService, Ids(sent)>>
<1>1. IInv => Typed /\ Places /\ TypeOK /\ next \in Nat
  BY LineTypes, ServerAssumption DEF IInv, TypeOK
<1>2. IInv' => Typed'
  BY <1>1, PTL
<1> SUFFICES ASSUME IInv, IInv', Ordered, [Next]_vars
             PROVE  Ordered' /\ [Abstract!Next]_<<InService, Ids(sent)>>
  OBVIOUS
<1>3. Typed /\ Typed' /\ Move
  BY <1>1, <1>2, EveryStepMoves
<1> QED
  BY <1>1, <1>3, MoveKeepsOrder, MoveIsAbstract

(* Every behaviour of the threads, their queues and the device is one of a  *)
(* server that answers the packets it took from the socket in the order of  *)
(* taking them, each at most once, and answers nothing else.                *)
THEOREM ServerImplementsReplyServer == Spec => ImplementsReplyServer
BY InitOrdered, StepOrdered, ServerInvariant, PTL
   DEF Spec, ImplementsReplyServer, Abstract!Spec

-----------------------------------------------------------------------------
(* To which packet the results of the PL go.  A feature record and a score  *)
(* carry nothing that says whose they are: what is proved follows from the  *)
(* order of things and from counting what was abandoned.                    *)

Items(s) == {s[i] : i \in DOMAIN s}

(* The replies behind the processor, those and the one it works on, and the *)
(* datagrams in front of it.                                                *)
Out == Items(sent) \cup Items(txq) \cup ({tx.reply} \ {None})
All == Out \cup ({cur} \ {None})
Inbound == Items(rxq) \cup Items(sock) \cup ({rx.pkt} \ {None})

(* The last packet whose result a channel has moved to memory, or none. *)
Seen(channel) == IF channel.buf = None THEN 0 ELSE channel.buf

-----------------------------------------------------------------------------
(* Packets pass the device in the order of the server.                      *)
Chain(channel, queue) ==
    /\ Increasing(queue)
    /\ \A d \in Items(queue) : Seen(channel) < d
    /\ mm2s # None => /\ Seen(channel) < mm2s
                      /\ \A d \in Items(queue) : d < mm2s

InDevice ==
    Items(feats) \cup Items(scores) \cup ({mm2s, dma_out.buf, dma_score.buf} \ {None})

DeviceInOrder ==
    /\ Chain(dma_out, feats)
    /\ Chain(dma_score, scores)
    /\ \A d \in InDevice :
          /\ d < next
          /\ \A x \in Inbound : d < x.id
          /\ cur # None => d <= cur.id
          /\ proc = "start" => d < cur.id

(* What the processor holds at each of its places. *)
AtWork ==
    /\ proc \in {"start", "poll", "drain", "score", "read", "fallback"}
          => cur.feat = PS /\ cur.score = None
    /\ dma_out.ioc \/ proc \in {"drain", "score", "read"} => dma_out.buf # None
    /\ ~ HasPL => proc \in {"get", "fallback", "put"} /\ imb = None
    /\ ~ cserver => imb = None
    /\ dma_score.busy => ~ dma_score.err
    /\ dma_out.busy => ~ dma_out.err

(* A reply is never newer than what the channels, and the variables of the  *)
(* processor, have seen.                                                    *)
RepliesInOrder ==
    /\ imb # None => dma_out.buf # None /\ imb <= dma_out.buf
    /\ \A r \in All :
          /\ r.feat \in Packet =>
                /\ dma_out.buf # None /\ r.feat <= dma_out.buf
                /\ cserver => imb # None /\ r.feat <= imb
          /\ r.score \in Packet => dma_score.buf # None /\ r.score <= dma_score.buf
    /\ \A r, s \in All : r.id < s.id =>
          /\ {r.feat, s.feat} \subseteq Packet => r.feat <= s.feat
          /\ {r.score, s.score} \subseteq Packet => r.score <= s.score

(* Packets of deltas that are in the processor or answered. *)
DeltaIds == {r.id : r \in {s \in All : s.feat # None}}

After(b) == {i \in DeltaIds : b < i}

UpTo(b, c) == {i \in After(b) : i <= c}

Pipelined == Packet \cap (Items(feats) \cup {mm2s})

Abandoned == stats["pl_timeouts"] + stats["pl_errors"]

(* Where the packet in progress may still be abandoned, may still come to   *)
(* nothing, and whether its completion waits to be seen.                    *)
Arming == One(proc \in {"start", "poll"})
Pending == One(proc \in {"start", "poll", "drain", "score", "read"})
Completed == One(dma_out.ioc)

(* What the feature buffer does not show yet. *)
Behind == After(Seen(dma_out)) \cup Pipelined

(* How far the feature buffer is behind: no further than transfers were     *)
(* abandoned, one less when a completion waits to be seen, one more while   *)
(* the packet in progress may still be abandoned.                           *)
BufferLag == HasPL => Cardinality(Behind) + Completed <= Abandoned + Arming

(* The same of the values that feature_echo_c.py falls back to. *)
FallbackLag == imb # None => Cardinality(After(imb)) <= Abandoned + Pending

ReplyLag ==
    \A r \in All : r.feat \in Packet =>
        /\ r.feat <= r.id
        /\ Cardinality(UpTo(r.feat, r.id)) <= Abandoned

(* Where the packet in progress is while nothing was abandoned.             *)
OutIdle == ~ dma_out.busy /\ ~ dma_out.ioc /\ ~ dma_out.err
ScoreIdle == ~ dma_score.busy /\ ~ dma_score.ioc

Idle == mm2s = None /\ feats = <<>> /\ scores = <<>> /\ OutIdle /\ ScoreIdle

Streaming ==
    /\ ScoreIdle
    /\ \/ /\ mm2s = cur.id /\ feats = <<>> /\ scores = <<>>
          /\ ~ dma_out.ioc
       \/ /\ mm2s = None /\ feats = <<cur.id>> /\ scores = <<cur.id>>
          /\ ~ dma_out.ioc
       \/ /\ mm2s = None /\ feats = <<>> /\ scores = <<cur.id>>
          /\ ~ dma_out.busy /\ ~ dma_out.err

Streamed == mm2s = None /\ feats = <<>> /\ scores = <<cur.id>> /\ OutIdle /\ ScoreIdle

Draining ==
    /\ mm2s = None /\ feats = <<>> /\ OutIdle
    /\ \/ ~ dma_score.ioc /\ scores = <<cur.id>>
       \/ ~ dma_score.busy /\ dma_score.buf = cur.id /\ scores = <<>>

AtPlace ==
    /\ proc \in {"get", "start", "read", "fallback", "put"} => Idle
    /\ proc = "poll" => Streaming
    /\ proc = "drain" => Streamed
    /\ proc = "score" => Draining
    /\ proc = "read" => dma_score.buf = cur.id

Traced ==
    Undisturbed /\ missed = 0 => AtPlace /\ \A r \in All : r.score \in {r.id, None}

(* A score queue that is full will be emptied, if somebody drains it: a      *)
(* feature record is on its way, or seen, or the drain is under way.        *)
FullIsDrained ==
    HasScore /\ Len(scores) = ScoreCap /\ ~ dma_out.err /\ ~ dma_score.err =>
        feats # <<>> \/ dma_out.ioc \/ proc = "drain" \/ dma_score.busy

ResultsInv ==
    /\ Ordered /\ AtWork /\ DeviceInOrder /\ RepliesInOrder
    /\ BufferLag /\ FallbackLag /\ ReplyLag /\ Traced /\ FullIsDrained

-----------------------------------------------------------------------------
(* Sequences as sets of their items. *)

LEMMA ItemsOf ==
    ASSUME NEW S, NEW s \in Seq(S)
    PROVE  /\ Items(s) \subseteq S
           /\ \A x \in S : Items(Append(s, x)) = Items(s) \cup {x}
           /\ s # <<>> => /\ Head(s) \in Items(s)
                          /\ Items(s) = {Head(s)} \cup Items(Tail(s))
<1>1. \A t \in Seq(S) : /\ DOMAIN t = 1 .. Len(t) /\ Len(t) \in Nat
                        /\ \A i \in 1 .. Len(t) : t[i] \in S
  OBVIOUS
<1>2. ASSUME NEW x \in S
      PROVE  Items(Append(s, x)) = Items(s) \cup {x}
  <2>1. /\ Append(s, x) \in Seq(S) /\ Len(Append(s, x)) = Len(s) + 1
        /\ \A i \in 1 .. Len(s) : Append(s, x)[i] = s[i]
        /\ Append(s, x)[Len(s) + 1] = x
    OBVIOUS
  <2>2. Len(s) \in Nat
    OBVIOUS
  <2>3. \A i \in 1 .. Len(s) + 1 : i \in 1 .. Len(s) \/ i = Len(s) + 1
    BY <2>2
  <2>4. 1 .. Len(s) \subseteq 1 .. Len(s) + 1 /\ Len(s) + 1 \in 1 .. Len(s) + 1
    BY <2>2
  <2> DEFINE t == Append(s, x)
  <2> HIDE DEF t
  <2>5. DOMAIN t = 1 .. Len(s) + 1 /\ DOMAIN s = 1 .. Len(s)
    BY <1>1, <2>1 DEF t
  <2>6. (\A i \in 1 .. Len(s) : t[i] = s[i]) /\ t[Len(s) + 1] = x
    BY <2>1 DEF t
  <2>7. Items(t) = Items(s) \cup {x}
    BY ONLY <2>3, <2>4, <2>5, <2>6, Zenon DEF Items
  <2> QED
    BY <2>7 DEF t
<1>3. ASSUME s # <<>>
      PROVE  Head(s) \in Items(s) /\ Items(s) = {Head(s)} \cup Items(Tail(s))
  <2> DEFINE t == Tail(s)
  <2>1. /\ t \in Seq(S) /\ Len(t) = Len(s) - 1 /\ Len(s) \in Nat /\ Len(s) >= 1
        /\ Head(s) = s[1]
        /\ \A i \in 1 .. Len(s) - 1 : t[i] = s[i + 1]
    BY <1>3
  <2>2. DOMAIN t = 1 .. Len(s) - 1 /\ DOMAIN s = 1 .. Len(s)
    BY <1>1, <2>1
  <2> HIDE DEF t
  <2>3. 1 \in 1 .. Len(s) /\ \A i \in 1 .. Len(s) - 1 : i + 1 \in 1 .. Len(s)
    BY <2>1
  <2>4. \A i \in 1 .. Len(s) : i # 1 => \E j \in 1 .. Len(s) - 1 : i = j + 1
    <3> SUFFICES ASSUME NEW i \in 1 .. Len(s), i # 1
                 PROVE  \E j \in 1 .. Len(s) - 1 : i = j + 1
      OBVIOUS
    <3>1. i - 1 \in 1 .. Len(s) - 1 /\ i = (i - 1) + 1
      BY <2>1
    <3> QED
      BY <3>1
  <2>5. Head(s) \in Items(s)
    BY <2>1, <2>2, <2>3 DEF Items
  <2>6. \A y \in Items(t) : y \in Items(s)
    BY <2>1, <2>2, <2>3 DEF Items
  <2>7. \A y \in Items(s) : y = Head(s) \/ y \in Items(t)
    <3> SUFFICES ASSUME NEW i \in 1 .. Len(s), i # 1 PROVE s[i] \in Items(t)
      BY <2>1, <2>2 DEF Items
    <3>1. PICK j \in 1 .. Len(s) - 1 : i = j + 1
      BY <2>4
    <3>2. t[j] = s[i]
      BY <2>1, <3>1
    <3> QED
      BY <2>2, <3>2 DEF Items
  <2> QED
    BY <2>5, <2>6, <2>7 DEF t
<1>4. Items(s) \subseteq S
  BY <1>1 DEF Items
<1> QED
  BY <1>2, <1>3, <1>4

LEMMA CatOrder ==
    ASSUME NEW p \in Seq(Packet), NEW q \in Seq(Packet), Increasing(Cat(p, q))
    PROVE  /\ Increasing(p) /\ Increasing(q)
           /\ \A x \in Items(p), y \in Items(q) : x < y
           /\ Items(Cat(p, q)) = Items(p) \cup Items(q)
<1> DEFINE s == Cat(p, q)
<1>1. /\ DOMAIN p = 1 .. Len(p) /\ DOMAIN q = 1 .. Len(q)
      /\ Len(p) \in Nat /\ Len(q) \in Nat
  OBVIOUS
<1>2. /\ DOMAIN s = 1 .. Len(p) + Len(q)
      /\ \A i \in 1 .. Len(p) + Len(q) : s[i] = IF i <= Len(p) THEN p[i] ELSE q[i - Len(p)]
  <2>1. /\ p \o q \in Seq(Packet) /\ Len(p \o q) = Len(p) + Len(q)
        /\ \A i \in 1 .. Len(p) + Len(q) :
              (p \o q)[i] = IF i <= Len(p) THEN p[i] ELSE q[i - Len(p)]
    BY ConcatProperties
  <2> QED
    BY <2>1 DEF Cat
<1>3. Increasing(s)
  OBVIOUS
<1> HIDE DEF s
<1>4. \A i \in 1 .. Len(p) : i \in 1 .. Len(p) + Len(q) /\ s[i] = p[i]
  BY <1>1, <1>2
<1>5. \A j \in 1 .. Len(q) : Len(p) + j \in 1 .. Len(p) + Len(q) /\ s[Len(p) + j] = q[j]
  <2> SUFFICES ASSUME NEW j \in 1 .. Len(q)
               PROVE  Len(p) + j \in 1 .. Len(p) + Len(q) /\ s[Len(p) + j] = q[j]
    OBVIOUS
  <2>1. /\ Len(p) + j \in 1 .. Len(p) + Len(q) /\ ~ (Len(p) + j <= Len(p))
        /\ (Len(p) + j) - Len(p) = j
    BY <1>1
  <2>2. s[Len(p) + j] = q[(Len(p) + j) - Len(p)]
    BY ONLY <1>2, <2>1
  <2> QED
    BY ONLY <2>1, <2>2
<1>6. \A i \in 1 .. Len(p) + Len(q) :
        \/ i \in 1 .. Len(p)
        \/ \E j \in 1 .. Len(q) : i = Len(p) + j
  <2> SUFFICES ASSUME NEW i \in 1 .. Len(p) + Len(q), i \notin 1 .. Len(p)
               PROVE  \E j \in 1 .. Len(q) : i = Len(p) + j
    OBVIOUS
  <2>1. i - Len(p) \in 1 .. Len(q) /\ i = Len(p) + (i - Len(p))
    BY <1>1
  <2> QED
    BY <2>1
<1>7. Increasing(p)
  BY <1>1, <1>2, <1>3, <1>4 DEF Increasing
<1>8. Increasing(q)
  <2> SUFFICES ASSUME NEW i \in 1 .. Len(q), NEW j \in 1 .. Len(q), i < j
               PROVE  q[i] < q[j]
    BY <1>1 DEF Increasing
  <2>1. Len(p) + i < Len(p) + j
    BY <1>1
  <2> QED
    BY <1>2, <1>3, <1>5, <2>1 DEF Increasing
<1>9. \A x \in Items(p), y \in Items(q) : x < y
  <2> SUFFICES ASSUME NEW i \in 1 .. Len(p), NEW j \in 1 .. Len(q) PROVE p[i] < q[j]
    BY <1>1 DEF Items
  <2>1. i < Len(p) + j
    BY <1>1
  <2> QED
    BY <1>2, <1>3, <1>4, <1>5, <2>1 DEF Increasing
<1>10. Items(s) = Items(p) \cup Items(q)
  <2>1. \A x \in Items(s) : x \in Items(p) \cup Items(q)
    <3> SUFFICES ASSUME NEW i \in 1 .. Len(p) + Len(q)
                 PROVE  s[i] \in Items(p) \cup Items(q)
      BY <1>2 DEF Items
    <3>1. CASE i \in 1 .. Len(p)
      BY <1>1, <1>4, <3>1 DEF Items
    <3>2. CASE \E j \in 1 .. Len(q) : i = Len(p) + j
      BY <1>1, <1>5, <3>2 DEF Items
    <3> QED
      BY <1>6, <3>1, <3>2
  <2>2. \A x \in Items(p) \cup Items(q) : x \in Items(s)
    BY <1>1, <1>2, <1>4, <1>5 DEF Items
  <2> QED
    BY <2>1, <2>2
<1> QED
  BY <1>7, <1>8, <1>9, <1>10 DEF s

(* The places of the line, in order. *)
LEMMA PlacesInOrder ==
    ASSUME TypeOK, Ordered
    PROVE  /\ Increasing(Ids(sent)) /\ Increasing(Built) /\ Increasing(Waiting)
           /\ \A x \in Items(Ids(sent)) :
                 /\ \A y \in Items(Replying) \cup Items(Built) \cup Items(Working) : x < y
           /\ \A x \in Items(Replying) : \A y \in Items(Built) \cup Items(Working) : x < y
           /\ \A x \in Items(Built) : \A y \in Items(Working) : x < y
           /\ \A x \in Items(Working) :
                 /\ \A y \in Items(Waiting) \cup Items(Fetched) \cup Items(Ids(sock)) : x < y
                 /\ x < next
<1>1. /\ Ids(sent) \in Seq(Packet) /\ Ids(sock) \in Seq(Packet)
      /\ Replying \in Seq(Packet) /\ Built \in Seq(Packet)
      /\ Working \in Seq(Packet) /\ Waiting \in Seq(Packet)
      /\ Fetched \in Seq(Packet)
  BY IdsTyped
<1> DEFINE ab == Cat(Replying, Built)
           abc == Cat(ab, Working)
           abcd == Cat(abc, Waiting)
           abcde == Cat(abcd, Fetched)
           served == Cat(Ids(sent), abcde)
<1>2. ab \in Seq(Packet)
  BY <1>1, Cats
<1> HIDE DEF ab
<1>3. abc \in Seq(Packet)
  BY <1>1, <1>2, Cats
<1> HIDE DEF abc
<1>4. abcd \in Seq(Packet)
  BY <1>1, <1>3, Cats
<1> HIDE DEF abcd
<1>5. abcde \in Seq(Packet)
  BY <1>1, <1>4, Cats
<1>6. InService = abcde
  BY InServiceIs DEF Serve, ab, abc, abcd, abcde
<1> HIDE DEF abcde
<1>7. served \in Seq(Packet)
  BY <1>1, <1>5, Cats
<1>8. Line = Cat(served, Ids(sock)) /\ Increasing(Line)
  BY <1>6 DEF Line, served, Ordered
<1> HIDE DEF served
<1>9. /\ Increasing(served)
      /\ \A x \in Items(served), y \in Items(Ids(sock)) : x < y
      /\ Items(Line) = Items(served) \cup Items(Ids(sock))
  BY <1>1, <1>7, <1>8, CatOrder
<1>10. /\ Increasing(Ids(sent)) /\ Increasing(abcde)
       /\ \A x \in Items(Ids(sent)), y \in Items(abcde) : x < y
       /\ Items(served) = Items(Ids(sent)) \cup Items(abcde)
  BY <1>1, <1>5, <1>9, CatOrder DEF served
<1>11. /\ Increasing(abcd)
       /\ \A x \in Items(abcd), y \in Items(Fetched) : x < y
       /\ Items(abcde) = Items(abcd) \cup Items(Fetched)
  BY <1>1, <1>4, <1>10, CatOrder DEF abcde
<1>12. /\ Increasing(abc) /\ Increasing(Waiting)
       /\ \A x \in Items(abc), y \in Items(Waiting) : x < y
       /\ Items(abcd) = Items(abc) \cup Items(Waiting)
  BY <1>1, <1>3, <1>11, CatOrder DEF abcd
<1>13. /\ Increasing(ab)
       /\ \A x \in Items(ab), y \in Items(Working) : x < y
       /\ Items(abc) = Items(ab) \cup Items(Working)
  BY <1>1, <1>2, <1>12, CatOrder DEF abc
<1>14. /\ Increasing(Built)
       /\ \A x \in Items(Replying), y \in Items(Built) : x < y
       /\ Items(ab) = Items(Replying) \cup Items(Built)
  BY <1>1, <1>13, CatOrder DEF ab
<1>15. \A x \in Items(Line) : x < next
  BY DEF Ordered, Below, Items
<1> QED
  BY <1>9, <1>10, <1>11, <1>12, <1>13, <1>14, <1>15

(* The items of a place are the packets of the records there. *)
LEMMA ItemsOfIds ==
    /\ \A s : Items(Ids(s)) = {x.id : x \in Items(s)}
    /\ \A x : x # None => Items(Held(x)) = {x.id}
<1>1. ASSUME NEW s PROVE Items(Ids(s)) = {x.id : x \in Items(s)}
  BY DEF Items, Ids
<1>2. ASSUME NEW x, x # None PROVE Items(Held(x)) = {x.id}
  <2>1. Held(x) = <<x.id>>
    BY <1>2 DEF Held
  <2>2. DOMAIN <<x.id>> = {1} /\ <<x.id>>[1] = x.id
    OBVIOUS
  <2> QED
    BY <2>1, <2>2 DEF Items
<1> QED
  BY <1>1, <1>2

(* A reply is its packet's only one; the packet in the processor comes      *)
(* after those replied to and before those that wait.                       *)
OneByOne ==
    /\ \A i, j \in DOMAIN sent : i < j => sent[i].id < sent[j].id
    /\ \A r, s \in Out : r.id = s.id => r = s
    /\ cur # None => /\ \A r \in Out : r.id < cur.id
                     /\ \A x \in Inbound : cur.id < x.id
                     /\ cur.id < next

LEMMA OrderOfAll ==
    ASSUME TypeOK, Ordered
    PROVE  OneByOne
<1>1. /\ sent \in Seq(Reply) /\ txq \in Seq(Reply)
      /\ \A r \in Reply : r.id \in Packet /\ r.id \in Nat
  BY ServerAssumption DEF TypeOK, Reply
<1>2. DOMAIN Ids(sent) = DOMAIN sent /\ DOMAIN Ids(txq) = DOMAIN txq
  BY DEF Ids
<1>3. /\ \A i, j \in DOMAIN sent : i < j => sent[i].id < sent[j].id
      /\ \A i, j \in DOMAIN txq : i < j => txq[i].id < txq[j].id
  BY <1>2, PlacesInOrder DEF Increasing, Ids, Built
<1>4. /\ Items(sent) \subseteq Reply /\ Items(txq) \subseteq Reply
      /\ DOMAIN sent \subseteq Nat /\ DOMAIN txq \subseteq Nat
  BY <1>1, ItemsOf
<1>5. \A r, s \in Items(sent) : r.id = s.id => r = s
  <2> SUFFICES ASSUME NEW i \in DOMAIN sent, NEW j \in DOMAIN sent, sent[i].id = sent[j].id
               PROVE  i = j
    BY DEF Items
  <2>1. sent[i].id \in Nat /\ i \in Nat /\ j \in Nat
    BY <1>1, <1>4
  <2> QED
    BY <1>3, <2>1
<1>6. \A r, s \in Items(txq) : r.id = s.id => r = s
  <2> SUFFICES ASSUME NEW i \in DOMAIN txq, NEW j \in DOMAIN txq, txq[i].id = txq[j].id
               PROVE  i = j
    BY DEF Items
  <2>1. txq[i].id \in Nat /\ i \in Nat /\ j \in Nat
    BY <1>1, <1>4
  <2> QED
    BY <1>3, <2>1
<1>7. /\ Items(Ids(sent)) = {x.id : x \in Items(sent)}
      /\ Items(Built) = {x.id : x \in Items(txq)}
      /\ Items(Waiting) = {x.id : x \in Items(rxq)}
      /\ Items(Ids(sock)) = {x.id : x \in Items(sock)}
      /\ tx.reply # None => Items(Replying) = {tx.reply.id}
      /\ cur # None => Items(Working) = {cur.id}
      /\ rx.pkt # None => Items(Fetched) = {rx.pkt.id}
  BY ItemsOfIds DEF Built, Waiting, Replying, Working, Fetched
<1>8. tx.reply # None => tx.reply \in Reply
  BY DEF TypeOK
<1>9. /\ \A r \in Items(sent) : /\ \A s \in Items(txq) : r.id < s.id
                                /\ tx.reply # None => r.id < tx.reply.id
                                /\ cur # None => r.id < cur.id
      /\ tx.reply # None => /\ \A s \in Items(txq) : tx.reply.id < s.id
                            /\ cur # None => tx.reply.id < cur.id
      /\ \A r \in Items(txq) : cur # None => r.id < cur.id
  BY <1>7, PlacesInOrder
<1>10. \A r, s \in Out : r.id = s.id => r = s
  BY <1>1, <1>4, <1>5, <1>6, <1>8, <1>9 DEF Out
<1>11. cur # None => /\ \A r \in Out : r.id < cur.id
                     /\ \A x \in Inbound : cur.id < x.id
                     /\ cur.id < next
  BY <1>7, <1>9, PlacesInOrder DEF Out, Inbound
<1> QED
  BY <1>3, <1>10, <1>11 DEF OneByOne

LEMMA OrderOfAllPrimed == TypeOK' /\ Ordered' => OneByOne'
<1>1. TypeOK /\ Ordered => OneByOne
  BY OrderOfAll
<1> QED
  BY <1>1, PTL

-----------------------------------------------------------------------------
(* What the steps do to the replies and to the datagrams that wait. *)

(* A record goes from one place to the next, is dropped, or comes in: the   *)
(* device and the results are not concerned.                                *)
Passes ==
    /\ UNCHANGED <<deviceVars, imb, missed, cserver>>
    /\ \A c \in {"pl_timeouts", "pl_errors"} : stats'[c] = stats[c]
    /\ All' \subseteq All
    /\ \A x \in Inbound' : x \in Inbound \/ x.id = next
    /\ next' \in {next, next + 1}
    /\ \/ proc' = proc /\ cur' = cur
       \/ proc = "put" /\ proc' = "get" /\ cur' = None

LEMMA Queues ==
    ASSUME TypeOK
    PROVE  /\ \A x \in Datagram : Items(Append(rxq, x)) = Items(rxq) \cup {x}
           /\ \A x \in Datagram : Items(Append(sock, x)) = Items(sock) \cup {x}
           /\ \A x \in Reply : Items(Append(txq, x)) = Items(txq) \cup {x}
           /\ \A x \in Reply : Items(Append(sent, x)) = Items(sent) \cup {x}
           /\ rxq # <<>> => Items(rxq) = {Head(rxq)} \cup Items(Tail(rxq))
           /\ sock # <<>> => Items(sock) = {Head(sock)} \cup Items(Tail(sock))
           /\ txq # <<>> => Items(txq) = {Head(txq)} \cup Items(Tail(txq))
           /\ Items(rxq) \subseteq Datagram /\ Items(sock) \subseteq Datagram
           /\ Items(txq) \subseteq Reply /\ Items(sent) \subseteq Reply
<1>1. /\ rxq \in Seq(Datagram) /\ sock \in Seq(Datagram)
      /\ txq \in Seq(Reply) /\ sent \in Seq(Reply)
  BY DEF TypeOK
<1> QED
  BY ONLY <1>1, ItemsOf

(* Every reply is one, and every datagram that waits is one. *)
LEMMA AllTyped ==
    ASSUME TypeOK
    PROVE  All \subseteq Reply /\ Inbound \subseteq Datagram
BY Queues DEF All, Out, Inbound, TypeOK

(* What counting does to the two counters of abandoned transfers. *)
LEMMA Counting ==
    ASSUME TypeOK, NEW S, Count(S), NEW c \in {"pl_timeouts", "pl_errors"}
    PROVE  /\ stats[c] \in Nat /\ stats'[c] \in Nat
           /\ stats'[c] = IF c \in S THEN stats[c] + 1 ELSE stats[c]
<1>1. c \in Counters
  BY DEF Counters
<1>2. stats[c] \in Nat /\ stats' \in [Counters -> Nat]
  BY <1>1, CountEffect DEF TypeOK
<1>3. stats'[c] = stats[c] + (IF c \in S THEN 1 ELSE 0)
  BY <1>1, CountEffect
<1> QED
  BY ONLY <1>1, <1>2, <1>3

LEMMA SendPasses ==
    ASSUME TypeOK, NEW kind \in Kind, Send(kind)
    PROVE  Passes
<1>1. UNCHANGED <<deviceVars, imb, missed, cserver, stats, proc, cur, sent, txq, tx, rxq, rx>>
      /\ next' = next + 1
  BY DEF Send
<1>2. \A x \in Items(sock') : x \in Items(sock) \/ x.id = next
  <2>1. CASE sock' = Append(sock, [id |-> next, kind |-> kind])
    <3>1. [id |-> next, kind |-> kind] \in Datagram
      BY ServerAssumption DEF Send, TypeOK, Datagram
    <3> QED
      BY <2>1, <3>1, Queues
  <2>2. CASE UNCHANGED sock
    BY <2>2
  <2> QED
    BY <2>1, <2>2 DEF Send
<1> QED
  BY <1>1, <1>2 DEF Passes, All, Out, Inbound

LEMMA ReceiverPasses ==
    ASSUME TypeOK, Places, Receiver \/ ReceiverDies
    PROVE  Passes
<1>1. UNCHANGED <<deviceVars, imb, missed, cserver, next, proc, cur, sent, txq, tx>>
  BY DEF Receiver, ReceiverDies, Receive, ReceiverPut, ReceiverCount
<1>2. \A c \in {"pl_timeouts", "pl_errors"} : stats'[c] = stats[c]
  <2>1. CASE ReceiverCount
    BY <2>1, Counting DEF ReceiverCount
  <2>2. CASE Receive \/ ReceiverPut \/ ReceiverDies
    BY <2>2 DEF Receive, ReceiverPut, ReceiverDies
  <2> QED
    BY <2>1, <2>2 DEF Receiver
<1>3. Inbound' \subseteq Inbound
  <2>1. CASE Receive
    <3>1. Items(sock) = {Head(sock)} \cup Items(sock') /\ rx'.pkt = Head(sock) /\ rxq' = rxq
      BY <2>1, Queues DEF Receive
    <3> QED
      BY <3>1 DEF Inbound
  <2>2. CASE ReceiverPut
    <3>1. rx.pkt \in Datagram /\ rx.pkt # None
      BY <2>2 DEF ReceiverPut, TypeOK, Places
    <3>2. Items(rxq') = Items(rxq) \cup {rx.pkt} /\ rx'.pkt = None /\ sock' = sock
      BY <2>2, <3>1, Queues DEF ReceiverPut
    <3> QED
      BY <3>1, <3>2 DEF Inbound
  <2>3. CASE ReceiverCount \/ ReceiverDies
    <3>1. rx'.pkt = rx.pkt /\ rxq' = rxq /\ sock' = sock
      BY <2>3 DEF ReceiverCount, ReceiverDies, TypeOK
    <3> QED
      BY <3>1 DEF Inbound
  <2> QED
    BY <2>1, <2>2, <2>3 DEF Receiver
<1> QED
  BY <1>1, <1>2, <1>3 DEF Passes, All, Out

LEMMA SenderPasses ==
    ASSUME TypeOK, Places, Sender \/ SenderDies
    PROVE  Passes
<1>1. UNCHANGED <<deviceVars, imb, missed, cserver, next, proc, cur, rxq, rx, sock>>
  BY DEF Sender, SenderDies, SenderGet, SenderSend
<1>2. \A c \in {"pl_timeouts", "pl_errors"} : stats'[c] = stats[c]
  <2>1. CASE SenderSend
    BY <2>1, Counting DEF SenderSend
  <2>2. CASE SenderGet \/ SenderDies
    BY <2>2 DEF SenderGet, SenderDies
  <2> QED
    BY <2>1, <2>2 DEF Sender
<1>3. Out' \subseteq Out
  <2>1. CASE SenderGet
    <3>1. Items(txq) = {Head(txq)} \cup Items(txq') /\ tx'.reply = Head(txq) /\ sent' = sent
      BY <2>1, Queues DEF SenderGet
    <3> QED
      BY <3>1 DEF Out
  <2>2. CASE SenderSend
    <3>1. tx.reply \in Reply /\ tx.reply # None
      BY <2>2 DEF SenderSend, TypeOK, Places
    <3>2. Items(sent') = Items(sent) \cup {tx.reply} /\ tx'.reply = None /\ txq' = txq
      BY <2>2, <3>1, Queues DEF SenderSend
    <3> QED
      BY <3>1, <3>2 DEF Out
  <2>3. CASE SenderDies
    BY <2>3 DEF SenderDies, Out
  <2> QED
    BY <2>1, <2>2, <2>3 DEF Sender
<1> QED
  BY <1>1, <1>2, <1>3 DEF Passes, All, Inbound

(* The processor takes a datagram. *)
LEMMA FetchEffect ==
    ASSUME TypeOK, Places, NEW kind, Fetch(kind)
    PROVE  /\ cur = None /\ proc = "get"
           /\ Out' = Out /\ All = Out
           /\ Inbound' \subseteq Inbound
           /\ Head(rxq) \in Inbound /\ Head(rxq) \in Datagram
           /\ Head(rxq).id \in Packet
           /\ UNCHANGED <<next, missed, cserver, deviceVars>>
<1>1. cur = None /\ proc = "get" /\ rxq # <<>> /\ rxq' = Tail(rxq)
  BY DEF Fetch, Places
<1>2. UNCHANGED <<next, missed, cserver, deviceVars, sock, rx, txq, tx, sent>>
  BY DEF Fetch
<1>3. Items(rxq) = {Head(rxq)} \cup Items(rxq') /\ Items(rxq) \subseteq Datagram
  BY <1>1, Queues
<1>4. Head(rxq) \in Datagram /\ Head(rxq).id \in Packet
  BY <1>3 DEF Datagram
<1> QED
  BY <1>1, <1>2, <1>3, <1>4 DEF Out, All, Inbound

LEMMA WorkerPasses ==
    ASSUME TypeOK, Places, GetJunk \/ ProcessorPut \/ UNCHANGED vars
    PROVE  Passes
<1>1. CASE GetJunk
  <2>1. Out' = Out /\ All = Out /\ Inbound' \subseteq Inbound /\ cur = None
        /\ UNCHANGED <<next, missed, cserver, deviceVars>>
    BY <1>1, FetchEffect DEF GetJunk
  <2>2. UNCHANGED <<proc, cur, imb, stats>>
    BY <1>1 DEF GetJunk
  <2> QED
    BY <2>1, <2>2 DEF Passes, All
<1>2. CASE ProcessorPut
  <2>1. cur \in Reply /\ cur # None
    BY <1>2 DEF ProcessorPut, TypeOK, Places
  <2>2. /\ Items(txq') = Items(txq) \cup {cur} /\ cur' = None
        /\ UNCHANGED <<sent, tx, rxq, rx, sock>>
    BY <1>2, <2>1, Queues DEF ProcessorPut
  <2>3. All' \subseteq All /\ Inbound' = Inbound
    BY <2>1, <2>2 DEF All, Out, Inbound
  <2> QED
    BY <1>2, <2>3 DEF ProcessorPut, Passes
<1>3. CASE UNCHANGED vars
  BY <1>3 DEF vars, threadVars, Passes, All, Out, Inbound
<1> QED
  BY <1>1, <1>2, <1>3

(* The steps that pass something on. *)
LEMMA PassingSteps ==
    ASSUME TypeOK, Places,
           \/ \E kind \in Kind : Send(kind)
           \/ Receiver \/ ReceiverDies \/ Sender \/ SenderDies
           \/ GetJunk \/ ProcessorPut \/ UNCHANGED vars
    PROVE  Passes
BY SendPasses, ReceiverPasses, SenderPasses, WorkerPasses

(* All others but those that take a datagram leave what is around the       *)
(* processor as it is.                                                      *)
Around == <<Out, Inbound, next, cserver>>

LEMMA InsideSteps ==
    ASSUME \/ Start \/ StartFails \/ PollDone \/ \E counters : GiveUp(counters)
           \/ DrainStart \/ DrainAbsent \/ DrainDone \/ DrainMiss \/ ReadResult
           \/ FallbackMt \/ FallbackC \/ FallbackRaises \/ Device
    PROVE  UNCHANGED Around
<1>1. UNCHANGED <<sent, txq, tx, rxq, sock, rx, next, cserver>>
  BY DEF Start, StartFails, PollDone, GiveUp, DrainStart, DrainAbsent, DrainDone, DrainMiss,
         ReadResult, FallbackMt, FallbackC, FallbackRaises, Device, threadVars
<1> QED
  BY <1>1 DEF Around, Out, Inbound

-----------------------------------------------------------------------------
(* Counting sets of packets. *)

LEMMA Cards ==
    ASSUME NEW S \in SUBSET Packet, NEW T \in SUBSET Packet
    PROVE  /\ Cardinality(S) \in Nat /\ Cardinality(T) \in Nat
           /\ S \subseteq T => Cardinality(S) <= Cardinality(T)
           /\ \A x : S \subseteq T \cup {x} => Cardinality(S) <= Cardinality(T) + 1
           /\ \A x \in T : S \subseteq T \ {x} => Cardinality(S) + 1 <= Cardinality(T)
<1>1. IsFiniteSet(Packet)
  BY ServerAssumption, FS_Interval
<1>2. IsFiniteSet(S) /\ IsFiniteSet(T)
  BY <1>1, FS_Subset
<1>3. Cardinality(S) \in Nat /\ Cardinality(T) \in Nat
  BY <1>2, FS_CardinalityType
<1>4. S \subseteq T => Cardinality(S) <= Cardinality(T)
  BY <1>2, FS_Subset
<1>5. ASSUME NEW x, S \subseteq T \cup {x}
      PROVE  Cardinality(S) <= Cardinality(T) + 1
  <2>1. /\ IsFiniteSet(T \cup {x})
        /\ Cardinality(T \cup {x}) = Cardinality(T) \/ Cardinality(T \cup {x}) = Cardinality(T) + 1
    BY <1>2, FS_AddElement
  <2>2. Cardinality(S) <= Cardinality(T \cup {x})
    BY <1>5, <2>1, FS_Subset
  <2> QED
    BY <1>3, <2>1, <2>2
<1>6. ASSUME NEW x \in T, S \subseteq T \ {x}
      PROVE  Cardinality(S) + 1 <= Cardinality(T)
  <2>1. IsFiniteSet(T \ {x}) /\ Cardinality(T \ {x}) = Cardinality(T) - 1
    BY <1>2, FS_RemoveElement
  <2>2. Cardinality(S) <= Cardinality(T \ {x})
    BY <1>6, <2>1, FS_Subset
  <2> QED
    BY <1>3, <2>1, <2>2
<1> QED
  BY <1>3, <1>4, <1>5, <1>6

(* A queue of packets in order, with one more or one less. *)
LEMMA OneMoreOneLess ==
    ASSUME NEW s \in Seq(Packet), Increasing(s)
    PROVE  /\ \A x \in Packet : (\A y \in Items(s) : y < x) => Increasing(Append(s, x))
           /\ s # <<>> => Increasing(Tail(s)) /\ \A y \in Items(Tail(s)) : Head(s) < y
<1>1. ASSUME NEW x \in Packet, \A y \in Items(s) : y < x
      PROVE  Increasing(Append(s, x))
  <2> DEFINE t == Append(s, x)
  <2>1. /\ Len(s) \in Nat /\ DOMAIN s = 1 .. Len(s) /\ DOMAIN t = 1 .. Len(s) + 1
        /\ \A i \in 1 .. Len(s) : t[i] = s[i]
        /\ t[Len(s) + 1] = x
    OBVIOUS
  <2> HIDE DEF t
  <2>2. \A i, j \in 1 .. Len(s) + 1 : i < j => i \in 1 .. Len(s)
                                    /\ (j \in 1 .. Len(s) \/ j = Len(s) + 1)
    BY <2>1
  <2>3. \A i \in 1 .. Len(s) : s[i] < x
    BY <1>1, <2>1 DEF Items
  <2> QED
    BY <2>1, <2>2, <2>3 DEF Increasing, t
<1>2. ASSUME s # <<>>
      PROVE  Increasing(Tail(s)) /\ \A y \in Items(Tail(s)) : Head(s) < y
  <2> DEFINE t == Tail(s)
  <2>1. /\ Len(s) \in Nat /\ Len(s) >= 1 /\ DOMAIN s = 1 .. Len(s)
        /\ DOMAIN t = 1 .. Len(s) - 1 /\ Head(s) = s[1]
        /\ \A i \in 1 .. Len(s) - 1 : t[i] = s[i + 1]
    BY <1>2
  <2> HIDE DEF t
  <2>2. /\ \A i \in 1 .. Len(s) - 1 : i + 1 \in 1 .. Len(s) /\ 1 < i + 1
        /\ \A i, j \in 1 .. Len(s) - 1 : i < j => i + 1 < j + 1
        /\ 1 \in 1 .. Len(s)
    BY <2>1
  <2>3. Increasing(t)
    BY <2>1, <2>2 DEF Increasing
  <2>4. \A y \in Items(t) : Head(s) < y
    BY <2>1, <2>2 DEF Increasing, Items
  <2> QED
    BY <2>3, <2>4 DEF t
<1> QED
  BY <1>1, <1>2

(* The queues of the device. *)
LEMMA DeviceQueues ==
    ASSUME TypeOK
    PROVE  /\ \A x \in Packet : /\ Items(Append(feats, x)) = Items(feats) \cup {x}
                                /\ Items(Append(scores, x)) = Items(scores) \cup {x}
           /\ feats # <<>> => /\ Items(feats) = {Head(feats)} \cup Items(Tail(feats))
                              /\ Head(feats) \in Packet
           /\ scores # <<>> => /\ Items(scores) = {Head(scores)} \cup Items(Tail(scores))
                               /\ Head(scores) \in Packet
           /\ Items(feats) \subseteq Packet /\ Items(scores) \subseteq Packet
<1>1. feats \in Seq(Packet) /\ scores \in Seq(Packet)
  BY DEF TypeOK, DeviceTypeOK
<1>2. feats # <<>> => Head(feats) \in Packet
  BY <1>1
<1>3. scores # <<>> => Head(scores) \in Packet
  BY <1>1
<1> QED
  BY ONLY <1>1, <1>2, <1>3, ItemsOf

-----------------------------------------------------------------------------
(* Counting what was abandoned. *)

LEMMA GivingUp ==
    ASSUME TypeOK, PollError \/ PollTimeout \/ StartFails
    PROVE  Abandoned + 1 <= Abandoned' /\ ~ Undisturbed'
<1>1. PICK S : Count(S) /\ ("pl_timeouts" \in S \/ "pl_errors" \in S)
  BY DEF PollError, PollTimeout, StartFails, GiveUp
<1>2. /\ stats["pl_timeouts"] \in Nat /\ stats["pl_errors"] \in Nat
      /\ stats'["pl_timeouts"] \in Nat /\ stats'["pl_errors"] \in Nat
      /\ stats'["pl_timeouts"] = IF "pl_timeouts" \in S
                                 THEN stats["pl_timeouts"] + 1 ELSE stats["pl_timeouts"]
      /\ stats'["pl_errors"] = IF "pl_errors" \in S
                               THEN stats["pl_errors"] + 1 ELSE stats["pl_errors"]
  BY <1>1, Counting
<1> QED
  BY <1>1, <1>2 DEF Abandoned, Undisturbed

(* Nothing takes an abandoned transfer back. *)
LEMMA NeverLess ==
    ASSUME TypeOK, TypeOK', [Next]_vars
    PROVE  /\ Abandoned \in Nat /\ Abandoned' \in Nat /\ Abandoned <= Abandoned'
           /\ Undisturbed' => Undisturbed
           /\ missed' = 0 => missed = 0
<1>1. UNCHANGED stats \/ \E S : Count(S)
  BY DEF Next, Send, Receiver, ReceiverDies, Receive, ReceiverPut, ReceiverCount,
         Processor, GetJunk, GetPing, GetDeltas, Start, StartFails, PollDone, GiveUp,
         PollError, PollTimeout, DrainStart, DrainAbsent, DrainDone, DrainMiss, ReadResult,
         FallbackMt,
         FallbackC, FallbackRaises, ProcessorPut, Sender, SenderDies, SenderGet, SenderSend,
         Device,
         vars, threadVars
<1>2. \A c \in {"pl_timeouts", "pl_errors"} :
         stats[c] \in Nat /\ stats'[c] \in Nat /\ stats[c] <= stats'[c]
  <2> SUFFICES ASSUME NEW c \in {"pl_timeouts", "pl_errors"}
               PROVE  stats[c] \in Nat /\ stats'[c] \in Nat /\ stats[c] <= stats'[c]
    OBVIOUS
  <2>1. CASE UNCHANGED stats
    BY <2>1, Numbers
  <2>2. CASE \E S : Count(S)
    BY <2>2, Counting
  <2> QED
    BY <1>1, <2>1, <2>2
<1>3. missed' = 0 => missed = 0
  <2>1. missed \in Nat /\ missed' \in {missed, missed + 1}
    BY DEF TypeOK, Next, Send, Receiver, ReceiverDies, Receive, ReceiverPut, ReceiverCount,
           Processor, Fetch, GetJunk, GetPing, GetDeltas, Start, StartFails, PollDone, GiveUp,
           PollError, PollTimeout, DrainStart, DrainAbsent, DrainDone, DrainMiss, ReadResult,
           FallbackMt,
           FallbackC, FallbackRaises, ProcessorPut, Sender, SenderDies, SenderGet,
           SenderSend, Device,
           vars, threadVars
  <2> QED
    BY ONLY <2>1
<1> QED
  BY <1>2, <1>3 DEF Abandoned, Undisturbed

-----------------------------------------------------------------------------
(* The kinds of steps, from here on. *)

GivesUp == PollError \/ PollTimeout \/ StartFails

Drains == DrainStart \/ DrainAbsent \/ DrainDone \/ DrainMiss

FallsBack == FallbackMt \/ FallbackC \/ FallbackRaises

Takes == GetPing \/ GetDeltas

LEMMA StepCases ==
    ASSUME TypeOK, Places, [Next]_vars
    PROVE  \/ Passes \/ Takes \/ Start \/ PollDone \/ GivesUp \/ Drains
           \/ ReadResult \/ FallsBack \/ Device
BY PassingSteps DEF Next, Processor, GivesUp, Drains, FallsBack, Takes

(* What register writes and transfers do to a channel. *)
LEMMA ChannelEffects ==
    ASSUME NEW c \in Channel
    PROVE  /\ LET d == StartS2MM(c)
              IN  d.busy = ~ c.err /\ d.ioc = c.ioc /\ d.err = c.err /\ d.buf = c.buf
           /\ LET d == ClearIOC(c)
              IN  d.busy = c.busy /\ ~ d.ioc /\ d.err = c.err /\ d.buf = c.buf
           /\ \A x : LET d == Complete(c, x)
                     IN  ~ d.busy /\ d.ioc /\ d.err = c.err /\ d.buf = x
           /\ LET d == Fail(c)
              IN  ~ d.busy /\ d.ioc = c.ioc /\ d.err /\ d.buf = c.buf
           /\ c.buf \in Packet \cup {None} /\ {c.busy, c.ioc, c.err} \subseteq BOOLEAN
BY DEF Channel, StartS2MM, ClearIOC, Complete, Fail

(* The channels and the buffers after each kind of step. *)
LEMMA ProcessorOnDevice ==
    ASSUME TypeOK,
           Takes \/ Start \/ PollDone \/ GivesUp \/ Drains \/ ReadResult \/ FallsBack
    PROVE  /\ UNCHANGED <<feats, scores>>
           /\ dma_out'.buf = dma_out.buf /\ dma_score'.buf = dma_score.buf
           /\ dma_out'.err = dma_out.err /\ dma_score'.err = dma_score.err
           /\ ~ Start => UNCHANGED mm2s /\ dma_out'.busy = dma_out.busy
           /\ ~ PollDone => dma_out'.ioc = dma_out.ioc
           /\ ~ Drains => dma_score' = dma_score
<1>1. dma_out \in Channel /\ dma_score \in Channel
  BY DEF TypeOK, DeviceTypeOK
<1>2. CASE Start
  BY <1>1, <1>2, ChannelEffects DEF Start
<1>3. CASE PollDone
  BY <1>1, <1>3, ChannelEffects DEF PollDone
<1>4. CASE Drains
  BY <1>1, <1>4, ChannelEffects
     DEF Drains, DrainStart, DrainAbsent, DrainDone, DrainMiss, deviceVars
<1>5. CASE Takes \/ GivesUp \/ ReadResult \/ FallsBack
  BY <1>5 DEF Takes, GetPing, GetDeltas, Fetch, GivesUp, GiveUp, PollError, PollTimeout,
              StartFails, ReadResult, FallsBack, FallbackMt, FallbackC, FallbackRaises,
              deviceVars
<1> QED
  BY <1>2, <1>3, <1>4, <1>5

LEMMA DeviceSteps ==
    ASSUME TypeOK, Device
    PROVE  /\ UNCHANGED threadVars
           /\ UNCHANGED <<All, Around>>
           /\ \/ /\ Pipeline
                 /\ UNCHANGED <<dma_out, dma_score>>
              \/ /\ FeatureTransfer
                 /\ ~ dma_out'.busy /\ dma_out'.ioc /\ dma_out'.err = dma_out.err
                 /\ dma_out'.buf = Head(feats)
                 /\ UNCHANGED <<mm2s, scores, dma_score>>
              \/ /\ ScoreTransfer
                 /\ ~ dma_score'.busy /\ dma_score'.ioc /\ dma_score'.err = dma_score.err
                 /\ dma_score'.buf = Head(scores)
                 /\ UNCHANGED <<mm2s, feats, dma_out>>
              \/ /\ TransferError
                 /\ ~ dma_out'.busy /\ dma_out'.ioc = dma_out.ioc /\ dma_out'.err
                 /\ dma_out'.buf = dma_out.buf
                 /\ UNCHANGED <<mm2s, feats, scores, dma_score>>
              \/ /\ TransferError
                 /\ ~ dma_score'.busy /\ dma_score'.ioc = dma_score.ioc /\ dma_score'.err
                 /\ dma_score'.buf = dma_score.buf
                 /\ UNCHANGED <<mm2s, feats, scores, dma_out>>
<1>1. dma_out \in Channel /\ dma_score \in Channel
  BY DEF TypeOK, DeviceTypeOK
<1>2. UNCHANGED threadVars /\ UNCHANGED <<All, Around>>
  BY InsideSteps DEF Device, threadVars, All, Around
<1>3. CASE Pipeline
  BY <1>2, <1>3 DEF Pipeline
<1>4. CASE FeatureTransfer
  BY <1>1, <1>2, <1>4, ChannelEffects DEF FeatureTransfer
<1>5. CASE ScoreTransfer
  BY <1>1, <1>2, <1>5, ChannelEffects DEF ScoreTransfer
<1>6. CASE TransferError
  BY <1>1, <1>2, <1>6, ChannelEffects DEF TransferError
<1> QED
  BY <1>3, <1>4, <1>5, <1>6 DEF Device

-----------------------------------------------------------------------------
LEMMA StepAtWork ==
    ASSUME TypeOK, Places, AtWork, [Next]_vars
    PROVE  AtWork'
<1>1. CASE Passes
  BY <1>1 DEF Passes, AtWork, deviceVars
<1>2. CASE Takes
  BY <1>2, ProcessorOnDevice DEF Takes, GetPing, GetDeltas, Fetch, AtWork, deviceVars
<1>3. CASE Start
  <2>1. dma_out \in Channel /\ dma_out'.busy = ~ dma_out.err
    BY <1>3, ChannelEffects DEF Start, TypeOK, DeviceTypeOK
  <2>2. ~ PollDone /\ proc' = "poll" /\ UNCHANGED <<cserver, imb, cur, dma_score>>
        /\ proc = "start"
    BY <1>3 DEF Start, PollDone
  <2>3. dma_out'.buf = dma_out.buf /\ dma_out'.err = dma_out.err /\ dma_out'.ioc = dma_out.ioc
    BY <1>3, <2>2, ProcessorOnDevice
  <2> QED
    BY ONLY <2>1, <2>2, <2>3, AtWork DEF AtWork
<1>4. CASE PollDone
  <2>1. ~ Start
    BY <1>4 DEF Start, PollDone
  <2> QED
    BY <1>4, <2>1, ProcessorOnDevice DEF PollDone, AtWork
<1>5. CASE GivesUp
  BY <1>5 DEF GivesUp, GiveUp, PollError, PollTimeout, StartFails, AtWork, deviceVars
<1>6. CASE Drains
  <2>1. ~ Start /\ ~ PollDone
    BY <1>6 DEF Start, PollDone, Drains, DrainStart, DrainAbsent, DrainDone, DrainMiss
  <2>2. dma_score'.busy => dma_score.busy \/ ~ dma_score.err
    BY <1>6, ChannelEffects DEF Drains, DrainStart, DrainAbsent, DrainDone, DrainMiss,
                                deviceVars, TypeOK, DeviceTypeOK
  <2> QED
    BY <1>6, <2>1, <2>2, ProcessorOnDevice DEF Drains, DrainStart, DrainAbsent, DrainDone,
       DrainMiss, AtWork
<1>7. CASE ReadResult
  BY <1>7 DEF ReadResult, AtWork, deviceVars
<1>8. CASE FallsBack
  BY <1>8 DEF FallsBack, FallbackMt, FallbackC, FallbackRaises, AtWork, deviceVars
<1>9. CASE Device
  <2>1. /\ feats # <<>> => Head(feats) \in Packet
        /\ None \notin Packet
    BY DeviceQueues, DeviceAssumption
  <2>2. UNCHANGED <<proc, cur, imb, cserver>>
    BY <1>9, DeviceSteps DEF threadVars
  <2> QED
    BY <1>9, <2>1, <2>2, DeviceSteps DEF AtWork, FeatureTransfer
<1> QED
  BY <1>1, <1>2, <1>3, <1>4, <1>5, <1>6, <1>7, <1>8, <1>9, StepCases

(* The server that runs, and so whether it has the second DMA, never changes. *)
LEMMA SameServer ==
    ASSUME [Next]_vars
    PROVE  HasScore' = HasScore
<1>1. cserver' = cserver
  <2>1. CASE (\E kind \in Kind : Send(kind)) \/ Receiver \/ ReceiverDies \/ Sender \/ SenderDies
    BY <2>1 DEF Send, Receiver, ReceiverDies, Receive, ReceiverPut, ReceiverCount,
                Sender, SenderDies, SenderGet, SenderSend
  <2>2. CASE Processor \/ StartFails
    BY <2>2 DEF Processor, StartFails, GetJunk, GetPing, GetDeltas, Fetch, Start, PollDone,
                PollError, PollTimeout, GiveUp, DrainStart, DrainAbsent, DrainDone, DrainMiss,
                ReadResult, FallbackMt, FallbackC, FallbackRaises, ProcessorPut
  <2>3. CASE Device \/ UNCHANGED vars
    BY <2>3 DEF Device, vars, threadVars
  <2> QED
    BY <2>1, <2>2, <2>3 DEF Next
<1> QED
  BY <1>1 DEF HasScore

LEMMA StepFull ==
    ASSUME TypeOK, Places, AtWork, FullIsDrained, [Next]_vars
    PROVE  FullIsDrained'
<1> USE SameServer
<1>1. CASE Passes
  BY <1>1 DEF Passes, FullIsDrained, deviceVars
<1>2. CASE Takes \/ Start \/ PollDone \/ GivesUp \/ ReadResult \/ FallsBack
  <2>1. ~ Drains
    BY <1>2 DEF Takes, GetPing, GetDeltas, Fetch, Start, PollDone, GivesUp, GiveUp,
                PollError, PollTimeout, StartFails, ReadResult, FallsBack, FallbackMt,
                FallbackC, FallbackRaises, Drains, DrainStart, DrainAbsent, DrainDone, DrainMiss
  <2>2. PollDone => proc' = "drain"
    BY DEF PollDone
  <2>3. proc # "drain"
    BY <1>2 DEF Takes, GetPing, GetDeltas, Fetch, Start, PollDone, GivesUp, GiveUp,
                PollError, PollTimeout, StartFails, ReadResult, FallsBack, FallbackMt,
                FallbackC, FallbackRaises
  <2> QED
    BY <1>2, <2>1, <2>2, <2>3, ProcessorOnDevice DEF FullIsDrained
<1>3. CASE Drains
  <2>1. ~ PollDone
    BY <1>3 DEF PollDone, Drains, DrainStart, DrainAbsent, DrainDone, DrainMiss
  <2>2. dma_score \in Channel
    BY DEF TypeOK, DeviceTypeOK
  <2>3. proc = "drain" /\ HasScore /\ ~ dma_score.err => dma_score'.busy
    <3>1. proc = "drain" /\ HasScore => dma_score' = StartS2MM(dma_score)
      BY <1>3 DEF Drains, DrainStart, DrainAbsent, DrainDone, DrainMiss
    <3>2. StartS2MM(dma_score).busy = ~ dma_score.err
      BY <2>2, ChannelEffects
    <3> QED
      BY <3>1, <3>2
  <2>4. dma_score.busy => dma_score'.busy
    BY <1>3, <2>2, ChannelEffects
       DEF Drains, DrainStart, DrainAbsent, DrainDone, DrainMiss, AtWork, deviceVars
  <2> QED
    BY <1>3, <2>1, <2>3, <2>4, ProcessorOnDevice DEF FullIsDrained
<1>4. CASE Device
  <2>1. UNCHANGED proc
    BY <1>4, DeviceSteps DEF threadVars
  <2>2. CASE Pipeline
    <3>1. feats' # <<>>
      <4>1. feats \in Seq(Packet) /\ mm2s \in Packet /\ feats' = Append(feats, mm2s)
        BY <2>2 DEF Pipeline, TypeOK, DeviceTypeOK
      <4> QED
        BY ONLY <4>1
    <3> QED
      BY <3>1 DEF FullIsDrained
  <2>3. CASE ScoreTransfer
    <3>1. Len(scores') < ScoreCap
      BY <2>3, DeviceAssumption DEF ScoreTransfer, TypeOK, DeviceTypeOK
    <3> QED
      BY <3>1, DeviceAssumption DEF FullIsDrained
  <2>4. CASE FeatureTransfer \/ TransferError
    <3>1. dma_out \in Channel
      BY DEF TypeOK, DeviceTypeOK
    <3>2. dma_out'.ioc \/ dma_out'.err \/ dma_score'.err
      BY <2>4, <3>1 DEF FeatureTransfer, TransferError, Fail, Complete, TypeOK, DeviceTypeOK,
                        Channel
    <3> QED
      BY <3>2 DEF FullIsDrained
  <2> QED
    BY <1>4, <2>2, <2>3, <2>4 DEF Device
<1> QED
  BY <1>1, <1>2, <1>3, <1>4, StepCases

-----------------------------------------------------------------------------
(* The order in the device. *)

LEMMA PacketNumbers ==
    /\ Packet \subseteq Nat /\ 0 \notin Packet /\ None \notin Packet /\ PS \notin Packet
    /\ \A p \in Packet : 0 < p
    /\ PS # None
BY ServerAssumption, DeviceAssumption DEF PS

LEMMA DeviceNumbers ==
    ASSUME TypeOK
    PROVE  /\ InDevice \subseteq Packet
           /\ Seen(dma_out) \in Nat /\ Seen(dma_score) \in Nat
           /\ next \in Nat
           /\ cur # None => cur.id \in Packet
           /\ \A x \in Inbound : x.id \in Packet
<1>1. /\ dma_out.buf \in Packet \cup {None} /\ dma_score.buf \in Packet \cup {None}
      /\ mm2s \in Packet \cup {None}
  BY DEF TypeOK, DeviceTypeOK, Channel
<1>2. Items(feats) \subseteq Packet /\ Items(scores) \subseteq Packet
  BY DeviceQueues
<1>3. InDevice \subseteq Packet
  BY <1>1, <1>2 DEF InDevice
<1>4. Seen(dma_out) \in Nat /\ Seen(dma_score) \in Nat
  BY <1>1, PacketNumbers DEF Seen
<1>5. next \in Nat
  BY ServerAssumption DEF TypeOK
<1>6. cur # None => cur.id \in Packet
  BY DEF TypeOK, Reply
<1>7. \A x \in Inbound : x.id \in Packet
  BY AllTyped DEF Datagram
<1> QED
  BY <1>3, <1>4, <1>5, <1>6, <1>7

LEMMA StepOrder ==
    ASSUME TypeOK, TypeOK', Places, Ordered, AtWork, DeviceInOrder, [Next]_vars
    PROVE  DeviceInOrder'
<1> USE PacketNumbers, DeviceNumbers
<1>1. CASE Passes
  <2>1. UNCHANGED <<mm2s, feats, scores, dma_out, dma_score>>
    BY <1>1 DEF Passes, deviceVars
  <2>2. /\ next' \in {next, next + 1}
        /\ \A x \in Inbound' : x \in Inbound \/ x.id = next
        /\ \/ proc' = proc /\ cur' = cur
           \/ cur' = None /\ proc' = "get"
    BY <1>1 DEF Passes
  <2>3. InDevice' = InDevice
    BY <2>1 DEF InDevice
  <2>4. Chain(dma_out, feats)' /\ Chain(dma_score, scores)'
    BY <2>1 DEF DeviceInOrder, Chain, Seen
  <2>5. ASSUME NEW d \in InDevice
        PROVE  /\ d < next'
               /\ \A x \in Inbound' : d < x.id
               /\ cur' # None => d <= cur'.id
               /\ proc' = "start" => d < cur'.id
    <3>1. d \in Nat /\ d < next /\ \A x \in Inbound : d < x.id
      BY DEF DeviceInOrder
    <3>2. d < next'
      BY <2>2, <3>1
    <3> QED
      BY <2>2, <3>1, <3>2 DEF DeviceInOrder
  <2> QED
    BY <2>3, <2>4, <2>5 DEF DeviceInOrder
<1>2. CASE Takes
  <2>1. /\ Inbound' \subseteq Inbound /\ Head(rxq) \in Inbound
        /\ UNCHANGED <<next, deviceVars>>
        /\ cur'.id = Head(rxq).id /\ cur' # None
    <3>1. PICK kind : Fetch(kind)
      BY <1>2 DEF Takes, GetPing, GetDeltas
    <3>2. cur' \in Reply \cup {None} /\ Head(rxq) \in Datagram
      BY <3>1, FetchEffect DEF TypeOK
    <3>3. cur' # None
      <4>1. proc' # "get"
        BY <1>2 DEF Takes, GetPing, GetDeltas
      <4>2. PICK x \in {PS, None} : cur' = [id |-> Head(rxq).id, feat |-> x, score |-> None]
        BY <1>2 DEF Takes, GetPing, GetDeltas
      <4>3. cur' \in Reply
        BY <3>1, <4>2, FetchEffect DEF Reply
      <4> QED
        BY <4>3, NoneAssumption
    <3> QED
      BY <1>2, <3>1, <3>3, FetchEffect DEF Takes, GetPing, GetDeltas
  <2>2. InDevice' = InDevice
    BY <2>1 DEF InDevice, deviceVars
  <2>3. Chain(dma_out, feats)' /\ Chain(dma_score, scores)'
    BY <2>1 DEF DeviceInOrder, Chain, Seen, deviceVars
  <2>4. ASSUME NEW d \in InDevice
        PROVE  /\ d < next'
               /\ \A x \in Inbound' : d < x.id
               /\ cur' # None => d <= cur'.id
               /\ proc' = "start" => d < cur'.id
    <3>1. d \in Nat /\ d < next /\ \A x \in Inbound : d < x.id
      BY DEF DeviceInOrder
    <3>2. d < cur'.id /\ cur'.id \in Nat
      BY <2>1, <3>1
    <3> QED
      BY <2>1, <3>1, <3>2
  <2> QED
    BY <2>2, <2>3, <2>4 DEF DeviceInOrder
<1>3. CASE Start
  <2>1. /\ proc = "start" /\ proc' = "poll" /\ cur' = cur /\ cur # None
        /\ mm2s' = IF mm2s = None THEN cur.id ELSE mm2s
        /\ UNCHANGED <<feats, scores, Around>> /\ ~ Drains
    BY <1>3, InsideSteps DEF Start, Places, StartMM2S, Drains, DrainStart, DrainAbsent,
                             DrainDone, DrainMiss
  <2>2. dma_out'.buf = dma_out.buf /\ dma_score'.buf = dma_score.buf
    BY <1>3, ProcessorOnDevice
  <2>3. InDevice' \subseteq InDevice \cup {cur.id}
    BY <2>1, <2>2 DEF InDevice
  <2>4. cur.id \in Nat /\ \A d \in InDevice : d \in Nat /\ d < cur.id
    BY <2>1 DEF DeviceInOrder
  <2>5. Seen(dma_out)' = Seen(dma_out) /\ Seen(dma_score)' = Seen(dma_score)
    BY <2>2 DEF Seen
  <2>6. Seen(dma_out) < cur.id /\ Seen(dma_score) < cur.id
    BY <2>1, <2>4 DEF Seen, InDevice
  <2>7. Chain(dma_out, feats)' /\ Chain(dma_score, scores)'
    BY <2>1, <2>4, <2>5, <2>6 DEF DeviceInOrder, Chain, InDevice
  <2>8. cur.id < next /\ \A x \in Inbound : cur.id < x.id
    BY <2>1, OrderOfAll DEF OneByOne
  <2> QED
    BY <2>1, <2>3, <2>4, <2>7, <2>8 DEF DeviceInOrder, Around
<1>4. CASE PollDone \/ GivesUp \/ Drains \/ ReadResult \/ FallsBack
  <2>1. ~ Start
    BY <1>4 DEF Start, PollDone, GivesUp, GiveUp, PollError, PollTimeout, StartFails, Drains,
                DrainStart, DrainAbsent, DrainDone, DrainMiss, ReadResult, FallsBack,
                FallbackMt, FallbackC, FallbackRaises
  <2>2. /\ UNCHANGED <<mm2s, feats, scores>>
        /\ dma_out'.buf = dma_out.buf /\ dma_score'.buf = dma_score.buf
    BY <1>4, <2>1, ProcessorOnDevice
  <2>3. UNCHANGED Around
    BY <1>4, InsideSteps DEF GivesUp, PollError, PollTimeout, Drains, FallsBack
  <2>4. proc' # "start" /\ (cur' # None => cur # None /\ cur'.id = cur.id)
    <3>1. cur \in Reply
      BY <1>4 DEF Places, TypeOK, PollDone, GivesUp, GiveUp, PollError, PollTimeout, StartFails,
                  Drains, DrainStart, DrainAbsent, DrainDone, DrainMiss, ReadResult,
                  FallsBack, FallbackMt,
                  FallbackC, FallbackRaises
    <3> QED
      BY <1>4, <3>1, NoneAssumption
         DEF Reply, PollDone, GivesUp, GiveUp, PollError, PollTimeout, StartFails, Drains,
             DrainStart, DrainAbsent, DrainDone, DrainMiss, ReadResult, FallsBack,
             FallbackMt, FallbackC, FallbackRaises
  <2>5. InDevice' = InDevice
    BY <2>2 DEF InDevice
  <2>6. Chain(dma_out, feats)' /\ Chain(dma_score, scores)'
    BY <2>2 DEF DeviceInOrder, Chain, Seen
  <2> QED
    BY <2>3, <2>4, <2>5, <2>6 DEF DeviceInOrder, Around
<1>5. CASE Device
  <2>1. feats \in Seq(Packet) /\ scores \in Seq(Packet)
    BY DEF TypeOK, DeviceTypeOK
  <2>2. UNCHANGED <<proc, cur, Around>>
    BY <1>5, DeviceSteps DEF threadVars
  <2>3. Chain(dma_out, feats) /\ Chain(dma_score, scores)
    BY DEF DeviceInOrder
  <2>4. SUFFICES InDevice' \subseteq InDevice /\ Chain(dma_out, feats)'
                 /\ Chain(dma_score, scores)'
    BY <2>2 DEF DeviceInOrder, Around
  <2>5. CASE Pipeline /\ UNCHANGED <<dma_out, dma_score>>
    <3>1. /\ mm2s \in Packet /\ mm2s # None /\ mm2s' = None
          /\ feats' = Append(feats, mm2s) /\ scores' = Append(scores, mm2s)
      BY <2>5 DEF Pipeline, TypeOK, DeviceTypeOK
    <3>2. Items(feats') = Items(feats) \cup {mm2s} /\ Items(scores') = Items(scores) \cup {mm2s}
      BY <3>1, DeviceQueues
    <3>3. Increasing(feats') /\ Increasing(scores')
      BY <2>1, <2>3, <3>1, OneMoreOneLess DEF Chain
    <3>4. InDevice' \subseteq InDevice
      BY <2>5, <3>1, <3>2 DEF InDevice
    <3> QED
      BY <2>3, <2>5, <3>1, <3>2, <3>3, <3>4 DEF Chain, Seen
  <2>6. CASE FeatureTransfer /\ dma_out'.buf = Head(feats)
             /\ UNCHANGED <<mm2s, scores, dma_score>>
    <3>1. feats # <<>> /\ feats' = Tail(feats) /\ Head(feats) \in Packet
      BY <2>6, DeviceQueues DEF FeatureTransfer
    <3>2. Items(feats) = {Head(feats)} \cup Items(feats')
      BY <3>1, DeviceQueues
    <3>3. Increasing(feats') /\ \A y \in Items(feats') : Head(feats) < y
      BY <2>1, <2>3, <3>1, OneMoreOneLess DEF Chain
    <3>4. InDevice' \subseteq InDevice
      BY <2>6, <3>1, <3>2 DEF InDevice
    <3>5. Seen(dma_out)' = Head(feats)
      BY <2>6, <3>1 DEF Seen
    <3>6. Chain(dma_score, scores)'
      BY <2>3, <2>6 DEF Chain, Seen
    <3>7. Chain(dma_out, feats)'
      BY <2>3, <2>6, <3>2, <3>3, <3>5 DEF Chain
    <3> QED
      BY <3>4, <3>6, <3>7
  <2>7. CASE ScoreTransfer /\ dma_score'.buf = Head(scores)
             /\ UNCHANGED <<mm2s, feats, dma_out>>
    <3>1. scores # <<>> /\ scores' = Tail(scores) /\ Head(scores) \in Packet
      BY <2>7, DeviceQueues DEF ScoreTransfer
    <3>2. Items(scores) = {Head(scores)} \cup Items(scores')
      BY <3>1, DeviceQueues
    <3>3. Increasing(scores') /\ \A y \in Items(scores') : Head(scores) < y
      BY <2>1, <2>3, <3>1, OneMoreOneLess DEF Chain
    <3>4. InDevice' \subseteq InDevice
      BY <2>7, <3>1, <3>2 DEF InDevice
    <3>5. Seen(dma_score)' = Head(scores)
      BY <2>7, <3>1 DEF Seen
    <3>6. Chain(dma_out, feats)'
      BY <2>3, <2>7 DEF Chain, Seen
    <3>7. Chain(dma_score, scores)'
      BY <2>3, <2>7, <3>2, <3>3, <3>5 DEF Chain
    <3> QED
      BY <3>4, <3>6, <3>7
  <2>8. CASE dma_out'.buf = dma_out.buf /\ UNCHANGED <<mm2s, feats, scores, dma_score>>
    BY <2>3, <2>8 DEF InDevice, Chain, Seen
  <2>9. CASE dma_score'.buf = dma_score.buf /\ UNCHANGED <<mm2s, feats, scores, dma_out>>
    BY <2>3, <2>9 DEF InDevice, Chain, Seen
  <2> QED
    BY <1>5, <2>5, <2>6, <2>7, <2>8, <2>9, DeviceSteps
<1> QED
  BY <1>1, <1>2, <1>3, <1>4, <1>5, StepCases

-----------------------------------------------------------------------------
(* What the steps of the processor do to the reply it builds. *)

LEMMA Taking ==
    ASSUME TypeOK, Places, TypeOK', Ordered', Takes
    PROVE  /\ All = Out /\ Out' = Out /\ All' = Out \cup {cur'}
           /\ cur' \in Reply /\ cur'.id \in Packet
           /\ cur'.feat \in {PS, None} /\ cur'.score = None
           /\ \A r \in Out : r.id < cur'.id
           /\ UNCHANGED <<deviceVars, imb, missed, cserver>>
           /\ GetPing => cur'.feat = None /\ proc' = "put"
           /\ GetDeltas => proc' = IF HasPL THEN "start" ELSE "fallback"
           /\ proc = "get"
<1>1. PICK kind : Fetch(kind)
  BY DEF Takes, GetPing, GetDeltas
<1>2. PICK x \in {PS, None} : cur' = [id |-> Head(rxq).id, feat |-> x, score |-> None]
  BY DEF Takes, GetPing, GetDeltas
<1>3. cur' \in Reply
  BY <1>1, <1>2, FetchEffect DEF Reply
<1>4. cur' # None
  BY <1>3, NoneAssumption
<1>5. All = Out /\ Out' = Out /\ UNCHANGED <<deviceVars, missed, cserver>> /\ proc = "get"
  BY <1>1, FetchEffect
<1>6. All' = Out \cup {cur'}
  BY <1>4, <1>5 DEF All
<1>7. \A r \in Out : r.id < cur'.id
  BY <1>4, <1>5, OrderOfAllPrimed DEF OneByOne
<1> QED
  BY <1>2, <1>3, <1>5, <1>6, <1>7 DEF Takes, GetPing, GetDeltas, Reply

(* Inside the processor the reply keeps its packet. *)
Inside == Start \/ PollDone \/ GivesUp \/ Drains \/ ReadResult \/ FallsBack

LEMMA AtWorkOn ==
    ASSUME TypeOK, Places, AtWork, Inside
    PROVE  /\ cur \in Reply /\ cur # None /\ cur.feat = PS /\ cur.score = None
           /\ All = Out \cup {cur}
           /\ UNCHANGED Around /\ Out' = Out
           /\ cur' = cur \/ ReadResult \/ FallbackC \/ FallbackRaises
           /\ proc' # "get" \/ FallbackRaises
<1>1. proc # "get" /\ proc # "put"
  BY DEF Inside, Start, PollDone, GivesUp, GiveUp, PollError, PollTimeout, StartFails, Drains,
         DrainStart, DrainAbsent, DrainDone, DrainMiss, ReadResult, FallsBack, FallbackMt,
         FallbackC, FallbackRaises
<1>2. cur \in Reply /\ cur # None /\ cur.feat = PS /\ cur.score = None
  BY <1>1 DEF Places, TypeOK, AtWork
<1>3. UNCHANGED Around
  BY InsideSteps DEF Inside, GivesUp, PollError, PollTimeout, Drains, FallsBack
<1>4. cur' = cur \/ ReadResult \/ FallbackC \/ FallbackRaises
  BY DEF Inside, Start, PollDone, GivesUp, GiveUp, PollError, PollTimeout, StartFails, Drains,
         DrainStart, DrainAbsent, DrainDone, DrainMiss, FallsBack, FallbackMt
<1>5. proc' # "get" \/ FallbackRaises
  BY DEF Inside, Start, PollDone, GivesUp, GiveUp, PollError, PollTimeout, StartFails, Drains,
         DrainStart, DrainAbsent, DrainDone, DrainMiss, FallsBack, FallbackMt, FallbackC,
         ReadResult
<1> QED
  BY <1>2, <1>3, <1>4, <1>5 DEF All, Around

LEMMA Reading ==
    ASSUME TypeOK, Places, AtWork, ReadResult
    PROVE  /\ cur'.id = cur.id /\ cur'.feat = dma_out.buf /\ cur'.score = dma_score.buf
           /\ dma_out.buf \in Packet /\ dma_score.buf \in Packet \cup {None}
           /\ All' = Out \cup {cur'} /\ cur' \in Reply
           /\ imb' = IF cserver THEN dma_out.buf ELSE imb
           /\ UNCHANGED <<deviceVars, missed>>
           /\ HasPL /\ proc' = "put"
<1>1. cur \in Reply /\ Out' = Out
  BY AtWorkOn DEF Inside
<1>2. dma_out.buf \in Packet /\ dma_score.buf \in Packet \cup {None} /\ HasPL
  BY DEF ReadResult, AtWork, TypeOK, DeviceTypeOK, Channel
<1>3. cur' = [cur EXCEPT !.feat = dma_out.buf, !.score = dma_score.buf]
  BY DEF ReadResult
<1>4. cur' = [id |-> cur.id, feat |-> dma_out.buf, score |-> dma_score.buf]
  BY <1>1, <1>3 DEF Reply
<1>5. cur' \in Reply
  BY <1>1, <1>2, <1>4 DEF Reply
<1>6. cur' # None
  BY <1>5, NoneAssumption
<1> QED
  BY <1>1, <1>2, <1>4, <1>5, <1>6 DEF ReadResult, All

LEMMA FallingBack ==
    ASSUME TypeOK, Places, AtWork, FallsBack
    PROVE  /\ UNCHANGED <<deviceVars, imb, missed, cserver>>
           /\ proc = "fallback"
           /\ \/ cur' = cur /\ proc' = "put" /\ All' = All
              \/ cur' = None /\ proc' = "get" /\ All' = Out
              \/ /\ imb \in Packet /\ cur'.id = cur.id /\ cur'.feat = imb /\ cur'.score = None
                 /\ All' = Out \cup {cur'} /\ cur' \in Reply /\ proc' = "put"
<1>1. /\ UNCHANGED <<deviceVars, imb, missed, cserver>>
      /\ proc = "fallback"
  BY DEF FallsBack, FallbackMt, FallbackC, FallbackRaises
<1>2. cur \in Reply /\ Out' = Out /\ cur.score = None
  BY AtWorkOn DEF Inside
<1>3. CASE FallbackMt
  <2>1. cur' = cur /\ proc' = "put"
    BY <1>3 DEF FallbackMt
  <2> QED
    BY <1>1, <1>2, <2>1 DEF All
<1>4. CASE FallbackRaises
  <2>1. cur' = None /\ proc' = "get"
    BY <1>4 DEF FallbackRaises
  <2> QED
    BY <1>1, <1>2, <2>1 DEF All
<1>5. CASE FallbackC
  <2>1. imb \in Packet
    BY <1>5 DEF FallbackC, Unpackable, TypeOK
  <2>2. cur' = [cur EXCEPT !.feat = imb] /\ proc' = "put"
    BY <1>5 DEF FallbackC
  <2>3. cur' = [id |-> cur.id, feat |-> imb, score |-> None]
    BY <1>2, <2>2 DEF Reply
  <2>4. cur' \in Reply
    BY <1>2, <2>1, <2>3 DEF Reply
  <2>5. cur' # None
    BY <2>4, NoneAssumption
  <2> QED
    BY <1>1, <1>2, <2>1, <2>2, <2>3, <2>4, <2>5 DEF All
<1> QED
  BY <1>3, <1>4, <1>5 DEF FallsBack

-----------------------------------------------------------------------------
LEMMA StepReplies ==
    ASSUME TypeOK, TypeOK', Places, Ordered, Ordered', AtWork, DeviceInOrder, RepliesInOrder,
           [Next]_vars
    PROVE  RepliesInOrder'
<1> USE PacketNumbers
<1>1. /\ dma_out.buf \in Packet \cup {None} /\ dma_score.buf \in Packet \cup {None}
      /\ imb \in Packet \cup {None} /\ \A r \in All : r \in Reply
      /\ \A r \in Reply : /\ r.id \in Nat /\ r.feat \in Packet \cup {None, PS}
                          /\ r.score \in Packet \cup {None}
  BY AllTyped DEF TypeOK, DeviceTypeOK, Channel, Reply
<1>2. \A p \in Packet : p <= p
  OBVIOUS
<1>3. CASE Passes
  BY <1>3 DEF Passes, deviceVars, RepliesInOrder
<1>4. CASE Takes
  <2>1. /\ All' = All \cup {cur'} /\ cur'.feat \notin Packet /\ cur'.score \notin Packet
        /\ UNCHANGED <<dma_out, dma_score, imb, cserver>>
    BY <1>4, Taking DEF deviceVars
  <2> QED
    BY <2>1 DEF RepliesInOrder
<1>5. CASE Start \/ PollDone \/ GivesUp \/ Drains \/ FallbackMt
  <2>1. /\ dma_out'.buf = dma_out.buf /\ dma_score'.buf = dma_score.buf
        /\ cserver' = cserver /\ imb' = imb
    BY <1>5, ProcessorOnDevice, InsideSteps
       DEF FallsBack, Start, PollDone, GivesUp, GiveUp, PollError, PollTimeout, StartFails,
           Drains, DrainStart, DrainAbsent, DrainDone, DrainMiss, FallbackMt
  <2>2. cur' = cur
    BY <1>5 DEF FallsBack, Start, PollDone, GivesUp, GiveUp, PollError, PollTimeout, StartFails,
                Drains, DrainStart, DrainAbsent, DrainDone, DrainMiss, FallbackMt
  <2>3. All' = All
    BY <1>5, <2>2, AtWorkOn DEF Inside, FallsBack, All
  <2> QED
    BY <2>1, <2>3 DEF RepliesInOrder
<1>6. CASE ReadResult
  <2>1. All = Out \cup {cur} /\ cur # None /\ UNCHANGED Around
    BY <1>6, AtWorkOn DEF Inside
  <2>2. \A r \in Out : r.id < cur.id
    BY <2>1, OrderOfAll DEF OneByOne
  <2>3. /\ cur'.id = cur.id /\ cur'.feat = dma_out.buf /\ cur'.score = dma_score.buf
        /\ dma_out.buf \in Packet /\ All' = Out \cup {cur'}
        /\ imb' = IF cserver THEN dma_out.buf ELSE imb
        /\ UNCHANGED <<dma_out, dma_score>> /\ cserver' = cserver
    BY <1>6, Reading DEF deviceVars, ReadResult
  <2>4. /\ imb' # None => imb' <= dma_out.buf
        /\ cserver => imb' = dma_out.buf
    <3>1. dma_out.buf <= dma_out.buf
      BY ONLY <1>2, <2>3
    <3>2. imb # None => imb <= dma_out.buf
      BY DEF RepliesInOrder
    <3> QED
      BY ONLY <2>3, <3>1, <3>2
  <2>5. \A r \in Out :
           /\ r.feat \in Packet => r.feat <= dma_out.buf
           /\ r.score \in Packet => dma_score.buf # None /\ r.score <= dma_score.buf
    BY <2>1 DEF RepliesInOrder
  <2>6. \A r \in All' :
           /\ r.feat \in Packet => r.feat <= dma_out.buf
           /\ r.score \in Packet => dma_score.buf # None /\ r.score <= dma_score.buf
    <3>1. dma_out.buf <= dma_out.buf
      BY ONLY <1>2, <2>3
    <3>2. dma_score.buf \in Packet => dma_score.buf # None /\ dma_score.buf <= dma_score.buf
      BY ONLY <1>2, PacketNumbers
    <3>3. \A r \in All' : r \in Out \/ r = cur'
      BY <2>3
    <3> QED
      BY ONLY <2>3, <2>5, <3>1, <3>2, <3>3
  <2>7. \A r, s \in All' : r.id < s.id => r \in Out
    <3> SUFFICES ASSUME NEW s \in All', cur.id < s.id PROVE FALSE
      BY <2>3
    <3>1. s \in Out \/ s = cur'
      BY <2>3
    <3> QED
      BY <1>1, <2>1, <2>2, <2>3, <3>1
  <2>8. \A r, s \in All' : r.id < s.id =>
          /\ {r.feat, s.feat} \subseteq Packet => r.feat <= s.feat
          /\ {r.score, s.score} \subseteq Packet => r.score <= s.score
    <3> SUFFICES ASSUME NEW r \in Out, NEW s \in All', r.id < s.id
                 PROVE  /\ {r.feat, s.feat} \subseteq Packet => r.feat <= s.feat
                        /\ {r.score, s.score} \subseteq Packet => r.score <= s.score
      BY <2>7
    <3>1. CASE s = cur'
      BY <2>3, <2>5, <3>1
    <3>2. CASE s \in Out
      BY <2>1, <3>2 DEF RepliesInOrder
    <3> QED
      BY <2>3, <3>1, <3>2
  <2> QED
    BY <1>1, <2>3, <2>4, <2>6, <2>8 DEF RepliesInOrder
<1>7. CASE FallbackC \/ FallbackRaises
  <2>1. All = Out \cup {cur} /\ cur # None
    BY <1>7, AtWorkOn DEF Inside, FallsBack
  <2>2. \A r \in Out : r.id < cur.id
    BY <2>1, OrderOfAll DEF OneByOne
  <2>3. UNCHANGED <<dma_out, dma_score, imb, cserver>>
    BY <1>7 DEF FallbackC, FallbackRaises, deviceVars
  <2>4. CASE All' \subseteq All
    BY <2>3, <2>4 DEF RepliesInOrder
  <2>5. CASE /\ imb \in Packet /\ cur'.id = cur.id /\ cur'.feat = imb /\ cur'.score = None
             /\ All' = Out \cup {cur'} /\ cserver
    <3>1. dma_out.buf # None /\ imb <= dma_out.buf
      BY <2>5 DEF RepliesInOrder
    <3>2. \A r \in Out : r.feat \in Packet => r.feat <= imb
      BY <2>1, <2>3, <2>5 DEF RepliesInOrder
    <3>3. \A r, s \in All' : r.id < s.id => r \in Out
      <4> SUFFICES ASSUME NEW s \in All', cur.id < s.id PROVE FALSE
        BY <2>5
      <4>1. s \in Out \/ s = cur'
        BY <2>5
      <4> QED
        BY <1>1, <2>1, <2>2, <2>5, <4>1
    <3>4. \A r, s \in All' : r.id < s.id =>
            /\ {r.feat, s.feat} \subseteq Packet => r.feat <= s.feat
            /\ {r.score, s.score} \subseteq Packet => r.score <= s.score
      <4> SUFFICES ASSUME NEW r \in Out, NEW s \in All', r.id < s.id
                   PROVE  /\ {r.feat, s.feat} \subseteq Packet => r.feat <= s.feat
                          /\ {r.score, s.score} \subseteq Packet => r.score <= s.score
        BY <3>3
      <4>1. CASE s = cur'
        BY <2>5, <3>2, <4>1
      <4>2. CASE s \in Out
        BY <2>1, <4>2 DEF RepliesInOrder
      <4> QED
        BY <2>5, <4>1, <4>2
    <3>5. \A r \in All' :
            /\ r.feat \in Packet => r.feat <= dma_out.buf /\ r.feat <= imb
            /\ r.score \in Packet => dma_score.buf # None /\ r.score <= dma_score.buf
      BY <1>1, <2>1, <2>5, <3>1, <3>2 DEF RepliesInOrder
    <3> QED
      BY <2>3, <2>5, <3>1, <3>4, <3>5 DEF RepliesInOrder
  <2>6. (FallbackC => cserver) /\ (FallbackRaises => proc' = "get")
    BY DEF FallbackC, FallbackRaises
  <2> QED
    BY <1>7, <2>1, <2>4, <2>5, <2>6, FallingBack DEF FallsBack
<1>8. CASE Device
  <2>1. UNCHANGED <<All, imb, cserver>>
    BY <1>8, DeviceSteps DEF threadVars
  <2>2. CASE FeatureTransfer /\ dma_out'.buf = Head(feats) /\ UNCHANGED dma_score
    <3>1. Head(feats) \in Packet /\ Head(feats) \in Items(feats)
      BY <2>2, DeviceQueues DEF FeatureTransfer
    <3>2. Seen(dma_out) < Head(feats)
      BY <3>1 DEF DeviceInOrder, Chain
    <3>3. \A n \in Nat : dma_out.buf # None /\ n <= dma_out.buf => n <= Head(feats)
      <4>1. dma_out.buf # None => dma_out.buf \in Nat /\ dma_out.buf < Head(feats)
        BY <1>1, <3>2 DEF Seen
      <4>2. Head(feats) \in Nat
        BY <3>1
      <4> QED
        BY ONLY <4>1, <4>2
    <3> QED
      BY <1>1, <2>1, <2>2, <3>1, <3>3 DEF RepliesInOrder
  <2>3. CASE ScoreTransfer /\ dma_score'.buf = Head(scores) /\ UNCHANGED dma_out
    <3>1. Head(scores) \in Packet /\ Head(scores) \in Items(scores)
      BY <2>3, DeviceQueues DEF ScoreTransfer
    <3>2. Seen(dma_score) < Head(scores)
      BY <3>1 DEF DeviceInOrder, Chain
    <3>3. \A n \in Nat : dma_score.buf # None /\ n <= dma_score.buf => n <= Head(scores)
      <4>1. dma_score.buf # None => dma_score.buf \in Nat /\ dma_score.buf < Head(scores)
        BY <1>1, <3>2 DEF Seen
      <4>2. Head(scores) \in Nat
        BY <3>1
      <4> QED
        BY ONLY <4>1, <4>2
    <3> QED
      BY <1>1, <2>1, <2>3, <3>1, <3>3 DEF RepliesInOrder
  <2>4. CASE dma_out'.buf = dma_out.buf /\ UNCHANGED dma_score
    BY <2>1, <2>4 DEF RepliesInOrder
  <2>5. CASE dma_score'.buf = dma_score.buf /\ UNCHANGED dma_out
    BY <2>1, <2>5 DEF RepliesInOrder
  <2> QED
    BY <1>8, <2>2, <2>3, <2>4, <2>5, DeviceSteps
<1> QED
  BY <1>3, <1>4, <1>5, <1>6, <1>7, <1>8, StepCases DEF FallsBack

-----------------------------------------------------------------------------
(* How far results are behind. *)

LEMMA DeltaSets ==
    ASSUME TypeOK
    PROVE  /\ DeltaIds \subseteq Packet /\ Pipelined \subseteq Packet
           /\ \A b : After(b) \subseteq DeltaIds /\ \A c : UpTo(b, c) \subseteq After(b)
BY AllTyped DEF DeltaIds, After, UpTo, Pipelined, Reply

LEMMA DeltaSteps ==
    ASSUME TypeOK, Places, TypeOK', Ordered, Ordered', AtWork, [Next]_vars
    PROVE  /\ Takes => /\ GetPing => DeltaIds' = DeltaIds
                       /\ DeltaIds' \subseteq DeltaIds \cup {cur'.id}
                       /\ \A i \in DeltaIds : i < cur'.id
           /\ ~ Takes => DeltaIds' \subseteq DeltaIds
           /\ Inside => cur.id \in DeltaIds /\ cur.id \in Packet
<1> USE PacketNumbers
<1>1. CASE Passes
  <2>1. All' \subseteq All
    BY <1>1 DEF Passes
  <2>2. ~ Takes
    BY <1>1 DEF Passes, Takes, GetPing, GetDeltas, Fetch
  <2> QED
    BY <2>1, <2>2, AtWorkOn DEF DeltaIds, Reply
<1>2. CASE Takes
  <2>1. /\ All' = All \cup {cur'} /\ \A r \in All : r.id < cur'.id
        /\ GetPing => cur'.feat = None
    BY <1>2, Taking
  <2> QED
    BY <1>2, <2>1, AtWorkOn DEF DeltaIds, Reply
<1>3. CASE Inside
  <2>1. /\ cur \in Reply /\ cur # None /\ cur.feat = PS
        /\ All = Out \cup {cur} /\ Out' = Out
    BY <1>3, AtWorkOn
  <2>2. cur.id \in DeltaIds /\ cur.id \in Packet
    BY <2>1 DEF DeltaIds, Reply
  <2>3. \A r \in All' : r \in All \/ r.id = cur.id
    <3>1. CASE ReadResult
      BY <2>1, <3>1, Reading
    <3>2. CASE FallsBack
      BY <2>1, <3>2, FallingBack
    <3>3. CASE cur' = cur
      BY <2>1, <3>3 DEF All
    <3> QED
      BY <1>3, <3>1, <3>2, <3>3, AtWorkOn DEF FallsBack
  <2>4. DeltaIds' \subseteq DeltaIds
    BY <2>2, <2>3 DEF DeltaIds
  <2>5. ~ Takes
    BY <1>3 DEF Takes, GetPing, GetDeltas, Fetch, Inside, Start, PollDone, GivesUp, GiveUp,
                PollError, PollTimeout, StartFails, Drains, DrainStart, DrainAbsent,
                DrainDone, DrainMiss,
                ReadResult, FallsBack, FallbackMt, FallbackC, FallbackRaises
  <2> QED
    BY <2>2, <2>4, <2>5
<1>4. CASE Device
  <2>1. All' = All
    BY <1>4, DeviceSteps
  <2>2. ~ Takes
    <3>1. Takes => proc' # proc
      BY DEF Takes, GetPing, GetDeltas, Fetch
    <3> QED
      BY <1>4, <3>1 DEF Device, threadVars
  <2> QED
    BY <2>1, <2>2, AtWorkOn DEF DeltaIds, Reply
<1> QED
  BY <1>1, <1>2, <1>3, <1>4, StepCases DEF Inside

LEMMA Ones ==
    /\ Arming \in {0, 1} /\ Pending \in {0, 1} /\ Completed \in {0, 1}
    /\ Arming' \in {0, 1} /\ Pending' \in {0, 1} /\ Completed' \in {0, 1}
BY DEF Arming, Pending, Completed, One

LEMMA BehindTyped ==
    /\ TypeOK => Behind \subseteq Packet
    /\ TypeOK' => (Behind \subseteq Packet)'
<1>1. TypeOK => Behind \subseteq Packet
  BY DeltaSets DEF Behind
<1> QED
  BY <1>1, PTL

LEMMA StepBufferLag ==
    ASSUME TypeOK, TypeOK', Places, Ordered, Ordered', AtWork, DeviceInOrder, BufferLag,
           [Next]_vars
    PROVE  BufferLag'
<1> SUFFICES ASSUME HasPL
             PROVE  Cardinality(Behind') + Completed' <= Abandoned' + Arming'
  BY DEF BufferLag
<1>1. Cardinality(Behind) + Completed <= Abandoned + Arming
  BY DEF BufferLag
<1>2. /\ Behind \subseteq Packet /\ Behind' \subseteq Packet
      /\ DeltaIds \subseteq Packet /\ Pipelined \subseteq Packet
  BY DeltaSets, BehindTyped
<1>3. Abandoned \in Nat /\ Abandoned' \in Nat /\ Abandoned <= Abandoned'
  BY NeverLess
<1>4. Cardinality(Behind) \in Nat /\ Cardinality(Behind') \in Nat
  BY <1>2, Cards
<1> DEFINE Same == /\ Seen(dma_out)' = Seen(dma_out) /\ Pipelined' \subseteq Pipelined
                   /\ dma_out'.ioc = dma_out.ioc
<1>5. ASSUME Same, DeltaIds' \subseteq DeltaIds
      PROVE  Cardinality(Behind') <= Cardinality(Behind) /\ Completed' = Completed
  <2>1. Behind' \subseteq Behind
    BY <1>5 DEF Behind, After
  <2> QED
    BY <1>2, <1>5, <2>1, Cards DEF Completed
<1> HIDE DEF Same
<1>6. CASE Passes
  <2>1. Same
    BY <1>6 DEF Same, Passes, deviceVars, Seen, Pipelined
  <2>2. DeltaIds' \subseteq DeltaIds
    BY <1>6 DEF Passes, DeltaIds
  <2>3. Arming' = Arming
    BY <1>6 DEF Passes, Arming
  <2> QED
    BY <1>1, <1>3, <1>4, <1>5, <2>1, <2>2, <2>3, Ones
<1>7. CASE GetPing
  <2>1. Same
    BY <1>7, Taking DEF Takes, Same, deviceVars, Seen, Pipelined
  <2>2. DeltaIds' \subseteq DeltaIds
    BY <1>7, DeltaSteps DEF Takes
  <2>3. Arming' = 0 /\ Arming = 0
    BY <1>7, Taking DEF Takes, Arming, One
  <2> QED
    BY <1>1, <1>3, <1>4, <1>5, <2>1, <2>2, <2>3, Ones
<1>8. CASE GetDeltas
  <2>1. UNCHANGED <<dma_out, mm2s, feats>> /\ proc = "get" /\ proc' = "start"
    BY <1>8, Taking DEF Takes, deviceVars
  <2>2. DeltaIds' \subseteq DeltaIds \cup {cur'.id}
    BY <1>8, DeltaSteps DEF Takes
  <2>3. Behind' \subseteq Behind \cup {cur'.id}
    BY <2>1, <2>2 DEF Behind, After, Seen, Pipelined
  <2>4. Cardinality(Behind') <= Cardinality(Behind) + 1
    BY <1>2, <2>3, Cards
  <2>5. Arming = 0 /\ Arming' = 1 /\ Completed' = Completed
    BY <2>1 DEF Arming, One, Completed
  <2> QED
    BY <1>1, <1>3, <1>4, <2>4, <2>5, Ones
<1>9. CASE Start
  <2>1. /\ proc = "start" /\ proc' = "poll" /\ feats' = feats /\ dma_out'.buf = dma_out.buf
        /\ mm2s' \in {mm2s, cur.id} /\ dma_out'.ioc = dma_out.ioc
    BY <1>9, ProcessorOnDevice DEF Start, StartMM2S, PollDone
  <2>2. Inside /\ ~ Takes
    BY <1>9 DEF Inside, Takes, GetPing, GetDeltas, Fetch, Start
  <2>3. cur.id \in DeltaIds /\ cur.id \in Packet /\ DeltaIds' \subseteq DeltaIds
    BY <2>2, DeltaSteps
  <2>4. Seen(dma_out) < cur.id
    <3>1. dma_out.buf # None => dma_out.buf \in InDevice /\ cur # None
      BY <2>1 DEF InDevice, Places
    <3> QED
      BY <2>1, <2>3, <3>1, PacketNumbers DEF Seen, DeviceInOrder
  <2>5. Behind' \subseteq Behind
    BY <2>1, <2>3, <2>4 DEF Behind, After, Seen, Pipelined
  <2>6. Cardinality(Behind') <= Cardinality(Behind)
    BY <1>2, <2>5, Cards
  <2>7. Arming' = Arming /\ Completed' = Completed
    BY <2>1 DEF Arming, One, Completed
  <2> QED
    BY <1>1, <1>3, <1>4, <2>6, <2>7, Ones
<1>10. CASE GivesUp \/ Drains \/ ReadResult \/ FallsBack \/ PollDone
  <2>1. ~ Start /\ ~ Takes /\ Inside
    BY <1>10 DEF Takes, GetPing, GetDeltas, Fetch, Inside, Start, PollDone, GivesUp, GiveUp,
                 PollError, PollTimeout, StartFails, Drains, DrainStart, DrainAbsent,
                 DrainDone, DrainMiss,
                 ReadResult, FallsBack, FallbackMt, FallbackC, FallbackRaises
  <2>2. Seen(dma_out)' = Seen(dma_out) /\ Pipelined' = Pipelined
    BY <1>10, <2>1, ProcessorOnDevice DEF Seen, Pipelined
  <2>3. DeltaIds' \subseteq DeltaIds
    BY <2>1, DeltaSteps
  <2>4. Cardinality(Behind') <= Cardinality(Behind)
    <3>1. Behind' \subseteq Behind
      BY <2>2, <2>3 DEF Behind, After
    <3> QED
      BY <1>2, <3>1, Cards
  <2>5. CASE PollDone
    <3>1. Completed = 1 /\ Completed' = 0 /\ Arming' = 0
      BY <2>5, ChannelEffects DEF PollDone, Completed, One, Arming, TypeOK, DeviceTypeOK
    <3> QED
      BY <1>1, <1>3, <1>4, <2>4, <3>1, Ones
  <2>6. CASE GivesUp
    <3>1. Abandoned + 1 <= Abandoned'
      BY <2>6, GivingUp DEF GivesUp
    <3>2. Completed' = Completed
      BY <2>6 DEF GivesUp, GiveUp, PollError, PollTimeout, StartFails, deviceVars, Completed
    <3> QED
      BY <1>1, <1>3, <1>4, <2>4, <3>1, <3>2, Ones
  <2>7. CASE Drains \/ ReadResult \/ FallsBack
    <3>1. UNCHANGED dma_out /\ proc \notin {"start", "poll"} /\ proc' \notin {"start", "poll"}
      BY <2>7 DEF Drains, DrainStart, DrainAbsent, DrainDone, DrainMiss, ReadResult, FallsBack,
                  FallbackMt, FallbackC, FallbackRaises, deviceVars
    <3>2. Arming = 0 /\ Arming' = 0 /\ Completed' = Completed
      BY <3>1 DEF Arming, One, Completed
    <3> QED
      BY <1>1, <1>3, <1>4, <2>4, <3>2, Ones
  <2> QED
    BY <1>10, <2>5, <2>6, <2>7
<1>11. CASE Device
  <2>1. Arming' = Arming /\ DeltaIds' = DeltaIds
    BY <1>11, DeviceSteps DEF threadVars, Arming, DeltaIds
  <2>2. CASE Pipeline /\ UNCHANGED dma_out
    <3>1. /\ mm2s \in Packet /\ mm2s' = None /\ feats' = Append(feats, mm2s)
      BY <2>2 DEF Pipeline, TypeOK, DeviceTypeOK
    <3>2. Pipelined' = Pipelined
      BY <3>1, DeviceQueues, PacketNumbers DEF Pipelined
    <3>3. Same
      BY <2>2, <3>2 DEF Same, Seen
    <3> QED
      BY <1>1, <1>3, <1>4, <1>5, <2>1, <3>3, Ones
  <2>3. CASE /\ FeatureTransfer /\ dma_out'.ioc /\ dma_out'.buf = Head(feats)
             /\ UNCHANGED mm2s
    <3> DEFINE h == Head(feats)
    <3>1. /\ h \in Packet /\ Items(feats) = {h} \cup Items(feats') /\ feats # <<>>
          /\ feats' = Tail(feats)
      BY <2>3, DeviceQueues DEF FeatureTransfer
    <3>2. /\ feats \in Seq(Packet) /\ Increasing(feats) /\ Seen(dma_out) < h
          /\ mm2s # None => h < mm2s
      BY <3>1 DEF TypeOK, DeviceTypeOK, DeviceInOrder, Chain
    <3>3. \A y \in Items(feats') : h < y
      BY <3>1, <3>2, OneMoreOneLess
    <3>4. Seen(dma_out)' = h
      BY <2>3, <3>1, PacketNumbers DEF Seen
    <3>5. h \in Nat /\ DeltaIds \subseteq Nat /\ Seen(dma_out) \in Nat
      BY <1>2, <3>1, PacketNumbers, DeviceNumbers
    <3>6. h \in Behind
      BY <3>1 DEF Behind, Pipelined
    <3> HIDE DEF h
    <3> DEFINE b == Seen(dma_out)
    <3> HIDE DEF b
    <3>7. After(h) \subseteq After(b) \ {h}
      <4>1. \A i \in Nat : h < i => b < i /\ i # h
        BY ONLY <3>2, <3>5 DEF b
      <4> QED
        BY <3>5, <4>1 DEF After
    <3>8. Pipelined' \subseteq Pipelined \ {h}
      BY <2>3, <3>1, <3>2, <3>3, <3>5, PacketNumbers DEF Pipelined
    <3>9. Behind' \subseteq Behind \ {h}
      <4>1. After(Seen(dma_out))' = After(h)
        BY <2>1, <3>4 DEF After
      <4> QED
        BY <3>7, <3>8, <4>1 DEF Behind, b
    <3>10. Cardinality(Behind') + 1 <= Cardinality(Behind)
      BY <1>2, <3>6, <3>9, Cards
    <3> QED
      BY <1>1, <1>3, <1>4, <2>1, <3>10, Ones
  <2>4. CASE /\ dma_out'.ioc = dma_out.ioc /\ dma_out'.buf = dma_out.buf
             /\ UNCHANGED <<mm2s, feats>>
    <3>1. Same
      BY <2>4 DEF Same, Seen, Pipelined
    <3> QED
      BY <1>1, <1>3, <1>4, <1>5, <2>1, <3>1, Ones
  <2> QED
    BY <1>11, <2>2, <2>3, <2>4, DeviceSteps
<1> QED
  BY <1>6, <1>7, <1>8, <1>9, <1>10, <1>11, StepCases DEF Takes

LEMMA LagTyped ==
    /\ TypeOK => After(imb) \subseteq Packet
    /\ TypeOK' => (After(imb) \subseteq Packet)'
<1>1. TypeOK => After(imb) \subseteq Packet
  BY DeltaSets
<1> QED
  BY <1>1, PTL

LEMMA StepFallbackLag ==
    ASSUME TypeOK, TypeOK', Places, Ordered, Ordered', AtWork, BufferLag, FallbackLag,
           [Next]_vars
    PROVE  FallbackLag'
<1> SUFFICES ASSUME imb' # None
             PROVE  Cardinality(After(imb)') <= Abandoned' + Pending'
  BY DEF FallbackLag
<1> DEFINE A == After(imb)
<1>1. imb # None => Cardinality(A) <= Abandoned + Pending
  BY DEF FallbackLag
<1>2. A \subseteq Packet /\ A' \subseteq Packet
  BY LagTyped
<1>3. Abandoned \in Nat /\ Abandoned' \in Nat /\ Abandoned <= Abandoned'
  BY NeverLess
<1>4. Cardinality(A) \in Nat /\ Cardinality(A') \in Nat
  BY <1>2, Cards
<1>5. ASSUME imb' = imb, DeltaIds' \subseteq DeltaIds
      PROVE  Cardinality(A') <= Cardinality(A)
  <2>1. A' \subseteq A
    BY <1>5 DEF After
  <2> QED
    BY <1>2, <2>1, Cards
<1>6. SUFFICES Cardinality(A') <= Abandoned' + Pending'
  OBVIOUS
<1> HIDE DEF A
<1>7. CASE Passes
  <2>1. imb' = imb /\ Pending' = Pending
    BY <1>7 DEF Passes, Pending
  <2>2. DeltaIds' \subseteq DeltaIds
    BY <1>7 DEF Passes, DeltaIds
  <2> QED
    BY <1>1, <1>3, <1>4, <1>5, <2>1, <2>2, Ones
<1>8. CASE GetPing
  <2>1. imb' = imb /\ proc = "get" /\ proc' = "put"
    BY <1>8, Taking DEF Takes
  <2>2. DeltaIds' \subseteq DeltaIds
    BY <1>8, DeltaSteps DEF Takes
  <2>3. Pending = 0 /\ Pending' = 0
    BY <2>1 DEF Pending, One
  <2> QED
    BY <1>1, <1>3, <1>4, <1>5, <2>1, <2>2, <2>3
<1>9. CASE GetDeltas
  <2>1. imb' = imb /\ proc = "get"
    BY <1>9, Taking DEF Takes
  <2>2. HasPL
    BY <2>1 DEF AtWork
  <2>3. proc' = "start"
    BY <1>9, <2>2, Taking DEF Takes
  <2>4. Pending = 0 /\ Pending' = 1
    BY <2>1, <2>3 DEF Pending, One
  <2>5. DeltaIds' \subseteq DeltaIds \cup {cur'.id}
    BY <1>9, DeltaSteps DEF Takes
  <2>6. A' \subseteq A \cup {cur'.id}
    BY <2>1, <2>5 DEF A, After
  <2>7. Cardinality(A') <= Cardinality(A) + 1
    BY <1>2, <2>6, Cards
  <2> QED
    BY <1>1, <1>3, <1>4, <2>1, <2>4, <2>7
<1>10. ASSUME Inside
       PROVE  DeltaIds' \subseteq DeltaIds
  <2>1. ~ Takes
    BY <1>10 DEF Takes, GetPing, GetDeltas, Fetch, Inside, Start, PollDone, GivesUp, GiveUp,
                 PollError, PollTimeout, StartFails, Drains, DrainStart, DrainAbsent,
                 DrainDone, DrainMiss,
                 ReadResult, FallsBack, FallbackMt, FallbackC, FallbackRaises
  <2> QED
    BY <2>1, DeltaSteps
<1>11. CASE Start \/ PollDone \/ Drains
  <2>1. /\ imb' = imb
        /\ {proc, proc'} \subseteq {"start", "poll", "drain", "score", "read"}
    BY <1>11 DEF Start, PollDone, Drains, DrainStart, DrainAbsent, DrainDone, DrainMiss
  <2>2. Pending' = Pending
    BY <2>1 DEF Pending, One
  <2> QED
    BY <1>1, <1>3, <1>4, <1>5, <1>10, <1>11, <2>1, <2>2, Ones DEF Inside
<1>12. CASE GivesUp
  <2>1. Abandoned + 1 <= Abandoned'
    BY <1>12, GivingUp DEF GivesUp
  <2>2. imb' = imb
    BY <1>12 DEF GivesUp, GiveUp, PollError, PollTimeout, StartFails
  <2> QED
    BY <1>1, <1>3, <1>4, <1>5, <1>10, <1>12, <2>1, <2>2, Ones DEF Inside
<1>13. CASE ReadResult
  <2>1. /\ proc = "read" /\ HasPL /\ dma_out.buf \in Packet
        /\ imb' = IF cserver THEN dma_out.buf ELSE imb
    BY <1>13, Reading DEF ReadResult
  <2>2. imb' = dma_out.buf /\ imb' = Seen(dma_out)
    BY <2>1, PacketNumbers DEF AtWork, Seen
  <2>3. Behind \subseteq Packet /\ Cardinality(Behind) + Completed <= Abandoned + Arming
    BY <2>1, BehindTyped DEF BufferLag
  <2>4. Arming = 0
    BY <2>1 DEF Arming, One
  <2>5. A' \subseteq Behind
    BY <1>10, <1>13, <2>2 DEF Inside, A, After, Behind
  <2>6. Cardinality(A') <= Cardinality(Behind) /\ Cardinality(Behind) \in Nat
    BY <1>2, <2>3, <2>5, Cards
  <2> QED
    BY <1>3, <1>4, <2>3, <2>4, <2>6, Ones
<1>14. CASE FallsBack
  <2>1. imb' = imb /\ proc = "fallback"
    BY <1>14, FallingBack
  <2>2. Pending = 0
    BY <2>1 DEF Pending, One
  <2> QED
    BY <1>1, <1>3, <1>4, <1>5, <1>10, <1>14, <2>1, <2>2, Ones DEF Inside
<1>15. CASE Device
  <2>1. imb' = imb /\ Pending' = Pending /\ DeltaIds' = DeltaIds
    BY <1>15, DeviceSteps DEF threadVars, Pending, DeltaIds
  <2> QED
    BY <1>1, <1>3, <1>4, <1>5, <2>1, Ones
<1> QED
  BY <1>7, <1>8, <1>9, <1>11, <1>12, <1>13, <1>14, <1>15, StepCases DEF Takes

(* A reply that is under way stays where it is in the order. *)
LEMMA UpToTyped ==
    /\ TypeOK => \A b, c : UpTo(b, c) \subseteq Packet
    /\ TypeOK' => (\A b, c : UpTo(b, c) \subseteq Packet)'
<1>1. TypeOK => \A b, c : UpTo(b, c) \subseteq Packet
  BY DeltaSets
<1> QED
  BY <1>1, PTL

LEMMA StepReplyLag ==
    ASSUME TypeOK, TypeOK', Places, Ordered, Ordered', AtWork, DeviceInOrder, RepliesInOrder,
           BufferLag, FallbackLag, ReplyLag, [Next]_vars
    PROVE  ReplyLag'
<1> USE PacketNumbers
<1>1. Abandoned \in Nat /\ Abandoned' \in Nat /\ Abandoned <= Abandoned'
  BY NeverLess
<1>2. \A r \in All : r.id \in Packet
  BY AllTyped DEF Reply
<1>3. ASSUME NEW r \in All, r.feat \in Packet
      PROVE  /\ r.feat <= r.id
             /\ Cardinality(UpTo(r.feat, r.id)') <= Abandoned'
  <2> DEFINE U == UpTo(r.feat, r.id)
             V == {i \in {j \in DeltaIds' : r.feat < j} : i <= r.id}
  <2>1. UpTo(r.feat, r.id)' = V
    BY DEF UpTo, After
  <2>2. V \subseteq U
    <3>1. \A i \in DeltaIds' : i \in DeltaIds \/ (Takes /\ i = cur'.id)
      BY DeltaSteps
    <3>2. Takes => ~ (cur'.id <= r.id)
      <4>1. ASSUME Takes PROVE r.id < cur'.id /\ cur'.id \in Nat /\ r.id \in Nat
        BY <1>2, <4>1, Taking
      <4> QED
        BY <4>1
    <3> QED
      BY <3>1, <3>2 DEF UpTo, After
  <2>3. U \subseteq Packet
    BY UpToTyped
  <2>4. r.feat <= r.id /\ Cardinality(U) <= Abandoned
    BY <1>3 DEF ReplyLag
  <2> HIDE DEF U, V
  <2>5. Cardinality(V) <= Cardinality(U) /\ Cardinality(V) \in Nat /\ Cardinality(U) \in Nat
    BY <2>2, <2>3, Cards
  <2>6. Cardinality(V) <= Abandoned'
    BY ONLY <1>1, <2>4, <2>5
  <2> QED
    BY <2>1, <2>4, <2>6
<1>4. SUFFICES ASSUME NEW r \in All', r \notin All, r.feat \in Packet
               PROVE  r.feat <= r.id /\ Cardinality(UpTo(r.feat, r.id)') <= Abandoned'
  BY <1>3 DEF ReplyLag
<1>5. /\ ReadResult \/ FallsBack
      /\ r.id = cur.id
      /\ ReadResult => r.feat = dma_out.buf
      /\ FallsBack => r.feat = imb /\ imb \in Packet
      /\ proc \in {"read", "fallback"} /\ cur # None
  <2>1. CASE Passes
    BY <1>4, <2>1 DEF Passes
  <2>2. CASE Takes
    BY <1>4, <2>2, Taking
  <2>3. CASE Start \/ PollDone \/ GivesUp \/ Drains
    <3>1. cur' = cur
      BY <2>3 DEF Start, PollDone, GivesUp, GiveUp, PollError, PollTimeout, StartFails, Drains,
                  DrainStart, DrainAbsent, DrainDone, DrainMiss
    <3> QED
      BY <1>4, <2>3, <3>1, AtWorkOn DEF Inside, All
  <2>4. CASE ReadResult
    <3>1. /\ All = Out \cup {cur} /\ All' = Out \cup {cur'} /\ cur'.id = cur.id
          /\ cur'.feat = dma_out.buf /\ proc = "read" /\ cur # None
      BY <2>4, Reading, AtWorkOn DEF Inside, ReadResult
    <3>2. ~ FallsBack
      BY <3>1, FallingBack
    <3> QED
      BY <1>4, <2>4, <3>1, <3>2
  <2>5. CASE FallsBack
    <3>1. All = Out \cup {cur} /\ cur # None
      BY <2>5, AtWorkOn DEF Inside
    <3>2. ~ ReadResult
      BY <2>5, FallingBack DEF ReadResult
    <3> QED
      BY <1>4, <2>5, <3>1, <3>2, FallingBack
  <2>6. CASE Device
    BY <1>4, <2>6, DeviceSteps
  <2> QED
    BY <2>1, <2>2, <2>3, <2>4, <2>5, <2>6, StepCases
<1>6. cur.id \in DeltaIds /\ cur.id \in Packet /\ DeltaIds' \subseteq DeltaIds
  <2>1. ~ Takes
    BY <1>5 DEF Takes, GetPing, GetDeltas, Fetch
  <2> QED
    BY <1>5, <2>1, DeltaSteps DEF Inside
<1> DEFINE V == {i \in {j \in DeltaIds' : r.feat < j} : i <= r.id}
<1>7. UpTo(r.feat, r.id)' = V
  BY DEF UpTo, After
<1>8. V \subseteq After(r.feat)
  BY <1>6 DEF After
<1>9. After(r.feat) \subseteq Packet
  BY DeltaSets
<1> HIDE DEF V
<1>10. Cardinality(V) <= Cardinality(After(r.feat)) /\ Cardinality(V) \in Nat
       /\ Cardinality(After(r.feat)) \in Nat
  BY <1>8, <1>9, Cards
<1>11. Arming = 0
  BY <1>5 DEF Arming, One
<1>12. dma_out.buf \in Packet => dma_out.buf <= cur.id
  BY <1>5 DEF DeviceInOrder, InDevice
<1>13. CASE ReadResult
  <2>1. HasPL /\ r.feat = Seen(dma_out) /\ r.feat = dma_out.buf
    BY <1>4, <1>5, <1>13, Reading DEF Seen
  <2>2. Behind \subseteq Packet /\ Cardinality(Behind) + Completed <= Abandoned + Arming
    BY <2>1, BehindTyped DEF BufferLag
  <2>3. After(r.feat) \subseteq Behind
    BY <2>1 DEF Behind
  <2>4. Cardinality(After(r.feat)) <= Cardinality(Behind) /\ Cardinality(Behind) \in Nat
    BY <1>9, <2>2, <2>3, Cards
  <2>5. Cardinality(V) <= Abandoned'
    BY <1>1, <1>10, <1>11, <2>2, <2>4, Ones
  <2> QED
    BY <1>4, <1>5, <1>7, <1>12, <2>1, <2>5
<1>14. CASE FallsBack
  <2>1. r.feat = imb /\ imb \in Packet /\ proc = "fallback" /\ imb # None
    BY <1>5, <1>14, FallingBack
  <2>2. Cardinality(After(imb)) <= Abandoned + Pending
    BY <2>1 DEF FallbackLag
  <2>3. Pending = 0
    BY <2>1 DEF Pending, One
  <2>4. Cardinality(V) <= Abandoned'
    BY <1>1, <1>10, <2>1, <2>2, <2>3
  <2>5. imb <= cur.id
    <3>1. dma_out.buf # None /\ imb <= dma_out.buf
      BY <2>1 DEF RepliesInOrder
    <3>2. dma_out.buf \in Packet
      BY <3>1 DEF TypeOK, DeviceTypeOK, Channel
    <3>3. imb \in Nat /\ dma_out.buf \in Nat /\ cur.id \in Nat
      BY <1>6, <2>1, <3>2
    <3> QED
      BY <1>12, <3>1, <3>2, <3>3
  <2> QED
    BY <1>5, <1>7, <2>1, <2>4, <2>5
<1> QED
  BY <1>5, <1>13, <1>14

-----------------------------------------------------------------------------
(* The packet in progress, while nothing was abandoned. *)

(* A queue that holds one packet, or comes to hold one. *)
LEMMA Singles ==
    /\ \A p \in Packet : Append(<<>>, p) = <<p>> /\ Head(<<p>>) = p /\ Tail(<<p>>) = <<>>
                         /\ <<p>> # <<>>
OBVIOUS

LEMMA StepAtPlace ==
    ASSUME TypeOK, TypeOK', Places, Ordered, Ordered', AtWork, AtPlace,
           Undisturbed', missed' = 0, [Next]_vars
    PROVE  AtPlace'
<1>1. /\ dma_out \in Channel /\ dma_score \in Channel
      /\ dma_out.busy => ~ dma_out.err
  BY DEF TypeOK, DeviceTypeOK, AtWork
<1>2. CASE Passes
  <2>1. UNCHANGED <<mm2s, feats, scores, dma_out, dma_score>>
    BY <1>2 DEF Passes, deviceVars
  <2>2. CASE proc' = proc /\ cur' = cur
    BY <2>1, <2>2 DEF AtPlace, Idle, Streaming, Streamed, Draining, OutIdle, ScoreIdle
  <2>3. CASE proc = "put" /\ proc' = "get"
    BY <2>1, <2>3 DEF AtPlace, Idle, OutIdle, ScoreIdle
  <2> QED
    BY <1>2, <2>2, <2>3 DEF Passes
<1>3. CASE Takes
  <2>1. /\ UNCHANGED <<mm2s, feats, scores, dma_out, dma_score>> /\ proc = "get"
        /\ proc' \in {"start", "put", "fallback"}
    BY <1>3, Taking DEF Takes, deviceVars
  <2> QED
    BY <2>1 DEF AtPlace, Idle, OutIdle, ScoreIdle
<1>4. CASE Start
  <2>1. /\ proc = "start" /\ proc' = "poll" /\ cur' = cur
        /\ mm2s' = StartMM2S(cur.id) /\ UNCHANGED <<feats, scores, dma_score>>
    BY <1>4 DEF Start
  <2>2. dma_out'.ioc = dma_out.ioc
    BY <1>1, <1>4, ChannelEffects DEF Start
  <2>3. Idle
    BY <2>1 DEF AtPlace
  <2>4. Streaming'
    BY <2>1, <2>2, <2>3 DEF Idle, Streaming, StartMM2S, OutIdle, ScoreIdle
  <2> QED
    BY <2>1, <2>4 DEF AtPlace
<1>5. CASE PollDone
  <2>1. /\ proc = "poll" /\ proc' = "drain" /\ cur' = cur /\ dma_out.ioc
        /\ UNCHANGED <<mm2s, feats, scores, dma_score>>
    BY <1>5 DEF PollDone
  <2>2. dma_out'.busy = dma_out.busy /\ ~ dma_out'.ioc /\ dma_out'.err = dma_out.err
    BY <1>1, <1>5, ChannelEffects DEF PollDone
  <2>3. Streaming
    BY <2>1 DEF AtPlace
  <2>4. Streamed'
    BY <2>1, <2>2, <2>3 DEF Streaming, Streamed, OutIdle, ScoreIdle
  <2> QED
    BY <2>1, <2>4 DEF AtPlace
<1>6. CASE GivesUp
  BY <1>6, GivingUp DEF GivesUp
<1>7. CASE DrainStart
  <2>1. /\ proc = "drain" /\ proc' = "score" /\ cur' = cur
        /\ UNCHANGED <<mm2s, feats, scores, dma_out>>
    BY <1>7 DEF DrainStart
  <2>2. dma_score'.busy = ~ dma_score.err /\ dma_score'.ioc = dma_score.ioc
    BY <1>1, <1>7, ChannelEffects DEF DrainStart
  <2>3. Streamed
    BY <2>1 DEF AtPlace
  <2>4. Draining'
    BY <1>1, <2>1, <2>2, <2>3 DEF Draining, Streamed, OutIdle, ScoreIdle
  <2> QED
    BY <2>1, <2>4 DEF AtPlace
<1>8. CASE DrainDone
  <2>1. /\ proc = "score" /\ proc' = "read" /\ cur' = cur /\ dma_score.ioc
        /\ UNCHANGED <<mm2s, feats, scores, dma_out>>
    BY <1>8 DEF DrainDone
  <2>2. /\ dma_score'.busy = dma_score.busy /\ ~ dma_score'.ioc
        /\ dma_score'.buf = dma_score.buf
    BY <1>1, <1>8, ChannelEffects DEF DrainDone
  <2>3. Draining
    BY <2>1 DEF AtPlace
  <2>4. Idle' /\ dma_score'.buf = cur'.id
    BY <2>1, <2>2, <2>3 DEF Draining, Idle, OutIdle, ScoreIdle
  <2> QED
    BY <2>1, <2>4 DEF AtPlace
<1>9. CASE DrainMiss \/ DrainAbsent
  BY <1>9 DEF DrainMiss, DrainAbsent, TypeOK
<1>10. CASE ReadResult \/ FallsBack
  <2>1. /\ proc \in {"read", "fallback"} /\ proc' \in {"get", "put"}
        /\ UNCHANGED <<mm2s, feats, scores, dma_out, dma_score>>
    BY <1>10, FallingBack DEF ReadResult, deviceVars
  <2> QED
    BY <2>1 DEF AtPlace, Idle, OutIdle, ScoreIdle
<1>11. CASE Device
  <2>1. UNCHANGED <<proc, cur>>
    BY <1>11, DeviceSteps DEF threadVars
  <2>2. proc \notin {"poll", "score"} => FALSE
    <3>1. ASSUME Idle PROVE FALSE
      BY <1>11, <3>1 DEF Device, Pipeline, FeatureTransfer, ScoreTransfer, TransferError,
                         Idle, OutIdle, ScoreIdle
    <3>2. ASSUME Streamed PROVE FALSE
      BY <1>11, <3>2 DEF Device, Pipeline, FeatureTransfer, ScoreTransfer, TransferError,
                         Streamed, OutIdle, ScoreIdle
    <3> QED
      BY <3>1, <3>2 DEF AtPlace, TypeOK
  <2>3. proc \in {"poll", "score"} => cur.id \in Packet
    BY DEF Places, TypeOK, Reply
  <2>4. CASE proc = "poll"
    <3>1. Streaming
      BY <2>4 DEF AtPlace
    <3>2. Streaming'
      <4>1. CASE mm2s = cur.id /\ feats = <<>> /\ scores = <<>> /\ ~ dma_out.ioc
        <5>1. CASE Pipeline
          BY <2>1, <2>3, <2>4, <3>1, <4>1, <5>1, Singles DEF Pipeline, Streaming, ScoreIdle
        <5>2. CASE TransferError
          <6>1. dma_out'.ioc = dma_out.ioc
            BY <1>1, <5>2, ChannelEffects DEF TransferError
          <6> QED
            BY <2>1, <3>1, <4>1, <5>2, <6>1 DEF TransferError, Streaming, ScoreIdle
        <5> QED
          BY <1>11, <3>1, <4>1, <5>1, <5>2
             DEF Device, FeatureTransfer, ScoreTransfer, Streaming, ScoreIdle
      <4>2. CASE /\ mm2s = None /\ feats = <<cur.id>> /\ scores = <<cur.id>>
                 /\ ~ dma_out.ioc
        <5>1. CASE FeatureTransfer
          <6>1. ~ dma_out'.busy /\ dma_out'.err = dma_out.err /\ ~ dma_out.err
            BY <1>1, <5>1, ChannelEffects DEF FeatureTransfer
          <6>2. feats' = <<>> /\ UNCHANGED <<mm2s, scores, dma_score>>
            BY <2>3, <2>4, <4>2, <5>1, Singles DEF FeatureTransfer
          <6> QED
            BY <2>1, <3>1, <4>2, <6>1, <6>2 DEF Streaming, ScoreIdle
        <5>2. CASE TransferError
          <6>1. dma_out'.ioc = dma_out.ioc
            BY <1>1, <5>2, ChannelEffects DEF TransferError
          <6> QED
            BY <2>1, <3>1, <4>2, <5>2, <6>1 DEF TransferError, Streaming, ScoreIdle
        <5> QED
          BY <1>11, <3>1, <4>2, <5>1, <5>2
             DEF Device, Pipeline, ScoreTransfer, Streaming, ScoreIdle
      <4>3. CASE /\ mm2s = None /\ feats = <<>> /\ scores = <<cur.id>>
                 /\ ~ dma_out.busy /\ ~ dma_out.err
        BY <1>11, <3>1, <4>3 DEF Device, Pipeline, FeatureTransfer, ScoreTransfer,
                                 TransferError, Streaming, ScoreIdle
      <4> QED
        BY <3>1, <4>1, <4>2, <4>3 DEF Streaming
    <3> QED
      BY <2>1, <2>4, <3>2 DEF AtPlace
  <2>5. CASE proc = "score"
    <3>1. Draining
      BY <2>5 DEF AtPlace
    <3>2. CASE ScoreTransfer
      <4>1. scores = <<cur.id>>
        BY <3>1, <3>2 DEF Draining, ScoreTransfer
      <4>2. /\ ~ dma_score'.busy /\ dma_score'.buf = cur.id /\ scores' = <<>>
            /\ UNCHANGED <<mm2s, feats, dma_out>>
        BY <1>1, <2>3, <2>5, <3>2, <4>1, ChannelEffects, Singles DEF ScoreTransfer
      <4>3. Draining'
        BY <2>1, <3>1, <4>2 DEF Draining, OutIdle
      <4> QED
        BY <2>1, <2>5, <4>3 DEF AtPlace
    <3>3. CASE TransferError
      <4>1. /\ dma_score'.ioc = dma_score.ioc /\ ~ dma_score'.busy
            /\ dma_score'.buf = dma_score.buf /\ UNCHANGED <<mm2s, feats, scores, dma_out>>
        BY <1>1, <3>1, <3>3, ChannelEffects DEF TransferError, Draining, OutIdle
      <4>2. Draining'
        BY <2>1, <3>1, <4>1 DEF Draining, OutIdle
      <4> QED
        BY <2>1, <2>5, <4>2 DEF AtPlace
    <3> QED
      BY <1>11, <3>1, <3>2, <3>3 DEF Device, Pipeline, FeatureTransfer, Draining, OutIdle
  <2> QED
    BY <2>2, <2>4, <2>5
<1> QED
  BY <1>2, <1>3, <1>4, <1>5, <1>6, <1>7, <1>8, <1>9, <1>10, <1>11, StepCases DEF Drains

LEMMA StepTraced ==
    ASSUME TypeOK, TypeOK', Places, Ordered, Ordered', AtWork, Traced, [Next]_vars
    PROVE  Traced'
<1> SUFFICES ASSUME Undisturbed', missed' = 0
             PROVE  AtPlace' /\ \A r \in All' : r.score \in {r.id, None}
  BY DEF Traced
<1>1. AtPlace /\ \A r \in All : r.score \in {r.id, None}
  BY NeverLess DEF Traced
<1>2. AtPlace'
  BY <1>1, StepAtPlace
<1>3. \A r \in All' : r.score \in {r.id, None}
  <2>1. CASE Passes
    BY <1>1, <2>1 DEF Passes
  <2>2. CASE Takes
    BY <1>1, <2>2, Taking
  <2>3. CASE Start \/ PollDone \/ GivesUp \/ Drains
    <3>1. cur' = cur
      BY <2>3 DEF Start, PollDone, GivesUp, GiveUp, PollError, PollTimeout, StartFails, Drains,
                  DrainStart, DrainAbsent, DrainDone, DrainMiss
    <3> QED
      BY <1>1, <2>3, <3>1, AtWorkOn DEF Inside, All
  <2>4. CASE ReadResult
    <3>1. dma_score.buf = cur.id
      BY <1>1, <2>4 DEF AtPlace, ReadResult
    <3>2. All' = Out \cup {cur'} /\ cur'.id = cur.id /\ cur'.score = dma_score.buf
      BY <2>4, Reading
    <3>3. All = Out \cup {cur}
      BY <2>4, AtWorkOn DEF Inside
    <3> QED
      BY <1>1, <3>1, <3>2, <3>3
  <2>5. CASE FallsBack
    <3>1. All = Out \cup {cur}
      BY <2>5, AtWorkOn DEF Inside
    <3> QED
      BY <1>1, <2>5, <3>1, FallingBack
  <2>6. CASE Device
    BY <1>1, <2>6, DeviceSteps
  <2> QED
    BY <2>1, <2>2, <2>3, <2>4, <2>5, <2>6, StepCases
<1> QED
  BY <1>2, <1>3

-----------------------------------------------------------------------------
(* The invariant. *)

LEMMA InitResults == Init => ResultsInv
<1> SUFFICES ASSUME Init PROVE ResultsInv
  OBVIOUS
<1>1. Items(<<>>) = {}
  BY DEF Items
<1>2. Out = {} /\ All = {} /\ Inbound = {}
  BY <1>1 DEF Init, Out, All, Inbound
<1>3. /\ dma_out = [busy |-> FALSE, ioc |-> FALSE, err |-> FALSE, buf |-> None]
      /\ dma_score = dma_out /\ mm2s = None /\ feats = <<>> /\ scores = <<>>
      /\ proc = "get" /\ cur = None /\ imb = None
  BY DEF Init, DeviceInit
<1>4. Ordered
  BY InitOrdered
<1>5. AtWork
  BY <1>3 DEF AtWork
<1>6. DeviceInOrder
  BY <1>1, <1>3 DEF DeviceInOrder, Chain, Seen, Increasing, InDevice
<1>7. RepliesInOrder /\ FallbackLag /\ ReplyLag
  BY <1>2, <1>3 DEF RepliesInOrder, FallbackLag, ReplyLag
<1>8. BufferLag
  <2>1. Behind = {}
    BY <1>1, <1>2, <1>3, PacketNumbers DEF Behind, After, DeltaIds, Pipelined
  <2>2. Cardinality(Behind) = 0
    BY <2>1, FS_EmptySet
  <2>3. Completed = 0 /\ Arming = 0 /\ Abandoned = 0
    BY <1>3 DEF Completed, Arming, One, Abandoned, Init, Counters
  <2> QED
    BY <2>2, <2>3 DEF BufferLag
<1>9. Traced
  BY <1>2, <1>3 DEF Traced, AtPlace, Idle, OutIdle, ScoreIdle
<1>10. FullIsDrained
  BY <1>3, DeviceAssumption DEF FullIsDrained
<1> QED
  BY <1>4, <1>5, <1>6, <1>7, <1>8, <1>9, <1>10 DEF ResultsInv

LEMMA StepResults == IInv /\ IInv' /\ ResultsInv /\ [Next]_vars => ResultsInv'
<1>1. IInv => TypeOK /\ Places
  BY DEF IInv
<1>2. IInv' => TypeOK'
  BY <1>1, PTL
<1>3. IInv /\ IInv' /\ Ordered /\ [Next]_vars => Ordered'
  BY StepOrdered
<1> SUFFICES ASSUME IInv, IInv', ResultsInv, [Next]_vars
             PROVE  ResultsInv'
  OBVIOUS
<1>4. TypeOK /\ TypeOK' /\ Places
  BY <1>1, <1>2
<1>5. /\ Ordered /\ AtWork /\ DeviceInOrder /\ RepliesInOrder
      /\ BufferLag /\ FallbackLag /\ ReplyLag /\ Traced /\ FullIsDrained
  BY DEF ResultsInv
<1>6. Ordered'
  BY <1>3, <1>5
<1>7. AtWork' /\ FullIsDrained'
  BY <1>4, <1>5, StepAtWork, StepFull
<1>8. DeviceInOrder'
  BY <1>4, <1>5, StepOrder
<1>9. RepliesInOrder'
  BY <1>4, <1>5, <1>6, StepReplies
<1>10. BufferLag'
  BY <1>4, <1>5, <1>6, StepBufferLag
<1>11. FallbackLag'
  BY <1>4, <1>5, <1>6, StepFallbackLag
<1>12. ReplyLag'
  BY <1>4, <1>5, <1>6, StepReplyLag
<1>13. Traced'
  BY <1>4, <1>5, <1>6, StepTraced
<1> QED
  BY <1>6, <1>7, <1>8, <1>9, <1>10, <1>11, <1>12, <1>13 DEF ResultsInv

(* The order of the packets, of the results in the device and of those in   *)
(* the replies, how far the buffers are behind, and where the packet in     *)
(* progress is, are invariants together.                                    *)
THEOREM ResultsInvariant == Spec => [](IInv /\ ResultsInv)
BY InitResults, StepResults, ServerInvariant, PTL DEF Spec

-----------------------------------------------------------------------------
LEMMA RepliesAreAll == Replies \subseteq Out /\ Replies \subseteq All
BY DEF Replies, Out, All, Items

(* Between two packets nothing of an undisturbed exchange with the device   *)
(* is left over: no transfer, no completion bit, nothing in its queues.     *)
THEOREM NothingOutlivesItsPacket == Spec => []CleanBetweenPackets
<1>1. ResultsInv => CleanBetweenPackets
  BY DEF ResultsInv, Traced, AtPlace, Idle, OutIdle, ScoreIdle, CleanBetweenPackets
<1> QED
  BY <1>1, ResultsInvariant, PTL

(* While no transfer was abandoned and no drain gave up, every score that   *)
(* is sent is the one of its packet.                                        *)
THEOREM ScoresAreOwn == Spec => []OwnScores
<1>1. ResultsInv => OwnScores
  BY RepliesAreAll DEF ResultsInv, Traced, OwnScores
<1> QED
  BY <1>1, ResultsInvariant, PTL

(* With the second DMA one drain for each completion is enough while        *)
(* neither receive channel has stopped on an error: the pipeline, the score *)
(* queue and the poll never wait for each other in a circle.                *)
THEOREM DrainIsEnough == Spec => []DrainPreventsBackpressure
<1>1. ResultsInv => DrainPreventsBackpressure
  BY DEF ResultsInv, FullIsDrained, DrainPreventsBackpressure, Wedged
<1> QED
  BY <1>1, ResultsInvariant, PTL

(* Without the second DMA no score ever leaves the queue: each result that  *)
(* was counted, is being read, or is still to be, has its score there.      *)
Unfinished == One(proc \in {"drain", "read"}) + One(dma_out.ioc)

Undrained ==
    ~ HasScore =>
        /\ ~ dma_score.busy /\ proc # "score"
        /\ stats["pl_done"] + Unfinished + Len(feats) <= Len(scores)

LEMMA DoneNumbers ==
    ASSUME TypeOK
    PROVE  /\ stats["pl_done"] \in Nat /\ Len(feats) \in Nat /\ Len(scores) \in Nat
           /\ "pl_done" \in Counters
BY DEF TypeOK, DeviceTypeOK, Counters

(* Only a result that is read is counted as one. *)
LEMMA DoneCount ==
    ASSUME TypeOK, [Next]_vars
    PROVE  stats'["pl_done"] = IF ReadResult THEN stats["pl_done"] + 1 ELSE stats["pl_done"]
<1> USE DoneNumbers
<1>1. CASE ReadResult
  <2>1. Count({"pl_done"})
    BY <1>1 DEF ReadResult
  <2> QED
    BY <1>1, <2>1, CountEffect
<1>2. ASSUME NEW S, Count(S), "pl_done" \notin S
      PROVE  stats'["pl_done"] = stats["pl_done"]
  BY <1>2, CountEffect
<1>3. CASE ~ ReadResult
  <2>1. UNCHANGED stats \/ \E S : Count(S) /\ "pl_done" \notin S
    <3>1. CASE (\E kind \in Kind : Send(kind)) \/ Receiver \/ ReceiverDies \/ Sender \/ SenderDies
      <4>1. UNCHANGED stats \/ Count({"rx_pkts"}) \/ Count({"tx_pkts"})
        BY <3>1 DEF Send, Receiver, ReceiverDies, Receive, ReceiverPut, ReceiverCount,
                    Sender, SenderDies, SenderGet, SenderSend
      <4> QED
        BY <4>1
    <3>2. CASE GetJunk \/ Takes \/ GivesUp
      BY <3>2 DEF GetJunk, Takes, GetPing, GetDeltas, GivesUp, StartFails, PollError,
                  PollTimeout, GiveUp
    <3>3. CASE Start \/ PollDone \/ Drains \/ FallsBack \/ ProcessorPut
      BY <3>3 DEF Start, PollDone, Drains, DrainStart, DrainAbsent, DrainDone, DrainMiss,
                  FallsBack, FallbackMt, FallbackC, FallbackRaises, ProcessorPut
    <3>4. CASE Device \/ UNCHANGED vars
      BY <3>4 DEF Device, vars, threadVars
    <3> QED
      BY <1>3, <3>1, <3>2, <3>3, <3>4 DEF Next, Processor, Takes, GivesUp, Drains, FallsBack
  <2> QED
    BY <1>2, <1>3, <2>1
<1> QED
  BY <1>1, <1>3

LEMMA StepUndrained ==
    ASSUME TypeOK, TypeOK', Places, Undrained, [Next]_vars
    PROVE  Undrained'
<1> SUFFICES ASSUME ~ HasScore
             PROVE  /\ ~ dma_score'.busy /\ proc' # "score"
                    /\ stats'["pl_done"] + Unfinished' + Len(feats') <= Len(scores')
  BY SameServer DEF Undrained
<1>1. /\ ~ dma_score.busy /\ proc # "score"
      /\ stats["pl_done"] + Unfinished + Len(feats) <= Len(scores)
  BY DEF Undrained
<1>2. /\ stats["pl_done"] \in Nat /\ Len(feats) \in Nat /\ Len(scores) \in Nat
      /\ Unfinished \in Nat /\ Unfinished' \in Nat
  BY DoneNumbers DEF Unfinished, One
<1>3. CASE Passes
  <2>1. UNCHANGED deviceVars /\ ~ ReadResult /\ Unfinished' = Unfinished /\ proc' # "score"
    BY <1>1, <1>3 DEF Passes, ReadResult, Unfinished, deviceVars
  <2> QED
    BY <1>1, <2>1, DoneCount DEF deviceVars
<1>4. CASE Takes \/ Start \/ GivesUp \/ FallsBack
  <2>1. /\ UNCHANGED <<feats, scores, dma_score>> /\ dma_out'.ioc = dma_out.ioc
        /\ proc \notin {"drain", "score", "read"} /\ proc' \notin {"drain", "score", "read"}
        /\ ~ ReadResult
    <3>1. /\ proc \in {"get", "start", "poll", "fallback"}
          /\ proc' \in {"get", "start", "poll", "fallback", "put"}
      BY <1>4, SMTT(30) DEF Takes, GetPing, GetDeltas, Fetch, Start, GivesUp, GiveUp, PollError,
                  PollTimeout, StartFails, FallsBack, FallbackMt, FallbackC, FallbackRaises
    <3>2. ~ PollDone /\ ~ Drains /\ ~ ReadResult
      BY <3>1 DEF PollDone, Drains, DrainStart, DrainAbsent, DrainDone, DrainMiss, ReadResult
    <3> QED
      BY <1>4, <3>1, <3>2, ProcessorOnDevice
  <2>2. Unfinished' = Unfinished
    BY <2>1 DEF Unfinished, One
  <2> QED
    BY <1>1, <2>1, <2>2, DoneCount
<1>5. CASE PollDone
  <2>1. /\ UNCHANGED <<feats, scores, dma_score>> /\ dma_out.ioc /\ ~ dma_out'.ioc
        /\ proc = "poll" /\ proc' = "drain" /\ ~ ReadResult
    BY <1>5, ChannelEffects DEF PollDone, ReadResult, TypeOK, DeviceTypeOK
  <2>2. Unfinished' = 1 /\ Unfinished = 1
    BY <2>1 DEF Unfinished, One
  <2>3. stats'["pl_done"] = stats["pl_done"]
    BY <2>1, DoneCount
  <2> QED
    BY ONLY <1>1, <2>1, <2>2, <2>3
<1>6. CASE Drains
  <2>1. DrainAbsent
    BY <1>1, <1>6 DEF Drains, DrainStart, DrainDone, DrainMiss
  <2>2. /\ UNCHANGED deviceVars /\ proc = "drain" /\ proc' = "read" /\ ~ ReadResult
    BY <2>1 DEF DrainAbsent, ReadResult
  <2>3. Unfinished' = Unfinished
    BY <2>2 DEF Unfinished, deviceVars
  <2> QED
    BY <1>1, <2>2, <2>3, DoneCount DEF deviceVars
<1>7. CASE ReadResult
  <2>1. /\ UNCHANGED deviceVars /\ proc = "read" /\ proc' = "put"
    BY <1>7 DEF ReadResult
  <2>2. Unfinished = Unfinished' + 1
    BY <2>1 DEF Unfinished, One, deviceVars
  <2> QED
    BY <1>1, <1>2, <1>7, <2>1, <2>2, DoneCount DEF deviceVars
<1>8. CASE Device
  <2>1. UNCHANGED <<proc, stats>>
    BY <1>8, DeviceSteps DEF threadVars
  <2>2. CASE Pipeline
    <3>1. Len(feats') = Len(feats) + 1 /\ Len(scores') = Len(scores) + 1
      BY <2>2 DEF Pipeline, TypeOK, DeviceTypeOK
    <3>2. Unfinished' = Unfinished /\ UNCHANGED dma_score
      BY <2>1, <2>2 DEF Pipeline, Unfinished
    <3> QED
      BY <1>1, <1>2, <2>1, <3>1, <3>2
  <2>3. CASE FeatureTransfer
    <3>1. Len(feats') = Len(feats) - 1 /\ UNCHANGED <<scores, dma_score>>
      BY <2>3 DEF FeatureTransfer, TypeOK, DeviceTypeOK
    <3>2. Unfinished' <= Unfinished + 1
      BY <2>1 DEF Unfinished, One
    <3> QED
      BY <1>1, <1>2, <2>1, <3>1, <3>2
  <2>4. CASE TransferError
    <3>1. dma_out'.ioc = dma_out.ioc /\ UNCHANGED <<feats, scores, dma_score>>
      BY <1>1, <2>4, ChannelEffects DEF TransferError, TypeOK, DeviceTypeOK
    <3>2. Unfinished' = Unfinished
      BY <2>1, <3>1 DEF Unfinished
    <3> QED
      BY <1>1, <2>1, <3>1, <3>2
  <2> QED
    BY <1>1, <1>8, <2>2, <2>3, <2>4 DEF Device, ScoreTransfer
<1> QED
  BY <1>3, <1>4, <1>5, <1>6, <1>7, <1>8, StepCases

(* Without the second DMA the PL yields at most as many results as its      *)
(* score queue has places, whatever else fails.                             *)
THEOREM UndrainedPLStops == Spec => []UndrainedStops
<1>1. Init => Undrained
  BY DEF Init, DeviceInit, Undrained, Unfinished, One, Counters
<1>2. TypeOK /\ TypeOK' /\ Places /\ Undrained /\ [Next]_vars => Undrained'
  BY StepUndrained
<1>3. IInv => TypeOK /\ Places
  BY DEF IInv
<1>4. TypeOK /\ Undrained => UndrainedStops
  <2> SUFFICES ASSUME TypeOK, Undrained PROVE UndrainedStops
    OBVIOUS
  <2>1. Unfinished \in Nat /\ Len(scores) <= ScoreCap
    BY DEF Unfinished, One, TypeOK, DeviceTypeOK
  <2> QED
    BY <2>1, DoneNumbers, DeviceAssumption DEF Undrained, UndrainedStops
<1>5. Spec => []Undrained
  BY <1>1, <1>2, <1>3, ServerInvariant, PTL DEF Spec
<1> QED
  BY <1>3, <1>4, <1>5, ServerInvariant, PTL

(* The results go out in the order of the packets they belong to. *)
THEOREM ResultsKeepOrder == Spec => []ResultsInOrder
<1>1. ASSUME TypeOK, ResultsInv PROVE ResultsInOrder
  <2>1. RepliesInOrder /\ OneByOne
    BY <1>1, OrderOfAll DEF ResultsInv
  <2>2. \A i \in DOMAIN sent : sent[i] \in All
    BY DEF All, Out, Items
  <2> QED
    BY <2>1, <2>2 DEF OneByOne, RepliesInOrder, ResultsInOrder
<1>2. IInv /\ ResultsInv => ResultsInOrder
  BY <1>1 DEF IInv
<1> QED
  BY <1>2, ResultsInvariant, PTL

(* Each transfer that is abandoned makes later replies older by at most one *)
(* packet of deltas, in both servers; without any, a reply holds its own    *)
(* features.  No reply holds those of a later packet.                       *)
THEOREM LagIsBounded == Spec => []BoundedLag
<1>1. ASSUME TypeOK, ResultsInv PROVE BoundedLag
  <2> SUFFICES ASSUME NEW r \in Replies, r.feat \in Packet
               PROVE  /\ r.feat <= r.id
                      /\ Cardinality({s \in Replies : /\ s.feat # None /\ r.feat < s.id
                                                      /\ s.id <= r.id})
                            <= Abandoned
    BY DEF BoundedLag, Abandoned
  <2> DEFINE S == {s \in Replies : s.feat # None /\ r.feat < s.id /\ s.id <= r.id}
             T == UpTo(r.feat, r.id)
             f == [s \in S |-> s.id]
  <2>1. r.feat <= r.id /\ Cardinality(T) <= Abandoned
    BY <1>1, RepliesAreAll DEF ResultsInv, ReplyLag
  <2>2. T \subseteq Packet
    BY <1>1, UpToTyped
  <2>3. IsFiniteSet(T)
    BY <2>2, ServerAssumption, FS_Interval, FS_Subset
  <2>4. \A s \in S : s.id \in T
    BY RepliesAreAll DEF UpTo, After, DeltaIds
  <2>5. \A s, t \in S : s.id = t.id => s = t
    BY <1>1, RepliesAreAll, OrderOfAll DEF ResultsInv, OneByOne
  <2> HIDE DEF S, T
  <2>6. f \in Injection(S, T)
    BY <2>4, <2>5 DEF Injection, IsInjective
  <2>7. /\ Cardinality(S) <= Cardinality(T)
        /\ Cardinality(S) \in Nat /\ Cardinality(T) \in Nat
    <3>1. IsFiniteSet(S) /\ Cardinality(S) <= Cardinality(T)
      BY <2>3, <2>6, FS_Injection
    <3> QED
      BY <2>3, <3>1, FS_CardinalityType
  <2>8. Abandoned \in Nat
    BY <1>1 DEF Abandoned, TypeOK, Counters
  <2>9. Cardinality(S) <= Abandoned
    BY ONLY <2>1, <2>7, <2>8
  <2> QED
    BY <2>1, <2>9 DEF S
<1>2. IInv /\ ResultsInv => BoundedLag
  BY <1>1 DEF IInv
<1> QED
  BY <1>2, ResultsInvariant, PTL

=============================================================================
