------------------------------ MODULE EchoServer ------------------------------
(***************************************************************************)
(* The feature echo servers: three threads joined by two bounded queues    *)
(* (fpga/pynq/feature_echo_mt.py), and the variant that drives the DMA     *)
(* through a C library (fpga/pynq/feature_echo_c.py, dma_driver.c), which  *)
(* shares the receiver and the sender and differs in the processor.        *)
(*                                                                         *)
(* A datagram is its position in the order of transmission and its kind; a *)
(* reply carries the packet whose feature record and whose score it holds, *)
(* so that a result attributed to the wrong request is visible.            *)
(***************************************************************************)
EXTENDS PlDevice, FiniteSets

CONSTANTS
    MaxPackets,  \* bound: datagrams the clients send
    SockCap,     \* bound of the socket's receive buffer, in datagrams
    QueueSize,   \* --rx-queue-size and --tx-queue-size
    Servers,     \* which servers run: TRUE for feature_echo_c.py, FALSE for
                 \* feature_echo_mt.py
    HasPL,       \* FALSE: --dummy, or no overlay (or no C library)
    Scored,      \* the servers whose axi_dma_1 was found: without it there is
                 \* only a warning
    Faults       \* TRUE: socket calls, the PL copy and transfers may fail

ASSUME ServerAssumption ==
    /\ MaxPackets \in Nat
    /\ Packet = 1 .. MaxPackets
    /\ SockCap \in Nat \ {0}
    /\ QueueSize \in Nat \ {0}
    /\ Servers \subseteq BOOLEAN
    /\ Scored \subseteq BOOLEAN
    /\ {HasPL, Faults} \subseteq BOOLEAN
    /\ None \notin Nat

VARIABLES
    cserver, \* the server that runs is feature_echo_c.py
    next,    \* number of the next datagram
    sock,    \* the socket's receive buffer
    rx,      \* the receiver thread: where it is and the datagram it holds
    rxq,     \* rx_queue
    proc,    \* where the processor thread is
    cur,     \* the reply the processor is building, or None
    imb,     \* feature_echo_c.py: packet whose record its feature variables
             \* still hold, None while `imb_q1_15' is unbound
    wide,    \* the sum `ofi' has left 32 bits
    txq,     \* tx_queue
    tx,      \* the sender thread: where it is and the reply it holds
    sent,    \* history: replies handed to the socket
    stats,   \* the shared counters
    missed   \* history: completions of a packet whose score was not drained

threadVars ==
    <<cserver, next, sock, rx, rxq, proc, cur, imb, wide, txq, tx, sent, stats, missed>>
vars == <<threadVars, deviceVars>>

PS == 0  \* "features" of a reply that were computed in Python

Kind == {"ping", "deltas", "junk"}
Datagram == [id : Packet, kind : Kind]
Reply == [id : Packet, feat : Packet \cup {None, PS}, score : Packet \cup {None}]

ASSUME NoneAssumption == None \notin Datagram \cup Reply

Counters == {"rx_pkts", "tx_pkts", "pl_used", "pl_done", "pl_fallbacks",
             "pl_timeouts", "pl_errors"}

(* The running server found axi_dma_1.                                     *)
HasScore == cserver \in Scored

Count(S) == stats' = [c \in Counters |-> stats[c] + (IF c \in S THEN 1 ELSE 0)]

Init ==
    /\ DeviceInit
    /\ cserver \in Servers
    /\ next = 1
    /\ sock = <<>>
    /\ rx = [pc |-> "recv", pkt |-> None]
    /\ rxq = <<>>
    /\ proc = "get"
    /\ cur = None
    /\ imb = None
    /\ wide = FALSE
    /\ txq = <<>>
    /\ tx = [pc |-> "get", reply |-> None]
    /\ sent = <<>>
    /\ stats = [c \in Counters |-> 0]
    /\ missed = 0

-----------------------------------------------------------------------------
(* A client sends a datagram; the network or a full socket buffer may lose  *)
(* it.  "junk" is a short datagram, a wrong magic or another message type.  *)
Send(kind) ==
    /\ next <= MaxPackets
    /\ next' = next + 1
    /\ \/ Len(sock) < SockCap /\ sock' = Append(sock, [id |-> next, kind |-> kind])
       \/ UNCHANGED sock
    /\ UNCHANGED <<cserver, rx, rxq, proc, cur, imb, wide, txq, tx, sent, stats, missed,
                   deviceVars>>

-----------------------------------------------------------------------------
(* receiver_thread.  The counter is incremented after the put, when the     *)
(* other threads may already be at work on the datagram.                    *)
Receive ==
    /\ rx.pc = "recv"
    /\ sock # <<>>
    /\ rx' = [pc |-> "put", pkt |-> Head(sock)]
    /\ sock' = Tail(sock)
    /\ UNCHANGED <<cserver, next, rxq, proc, cur, imb, wide, txq, tx, sent, stats, missed,
                   deviceVars>>

(* Slip: a queue without a bound. *)
ReceiverPutUnbounded ==
    /\ rx.pc = "put"
    /\ rxq' = Append(rxq, rx.pkt)
    /\ rx' = [pc |-> "count", pkt |-> None]
    /\ UNCHANGED <<cserver, next, sock, proc, cur, imb, wide, txq, tx, sent, stats, missed,
                   deviceVars>>

ReceiverPut ==
    /\ rx.pc = "put"
    /\ Len(rxq) < QueueSize
    /\ rxq' = Append(rxq, rx.pkt)
    /\ rx' = [pc |-> "count", pkt |-> None]
    /\ UNCHANGED <<cserver, next, sock, proc, cur, imb, wide, txq, tx, sent, stats, missed,
                   deviceVars>>

(* Slip: the datagram is not counted. *)
ReceiverUncounted ==
    /\ rx.pc = "count"
    /\ rx' = [rx EXCEPT !.pc = "recv"]
    /\ UNCHANGED <<cserver, next, sock, rxq, proc, cur, imb, wide, txq, tx, sent, stats, missed,
                   deviceVars>>

ReceiverCount ==
    /\ rx.pc = "count"
    /\ rx' = [rx EXCEPT !.pc = "recv"]
    /\ Count({"rx_pkts"})
    /\ UNCHANGED <<cserver, next, sock, rxq, proc, cur, imb, wide, txq, tx, sent, missed,
                   deviceVars>>

ReceiverDies ==
    /\ Faults
    /\ rx.pc = "recv"
    /\ rx' = [rx EXCEPT !.pc = "dead"]
    /\ UNCHANGED <<cserver, next, sock, rxq, proc, cur, imb, wide, txq, tx, sent, stats, missed,
                   deviceVars>>

-----------------------------------------------------------------------------
(* processor_thread: the datagram at the head of rx_queue. *)
Fetch(kind) ==
    /\ proc = "get"
    /\ rxq # <<>>
    /\ Head(rxq).kind = kind
    /\ rxq' = Tail(rxq)
    /\ UNCHANGED <<cserver, next, sock, rx, txq, tx, sent, missed, deviceVars>>

GetJunk ==
    /\ Fetch("junk")
    /\ UNCHANGED <<proc, cur, imb, wide, stats>>

GetPing ==
    /\ Fetch("ping")
    /\ cur' = [id |-> Head(rxq).id, feat |-> None, score |-> None]
    /\ proc' = "put"
    /\ UNCHANGED <<imb, wide, stats>>

(* The features computed in Python are those of the packet, in the one      *)
(* server that computes them; `ofi' is an unbounded sum over the deltas     *)
(* since the last reset.  The PL path is entered when there is one.         *)
GetDeltas ==
    /\ Fetch("deltas")
    /\ cur' = [id |-> Head(rxq).id, feat |-> PS, score |-> None]
    /\ wide' \in BOOLEAN
    /\ UNCHANGED imb
    /\ proc' = IF HasPL THEN "start" ELSE "fallback"
    /\ IF HasPL THEN Count({"pl_used"}) ELSE UNCHANGED stats

(* Both channels are armed; from here the device works on its own. *)
Start ==
    /\ proc = "start"
    /\ dma_out' = StartS2MM(dma_out)
    /\ mm2s' = StartMM2S(cur.id)
    /\ proc' = "poll"
    /\ UNCHANGED <<cserver, next, sock, rx, rxq, cur, imb, wide, txq, tx, sent, stats,
                   missed,
                   feats, scores, dma_score>>

(* An exception of the copy into the DMA buffer: the packet falls back. *)
StartFails ==
    /\ Faults
    /\ proc = "start"
    /\ proc' = "fallback"
    /\ Count({"pl_errors"})
    /\ UNCHANGED <<cserver, next, sock, rx, rxq, cur, imb, wide, txq, tx, sent, missed,
                   deviceVars>>

(* Slip: the IOC bit is not written back. *)
PollDoneKeepsIOC ==
    /\ proc = "poll"
    /\ dma_out.ioc
    /\ proc' = "drain"
    /\ UNCHANGED <<cserver, next, sock, rx, rxq, cur, imb, wide, txq, tx, sent, stats, missed,
                   deviceVars>>

(* The status register shows a completion. *)
PollDone ==
    /\ proc = "poll"
    /\ dma_out.ioc
    /\ dma_out' = ClearIOC(dma_out)
    /\ proc' = "drain"
    /\ UNCHANGED <<cserver, next, sock, rx, rxq, cur, imb, wide, txq, tx, sent, stats,
                   missed,
                   mm2s, feats, scores, dma_score>>

GiveUp(counters) ==
    /\ proc = "poll"
    /\ ~ dma_out.ioc
    /\ proc' = "fallback"
    /\ Count(counters)
    /\ UNCHANGED <<cserver, next, sock, rx, rxq, cur, imb, wide, txq, tx, sent, missed,
                   deviceVars>>

(* The status register shows an error: the C library reports it to a caller *)
(* that counts it with the timeouts.  feature_echo_c.py counts the fallback *)
(* where it computes the reply, feature_echo_mt.py here.                    *)
PollError ==
    /\ dma_out.err
    /\ GiveUp(IF cserver THEN {"pl_timeouts"} ELSE {"pl_errors", "pl_fallbacks"})

(* Slip: the poll has no time limit. *)
PollForever == FALSE

(* The time is up.  The transfer stays outstanding. *)
PollTimeout ==
    /\ ~ dma_out.err
    /\ GiveUp(IF cserver THEN {"pl_timeouts"} ELSE {"pl_timeouts", "pl_fallbacks"})

-----------------------------------------------------------------------------
(* Slip: the score channel is not armed. *)
DrainSkipped ==
    /\ proc = "drain"
    /\ proc' = "read"
    /\ UNCHANGED <<cserver, next, sock, rx, rxq, cur, imb, wide, txq, tx, sent, stats, missed,
                   deviceVars>>

(* The score is drained after every completion: one transfer is armed... *)
DrainStart ==
    /\ HasScore
    /\ proc = "drain"
    /\ dma_score' = StartS2MM(dma_score)
    /\ proc' = "score"
    /\ UNCHANGED <<cserver, next, sock, rx, rxq, cur, imb, wide, txq, tx, sent, stats,
                   missed,
                   mm2s, feats, scores, dma_out>>

(* Without the second DMA the score stays where it is. *)
DrainAbsent ==
    /\ ~ HasScore
    /\ proc = "drain"
    /\ missed' = missed + 1
    /\ proc' = "read"
    /\ UNCHANGED <<cserver, next, sock, rx, rxq, cur, imb, wide, txq, tx, sent, stats,
                   deviceVars>>

(* Slip: the IOC bit is not written back. *)
DrainKeepsIOC ==
    /\ proc = "score"
    /\ dma_score.ioc
    /\ proc' = "read"
    /\ UNCHANGED <<cserver, next, sock, rx, rxq, cur, imb, wide, txq, tx, sent, stats, missed,
                   deviceVars>>

(* ... and polled for; a completion that does not come is not an error. *)
DrainDone ==
    /\ proc = "score"
    /\ dma_score.ioc
    /\ dma_score' = ClearIOC(dma_score)
    /\ proc' = "read"
    /\ UNCHANGED <<cserver, next, sock, rx, rxq, cur, imb, wide, txq, tx, sent, stats,
                   missed,
                   mm2s, feats, scores, dma_out>>

DrainMiss ==
    /\ proc = "score"
    /\ ~ dma_score.ioc
    /\ missed' = missed + 1
    /\ proc' = "read"
    /\ UNCHANGED <<cserver, next, sock, rx, rxq, cur, imb, wide, txq, tx, sent, stats,
                   deviceVars>>

(* The buffers are read, whatever they hold now; a sum read from one fits.  *)
ReadResult ==
    /\ proc = "read"
    /\ cur' = [cur EXCEPT !.feat = dma_out.buf, !.score = dma_score.buf]
    /\ imb' = IF cserver THEN dma_out.buf ELSE imb
    /\ wide' = FALSE
    /\ proc' = "put"
    /\ Count({"pl_done"})
    /\ UNCHANGED <<cserver, next, sock, rx, rxq, txq, tx, sent, missed, deviceVars>>

(* Without a PL result feature_echo_mt.py sends what it computed.  A sum of *)
(* more than 32 bits cannot be packed, and feature_echo_c.py has nothing to *)
(* send before its first result.                                            *)
Unpackable == wide \/ (cserver /\ imb = None)

FallbackMt ==
    /\ proc = "fallback"
    /\ ~ cserver
    /\ ~ Unpackable
    /\ proc' = "put"
    /\ UNCHANGED <<cserver, next, sock, rx, rxq, cur, imb, wide, txq, tx, sent, stats,
                   missed,
                   deviceVars>>

(* feature_echo_c.py sends the values its variables still have from an      *)
(* earlier packet.                                                          *)
FallbackC ==
    /\ proc = "fallback"
    /\ cserver
    /\ ~ Unpackable
    /\ Count({"pl_fallbacks"})
    /\ cur' = [cur EXCEPT !.feat = imb]
    /\ proc' = "put"
    /\ UNCHANGED <<cserver, next, sock, rx, rxq, imb, wide, txq, tx, sent, missed,
                   deviceVars>>

(* The exception of the struct.pack, or of the variable `imb_q1_15' that is *)
(* still unbound, takes the reply with it.                                  *)
FallbackRaises ==
    /\ proc = "fallback"
    /\ Unpackable
    /\ IF cserver THEN Count({"pl_fallbacks"}) ELSE UNCHANGED stats
    /\ cur' = None
    /\ proc' = "get"
    /\ UNCHANGED <<cserver, next, sock, rx, rxq, imb, wide, txq, tx, sent, missed,
                   deviceVars>>

ProcessorPut ==
    /\ proc = "put"
    /\ Len(txq) < QueueSize
    /\ txq' = Append(txq, cur)
    /\ cur' = None
    /\ proc' = "get"
    /\ UNCHANGED <<cserver, next, sock, rx, rxq, imb, wide, tx, sent, stats, missed,
                   deviceVars>>

-----------------------------------------------------------------------------
(* sender_thread. *)
(* Slip: the last reply is taken from the queue. *)
SenderGetLast ==
    /\ tx.pc = "get"
    /\ txq # <<>>
    /\ tx' = [pc |-> "send", reply |-> txq[Len(txq)]]
    /\ txq' = SubSeq(txq, 1, Len(txq) - 1)
    /\ UNCHANGED <<cserver, next, sock, rx, rxq, proc, cur, imb, wide, sent, stats, missed,
                   deviceVars>>

SenderGet ==
    /\ tx.pc = "get"
    /\ txq # <<>>
    /\ tx' = [pc |-> "send", reply |-> Head(txq)]
    /\ txq' = Tail(txq)
    /\ UNCHANGED <<cserver, next, sock, rx, rxq, proc, cur, imb, wide, sent, stats, missed,
                   deviceVars>>

(* Slip: the reply is kept for another try although it went out. *)
SenderSendAgain ==
    /\ tx.pc = "send"
    /\ sent' = Append(sent, tx.reply)
    /\ Len(sent) < MaxPackets
    /\ Count({"tx_pkts"})
    /\ UNCHANGED <<cserver, next, sock, rx, rxq, proc, cur, imb, wide, txq, tx, missed,
                   deviceVars>>

SenderSend ==
    /\ tx.pc = "send"
    /\ sent' = Append(sent, tx.reply)
    /\ tx' = [pc |-> "get", reply |-> None]
    /\ Count({"tx_pkts"})
    /\ UNCHANGED <<cserver, next, sock, rx, rxq, proc, cur, imb, wide, txq, missed,
                   deviceVars>>

SenderDies ==
    /\ Faults
    /\ tx.pc = "send"
    /\ tx' = [pc |-> "dead", reply |-> None]
    /\ UNCHANGED <<cserver, next, sock, rx, rxq, proc, cur, imb, wide, txq, sent, stats, missed,
                   deviceVars>>

-----------------------------------------------------------------------------
Receiver == Receive \/ ReceiverPut \/ ReceiverCount

Processor ==
    \/ GetJunk \/ GetPing \/ GetDeltas
    \/ Start \/ PollDone \/ PollError \/ PollTimeout
    \/ DrainStart \/ DrainAbsent \/ DrainDone \/ DrainMiss \/ ReadResult
    \/ FallbackMt \/ FallbackC \/ FallbackRaises \/ ProcessorPut

Sender == SenderGet \/ SenderSend

Device ==
    /\ Pipeline \/ FeatureTransfer \/ ScoreTransfer \/ (Faults /\ TransferError)
    /\ UNCHANGED threadVars

Next ==
    \/ \E kind \in Kind : Send(kind)
    \/ Receiver \/ ReceiverDies
    \/ Processor \/ StartFails
    \/ Sender \/ SenderDies
    \/ Device

Spec == Init /\ [][Next]_vars

(* The threads keep being scheduled.  Nothing is assumed of the clients or  *)
(* of the device: a poll that never sees a completion runs into its timeout. *)
FairSpec ==
    /\ Spec
    /\ WF_vars(Receiver)
    /\ WF_vars(Processor)
    /\ WF_vars(Sender)

-----------------------------------------------------------------------------
TypeOK ==
    /\ DeviceTypeOK
    /\ cserver \in BOOLEAN
    /\ next \in 1 .. MaxPackets + 1
    /\ sock \in Seq(Datagram) /\ Len(sock) <= SockCap
    /\ rx \in [pc : {"recv", "put", "count", "dead"}, pkt : Datagram \cup {None}]
    /\ rxq \in Seq(Datagram) /\ Len(rxq) <= QueueSize
    /\ proc \in {"get", "start", "poll", "drain", "score", "read", "fallback", "put"}
    /\ cur \in Reply \cup {None}
    /\ imb \in Packet \cup {None}
    /\ wide \in BOOLEAN
    /\ txq \in Seq(Reply) /\ Len(txq) <= QueueSize
    /\ tx \in [pc : {"get", "send", "dead"}, reply : Reply \cup {None}]
    /\ sent \in Seq(Reply)
    /\ stats \in [Counters -> Nat]
    /\ missed \in Nat

Ids(s) == [i \in DOMAIN s |-> s[i].id]
Held(x) == IF x = None THEN <<>> ELSE <<x.id>>

(* The packets inside the server, the one to be answered next first. *)
InService == Held(tx.reply) \o Ids(txq) \o Held(cur) \o Ids(rxq) \o Held(rx.pkt)

Abstract == INSTANCE ReplyServer WITH pending <- InService, answered <- Ids(sent)

(* Three threads, two queues and any failure of theirs later, the server is *)
(* still a reply server: in order, at most once, nothing invented.          *)
ImplementsReplyServer == Abstract!Spec

Replies == {sent[i] : i \in DOMAIN sent} \cup {txq[i] : i \in DOMAIN txq}

Undisturbed == stats["pl_timeouts"] = 0 /\ stats["pl_errors"] = 0

(* Nothing in a feature record says whose it is.  Every transfer that is    *)
(* abandoned can make later replies older by one packet, and by no more;    *)
(* with none, each reply holds the features of its own packet, and no reply *)
(* ever holds a result of a later one.                                      *)
BoundedLag ==
    \A r \in Replies : r.feat \in Packet =>
        /\ r.feat <= r.id
        /\ Cardinality({s \in Replies : s.feat # None /\ r.feat < s.id /\ s.id <= r.id})
              <= stats["pl_timeouts"] + stats["pl_errors"]

(* As long as no transfer was abandoned and no drain gave up, a reply holds *)
(* the score of its own packet.                                             *)
OwnScores ==
    Undisturbed /\ missed = 0 => \A r \in Replies : r.score \in {r.id, None}

(* Results reach the client in the order of the packets they belong to. *)
ResultsInOrder ==
    \A i, j \in DOMAIN sent : i < j =>
        /\ {sent[i].feat, sent[j].feat} \subseteq Packet => sent[i].feat <= sent[j].feat
        /\ {sent[i].score, sent[j].score} \subseteq Packet => sent[i].score <= sent[j].score

(* One drain per completion keeps the score queue empty but for the packet  *)
(* in progress; only completions without a drain and abandoned transfers    *)
(* add to it.                                                               *)
DrainKeepsUp ==
    Len(scores) <= 1 + missed + stats["pl_timeouts"] + stats["pl_errors"]

(* Nothing of an undisturbed exchange with the device outlives its packet:  *)
(* no transfer outstanding, no completion flag left set.                    *)
CleanBetweenPackets ==
    proc = "get" /\ Undisturbed /\ missed = 0 =>
        /\ mm2s = None /\ feats = <<>> /\ scores = <<>>
        /\ \A channel \in {dma_out, dma_score} : ~ channel.busy /\ ~ channel.ioc

(* rx_pkts is incremented after the put, so the printed counters may show   *)
(* one reply more than datagrams, but never two.                            *)
CountersConsistent == stats["tx_pkts"] <= stats["rx_pkts"] + 1

(* A ping or a packet of deltas that the receiver took from the socket is   *)
(* answered, whatever the device does, whichever of its transfers fail and  *)
(* even when nobody drains the scores, as long as the thread that sends is  *)
(* alive; unless the processor comes to build its reply without a result of *)
(* the PL and with values that cannot be packed.                            *)
Taken(p) == rx.pkt # None /\ rx.pkt.id = p /\ rx.pkt.kind # "junk"
EveryoneIsAnswered ==
    \A p \in Packet :
        Taken(p) ~> \/ tx.pc = "dead"
                    \/ \E i \in DOMAIN sent : sent[i].id = p
                    \/ proc = "fallback" /\ Unpackable /\ cur.id = p

(* "If we don't drain scores, the MLP FIFO fills up": without the second    *)
(* DMA the PL yields as many results as its score queue has places, and     *)
(* every later packet falls back.                                           *)
UndrainedStops == HasScore \/ stats["pl_done"] <= ScoreCap

(* "CRITICAL: Drain MLP score to prevent backpressure": with the second DMA *)
(* the device never reaches the state in which a full score queue stops the *)
(* pipeline, no transfer is left to empty it and no feature record is left  *)
(* to make the server drain it, so that every later packet runs into its    *)
(* timeout.  A transfer that failed stops its channel, of the features or   *)
(* of the scores, and may lead there.                                       *)
Wedged ==
    /\ mm2s # None
    /\ Len(scores) = ScoreCap
    /\ ~ dma_score.busy
    /\ feats = <<>>
    /\ ~ dma_out.ioc
    /\ proc \in {"get", "poll"}
DrainPreventsBackpressure ==
    HasScore /\ ~ dma_out.err /\ ~ dma_score.err => ~ Wedged

=============================================================================
