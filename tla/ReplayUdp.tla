------------------------------ MODULE ReplayUdp ------------------------------
(***************************************************************************)
(* The replay client in C, mode lob (host/udp/replay-udp.c): it turns the  *)
(* lines of a message file into deltas, batches them into packets, dumps   *)
(* packets and replies for the validator, and collects what comes back.    *)
(*                                                                         *)
(* A delta is the number of the line it came from, a packet is its         *)
(* sequence number and its deltas.  Clock readings are free, except that   *)
(* the clock does not run backwards.                                       *)
(***************************************************************************)
EXTENDS UdpPath

CONSTANTS
    MaxLines,  \* bound: lines of the file that are read
    Batch      \* --batch (16)

ASSUME ReplayAssumption ==
    /\ MaxLines \in Nat
    /\ MaxSeq = MaxLines       \* a line makes at most one packet
    /\ Batch \in 1 .. 32767

Tries == 5  \* polls after a packet

VARIABLES
    speed,     \* --speed > 0: paced by the file's timestamps, not by --pps
    pc,
    line,      \* lines read
    order,     \* history: the lines that became deltas
    batch,     \* deltas[0..dn-1]
    due,       \* the batch's target time has passed
    seq,       \* number of the next packet
    first,     \* first_features_batch
    sent,      \* history: the packets handed to the socket
    dumped,    \* --dump-packets
    features,  \* --dump-features: the replies counted as features
    received,  \* the counter of other replies
    tries,     \* polls since the last packet
    graceOver  \* the 200 ms after the end have passed

fileVars == <<line, order>>
replyVars == <<features, received>>
vars == <<speed, pathVars, pc, fileVars, batch, due, seq, first, sent, dumped, replyVars, tries,
          graceOver>>

Init ==
    /\ PathInit
    /\ speed \in BOOLEAN
    /\ pc = "read"
    /\ line = 0
    /\ order = <<>>
    /\ batch = <<>>
    /\ due = FALSE
    /\ seq = 0
    /\ first = TRUE
    /\ sent = <<>>
    /\ dumped = <<>>
    /\ features = <<>>
    /\ received = 0
    /\ tries = 0
    /\ graceOver = FALSE

-----------------------------------------------------------------------------
(* A line that does not parse, or of a type that is left out. *)
SkipLine ==
    /\ pc = "read"
    /\ line < MaxLines
    /\ line' = line + 1
    /\ UNCHANGED <<pathVars, pc, order, batch, due, seq, first, sent, dumped, replyVars, tries,
                   graceOver>>

ReadLine ==
    /\ pc = "read"
    /\ line < MaxLines
    /\ line' = line + 1
    /\ order' = Append(order, line')
    /\ pc' = IF speed THEN "wait" ELSE "add"
    /\ due' = (due /\ batch # <<>>)
    /\ UNCHANGED <<pathVars, batch, seq, first, sent, dumped, replyVars, tries, graceOver>>

(* A round of the wait for the batch's time: the replies that are in are    *)
(* taken (a round takes 64, more than can be in), then the loop ends if     *)
(* the batch is full or its time has come.                                  *)
Wait ==
    /\ pc = "wait"
    /\ features' = features \o inbox
    /\ received' = received + Len(inbox)
    /\ inbox' = <<>>
    /\ due' \in {due, TRUE}
    /\ pc' = IF Len(batch) >= Batch \/ due' THEN "add" ELSE "wait"
    /\ UNCHANGED <<pending, lost, fileVars, batch, seq, first, sent, dumped, tries, graceOver>>

(* The delta joins the batch; a packet is sent when the batch is full, or   *)
(* its target time or the next slot of --pps has come.                      *)
Add ==
    /\ pc = "add"
    /\ batch' = IF Len(batch) < Batch THEN Append(batch, line) ELSE batch
    /\ \E now \in BOOLEAN :
          pc' = IF Len(batch') >= Batch \/ (IF speed THEN due ELSE now) THEN "send" ELSE "read"
    /\ UNCHANGED <<pathVars, fileVars, due, seq, first, sent, dumped, replyVars, tries,
                   graceOver>>

NewPacket == [seq |-> seq, reset |-> first, deltas |-> batch]

(* Slip: the packet with the reset bit is not dumped. *)
SendDumpsLater ==
    /\ pc = "send"
    /\ sent' = Append(sent, NewPacket)
    /\ dumped' = IF first THEN dumped ELSE Append(dumped, NewPacket)
    /\ Request(seq)
    /\ seq' = seq + 1
    /\ first' = FALSE
    /\ batch' = <<>>
    /\ tries' = 0
    /\ pc' = "drain"
    /\ UNCHANGED <<inbox, fileVars, due, replyVars, graceOver>>

Send ==
    /\ pc = "send"
    /\ sent' = Append(sent, NewPacket)
    /\ dumped' = Append(dumped, NewPacket)
    /\ Request(seq)
    /\ seq' = seq + 1
    /\ first' = FALSE
    /\ batch' = <<>>
    /\ tries' = 0
    /\ pc' = "drain"
    /\ UNCHANGED <<inbox, fileVars, due, replyVars, graceOver>>

(* Another error than a full socket ends the program: the server's host has *)
(* refused an earlier packet, for one.  The packet is in the dump.          *)
SendFails ==
    /\ pc = "send"
    /\ dumped' = Append(dumped, NewPacket)
    /\ pc' = "failed"
    /\ UNCHANGED <<pathVars, fileVars, batch, due, seq, first, sent, replyVars, tries, graceOver>>

WaitFails ==
    /\ pc = "wait"
    /\ pc' = "failed"
    /\ UNCHANGED <<pathVars, fileVars, batch, due, seq, first, sent, dumped, replyVars, tries,
                   graceOver>>

(* Slip: a poll looks at the reply and leaves it in the socket. *)
PollPeeks ==
    /\ pc = "drain"
    /\ IF tries < Tries /\ inbox # <<>>
       THEN /\ features' = Append(features, Head(inbox))
            /\ tries' = tries + 1
            /\ pc' = "drain"
       ELSE /\ pc' = "read"
            /\ UNCHANGED <<features, tries>>
    /\ UNCHANGED <<pathVars, fileVars, batch, due, seq, first, sent, dumped, received, graceOver>>

(* The polls after a packet: each takes a reply, the first that finds none  *)
(* ends them.                                                               *)
Poll ==
    /\ pc = "drain"
    /\ IF tries < Tries /\ inbox # <<>>
       THEN /\ features' = Append(features, Head(inbox))
            /\ inbox' = Tail(inbox)
            /\ tries' = tries + 1
            /\ pc' = "drain"
       ELSE /\ pc' = "read"
            /\ UNCHANGED <<features, inbox, tries>>
    /\ UNCHANGED <<pending, lost, fileVars, batch, due, seq, first, sent, dumped, received, graceOver>>

(* Slip: the deltas of an unfinished batch are forgotten. *)
EndOfFileNoFlush ==
    /\ pc = "read"
    /\ pc' = "final"
    /\ UNCHANGED <<pathVars, fileVars, batch, due, seq, first, sent, dumped, replyVars, tries,
                   graceOver>>

EndOfFile ==
    /\ pc = "read"
    /\ pc' = IF batch = <<>> THEN "final" ELSE "flush"
    /\ UNCHANGED <<pathVars, fileVars, batch, due, seq, first, sent, dumped, replyVars, tries,
                   graceOver>>

(* Slip: the last packet carries the reset bit. *)
FlushResets ==
    /\ pc = "flush"
    /\ sent' = Append(sent, [NewPacket EXCEPT !.reset = TRUE])
    /\ Request(seq)
    /\ seq' = seq + 1
    /\ first' = FALSE
    /\ batch' = <<>>
    /\ pc' = "final"
    /\ UNCHANGED <<inbox, fileVars, due, dumped, replyVars, tries, graceOver>>

(* The last packet is neither dumped nor sent again when the socket is full.*)
Flush ==
    /\ pc = "flush"
    /\ sent' = Append(sent, NewPacket)
    /\ Request(seq)
    /\ seq' = seq + 1
    /\ first' = FALSE
    /\ batch' = <<>>
    /\ pc' = "final"
    /\ UNCHANGED <<inbox, fileVars, due, dumped, replyVars, tries, graceOver>>

(* The replies at the end are counted as received only.  The socket does    *)
(* not block: with nothing in it the loop ends at once.                     *)
FinalDrain ==
    /\ pc = "final"
    /\ graceOver' \in BOOLEAN
    /\ IF ~ graceOver' /\ inbox # <<>>
       THEN /\ received' = received + 1
            /\ inbox' = Tail(inbox)
            /\ pc' = "final"
       ELSE /\ pc' = "done"
            /\ UNCHANGED <<received, inbox>>
    /\ UNCHANGED <<pending, lost, fileVars, batch, due, seq, first, sent, dumped, features, tries>>

Network ==
    /\ Path
    /\ UNCHANGED <<pc, fileVars, batch, due, seq, first, sent, dumped, replyVars, tries,
                   graceOver>>

Client ==
    \/ SkipLine \/ ReadLine \/ EndOfFile
    \/ Wait \/ WaitFails \/ Add \/ Send \/ SendFails \/ Poll
    \/ Flush \/ FinalDrain

Next == (Client \/ Network) /\ UNCHANGED speed

Spec == Init /\ [][Next]_vars

-----------------------------------------------------------------------------
Deltas(packets) == FlattenSeq([i \in DOMAIN packets |-> packets[i].deltas])

InHand == IF pc \in {"wait", "add"} THEN <<line>> ELSE <<>>

(* Every delta of the file goes into exactly one packet, in the file's      *)
(* order, and none is left at the end, however the clock cuts the batches   *)
(* (replay-udp.c:322, 414).                                                 *)
EventsOnceInOrder ==
    /\ pc # "failed" => Deltas(sent) \o batch \o InHand = order
    /\ pc = "done" => batch = <<>>

(* The client puts the reset bit in the first packet and in no other, be    *)
(* that a batch or the flush at the end; no packet is empty.  (Whether the  *)
(* receivers find the bit is not said here: see FeatureParity.)             *)
FirstPacketResets ==
    \A i \in DOMAIN sent :
        /\ sent[i].seq = i - 1
        /\ sent[i].reset <=> i = 1
        /\ sent[i].deltas # <<>>

(* The validator joins the two dumps by sequence number: a reply is never   *)
(* in the one without its packet in the other, except for the flush.        *)
FeaturesHaveDeltas ==
    \A i \in DOMAIN features :
        \E j \in DOMAIN dumped : dumped[j].seq = features[i] /\ dumped[j] = sent[features[i] + 1]

(* No reply is dumped twice, although three loops take replies.  Replies to *)
(* packets that were counted without being dumped came at the end, or while *)
(* the client waited for a time of the file (counted with both counters).   *)
RepliesDumpedOnce ==
    /\ IsInjective(features)
    /\ ~ speed => Len(features) + received + Len(inbox) + Len(pending) + lost = Len(sent)
    /\ Len(features) + Len(inbox) + Len(pending) + lost <= Len(sent)

=============================================================================
