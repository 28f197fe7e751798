------------------------------ MODULE LobStream ------------------------------
(***************************************************************************)
(* The latency client (host/udp/test_lob_stream.py): one packet and at     *)
(* most one reply per round, a row for each reply, and the sending time of *)
(* the row found by the sequence number the reply echoes (--log-csv).      *)
(*                                                                         *)
(* A time is the number of times the client has read its clock before.     *)
(* The words of the timing trailer are left out.                           *)
(***************************************************************************)
EXTENDS UdpPath

VARIABLES
    round,          \* "send" or "receive"
    clock,          \* readings of the clock so far, also the next reading
    nsent,          \* packets sent, also the next sequence number
    nreceived,      \* replies counted
    pending_sends,  \* the dictionary of sending times by sequence number
    rows,           \* history: the rows of the csv file
    sentAt          \* history: when each packet was sent

clientVars == <<round, clock, nsent, nreceived, pending_sends, rows, sentAt>>
lobVars == <<pathVars, clientVars>>

-----------------------------------------------------------------------------
LobInit ==
    /\ PathInit
    /\ round = "send"
    /\ clock = 0
    /\ nsent = 0
    /\ nreceived = 0
    /\ pending_sends = [p \in {} |-> 0]
    /\ rows = <<>>
    /\ sentAt = [p \in {} |-> 0]

(* The time is read before the packet goes and stored after it has gone. *)
Put(dict, p, time) == [q \in DOMAIN dict \cup {p} |-> IF q = p THEN time ELSE dict[q]]

Pop(dict, p) == [q \in DOMAIN dict \ {p} |-> dict[q]]

SendPacket ==
    /\ round = "send"
    /\ nsent < MaxSeq
    /\ Request(nsent)
    /\ clock' = clock + 1
    /\ pending_sends' = Put(pending_sends, nsent, clock)
    /\ sentAt' = Put(sentAt, nsent, clock)
    /\ nsent' = nsent + 1
    /\ round' = "receive"
    /\ UNCHANGED <<inbox, nreceived, rows>>

(* A datagram is taken; `log' is what becomes of its row. *)
Taken(log) ==
    /\ round = "receive"
    /\ inbox # <<>>
    /\ inbox' = Tail(inbox)
    /\ clock' = clock + 1
    /\ nreceived' = nreceived + 1
    /\ log
    /\ round' = "send"
    /\ UNCHANGED <<pending, lost, nsent, sentAt>>

NewRow(reply, t1) == [seq |-> reply, t1 |-> t1, t5 |-> clock]

(* Slips: the stored time is kept; the row has the time the variable t1_ns *)
(* still holds, that of the last packet.                                   *)
ReceiveKeeps ==
    LET reply == Head(inbox) IN
    Taken(/\ UNCHANGED pending_sends
          /\ rows' = IF reply \in DOMAIN pending_sends
                     THEN Append(rows, NewRow(reply, pending_sends[reply])) ELSE rows)

ReceiveLatest ==
    LET reply == Head(inbox) IN
    Taken(IF reply \in DOMAIN pending_sends
          THEN /\ rows' = Append(rows, NewRow(reply, sentAt[nsent - 1]))
               /\ pending_sends' = Pop(pending_sends, reply)
          ELSE UNCHANGED <<rows, pending_sends>>)

(* A row is written only for a packet that has none. *)
Receive ==
    LET reply == Head(inbox) IN
    Taken(IF reply \in DOMAIN pending_sends
          THEN /\ rows' = Append(rows, NewRow(reply, pending_sends[reply]))
               /\ pending_sends' = Pop(pending_sends, reply)
          ELSE UNCHANGED <<rows, pending_sends>>)

(* Nothing within a millisecond.  A reply that comes later is received in   *)
(* a later round, in place of that round's own.                             *)
Timeout ==
    /\ round = "receive"
    /\ round' = "send"
    /\ UNCHANGED <<pathVars, clock, nsent, nreceived, pending_sends, rows, sentAt>>

LobNetwork == Path /\ UNCHANGED clientVars

LobNext == SendPacket \/ Receive \/ Timeout \/ LobNetwork

LobSpec == LobInit /\ [][LobNext]_lobVars

-----------------------------------------------------------------------------
(* However late a reply is taken, and whatever else was sent and lost since,*)
(* the latency in its row runs from the moment its own packet was sent, and *)
(* a packet has at most one row.                                            *)
RowsAreOwn ==
    /\ \A i \in DOMAIN rows : rows[i].t1 = sentAt[rows[i].seq] /\ rows[i].t1 < rows[i].t5
    /\ \A i, j \in DOMAIN rows : rows[i].seq = rows[j].seq => i = j

(* Each packet is measured, under way, waiting in the socket or lost: none  *)
(* that was received goes unmeasured, and a time is kept for exactly those  *)
(* that have no row.                                                        *)
EveryReplyMeasured ==
    /\ Len(rows) = nreceived
    /\ nreceived + Len(inbox) + Len(pending) + lost = nsent
    /\ DOMAIN pending_sends = (0 .. nsent - 1) \ {rows[i].seq : i \in DOMAIN rows}

=============================================================================
