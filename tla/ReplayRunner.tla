----------------------------- MODULE ReplayRunner -----------------------------
(***************************************************************************)
(* The packet loop of the two-lane runners (host/strategy/replay_runner.py;*)
(* runner.py and soc_runner.py have the same loop): send a packet, run the *)
(* reflex lane, wait for a datagram or a timeout, decide, write a row.     *)
(*                                                                         *)
(* The wait ends at ANY datagram: nothing compares the sequence number the *)
(* server echoes with the one just sent.                                   *)
(***************************************************************************)
EXTENDS UdpPath, Strategy

CONSTANTS
    None,
    Timing,  \* TRUE: the server runs with --enable-timing
    Uptime   \* high word of the server's T2 in whole units: one unit in 3.3 days

ASSUME RunnerAssumption ==
    /\ None \notin Seqno
    /\ None \notin ReflexAction
    /\ Timing \in BOOLEAN
    /\ Uptime \in Nat /\ Uptime <= ScoreThreshold

VARIABLES
    seq,   \* number of the packet of this iteration
    act,   \* None, or the reflex action while the loop waits for a reply
    rows   \* the rows of the csv file

vars == <<pathVars, seq, act, rows>>

(* evaluate never returns CANCEL_ALL: the engine's inventory stays 0. *)
Reflexes == ReflexAction \ {"CANCEL_ALL"}

Row == [seq : Seqno, reply : Seqno \cup {None}, act : ReflexAction, dec : Decision]

Init ==
    /\ PathInit
    /\ seq = 0
    /\ act = None
    /\ rows = <<>>

-----------------------------------------------------------------------------
(* A reply is the header, 16 bytes of features and, with timing, T2, T3,    *)
(* T4, T5, T_Reflex, T6, the server's action and the score: bytes 48..51    *)
(* are the high word of T2, and the score is at byte 100.                   *)
WordAt48 == IF Timing THEN Uptime ELSE None

(* The runner's fpga_score: the word at byte 48 of a reply long enough. *)
ParsedScore == IF WordAt48 = None THEN 0 ELSE WordAt48

(* Slips: the next packet is sent before the row of the last is written;   *)
(* the socket is emptied before each packet.                               *)
SendEarly ==
    /\ seq < MaxSeq
    /\ Len(pending) <= MaxSeq
    /\ Request(seq)
    /\ act' \in Reflexes
    /\ UNCHANGED <<inbox, seq, rows>>

SendAfterDrain ==
    /\ act = None
    /\ seq < MaxSeq
    /\ Request(seq)
    /\ act' \in Reflexes
    /\ inbox' = <<>>
    /\ UNCHANGED <<seq, rows>>

SendAndReflex ==
    /\ act = None
    /\ seq < MaxSeq
    /\ Request(seq)
    /\ act' \in Reflexes
    /\ UNCHANGED <<inbox, seq, rows>>

WriteRow(reply, score) ==
    /\ rows' = Append(rows, [seq |-> seq, reply |-> reply, act |-> act,
                             dec |-> Decide(act, score)])
    /\ seq' = seq + 1
    /\ act' = None

(* Slip: a reply stays in the socket buffer (MSG_PEEK). *)
ReceivePeeks ==
    /\ act # None
    /\ inbox # <<>>
    /\ WriteRow(Head(inbox), ParsedScore)
    /\ UNCHANGED pathVars

Receive ==
    /\ act # None
    /\ inbox # <<>>
    /\ inbox' = Tail(inbox)
    /\ WriteRow(Head(inbox), ParsedScore)
    /\ UNCHANGED <<pending, lost>>

(* The clock is read only when the socket is empty. *)
Timeout ==
    /\ act # None
    /\ inbox = <<>>
    /\ WriteRow(None, 0)
    /\ UNCHANGED pathVars

Next ==
    \/ SendAndReflex
    \/ Receive
    \/ Timeout
    \/ Path /\ UNCHANGED <<seq, act, rows>>

Spec == Init /\ [][Next]_vars

-----------------------------------------------------------------------------
TypeOK ==
    /\ {pending, inbox} \subseteq Seq(Seqno)
    /\ lost \in Nat
    /\ seq \in 0 .. MaxSeq
    /\ act \in Reflexes \cup {None}
    /\ act # None => seq < MaxSeq
    /\ rows \in Seq(Row)

TimedOut(k) == {i \in DOMAIN rows : i < k /\ rows[i].reply = None}

(* The reply written in a row may belong to an earlier packet, but every    *)
(* packet it is behind was paid for by a timeout before it: without         *)
(* timeouts each row has the reply to its own packet.                       *)
LagIsTimeouts ==
    \A k \in DOMAIN rows : rows[k].reply # None =>
        /\ rows[k].reply <= rows[k].seq
        /\ rows[k].seq - rows[k].reply <= Cardinality(TimedOut(k))

(* No reply is written in two rows, and later rows have later replies. *)
RepliesUsedOnce ==
    \A i, k \in DOMAIN rows :
        i < k /\ rows[i].reply # None /\ rows[k].reply # None
          => rows[i].reply < rows[k].reply

(* A runner that has fallen behind does not catch up by itself: only a lost *)
(* datagram ever brings a row closer to its own reply.                      *)
LagIsSticky ==
    \A i, k \in DOMAIN rows :
        i < k /\ rows[i].reply # None /\ rows[k].reply # None
          => (rows[i].seq - rows[i].reply) - (rows[k].seq - rows[k].reply) <= lost

(* Between iterations the iterations that timed out are accounted for, one  *)
(* by one, by what was lost and by the replies outstanding, which later     *)
(* iterations will take for their own.                                      *)
BacklogIsTimeouts ==
    act = None =>
        Len(pending) + Len(inbox) + lost = Cardinality(TimedOut(Len(rows) + 1))

=============================================================================
