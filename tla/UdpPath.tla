------------------------------- MODULE UdpPath -------------------------------
(***************************************************************************)
(* What lies between a host client's sendto and its socket: the cable, the *)
(* feature echo server seen as a reply server (module ReplyServer, which   *)
(* EchoServer is shown to implement), and the cable back.  A direct cable  *)
(* keeps the order of datagrams; any of them may be lost when Lossy.       *)
(***************************************************************************)
EXTENDS Naturals, Sequences, SequencesExt

CONSTANTS
    MaxSeq,   \* bound: the client sends the packets 0..MaxSeq - 1
    Lossy     \* TRUE: requests and replies may be lost

ASSUME PathAssumption == MaxSeq \in Nat /\ Lossy \in BOOLEAN

Seqno == 0 .. MaxSeq - 1

VARIABLES
    pending,  \* requests on the way or inside the server
    inbox,    \* replies in the client's socket buffer
    lost      \* history: datagrams lost, either way

pathVars == <<pending, inbox, lost>>

PathInit == pending = <<>> /\ inbox = <<>> /\ lost = 0

Request(p) ==
    \/ pending' = Append(pending, p) /\ UNCHANGED lost
    \/ Lossy /\ lost' = lost + 1 /\ UNCHANGED pending

(* The server answers in the order of acceptance. *)
Reply ==
    /\ pending # <<>>
    /\ pending' = Tail(pending)
    /\ inbox' = Append(inbox, Head(pending))
    /\ UNCHANGED lost

Lose ==
    /\ Lossy
    /\ \E i \in DOMAIN pending : pending' = RemoveAt(pending, i)
    /\ lost' = lost + 1
    /\ UNCHANGED inbox

Path == Reply \/ Lose

=============================================================================
