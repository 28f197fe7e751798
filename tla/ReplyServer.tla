----------------------------- MODULE ReplyServer -----------------------------
(***************************************************************************)
(* What a UDP reply server promises its client, whatever happens inside:   *)
(* it answers the packets it accepted in the order it accepted them, each  *)
(* at most once, and it answers nothing else.  A packet it accepted may    *)
(* also be dropped.                                                        *)
(***************************************************************************)
EXTENDS SequencesExt

CONSTANT Packet

VARIABLES
    pending,   \* packets accepted and neither answered nor dropped, in order
    answered   \* packets answered, in order

Init == pending = <<>> /\ answered = <<>>

Accept(p) ==
    /\ p \notin ToSet(pending) \cup ToSet(answered)
    /\ pending' = Append(pending, p)
    /\ UNCHANGED answered

Answer ==
    /\ pending # <<>>
    /\ answered' = Append(answered, Head(pending))
    /\ pending' = Tail(pending)

Drop(i) ==
    /\ pending' = RemoveAt(pending, i)
    /\ UNCHANGED answered

Next ==
    \/ \E p \in Packet : Accept(p)
    \/ Answer
    \/ \E i \in DOMAIN pending : Drop(i)

Spec == Init /\ [][Next]_<<pending, answered>>

=============================================================================
