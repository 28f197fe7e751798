---------------------------- MODULE LobsterReplay ----------------------------
(***************************************************************************)
(* The reflex lane of the replay (host/strategy/replay_runner.py): an      *)
(* exchange's visible order book, the LOBSTER messages it emits, and the   *)
(* SimpleBook the runner rebuilds from a snapshot and those messages.      *)
(*                                                                         *)
(* The runner knows the exchange only through two files of `Depth' levels. *)
(* The snapshot is the first row of the order book file, and row k of that *)
(* file is the book AFTER message k (build_labels.py pairs the two files   *)
(* row by row): the runner loads it and then applies message 1 once more.  *)
(* The message file has the orders that touch one of the best `Depth'      *)
(* levels of their side, and no others; every message of it that is not a  *)
(* new order (type 1) is applied as a reduction, the executions of hidden  *)
(* orders, which leave the visible book alone, included.                   *)
(***************************************************************************)
EXTENDS SimpleBook, Strategy, FiniteSets

CONSTANT
    Depth    \* levels per side in the two files

ASSUME ReplayAssumption ==
    /\ Depth \in Nat
    /\ None \notin ReflexAction

VARIABLES
    resting,  \* resting[side][price]: the exchange's visible quantity
    act,      \* what evaluate returned for the last message, None before it
    missed,   \* history: the levels <<side, price>> of which the exchange
              \* may hold quantity the runner never added, or took off
    stale     \* history: the levels of which the runner may hold quantity
              \* the exchange took off, or that it added twice

vars == <<book, best, resting, act, missed, stale>>

-----------------------------------------------------------------------------
(* A price is within the files' range when fewer than `Depth' better prices *)
(* of its side are occupied.                                                *)
InRange(side, price) ==
    Cardinality({p \in Price : resting[side][p] > 0 /\ Better(side, p, price)})
        < Depth

InSnapshot(side) == {p \in Price : resting[side][p] > 0 /\ InRange(side, p)}

SnapshotBook ==
    [side \in Side |-> [p \in InSnapshot(side) |-> resting[side][p]]]

(* main, before the loop.  The exchange has already executed message 1. *)
Init ==
    /\ resting \in [Side -> [Price -> 0 .. MaxQty]]
    /\ book = SnapshotBook
    /\ best = [side \in Side |-> Recalc(side, InSnapshot(side))]
    /\ act = None
    /\ missed = {level \in Side \X Price :
                    /\ resting[level[1]][level[2]] > 0
                    /\ level[2] \notin InSnapshot(level[1])}
    /\ stale = {}

(* What the runner's book shows at a price. *)
Shown(side, price) ==
    IF price \in DOMAIN book[side] THEN book[side][price] ELSE 0

(* ReflexEngine.evaluate on the book as the message left it.  The engine's *)
(* inventory is 0 and nothing ever changes it.                              *)
Reflex == Evaluate(Crossed, Spread # None, Spread, 0)

Exchange(side, price, qty) ==
    resting' = [resting EXCEPT ![side][price] = qty]

(* The histories after a step that may have left the levels `short' too low *)
(* in the runner's book and the levels `over' too high.  Where the exchange *)
(* has nothing the runner misses nothing, and a level the runner has not is *)
(* not overstated: the histories forget such levels.                        *)
Note(short, over) ==
    /\ missed' = {level \in missed \cup short : resting'[level[1]][level[2]] > 0}
    /\ stale' = {level \in stale \cup over : level[2] \in DOMAIN book'[level[1]]}

-----------------------------------------------------------------------------
(* Message 1, whose effect the snapshot already shows: an order that rests, *)
(* or one that is gone.                                                     *)
FirstSubmission(side, price, qty) ==
    /\ act = None
    /\ InRange(side, price)
    /\ resting[side][price] >= qty
    /\ Add(side, price, qty)
    /\ act' = Reflex'
    /\ UNCHANGED resting
    /\ Note({}, {<<side, price>>})

FirstWithdrawal(side, price, qty) ==
    /\ act = None
    /\ InRange(side, price)
    /\ resting[side][price] + qty <= MaxQty
    /\ Reduce(side, price, qty)
    /\ act' = Reflex'
    /\ UNCHANGED resting
    /\ Note({<<side, price>>}, {})

(* Type 1: a new visible order.  The bound on a level is the exchange's     *)
(* here and the runner's in `Add'.                                          *)
Submission(side, price, qty) ==
    /\ act # None
    /\ InRange(side, price)
    /\ resting[side][price] + qty <= MaxQty
    /\ Exchange(side, price, resting[side][price] + qty)
    /\ Add(side, price, qty)
    /\ act' = Reflex'
    /\ Note({}, {})

(* Types 2, 3 and 4: a visible order is cancelled, deleted or executed. *)
Withdrawal(side, price, qty) ==
    /\ act # None
    /\ InRange(side, price)
    /\ resting[side][price] >= qty
    /\ Exchange(side, price, resting[side][price] - qty)
    /\ Reduce(side, price, qty)
    /\ act' = Reflex'
    /\ Note({}, {})

(* An order arrives at or leaves a level outside the range: the file has no *)
(* message and the runner does nothing.                                     *)
UnseenSubmission(side, price, qty) ==
    /\ act # None
    /\ ~ InRange(side, price)
    /\ resting[side][price] + qty <= MaxQty
    /\ Exchange(side, price, resting[side][price] + qty)
    /\ UNCHANGED <<book, best, act>>
    /\ Note({<<side, price>>}, {})

UnseenWithdrawal(side, price, qty) ==
    /\ act # None
    /\ ~ InRange(side, price)
    /\ resting[side][price] >= qty
    /\ Exchange(side, price, resting[side][price] - qty)
    /\ UNCHANGED <<book, best, act>>
    /\ Note({}, {<<side, price>>})

(* Types 5 and 6: a trade that involves no visible order. *)
HiddenTrade(side, price, qty) ==
    /\ Reduce(side, price, qty)
    /\ act' = Reflex'
    /\ UNCHANGED resting
    /\ Note({<<side, price>>}, {})

(* Type 7: a trading halt, whose price is no level of the book. *)
Halt ==
    /\ act' = Reflex
    /\ UNCHANGED <<book, best, resting, missed, stale>>

Next ==
    \/ \E side \in Side, price \in Price, qty \in 1 .. MaxQty :
          \/ FirstSubmission(side, price, qty)
          \/ FirstWithdrawal(side, price, qty)
          \/ Submission(side, price, qty)
          \/ Withdrawal(side, price, qty)
          \/ UnseenSubmission(side, price, qty)
          \/ UnseenWithdrawal(side, price, qty)
          \/ HiddenTrade(side, price, qty)
    \/ Halt

Spec == Init /\ [][Next]_vars

-----------------------------------------------------------------------------
TypeOK ==
    /\ BookTypeOK
    /\ resting \in [Side -> [Price -> 0 .. MaxQty]]
    /\ act \in ReflexAction \cup {None}
    /\ missed \in SUBSET (Side \X Price)
    /\ stale \in SUBSET (Side \X Price)

(* The runner's book shows more than the exchange has only at a level where *)
(* message 1 was added twice or an order left while the level was out of    *)
(* the files' range, and no longer than it takes the runner to empty it.    *)
OverstatesOnlyIfStale ==
    \A side \in Side, price \in Price :
        <<side, price>> \notin stale => Shown(side, price) <= resting[side][price]

(* The runner's book shows less than the exchange has only at a level that  *)
(* the snapshot omitted, to which an order came unseen, or from which       *)
(* message 1 or a hidden trade was taken, and no longer than it takes the   *)
(* exchange to empty it.  Elsewhere, with the property above, it is exact.  *)
UnderstatesOnlyIfMissed ==
    \A side \in Side, price \in Price :
        <<side, price>> \notin missed => Shown(side, price) >= resting[side][price]

(* The exchange's visible book is crossed. *)
ReallyCrossed ==
    \E bid, ask \in Price :
        /\ resting["Bid"][bid] > 0
        /\ resting["Ask"][ask] > 0
        /\ bid >= ask

(* TAKE_LIQUIDITY while the exchange's own book is not crossed is always    *)
(* the work of a stale level that the runner takes for the best of its side. *)
TakeIsRealOrStale ==
    act = "TAKE_LIQUIDITY" =>
        \/ ReallyCrossed
        \/ \E side \in Side : <<side, best[side]>> \in stale

(* A spread that really is beyond the limit is not missed while the runner  *)
(* has a best price on both sides and neither of the two is stale.          *)
BlowoutIsSeen ==
    /\ act # None
    /\ \A side \in Side : best[side] # None /\ <<side, best[side]>> \notin stale
    /\ \A bid, ask \in Price :
          resting["Bid"][bid] > 0 /\ resting["Ask"][ask] > 0
             => ask - bid > SpreadLimit
    => act = "WIDEN_SPREADS"

=============================================================================
