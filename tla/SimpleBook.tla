------------------------------ MODULE SimpleBook ------------------------------
(***************************************************************************)
(* The price-level book of the host's reflex lane                          *)
(* (host/strategy/book.py, class SimpleBook).                              *)
(*                                                                         *)
(* The two dictionaries `bids' and `asks' are one function from the side,  *)
(* and so are the two cached prices `best_bid' and `best_ask'.  The cache  *)
(* is the point of the class: an insertion only compares with the cached   *)
(* price, and only the removal of the best level scans the dictionary.     *)
(***************************************************************************)
EXTENDS Integers

CONSTANTS
    MaxPrice,  \* prices are 1..MaxPrice ticks (the snapshot drops others)
    MaxQty,    \* bound: no level holds more than MaxQty
    None       \* the value of a cached price of an empty side

ASSUME BookAssumption ==
    /\ MaxPrice \in Nat
    /\ MaxQty \in Nat
    /\ None \notin Int

Side == {"Bid", "Ask"}
Price == 1 .. MaxPrice

VARIABLES
    book,  \* book[side]: quantity by price, a function on the prices present
    best   \* best[side]: the cached best price, or None

bookVars == <<book, best>>

-----------------------------------------------------------------------------
(* Python dictionaries with prices as keys. *)

Levels == UNION {[S -> 0 .. MaxQty] : S \in SUBSET Price}

SetLevel(levels, price, qty) ==
    [p \in DOMAIN levels \cup {price} |-> IF p = price THEN qty ELSE levels[p]]

DelLevel(levels, price) == [p \in DOMAIN levels \ {price} |-> levels[p]]

(* A bid is better when it is higher, an ask when it is lower. *)
Better(side, p, q) == IF side = "Bid" THEN p > q ELSE p < q

(* _recalc_max_bid and _recalc_min_ask. *)
Recalc(side, S) ==
    IF S = {} THEN None
    ELSE CHOOSE p \in S : \A q \in S \ {p} : Better(side, p, q)

(* The price the cache holds after `price' was put into the dictionary. *)
Improve(side, price) ==
    IF best[side] = None \/ Better(side, price, best[side])
    THEN price ELSE best[side]

-----------------------------------------------------------------------------
(* load_snapshot: both dictionaries are replaced and both caches recomputed. *)
LoadSnapshot(newBook) ==
    /\ book' = newBook
    /\ best' = [side \in Side |-> Recalc(side, DOMAIN newBook[side])]

(* Slip: the cached price is not looked at again. *)
RemoveOrderStale(side, price) ==
    /\ book' = [book EXCEPT ![side] = DelLevel(@, price)]
    /\ UNCHANGED best

(* _remove_order of a level that is present: the scan is made only when the *)
(* level was the cached best.                                               *)
RemoveOrder(side, price) ==
    /\ book' = [book EXCEPT ![side] = DelLevel(@, price)]
    /\ best' = [best EXCEPT ![side] =
                   IF price = @ THEN Recalc(side, DOMAIN book[side] \ {price})
                                ELSE @]

(* Slip: a repeated price replaces the quantity. *)
AddReplaces(side, price, qty) ==
    /\ book' = [book EXCEPT ![side] = SetLevel(@, price, qty)]
    /\ best' = [best EXCEPT ![side] = Improve(side, price)]

(* apply_update, action 1. *)
Add(side, price, qty) ==
    \/ /\ price \in DOMAIN book[side]
       /\ book[side][price] + qty <= MaxQty
       /\ book' = [book EXCEPT ![side] = SetLevel(@, price, @[price] + qty)]
       /\ UNCHANGED best
    \/ /\ price \notin DOMAIN book[side]
       /\ book' = [book EXCEPT ![side] = SetLevel(@, price, qty)]
       /\ best' = [best EXCEPT ![side] = Improve(side, price)]

(* apply_update, action 2.  The last alternative is the KeyError of        *)
(* `del book[price]' on an absent level, raised before anything changed.   *)
Modify(side, price, qty) ==
    \/ /\ qty > 0
       /\ book' = [book EXCEPT ![side] = SetLevel(@, price, qty)]
       /\ best' = [best EXCEPT ![side] = Improve(side, price)]
    \/ /\ qty <= 0
       /\ price \in DOMAIN book[side]
       /\ RemoveOrder(side, price)
    \/ /\ qty <= 0
       /\ price \notin DOMAIN book[side]
       /\ UNCHANGED bookVars

(* Slip: a level that would go is left as it was. *)
ReducePartly(side, price, qty) ==
    IF price \in DOMAIN book[side] /\ book[side][price] - qty > 0
    THEN /\ book' = [book EXCEPT ![side] = SetLevel(@, price, @[price] - qty)]
         /\ UNCHANGED best
    ELSE UNCHANGED bookVars

(* apply_update, action 3: a level that is reduced to nothing is removed, *)
(* an absent one is ignored.                                              *)
Reduce(side, price, qty) ==
    \/ /\ price \in DOMAIN book[side]
       /\ book[side][price] - qty > 0
       /\ book' = [book EXCEPT ![side] = SetLevel(@, price, @[price] - qty)]
       /\ UNCHANGED best
    \/ /\ price \in DOMAIN book[side]
       /\ book[side][price] - qty <= 0
       /\ RemoveOrder(side, price)
    \/ /\ price \notin DOMAIN book[side]
       /\ UNCHANGED bookVars

(* get_spread and is_crossed read the cached prices only. *)
Spread ==
    IF best["Bid"] = None \/ best["Ask"] = None
    THEN None ELSE best["Ask"] - best["Bid"]

Crossed ==
    /\ best["Bid"] # None
    /\ best["Ask"] # None
    /\ best["Bid"] >= best["Ask"]

-----------------------------------------------------------------------------
(* The class under any sequence of calls.  A new order has a positive size; *)
(* a modification or a reduction may carry size 0.                          *)

Snapshots == [Side -> UNION {[S -> 1 .. MaxQty] : S \in SUBSET Price}]

BookInit ==
    /\ book = [side \in Side |-> [p \in {} |-> 0]]
    /\ best = [side \in Side |-> None]

BookNext ==
    \/ \E newBook \in Snapshots : LoadSnapshot(newBook)
    \/ \E side \in Side, price \in Price :
          \/ \E qty \in 1 .. MaxQty : Add(side, price, qty)
          \/ \E qty \in 0 .. MaxQty : Modify(side, price, qty)
          \/ \E qty \in 0 .. MaxQty : Reduce(side, price, qty)

BookSpec == BookInit /\ [][BookNext]_bookVars

-----------------------------------------------------------------------------
(* Types of the two dictionaries and of the two cached prices. *)
BookTypeOK ==
    /\ book \in [Side -> Levels]
    /\ best \in [Side -> Price \cup {None}]

(* A level that exists holds a positive quantity: no sequence of additions, *)
(* modifications and reductions leaves an exhausted level in a dictionary,  *)
(* where it would still be taken for the best price.                        *)
NoEmptyLevel ==
    \A side \in Side : \A p \in DOMAIN book[side] : book[side][p] \in 1 .. MaxQty

(* The cached price of a side is the extreme price of its dictionary, and   *)
(* None exactly when the dictionary is empty, although only some of the     *)
(* updates look at the dictionary.                                          *)
BestIsExtreme ==
    \A side \in Side :
        /\ best[side] = None <=> DOMAIN book[side] = {}
        /\ best[side] # None =>
              /\ best[side] \in DOMAIN book[side]
              /\ \A p \in DOMAIN book[side] : ~ Better(side, p, best[side])

=============================================================================
