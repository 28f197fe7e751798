-------------------------- MODULE LobsterReplayProofs --------------------------
(***************************************************************************)
(* Proofs about the book and the reflex lane of the replay, for every      *)
(* range of prices and quantities, every snapshot depth, every size of the *)
(* book and every sequence of messages.                                    *)
(***************************************************************************)
EXTENDS LobsterReplay, TLAPS, WellFoundedInduction

-----------------------------------------------------------------------------
(* The book: the cached best prices always agree with the dictionaries and  *)
(* no level is empty.  The argument needs one fact about data, that a set   *)
(* of prices has an extreme element (what `max' and `min' compute), and     *)
(* then one lemma per operation of the class.                               *)

(* A non-empty set of naturals has a least element: < is well-founded. *)
LEMMA LeastExists ==
  ASSUME NEW S, S \subseteq Nat, S # {}
  PROVE  \E m \in S : \A x \in S : m <= x
<1>1. PICK m \in S : \A y \in S : ~ (<<y, m>> \in OpToRel(<, Nat))
  BY NatLessThanWellFounded, WFMin
<1>2. \A y \in S : ~ (y < m)
  BY <1>1 DEF OpToRel
<1>. QED  BY <1>2

(* A non-empty set of prices has a greatest element. *)
LEMMA GreatestExists ==
  ASSUME NEW S, S \subseteq Price, S # {}
  PROVE  \E m \in S : \A x \in S : x <= m
<1> DEFINE T == {MaxPrice - x : x \in S}
<1>1. \A x \in S : MaxPrice - x \in Nat
  BY BookAssumption DEF Price
<1>2. T \subseteq Nat
  BY <1>1
<1>3. T # {}
  OBVIOUS
<1>4. PICK n \in T : \A y \in T : n <= y
  BY <1>2, <1>3, LeastExists
<1>5. PICK m \in S : n = MaxPrice - m
  BY <1>4
<1>6. ASSUME NEW x \in S  PROVE x <= m
  <2>1. MaxPrice - m <= MaxPrice - x
    BY <1>4, <1>5, <1>6
  <2>. QED  BY <2>1, BookAssumption DEF Price
<1>. QED  BY <1>6

(* What _recalc_max_bid and _recalc_min_ask return. *)
LEMMA RecalcIsExtreme ==
  ASSUME NEW side \in Side, NEW S, S \subseteq Price
  PROVE  /\ S = {} => Recalc(side, S) = None
         /\ S # {} => /\ Recalc(side, S) \in S
                      /\ \A q \in S : ~ Better(side, q, Recalc(side, S))
<1>1. CASE S = {}
  BY <1>1 DEF Recalc
<1>2. CASE S # {}
  <2>1. \E p \in S : \A q \in S \ {p} : Better(side, p, q)
    <3>1. CASE side = "Bid"
      <4>1. PICK m \in S : \A x \in S : x <= m
        BY <1>2, GreatestExists
      <4>2. \A q \in S \ {m} : m > q
        BY <4>1 DEF Price
      <4>. QED  BY <3>1, <4>2 DEF Better
    <3>2. CASE side = "Ask"
      <4>0. S \subseteq Nat
        BY DEF Price
      <4>1. PICK m \in S : \A x \in S : m <= x
        BY <1>2, <4>0, LeastExists
      <4>2. \A q \in S \ {m} : m < q
        BY <4>1 DEF Price
      <4>. QED  BY <3>2, <4>2 DEF Better
    <3>. QED  BY <3>1, <3>2 DEF Side
  <2>2. /\ Recalc(side, S) \in S
        /\ \A q \in S \ {Recalc(side, S)} : Better(side, Recalc(side, S), q)
    BY <1>2, <2>1 DEF Recalc
  <2>3. ASSUME NEW m \in S, \A q \in S \ {m} : Better(side, m, q), NEW q \in S
        PROVE  ~ Better(side, q, m)
    BY <2>3 DEF Better, Price
  <2>. QED  BY <1>2, <2>2, <2>3
<1>. QED  BY <1>1, <1>2

-----------------------------------------------------------------------------
(* The inductive invariant: types, positive levels and the cache. *)
BookInv ==
    /\ BookTypeOK
    /\ NoEmptyLevel
    /\ BestIsExtreme

(* The part of the invariant that speaks of one side, for a dictionary and *)
(* a cached price.                                                         *)
SideInv(side, levels, cached) ==
    /\ levels \in Levels
    /\ \A p \in DOMAIN levels : levels[p] \in 1 .. MaxQty
    /\ cached \in Price \cup {None}
    /\ cached = None <=> DOMAIN levels = {}
    /\ cached # None => /\ cached \in DOMAIN levels
                        /\ \A p \in DOMAIN levels : ~ Better(side, p, cached)

(* A function on prices with quantities in the bound is a dictionary. *)
LEMMA LevelsIntro ==
  ASSUME NEW S \in SUBSET Price, NEW f \in [S -> 0 .. MaxQty]
  PROVE  f \in Levels
BY DEF Levels

LEMMA LevelsElim ==
  ASSUME NEW f \in Levels
  PROVE  /\ DOMAIN f \subseteq Price
         /\ f \in [DOMAIN f -> 0 .. MaxQty]
BY DEF Levels

(* The invariant is the invariant of each side. *)
LEMMA BookInvBySide ==
  BookInv <=> /\ book = [side \in Side |-> book[side]]
              /\ best = [side \in Side |-> best[side]]
              /\ \A side \in Side : SideInv(side, book[side], best[side])
BY DEF BookInv, BookTypeOK, NoEmptyLevel, BestIsExtreme, SideInv

(* Putting a positive quantity at a price, with the cache improved as `Add' *)
(* and `Modify' do, keeps the invariant of a side.                          *)
LEMMA SetLevelInv ==
  ASSUME NEW side \in Side, NEW levels, NEW cached, SideInv(side, levels, cached),
         NEW price \in Price, NEW qty \in 1 .. MaxQty
  PROVE  SideInv(side, SetLevel(levels, price, qty),
                 IF cached = None \/ Better(side, price, cached)
                 THEN price ELSE cached)
<1> DEFINE new == SetLevel(levels, price, qty)
           top == IF cached = None \/ Better(side, price, cached)
                  THEN price ELSE cached
<1>1. /\ DOMAIN levels \subseteq Price
      /\ levels \in [DOMAIN levels -> 0 .. MaxQty]
  BY LevelsElim DEF SideInv
<1>2. /\ DOMAIN new = DOMAIN levels \cup {price}
      /\ \A p \in DOMAIN new : new[p] = IF p = price THEN qty ELSE levels[p]
  BY DEF SetLevel
<1>3. \A p \in DOMAIN new : new[p] \in 1 .. MaxQty
  BY <1>2 DEF SideInv
<1>4. new \in Levels
  <2>1. new \in [DOMAIN levels \cup {price} -> 0 .. MaxQty]
    <3>1. \A p \in DOMAIN new : new[p] \in 0 .. MaxQty
      BY <1>3, BookAssumption
    <3>2. new = [p \in DOMAIN levels \cup {price} |-> new[p]]
      BY DEF SetLevel
    <3>. QED  BY <1>2, <3>1, <3>2
  <2>. QED  BY <1>1, <2>1, LevelsIntro
<1>5. price # None
  BY BookAssumption DEF Price
<1>6. top \in DOMAIN new
  BY <1>2 DEF SideInv
<1>7. \A p \in DOMAIN new : ~ Better(side, p, top)
  <2>1. CASE cached = None
    BY <1>2, <2>1 DEF SideInv, Better, Price
  <2>2. CASE cached # None
    <3>1. /\ cached \in Price
          /\ \A p \in DOMAIN levels : ~ Better(side, p, cached)
      BY <2>2 DEF SideInv
    <3>. QED  BY <1>1, <1>2, <2>2, <3>1 DEF Better, Price
  <2>. QED  BY <2>1, <2>2
<1>8. top \in Price /\ top # None
  BY <1>5 DEF SideInv
<1>. HIDE DEF new, top
<1>9. SideInv(side, new, top)
  BY <1>3, <1>4, <1>6, <1>7, <1>8 DEF SideInv
<1>. QED  BY <1>9 DEF new, top

(* Changing the quantity of a level that is present needs no look at the   *)
(* cache.                                                                  *)
LEMMA ChangeLevelInv ==
  ASSUME NEW side \in Side, NEW levels, NEW cached, SideInv(side, levels, cached),
         NEW price \in DOMAIN levels, NEW qty \in 1 .. MaxQty
  PROVE  SideInv(side, SetLevel(levels, price, qty), cached)
<1>1. price \in Price
  BY LevelsElim DEF SideInv
<1>2. SideInv(side, SetLevel(levels, price, qty),
              IF cached = None \/ Better(side, price, cached)
              THEN price ELSE cached)
  BY <1>1, SetLevelInv
<1>3. ~ (cached = None \/ Better(side, price, cached))
  BY DEF SideInv
<1>. QED  BY <1>2, <1>3

(* Removing a level and scanning only when it was the cached best keeps the *)
(* invariant of a side.                                                     *)
LEMMA DelLevelInv ==
  ASSUME NEW side \in Side, NEW levels, NEW cached, SideInv(side, levels, cached),
         NEW price \in DOMAIN levels
  PROVE  SideInv(side, DelLevel(levels, price),
                 IF price = cached THEN Recalc(side, DOMAIN levels \ {price})
                 ELSE cached)
<1> DEFINE new == DelLevel(levels, price)
           top == IF price = cached THEN Recalc(side, DOMAIN levels \ {price})
                  ELSE cached
<1>1. /\ DOMAIN levels \subseteq Price
      /\ levels \in [DOMAIN levels -> 0 .. MaxQty]
  BY LevelsElim DEF SideInv
<1>2. /\ DOMAIN new = DOMAIN levels \ {price}
      /\ \A p \in DOMAIN new : new[p] = levels[p]
  BY DEF DelLevel
<1>3. \A p \in DOMAIN new : new[p] \in 1 .. MaxQty
  BY <1>2 DEF SideInv
<1>4. new \in Levels
  <2>1. new \in [DOMAIN levels \ {price} -> 0 .. MaxQty]
    BY <1>1 DEF DelLevel
  <2>. QED  BY <1>1, <2>1, LevelsIntro
<1>5. None \notin Price
  BY BookAssumption DEF Price
<1>6. /\ top \in Price \cup {None}
      /\ top = None <=> DOMAIN new = {}
      /\ top # None => /\ top \in DOMAIN new
                       /\ \A p \in DOMAIN new : ~ Better(side, p, top)
  <2>1. CASE price = cached
    <3>1. DOMAIN levels \ {price} \subseteq Price
      BY <1>1
    <3>. QED  BY <1>1, <1>2, <1>5, <2>1, <3>1, RecalcIsExtreme
  <2>2. CASE price # cached
    BY <1>1, <1>2, <1>5, <2>2 DEF SideInv
  <2>. QED  BY <2>1, <2>2
<1>. HIDE DEF new, top
<1>7. SideInv(side, new, top)
  BY <1>3, <1>4, <1>6 DEF SideInv
<1>. QED  BY <1>7 DEF new, top

-----------------------------------------------------------------------------
(* An update of one side that keeps that side's invariant keeps BookInv. *)
LEMMA OneSide ==
  ASSUME BookInv, NEW side \in Side, NEW levels, NEW cached,
         book' = [book EXCEPT ![side] = levels],
         best' = [best EXCEPT ![side] = cached],
         SideInv(side, levels, cached)
  PROVE  BookInv'
BY DEF BookInv, BookTypeOK, NoEmptyLevel, BestIsExtreme, SideInv

LEMMA UnchangedInv == BookInv /\ UNCHANGED bookVars => BookInv'
BY DEF BookInv, BookTypeOK, NoEmptyLevel, BestIsExtreme, bookVars

LEMMA SideInvOf ==
  ASSUME BookInv, NEW side \in Side
  PROVE  SideInv(side, book[side], best[side])
BY BookInvBySide

LEMMA RemoveOrderInv ==
  ASSUME BookInv, NEW side \in Side, NEW price \in DOMAIN book[side],
         RemoveOrder(side, price)
  PROVE  BookInv'
<1>1. SideInv(side, DelLevel(book[side], price),
              IF price = best[side] THEN Recalc(side, DOMAIN book[side] \ {price})
              ELSE best[side])
  BY SideInvOf, DelLevelInv
<1>2. /\ book' = [book EXCEPT ![side] = DelLevel(book[side], price)]
      /\ best' = [best EXCEPT ![side] =
                     IF price = best[side]
                     THEN Recalc(side, DOMAIN book[side] \ {price})
                     ELSE best[side]]
  BY DEF RemoveOrder, BookInv, BookTypeOK
<1>. QED  BY <1>1, <1>2, OneSide

(* load_snapshot of positive levels establishes the invariant. *)
LEMMA LoadSnapshotInv ==
  ASSUME NEW newBook \in Snapshots, LoadSnapshot(newBook)
  PROVE  BookInv'
<1>1. ASSUME NEW side \in Side
      PROVE  /\ DOMAIN newBook[side] \subseteq Price
             /\ newBook[side] \in [DOMAIN newBook[side] -> 1 .. MaxQty]
  BY <1>1 DEF Snapshots
<1>2. ASSUME NEW side \in Side
      PROVE  SideInv(side, newBook[side], Recalc(side, DOMAIN newBook[side]))
  <2>1. newBook[side] \in Levels
    <3>1. newBook[side] \in [DOMAIN newBook[side] -> 0 .. MaxQty]
      BY <1>1, BookAssumption
    <3>. QED  BY <1>1, <3>1, LevelsIntro
  <2>2. None \notin Price
    BY BookAssumption DEF Price
  <2>3. /\ DOMAIN newBook[side] = {} =>
             Recalc(side, DOMAIN newBook[side]) = None
        /\ DOMAIN newBook[side] # {} =>
             /\ Recalc(side, DOMAIN newBook[side]) \in DOMAIN newBook[side]
             /\ \A q \in DOMAIN newBook[side] :
                   ~ Better(side, q, Recalc(side, DOMAIN newBook[side]))
    BY <1>1, RecalcIsExtreme
  <2>. QED  BY <1>1, <2>1, <2>2, <2>3 DEF SideInv
<1>3. /\ newBook = [side \in Side |-> newBook[side]]
      /\ book' = newBook
      /\ best' = [side \in Side |-> Recalc(side, DOMAIN newBook[side])]
  BY DEF Snapshots, LoadSnapshot
<1>. QED
  BY <1>2, <1>3 DEF BookInv, BookTypeOK, NoEmptyLevel, BestIsExtreme, SideInv

(* apply_update with action 1. *)
LEMMA AddInv ==
  ASSUME BookInv, NEW side \in Side, NEW price \in Price, NEW qty \in 1 .. MaxQty,
         Add(side, price, qty)
  PROVE  BookInv'
<1>1. SideInv(side, book[side], best[side])
  BY SideInvOf
<1>2. CASE price \in DOMAIN book[side]
  <2> DEFINE q == book[side][price] + qty
  <2>1. book[side][price] \in 1 .. MaxQty
    BY <1>2 DEF BookInv, NoEmptyLevel
  <2>2. q \in 1 .. MaxQty
    BY <1>2, <2>1, BookAssumption DEF Add
  <2>3. SideInv(side, SetLevel(book[side], price, q), best[side])
    BY <1>1, <1>2, <2>2, ChangeLevelInv
  <2>4. /\ book' = [book EXCEPT ![side] = SetLevel(book[side], price, q)]
        /\ best' = [best EXCEPT ![side] = best[side]]
    BY <1>2 DEF Add, BookInv, BookTypeOK
  <2>. QED  BY <2>3, <2>4, OneSide
<1>3. CASE price \notin DOMAIN book[side]
  BY <1>1, <1>3, SetLevelInv, OneSide DEF Add, Improve
<1>. QED  BY <1>2, <1>3

(* apply_update with action 2. *)
LEMMA ModifyInv ==
  ASSUME BookInv, NEW side \in Side, NEW price \in Price, NEW qty \in 0 .. MaxQty,
         Modify(side, price, qty)
  PROVE  BookInv'
<1>1. SideInv(side, book[side], best[side])
  BY SideInvOf
<1>2. CASE qty > 0
  <2>1. qty \in 1 .. MaxQty
    BY <1>2, BookAssumption
  <2>. QED  BY <1>1, <1>2, <2>1, SetLevelInv, OneSide DEF Modify, Improve
<1>3. CASE qty <= 0 /\ price \in DOMAIN book[side]
  BY <1>3, RemoveOrderInv DEF Modify
<1>4. CASE qty <= 0 /\ price \notin DOMAIN book[side]
  BY <1>4, UnchangedInv DEF Modify
<1>. QED  BY <1>2, <1>3, <1>4, BookAssumption

(* apply_update with action 3. *)
LEMMA ReduceInv ==
  ASSUME BookInv, NEW side \in Side, NEW price \in Price, NEW qty \in 0 .. MaxQty,
         Reduce(side, price, qty)
  PROVE  BookInv'
<1>1. SideInv(side, book[side], best[side])
  BY SideInvOf
<1>2. CASE price \in DOMAIN book[side] /\ book[side][price] - qty > 0
  <2> DEFINE q == book[side][price] - qty
  <2>1. book[side][price] \in 1 .. MaxQty
    BY <1>2 DEF BookInv, NoEmptyLevel
  <2>2. q \in 1 .. MaxQty
    BY <1>2, <2>1, BookAssumption
  <2>3. SideInv(side, SetLevel(book[side], price, q), best[side])
    BY <1>1, <1>2, <2>2, ChangeLevelInv
  <2>4. /\ book' = [book EXCEPT ![side] = SetLevel(book[side], price, q)]
        /\ best' = [best EXCEPT ![side] = best[side]]
    BY <1>2, <2>1, BookAssumption DEF Reduce, BookInv, BookTypeOK
  <2>. QED  BY <2>3, <2>4, OneSide
<1>3. CASE price \in DOMAIN book[side] /\ book[side][price] - qty <= 0
  <2>1. book[side][price] \in 1 .. MaxQty
    BY <1>3 DEF BookInv, NoEmptyLevel
  <2>. QED  BY <1>3, <2>1, RemoveOrderInv, BookAssumption DEF Reduce
<1>4. CASE price \notin DOMAIN book[side]
  BY <1>4, UnchangedInv DEF Reduce
<1>5. price \in DOMAIN book[side] =>
        book[side][price] - qty > 0 \/ book[side][price] - qty <= 0
  BY BookAssumption DEF BookInv, NoEmptyLevel
<1>. QED  BY <1>2, <1>3, <1>4, <1>5

-----------------------------------------------------------------------------
(* The book stays correct under any sequence of calls: types, positive      *)
(* levels and agreement of the cached prices with the dictionaries.         *)
THEOREM BookInvariant == BookSpec => []BookInv
<1>1. BookInit => BookInv
  <2> SUFFICES ASSUME BookInit PROVE BookInv
    OBVIOUS
  <2>1. [p \in {} |-> 0] \in Levels
    <3>1. {} \in SUBSET Price /\ [p \in {} |-> 0] \in [{} -> 0 .. MaxQty]
      OBVIOUS
    <3>. QED  BY <3>1 DEF Levels
  <2>2. \A side \in Side : DOMAIN book[side] = {} /\ best[side] = None
    BY DEF BookInit
  <2>3. BookTypeOK
    BY <2>1 DEF BookInit, BookTypeOK
  <2>. QED  BY <2>2, <2>3 DEF BookInv, NoEmptyLevel, BestIsExtreme
<1>2. BookInv /\ [BookNext]_bookVars => BookInv'
  <2> SUFFICES ASSUME BookInv, [BookNext]_bookVars
               PROVE  BookInv'
    OBVIOUS
  <2>1. ASSUME NEW newBook \in Snapshots, LoadSnapshot(newBook)
        PROVE  BookInv'
    BY <2>1, LoadSnapshotInv
  <2>2. ASSUME NEW side \in Side, NEW price \in Price, NEW qty \in 1 .. MaxQty,
               Add(side, price, qty)
        PROVE  BookInv'
    BY <2>2, AddInv
  <2>3. ASSUME NEW side \in Side, NEW price \in Price, NEW qty \in 0 .. MaxQty,
               Modify(side, price, qty)
        PROVE  BookInv'
    BY <2>3, ModifyInv
  <2>4. ASSUME NEW side \in Side, NEW price \in Price, NEW qty \in 0 .. MaxQty,
               Reduce(side, price, qty)
        PROVE  BookInv'
    BY <2>4, ReduceInv
  <2>5. CASE UNCHANGED bookVars
    BY <2>5, UnchangedInv
  <2>. QED  BY <2>1, <2>2, <2>3, <2>4, <2>5 DEF BookNext
<1>. QED  BY <1>1, <1>2, PTL DEF BookSpec

(* No level of the dictionaries is empty after any sequence of calls: what  *)
(* was executed or deleted in full is gone.                                 *)
THEOREM LevelsArePositive == BookSpec => []NoEmptyLevel
<1>1. BookInv => NoEmptyLevel
  BY DEF BookInv
<1>. QED  BY <1>1, BookInvariant, PTL

(* The cached best prices are the extreme prices of the dictionaries after  *)
(* every call of the class.                                                 *)
THEOREM CacheIsCorrect == BookSpec => []BestIsExtreme
<1>1. BookInv => BestIsExtreme
  BY DEF BookInv
<1>. QED  BY <1>1, BookInvariant, PTL

-----------------------------------------------------------------------------
(* The lane. *)

(* The inductive invariant: the book is sound, it differs from the          *)
(* exchange's only at the levels the two histories name, in the direction   *)
(* they name, and the last reflex action is that of the current book.       *)
ActIsCurrent == act # None => act = Reflex

ReplayTypes ==
    /\ resting \in [Side -> [Price -> 0 .. MaxQty]]
    /\ missed \in SUBSET (Side \X Price)
    /\ stale \in SUBSET (Side \X Price)

IInv ==
    /\ BookInv
    /\ ReplayTypes
    /\ OverstatesOnlyIfStale
    /\ UnderstatesOnlyIfMissed
    /\ ActIsCurrent

LEMMA InSnapshotPrice == \A side \in Side : InSnapshot(side) \subseteq Price
BY DEF InSnapshot

(* The snapshot the runner loads is a book the exchange has. *)
LEMMA InitIInv == Init => IInv
<1> SUFFICES ASSUME Init PROVE IInv
  OBVIOUS
<1>1. resting \in [Side -> [Price -> 0 .. MaxQty]]
  BY DEF Init
<1>2. ASSUME NEW side \in Side
      PROVE  /\ DOMAIN book[side] = InSnapshot(side)
             /\ best[side] = Recalc(side, InSnapshot(side))
             /\ \A p \in InSnapshot(side) : book[side][p] = resting[side][p]
  BY DEF Init, SnapshotBook
<1>3. ASSUME NEW side \in Side
      PROVE  \A p \in InSnapshot(side) : resting[side][p] \in 1 .. MaxQty
  <2>1. \A p \in Price : resting[side][p] \in 0 .. MaxQty
    BY <1>1
  <2>. QED  BY <2>1, BookAssumption DEF InSnapshot
<1>4. BookTypeOK
  <2>1. ASSUME NEW side \in Side PROVE book[side] \in Levels
    <3>1. book[side] = [p \in InSnapshot(side) |-> resting[side][p]]
      BY DEF Init, SnapshotBook
    <3>2. \A p \in InSnapshot(side) : resting[side][p] \in 0 .. MaxQty
      BY <1>3, BookAssumption
    <3>. QED  BY <3>1, <3>2, InSnapshotPrice, LevelsIntro
  <2>2. ASSUME NEW side \in Side PROVE best[side] \in Price \cup {None}
    BY <1>2, InSnapshotPrice, RecalcIsExtreme
  <2>. QED  BY <2>1, <2>2 DEF Init, SnapshotBook, BookTypeOK
<1>5. NoEmptyLevel
  BY <1>2, <1>3 DEF NoEmptyLevel
<1>6. BestIsExtreme
  <2> SUFFICES ASSUME NEW side \in Side
               PROVE  /\ best[side] = None <=> DOMAIN book[side] = {}
                      /\ best[side] # None =>
                            /\ best[side] \in DOMAIN book[side]
                            /\ \A p \in DOMAIN book[side] : ~ Better(side, p, best[side])
    BY DEF BestIsExtreme
  <2>1. None \notin Price
    BY BookAssumption DEF Price
  <2>. QED  BY <1>2, <2>1, InSnapshotPrice, RecalcIsExtreme
<1>7. ReplayTypes
  BY <1>1 DEF Init, ReplayTypes
<1>8. ActIsCurrent
  BY DEF Init, ActIsCurrent
<1>9. ASSUME NEW side \in Side, NEW p \in Price
      PROVE  /\ resting[side][p] \in 0 .. MaxQty
             /\ Shown(side, p) = IF p \in InSnapshot(side)
                                 THEN resting[side][p] ELSE 0
  BY <1>1, <1>2 DEF Shown
<1>10. OverstatesOnlyIfStale
  BY <1>9, BookAssumption DEF OverstatesOnlyIfStale
<1>11. UnderstatesOnlyIfMissed
  <2> SUFFICES ASSUME NEW side \in Side, NEW p \in Price, <<side, p>> \notin missed
               PROVE  Shown(side, p) >= resting[side][p]
    BY DEF UnderstatesOnlyIfMissed
  <2>1. resting[side][p] > 0 => p \in InSnapshot(side)
    BY DEF Init
  <2>. QED  BY <1>9, <2>1, BookAssumption
<1>. QED  BY <1>4, <1>5, <1>6, <1>7, <1>8, <1>10, <1>11 DEF IInv, BookInv

-----------------------------------------------------------------------------
(* What an update does to the dictionary of its own side and to the other. *)

LEMMA AddEffect ==
  ASSUME BookInv, NEW side \in Side, NEW price \in Price, NEW qty \in 1 .. MaxQty,
         Add(side, price, qty)
  PROVE  \A s \in Side : \A p \in DOMAIN book'[s] :
            \/ s = side /\ p = price
               /\ book'[s][p] = IF price \in DOMAIN book[side]
                                THEN book[side][price] + qty ELSE qty
            \/ ~ (s = side /\ p = price) /\ p \in DOMAIN book[s]
               /\ book'[s][p] = book[s][p]
BY DEF Add, SetLevel, BookInv, BookTypeOK

(* The same, of what the book shows at a price. *)

LEMMA AddShown ==
  ASSUME BookInv, NEW side \in Side, NEW price \in Price, NEW qty \in 1 .. MaxQty,
         Add(side, price, qty)
  PROVE  \A s \in Side : \A p \in Price :
            Shown(s, p)' = IF s = side /\ p = price THEN Shown(s, p) + qty
                                                    ELSE Shown(s, p)
<1>1. \A s \in Side : DOMAIN book'[s] = IF s = side THEN DOMAIN book[s] \cup {price}
                                                    ELSE DOMAIN book[s]
  BY DEF Add, SetLevel, BookInv, BookTypeOK
<1>2. 0 + qty = qty
  BY BookAssumption
<1> SUFFICES ASSUME NEW s \in Side, NEW p \in Price
             PROVE  Shown(s, p)' = IF s = side /\ p = price THEN Shown(s, p) + qty
                                                            ELSE Shown(s, p)
  OBVIOUS
<1>3. CASE s = side /\ p = price
  <2>1. p \in DOMAIN book'[s]
    BY <1>1, <1>3
  <2>2. book'[s][p] = IF price \in DOMAIN book[side]
                      THEN book[side][price] + qty ELSE qty
    BY <1>3, <2>1, AddEffect
  <2>. QED  BY <1>2, <1>3, <2>1, <2>2 DEF Shown
<1>4. CASE ~ (s = side /\ p = price)
  <2>1. p \in DOMAIN book'[s] <=> p \in DOMAIN book[s]
    BY <1>1, <1>4
  <2>2. p \in DOMAIN book'[s] => book'[s][p] = book[s][p]
    BY <1>4, AddEffect
  <2>. QED  BY <1>4, <2>1, <2>2 DEF Shown
<1>. QED  BY <1>3, <1>4

LEMMA ReduceShown ==
  ASSUME BookInv, NEW side \in Side, NEW price \in Price, NEW qty \in 0 .. MaxQty,
         Reduce(side, price, qty)
  PROVE  \A s \in Side : \A p \in Price :
            Shown(s, p)' = IF s = side /\ p = price
                           THEN IF Shown(s, p) - qty > 0 THEN Shown(s, p) - qty ELSE 0
                           ELSE Shown(s, p)
<1>1. CASE price \in DOMAIN book[side] /\ book[side][price] - qty > 0
  <2>1. book[side][price] \in 1 .. MaxQty
    BY <1>1 DEF BookInv, NoEmptyLevel
  <2>2. ~ (book[side][price] - qty <= 0)
    BY <1>1, <2>1, BookAssumption
  <2>3. book' = [book EXCEPT ![side] = SetLevel(@, price, @[price] - qty)]
    BY <1>1, <2>2 DEF Reduce
  <2>. QED  BY <1>1, <2>3 DEF SetLevel, BookInv, BookTypeOK, Shown
<1>2. CASE price \in DOMAIN book[side] /\ ~ (book[side][price] - qty > 0)
  <2>1. book' = [book EXCEPT ![side] = DelLevel(@, price)]
    BY <1>2 DEF Reduce, RemoveOrder
  <2>. QED  BY <1>2, <2>1 DEF DelLevel, BookInv, BookTypeOK, Shown
<1>3. CASE price \notin DOMAIN book[side]
  <2>1. UNCHANGED book
    BY <1>3 DEF Reduce, bookVars
  <2>2. ~ (0 - qty > 0)
    BY BookAssumption
  <2>. QED  BY <1>3, <2>1, <2>2 DEF Shown
<1>. QED  BY <1>1, <1>2, <1>3

(* A quantity the book shows is within the bound of a level. *)
LEMMA ShownType ==
  ASSUME BookInv, NEW s \in Side, NEW p \in Price
  PROVE  Shown(s, p) \in 0 .. MaxQty
<1>1. p \in DOMAIN book[s] => book[s][p] \in 1 .. MaxQty
  BY DEF BookInv, NoEmptyLevel
<1>. QED  BY <1>1, BookAssumption DEF Shown

-----------------------------------------------------------------------------
(* What the histories say after a step: a level they no longer name was not *)
(* named before, nor by the step, or is empty where that excuses it.        *)
LEMMA NoteEffect ==
  ASSUME NEW short \in SUBSET (Side \X Price), NEW over \in SUBSET (Side \X Price),
         ReplayTypes, Note(short, over)
  PROVE  /\ missed' \in SUBSET (Side \X Price)
         /\ stale' \in SUBSET (Side \X Price)
         /\ \A s \in Side, p \in Price :
               /\ <<s, p>> \notin missed' =>
                     \/ <<s, p>> \notin missed /\ <<s, p>> \notin short
                     \/ ~ (resting'[s][p] > 0)
               /\ <<s, p>> \notin stale' =>
                     \/ <<s, p>> \notin stale /\ <<s, p>> \notin over
                     \/ p \notin DOMAIN book'[s]
BY DEF Note, ReplayTypes

(* A step keeps the two properties when it keeps the two inequalities at    *)
(* every level it does not give to a history.                               *)
LEMMA NoteKeeps ==
  ASSUME IInv, BookInv', resting' \in [Side -> [Price -> 0 .. MaxQty]],
         NEW short \in SUBSET (Side \X Price), NEW over \in SUBSET (Side \X Price),
         Note(short, over),
         \A s \in Side, p \in Price :
            /\ <<s, p>> \notin over /\ Shown(s, p) <= resting[s][p]
                  => Shown(s, p)' <= resting'[s][p]
            /\ <<s, p>> \notin short /\ Shown(s, p) >= resting[s][p]
                  => Shown(s, p)' >= resting'[s][p]
  PROVE  ReplayTypes' /\ OverstatesOnlyIfStale' /\ UnderstatesOnlyIfMissed'
<1>1. /\ missed' \in SUBSET (Side \X Price)
      /\ stale' \in SUBSET (Side \X Price)
      /\ \A s \in Side, p \in Price :
            /\ <<s, p>> \notin missed' =>
                  \/ <<s, p>> \notin missed /\ <<s, p>> \notin short
                  \/ ~ (resting'[s][p] > 0)
            /\ <<s, p>> \notin stale' =>
                  \/ <<s, p>> \notin stale /\ <<s, p>> \notin over
                  \/ p \notin DOMAIN book'[s]
  BY NoteEffect DEF IInv
<1>2. ReplayTypes'
  BY <1>1 DEF ReplayTypes
<1>3. ASSUME NEW s \in Side, NEW p \in Price
      PROVE  resting'[s][p] \in 0 .. MaxQty /\ Shown(s, p)' \in 0 .. MaxQty
  <2>1. p \in DOMAIN book'[s] => book'[s][p] \in 1 .. MaxQty
    BY DEF BookInv, NoEmptyLevel
  <2>. QED  BY <2>1, BookAssumption DEF Shown
<1>4. ASSUME NEW s \in Side, NEW p \in Price, <<s, p>> \notin stale'
      PROVE  Shown(s, p)' <= resting'[s][p]
  <2>1. CASE <<s, p>> \notin stale /\ <<s, p>> \notin over
    BY <2>1 DEF IInv, OverstatesOnlyIfStale
  <2>2. CASE p \notin DOMAIN book'[s]
    <3>1. Shown(s, p)' = 0
      BY <2>2 DEF Shown
    <3>. QED  BY <1>3, <3>1, BookAssumption
  <2>. QED  BY <1>1, <1>4, <2>1, <2>2
<1>5. ASSUME NEW s \in Side, NEW p \in Price, <<s, p>> \notin missed'
      PROVE  Shown(s, p)' >= resting'[s][p]
  <2>1. CASE <<s, p>> \notin missed /\ <<s, p>> \notin short
    BY <2>1 DEF IInv, UnderstatesOnlyIfMissed
  <2>2. CASE ~ (resting'[s][p] > 0)
    BY <1>3, <2>2, BookAssumption
  <2>. QED  BY <1>1, <1>5, <2>1, <2>2
<1>6. OverstatesOnlyIfStale'
  BY <1>4 DEF OverstatesOnlyIfStale
<1>7. UnderstatesOnlyIfMissed'
  BY <1>5 DEF UnderstatesOnlyIfMissed
<1>. QED  BY <1>2, <1>6, <1>7

LEMMA NextIInv == IInv /\ [Next]_vars => IInv'
<1> SUFFICES ASSUME IInv, [Next]_vars PROVE IInv'
  OBVIOUS
<1>a. \A s \in Side, p \in Price : /\ resting[s][p] \in 0 .. MaxQty
                                   /\ Shown(s, p) \in 0 .. MaxQty
  BY ShownType DEF IInv, ReplayTypes
<1>b. resting \in [Side -> [Price -> 0 .. MaxQty]] /\ BookInv
  BY DEF IInv, ReplayTypes
<1>c. ASSUME NEW side \in Side, NEW price \in Price, NEW qty \in Int,
             resting[side][price] + qty \in 0 .. MaxQty,
             Exchange(side, price, resting[side][price] + qty)
      PROVE  /\ resting' \in [Side -> [Price -> 0 .. MaxQty]]
             /\ \A s \in Side, p \in Price :
                   resting'[s][p] = IF s = side /\ p = price
                                    THEN resting[s][p] + qty ELSE resting[s][p]
  BY <1>b, <1>c DEF Exchange
<1>d. ASSUME act' = Reflex' PROVE ActIsCurrent'
  BY <1>d DEF ActIsCurrent
<1>e. ASSUME UNCHANGED <<book, best, act>> PROVE ActIsCurrent'
  BY <1>e DEF IInv, ActIsCurrent, Reflex, Crossed, Spread
<1>1. ASSUME NEW side \in Side, NEW price \in Price, NEW qty \in 1 .. MaxQty,
             FirstSubmission(side, price, qty)
      PROVE  IInv'
  <2>1. BookInv'
    BY <1>1, <1>b, AddInv DEF FirstSubmission
  <2>2. resting' = resting /\ Note({}, {<<side, price>>})
    BY <1>1 DEF FirstSubmission
  <2>3. \A s \in Side, p \in Price :
           Shown(s, p)' = IF s = side /\ p = price THEN Shown(s, p) + qty
                                                   ELSE Shown(s, p)
    BY <1>1, <1>b, AddShown DEF FirstSubmission
  <2>4. \A s \in Side, p \in Price :
           /\ <<s, p>> \notin {<<side, price>>} /\ Shown(s, p) <= resting[s][p]
                 => Shown(s, p)' <= resting'[s][p]
           /\ <<s, p>> \notin {} /\ Shown(s, p) >= resting[s][p]
                 => Shown(s, p)' >= resting'[s][p]
    BY <1>a, <2>2, <2>3, BookAssumption
  <2>5. ReplayTypes' /\ OverstatesOnlyIfStale' /\ UnderstatesOnlyIfMissed'
    BY <1>b, <2>1, <2>2, <2>4, NoteKeeps
  <2>. QED  BY <1>1, <1>d, <2>1, <2>5 DEF FirstSubmission, IInv
<1>2. ASSUME NEW side \in Side, NEW price \in Price, NEW qty \in 1 .. MaxQty,
             FirstWithdrawal(side, price, qty) \/ HiddenTrade(side, price, qty)
      PROVE  IInv'
  <2>0. /\ qty \in 0 .. MaxQty
        /\ Reduce(side, price, qty)
        /\ resting' = resting
        /\ Note({<<side, price>>}, {})
        /\ act' = Reflex'
    BY <1>2, BookAssumption DEF FirstWithdrawal, HiddenTrade
  <2>1. BookInv'
    BY <1>b, <2>0, ReduceInv
  <2>3. \A s \in Side, p \in Price :
           Shown(s, p)' = IF s = side /\ p = price
                          THEN IF Shown(s, p) - qty > 0 THEN Shown(s, p) - qty ELSE 0
                          ELSE Shown(s, p)
    BY <1>b, <2>0, ReduceShown
  <2>4. \A s \in Side, p \in Price :
           /\ <<s, p>> \notin {} /\ Shown(s, p) <= resting[s][p]
                 => Shown(s, p)' <= resting'[s][p]
           /\ <<s, p>> \notin {<<side, price>>} /\ Shown(s, p) >= resting[s][p]
                 => Shown(s, p)' >= resting'[s][p]
    BY <1>a, <2>0, <2>3, BookAssumption
  <2>5. ReplayTypes' /\ OverstatesOnlyIfStale' /\ UnderstatesOnlyIfMissed'
    BY <1>b, <2>0, <2>1, <2>4, NoteKeeps
  <2>. QED  BY <1>d, <2>0, <2>1, <2>5 DEF IInv
<1>3. ASSUME NEW side \in Side, NEW price \in Price, NEW qty \in 1 .. MaxQty,
             Submission(side, price, qty)
      PROVE  IInv'
  <2>1. BookInv'
    BY <1>3, <1>b, AddInv DEF Submission
  <2>2. resting[side][price] + qty \in 0 .. MaxQty
    BY <1>3, <1>a, BookAssumption DEF Submission
  <2>3. /\ resting' \in [Side -> [Price -> 0 .. MaxQty]]
        /\ \A s \in Side, p \in Price :
              resting'[s][p] = IF s = side /\ p = price
                               THEN resting[s][p] + qty ELSE resting[s][p]
    BY <1>3, <1>c, <2>2 DEF Submission
  <2>4. \A s \in Side, p \in Price :
           Shown(s, p)' = IF s = side /\ p = price THEN Shown(s, p) + qty
                                                   ELSE Shown(s, p)
    BY <1>3, <1>b, AddShown DEF Submission
  <2>5. \A s \in Side, p \in Price :
           /\ <<s, p>> \notin {} /\ Shown(s, p) <= resting[s][p]
                 => Shown(s, p)' <= resting'[s][p]
           /\ <<s, p>> \notin {} /\ Shown(s, p) >= resting[s][p]
                 => Shown(s, p)' >= resting'[s][p]
    BY <1>a, <2>3, <2>4, BookAssumption
  <2>6. Note({}, {})
    BY <1>3 DEF Submission
  <2>7. ReplayTypes' /\ OverstatesOnlyIfStale' /\ UnderstatesOnlyIfMissed'
    BY <2>1, <2>3, <2>5, <2>6, NoteKeeps
  <2>. QED  BY <1>3, <1>d, <2>1, <2>7 DEF Submission, IInv
<1>4. ASSUME NEW side \in Side, NEW price \in Price, NEW qty \in 1 .. MaxQty,
             Withdrawal(side, price, qty)
      PROVE  IInv'
  <2>0. qty \in 0 .. MaxQty /\ -qty \in Int
    BY BookAssumption
  <2>1. BookInv'
    BY <1>4, <1>b, <2>0, ReduceInv DEF Withdrawal
  <2>2. /\ resting[side][price] + (-qty) = resting[side][price] - qty
        /\ resting[side][price] + (-qty) \in 0 .. MaxQty
    BY <1>4, <1>a, BookAssumption DEF Withdrawal
  <2>3. /\ resting' \in [Side -> [Price -> 0 .. MaxQty]]
        /\ \A s \in Side, p \in Price :
              resting'[s][p] = IF s = side /\ p = price
                               THEN resting[s][p] + (-qty) ELSE resting[s][p]
    BY <1>4, <1>c, <2>0, <2>2 DEF Withdrawal
  <2>4. \A s \in Side, p \in Price :
           Shown(s, p)' = IF s = side /\ p = price
                          THEN IF Shown(s, p) - qty > 0 THEN Shown(s, p) - qty ELSE 0
                          ELSE Shown(s, p)
    BY <1>4, <1>b, <2>0, ReduceShown DEF Withdrawal
  <2>5. \A s \in Side, p \in Price :
           /\ <<s, p>> \notin {} /\ Shown(s, p) <= resting[s][p]
                 => Shown(s, p)' <= resting'[s][p]
           /\ <<s, p>> \notin {} /\ Shown(s, p) >= resting[s][p]
                 => Shown(s, p)' >= resting'[s][p]
    BY <1>a, <2>2, <2>3, <2>4, BookAssumption
  <2>6. Note({}, {})
    BY <1>4 DEF Withdrawal
  <2>7. ReplayTypes' /\ OverstatesOnlyIfStale' /\ UnderstatesOnlyIfMissed'
    BY <2>1, <2>3, <2>5, <2>6, NoteKeeps
  <2>. QED  BY <1>4, <1>d, <2>1, <2>7 DEF Withdrawal, IInv
<1>5. ASSUME NEW side \in Side, NEW price \in Price, NEW qty \in 1 .. MaxQty,
             UnseenSubmission(side, price, qty)
      PROVE  IInv'
  <2>1. BookInv' /\ ActIsCurrent'
    BY <1>5, <1>b, <1>e, UnchangedInv DEF UnseenSubmission, bookVars
  <2>2. resting[side][price] + qty \in 0 .. MaxQty
    BY <1>5, <1>a, BookAssumption DEF UnseenSubmission
  <2>3. /\ resting' \in [Side -> [Price -> 0 .. MaxQty]]
        /\ \A s \in Side, p \in Price :
              resting'[s][p] = IF s = side /\ p = price
                               THEN resting[s][p] + qty ELSE resting[s][p]
    BY <1>5, <1>c, <2>2 DEF UnseenSubmission
  <2>4. \A s \in Side, p \in Price : Shown(s, p)' = Shown(s, p)
    BY <1>5 DEF UnseenSubmission, Shown
  <2>5. \A s \in Side, p \in Price :
           /\ <<s, p>> \notin {} /\ Shown(s, p) <= resting[s][p]
                 => Shown(s, p)' <= resting'[s][p]
           /\ <<s, p>> \notin {<<side, price>>} /\ Shown(s, p) >= resting[s][p]
                 => Shown(s, p)' >= resting'[s][p]
    BY <1>a, <2>3, <2>4, BookAssumption
  <2>6. Note({<<side, price>>}, {})
    BY <1>5 DEF UnseenSubmission
  <2>7. ReplayTypes' /\ OverstatesOnlyIfStale' /\ UnderstatesOnlyIfMissed'
    BY <2>1, <2>3, <2>5, <2>6, NoteKeeps
  <2>. QED  BY <2>1, <2>7 DEF IInv
<1>6. ASSUME NEW side \in Side, NEW price \in Price, NEW qty \in 1 .. MaxQty,
             UnseenWithdrawal(side, price, qty)
      PROVE  IInv'
  <2>1. BookInv' /\ ActIsCurrent'
    BY <1>6, <1>b, <1>e, UnchangedInv DEF UnseenWithdrawal, bookVars
  <2>2. /\ -qty \in Int
        /\ resting[side][price] + (-qty) = resting[side][price] - qty
        /\ resting[side][price] + (-qty) \in 0 .. MaxQty
    BY <1>6, <1>a, BookAssumption DEF UnseenWithdrawal
  <2>3. /\ resting' \in [Side -> [Price -> 0 .. MaxQty]]
        /\ \A s \in Side, p \in Price :
              resting'[s][p] = IF s = side /\ p = price
                               THEN resting[s][p] + (-qty) ELSE resting[s][p]
    BY <1>6, <1>c, <2>2 DEF UnseenWithdrawal
  <2>4. \A s \in Side, p \in Price : Shown(s, p)' = Shown(s, p)
    BY <1>6 DEF UnseenWithdrawal, Shown
  <2>5. \A s \in Side, p \in Price :
           /\ <<s, p>> \notin {<<side, price>>} /\ Shown(s, p) <= resting[s][p]
                 => Shown(s, p)' <= resting'[s][p]
           /\ <<s, p>> \notin {} /\ Shown(s, p) >= resting[s][p]
                 => Shown(s, p)' >= resting'[s][p]
    BY <1>a, <2>3, <2>4, BookAssumption
  <2>6. Note({}, {<<side, price>>})
    BY <1>6 DEF UnseenWithdrawal
  <2>7. ReplayTypes' /\ OverstatesOnlyIfStale' /\ UnderstatesOnlyIfMissed'
    BY <2>1, <2>3, <2>5, <2>6, NoteKeeps
  <2>. QED  BY <2>1, <2>7 DEF IInv
<1>7. CASE Halt \/ UNCHANGED vars
  <2>1. BookInv'
    BY <1>7, <1>b, UnchangedInv DEF Halt, vars, bookVars
  <2>2. ActIsCurrent'
    BY <1>7 DEF IInv, Halt, vars, ActIsCurrent, Reflex, Crossed, Spread
  <2>. QED  BY <1>7, <2>1, <2>2 DEF Halt, vars, IInv, ReplayTypes,
              OverstatesOnlyIfStale, UnderstatesOnlyIfMissed, Shown
<1>. QED  BY <1>1, <1>2, <1>3, <1>4, <1>5, <1>6, <1>7 DEF Next

(* The invariant of the replay, for every depth of the files. *)
THEOREM ReplayInvariant == Spec => []IInv
BY InitIInv, NextIInv, PTL DEF Spec

(* The rebuilt book shows more than the exchange has only at the levels     *)
(* where message 1 was added twice or an order left unseen, and until the   *)
(* runner has emptied them.                                                 *)
THEOREM BookOverstatesOnlyIfStale == Spec => []OverstatesOnlyIfStale
<1>1. IInv => OverstatesOnlyIfStale
  BY DEF IInv
<1>. QED  BY <1>1, ReplayInvariant, PTL

(* It shows less only at the levels the files hid something of, or from     *)
(* which message 1 or a hidden trade was taken, until the exchange has      *)
(* emptied them.                                                            *)
THEOREM BookUnderstatesOnlyIfMissed == Spec => []UnderstatesOnlyIfMissed
<1>1. IInv => UnderstatesOnlyIfMissed
  BY DEF IInv
<1>. QED  BY <1>1, ReplayInvariant, PTL

-----------------------------------------------------------------------------
(* A price the cache names that is not stale is a price at which the        *)
(* exchange has quantity.                                                   *)
LEMMA BestIsReal ==
  ASSUME IInv, NEW side \in Side, best[side] # None, <<side, best[side]>> \notin stale
  PROVE  best[side] \in Price /\ resting[side][best[side]] > 0
<1>1. best[side] \in DOMAIN book[side]
  BY DEF IInv, BookInv, BestIsExtreme
<1>2. best[side] \in Price
  BY DEF IInv, BookInv, BookTypeOK
<1>3. /\ Shown(side, best[side]) = book[side][best[side]]
      /\ book[side][best[side]] \in 1 .. MaxQty
      /\ Shown(side, best[side]) <= resting[side][best[side]]
      /\ resting[side][best[side]] \in 0 .. MaxQty
  BY <1>1, <1>2 DEF IInv, BookInv, NoEmptyLevel, OverstatesOnlyIfStale, Shown, ReplayTypes
<1>. QED  BY <1>2, <1>3, BookAssumption

(* TAKE_LIQUIDITY is decided only when the exchange's book is crossed or    *)
(* the runner takes a stale level for the best of its side.                 *)
THEOREM TakeNeedsACrossOrStaleness == Spec => []TakeIsRealOrStale
<1>1. ASSUME IInv, act = "TAKE_LIQUIDITY" PROVE Crossed
  <2>1. act # None => act = Reflex
    BY <1>1 DEF IInv, ActIsCurrent
  <2>2. act = Reflex
    BY <1>1, <2>1, ReplayAssumption DEF ReflexAction
  <2>. QED  BY <1>1, <2>2 DEF Reflex, Evaluate
<1>2. ASSUME IInv, Crossed, \A side \in Side : <<side, best[side]>> \notin stale
      PROVE  ReallyCrossed
  <2>1. /\ best["Bid"] # None /\ best["Ask"] # None
        /\ best["Bid"] >= best["Ask"]
    BY <1>2 DEF Crossed
  <2>2. "Bid" \in Side /\ "Ask" \in Side
    BY DEF Side
  <2>. QED  BY <1>2, <2>1, <2>2, BestIsReal DEF ReallyCrossed
<1>3. IInv => TakeIsRealOrStale
  BY <1>1, <1>2 DEF TakeIsRealOrStale
<1>. QED  BY <1>3, ReplayInvariant, PTL

(* When both sides are known, neither best level is stale and the           *)
(* exchange's spread is beyond the limit, the last action is WIDEN_SPREADS.  *)
THEOREM BlowoutIsNeverMissed == Spec => []BlowoutIsSeen
<1>1. ASSUME IInv, act # None,
             \A side \in Side : best[side] # None /\ <<side, best[side]>> \notin stale,
             \A bid, ask \in Price :
                resting["Bid"][bid] > 0 /\ resting["Ask"][ask] > 0
                   => ask - bid > SpreadLimit
      PROVE  act = "WIDEN_SPREADS"
  <2>1. "Bid" \in Side /\ "Ask" \in Side
    BY DEF Side
  <2>2. /\ best["Bid"] \in Price /\ best["Ask"] \in Price
        /\ best["Ask"] - best["Bid"] > SpreadLimit
    BY <1>1, <2>1, BestIsReal
  <2>3. ~ (best["Bid"] >= best["Ask"])
    BY <2>2, BookAssumption, StrategyAssumption DEF Price
  <2>4. Spread = best["Ask"] - best["Bid"]
    BY <1>1, <2>1 DEF Spread
  <2>5. Spread # None
    BY <2>2, <2>4, BookAssumption DEF Price
  <2>6. Spread > SpreadLimit /\ ~ Crossed
    BY <2>2, <2>3, <2>4 DEF Crossed
  <2>7. act = Reflex
    BY <1>1 DEF IInv, ActIsCurrent
  <2>. QED  BY <2>5, <2>6, <2>7 DEF Reflex, Evaluate
<1>2. IInv => BlowoutIsSeen
  BY <1>1 DEF BlowoutIsSeen
<1>. QED  BY <1>2, ReplayInvariant, PTL

=============================================================================
