----------------------------- MODULE DpdkEchoProofs -----------------------------
(***************************************************************************)
(* The forwarder's mbufs and frames are accounted for, whatever the sizes  *)
(* of pool, rings and bursts; it drops no more than others send.           *)
(***************************************************************************)
EXTENDS DpdkEcho, TLAPS

(* The frames that go round in direction p: received on port p, held on     *)
(* their way, or queued on the other port.                                  *)
Circling(p) == rxq[p] + txq[Other(p)] + (IF At("tx", p) THEN held ELSE 0)

(* What has gone round or been dropped in direction p. *)
Carried(p) == Circling(p) + Dropped(p)

(* A direction has carried at most what its ring accepted of one burst and  *)
(* what others sent into it, and only the latter before it is seeded.       *)
Closed ==
    /\ \A p \in Port :
          /\ Carried(p) <= BurstSize + foreign[p]
          /\ Carried(p) <= TxDesc + foreign[p]
    /\ At("seed", 0) => Carried(0) <= foreign[0]
    /\ At("seed", 0) \/ At("seed", 1) => Carried(1) <= foreign[1]
    /\ DropsAreForeign

IInv == TypeOK /\ MbufsConserved /\ FramesAccounted /\ Closed

-----------------------------------------------------------------------------
LEMMA SmallerFacts ==
    ASSUME NEW m \in Nat, NEW n \in Nat
    PROVE  /\ Smaller(m, n) \in Nat
           /\ Smaller(m, n) <= m
           /\ Smaller(m, n) <= n
BY DEF Smaller

LEMMA Sizes ==
    /\ NumMbufs \in Nat /\ Foreign \in Nat /\ MaxRx \in Nat
    /\ RxDesc \in Nat /\ TxDesc \in Nat /\ BurstSize \in Nat
BY EchoAssumption

LEMMA InitIInv == Init => IInv
BY EchoAssumption
   DEF Init, IInv, TypeOK, MbufsConserved, FramesAccounted, Closed, Carried, Dropped, DropsAreForeign, Circling, Port, Other,
       Labels, At, Carried, Dropped, DropsAreForeign

LEMMA SeedIInv ==
    ASSUME IInv, NEW d \in Port, Seed(d)
    PROVE  IInv'
PROOF
<1> DEFINE o == Other(d)
<1>1. PICK sent \in Nat :
         /\ sent <= BurstSize /\ sent <= pool /\ sent <= TxDesc - txq[o]
         /\ txq' = [txq EXCEPT ![o] = @ + sent]
         /\ pool' = pool - sent
         /\ seeded' = seeded + sent
  <2> DEFINE n == Smaller(BurstSize, pool)
  <2> DEFINE s == Smaller(n, Space(o))
  <2>1. pool \in Nat /\ o \in Port /\ Space(o) \in Nat
    BY Sizes DEF IInv, TypeOK, Port, Other, Space
  <2>2. n \in Nat /\ n <= BurstSize /\ n <= pool
    BY <2>1, Sizes, SmallerFacts
  <2>3. s \in Nat /\ s <= n /\ s <= Space(o)
    BY <2>1, <2>2, SmallerFacts
  <2>4. /\ txq' = [txq EXCEPT ![o] = @ + s]
        /\ pool' = pool - s
        /\ seeded' = seeded + s
    BY DEF Seed
  <2> HIDE DEF n, s
  <2>5. s <= BurstSize /\ s <= pool
    BY <2>1, <2>2, <2>3, Sizes
  <2> QED
    BY <2>3, <2>4, <2>5 DEF Space
<1>2. /\ pc = <<"seed", d>>
      /\ pc' = (IF d = 0 THEN <<"seed", 1>> ELSE <<"check", 0>>)
      /\ UNCHANGED <<posted, rxq, held, running, rx, tx, drops, foreign, lost>>
      /\ held = 0
  BY EchoAssumption DEF IInv, TypeOK, Seed, At, GoTo, statVars
<1>3. TypeOK'
  BY <1>1, <1>2, EchoAssumption DEF IInv, TypeOK, Port, Other, Labels
<1>4. MbufsConserved' /\ FramesAccounted'
  <2>1. CASE d = 0
    BY <1>1, <1>2, <2>1 DEF IInv, TypeOK, MbufsConserved, FramesAccounted, Port, Other
  <2>2. CASE d = 1
    BY <1>1, <1>2, <2>2 DEF IInv, TypeOK, MbufsConserved, FramesAccounted, Port, Other
  <2> QED
    BY <2>1, <2>2 DEF Port
<1>5. Closed'
  <2> USE DEF IInv, TypeOK, Closed, Carried, Dropped, DropsAreForeign, Circling, Port, Other, At
  <2>0. DropsAreForeign' /\ sent <= BurstSize /\ sent <= TxDesc
    BY <1>1, <1>2, EchoAssumption
  <2>1. CASE d = 0
    <3>1. Carried(0)' = Carried(0) + sent /\ Carried(1)' = Carried(1)
      BY <1>1, <1>2, <2>1, EchoAssumption
    <3>2. Carried(0) <= foreign[0] /\ Carried(1) <= foreign[1]
      BY <1>2, <2>1
    <3>3. Carried(0) \in Int /\ Carried(1) \in Int
      BY EchoAssumption
    <3> QED
      BY <1>1, <1>2, <2>0, <2>1, <3>1, <3>2, <3>3, EchoAssumption
  <2>2. CASE d = 1
    <3>1. Carried(1)' = Carried(1) + sent /\ Carried(0)' = Carried(0)
      BY <1>1, <1>2, <2>2, EchoAssumption
    <3>2. Carried(1) <= foreign[1]
      BY <1>2, <2>2
    <3>3. Carried(0) \in Int /\ Carried(1) \in Int
      BY EchoAssumption
    <3> QED
      BY <1>1, <1>2, <2>0, <2>2, <3>1, <3>2, <3>3, EchoAssumption
  <2> QED
    BY <2>1, <2>2
<1> QED
  BY <1>3, <1>4, <1>5 DEF IInv

LEMMA RxBurstIInv ==
    ASSUME IInv, NEW p \in Port, RxBurst(p)
    PROVE  IInv'
PROOF
<1>1. PICK n \in Nat :
         /\ n <= BurstSize /\ n <= rxq[p]
         /\ held' = n
         /\ rxq' = [rxq EXCEPT ![p] = @ - n]
         /\ pc' = IF n = 0 THEN AfterPort(p) ELSE <<"tx", p>>
  <2> DEFINE n == Smaller(BurstSize, rxq[p])
  <2>1. n \in Nat /\ n <= BurstSize /\ n <= rxq[p]
    <3>1. rxq[p] \in Nat
      BY Sizes DEF IInv, TypeOK
    <3> QED
      BY <3>1, Sizes, SmallerFacts
  <2>2. held' = n
    BY DEF RxBurst
  <2>3. /\ rxq' = [rxq EXCEPT ![p] = @ - held']
        /\ pc' = IF held' = 0 THEN AfterPort(p) ELSE <<"tx", p>>
    BY DEF RxBurst
  <2> HIDE DEF n
  <2>4. /\ rxq' = [rxq EXCEPT ![p] = @ - n]
        /\ pc' = IF n = 0 THEN AfterPort(p) ELSE <<"tx", p>>
    BY <2>2, <2>3
  <2> QED
    BY <2>1, <2>2, <2>4
<1>2. /\ pc = <<"rx", p>>
      /\ UNCHANGED <<pool, posted, txq, running, rx, tx, drops, seeded, foreign, lost>>
      /\ held = 0
  BY EchoAssumption DEF IInv, TypeOK, RxBurst, At, statVars
<1>3. TypeOK'
  BY <1>1, <1>2, EchoAssumption DEF IInv, TypeOK, Port, AfterPort, Labels
<1>4. MbufsConserved' /\ FramesAccounted'
  <2>1. CASE p = 0
    BY <1>1, <1>2, <2>1 DEF IInv, TypeOK, MbufsConserved, FramesAccounted, Port
  <2>2. CASE p = 1
    BY <1>1, <1>2, <2>2 DEF IInv, TypeOK, MbufsConserved, FramesAccounted, Port
  <2> QED
    BY <2>1, <2>2 DEF Port
<1>5. Closed'
  <2>1. Circling(0)' = Circling(0) /\ Circling(1)' = Circling(1)
    <3> USE DEF IInv, TypeOK, Circling, Port, Other, At, AfterPort
    <3>1. CASE p = 0
      BY <1>1, <1>2, <3>1
    <3>2. CASE p = 1
      BY <1>1, <1>2, <3>2
    <3> QED
      BY <3>1, <3>2
  <2>2. ~ At("seed", 0)' /\ ~ At("seed", 1)'
    BY <1>1 DEF At, AfterPort
  <2> QED
    BY <1>2, <2>1, <2>2 DEF IInv, Closed, Carried, Dropped, DropsAreForeign, Port
<1> QED
  BY <1>3, <1>4, <1>5 DEF IInv

LEMMA TxBurstIInv ==
    ASSUME IInv, NEW p \in Port, TxBurst(p)
    PROVE  IInv'
PROOF
<1> USE EchoAssumption
    DEF IInv, TypeOK, MbufsConserved, FramesAccounted, Closed, Carried, Dropped, DropsAreForeign, Circling, Port, Other,
        Labels, At, TxBurst, AfterPort, Smaller, Space
<1>1. CASE p = 0
  <2>1. TypeOK'
    BY <1>1
  <2>2. MbufsConserved' /\ FramesAccounted'
    BY <1>1
  <2>3. Closed'
    BY <1>1
  <2> QED
    BY <2>1, <2>2, <2>3
<1>2. CASE p = 1
  <2>1. TypeOK'
    BY <1>2
  <2>2. MbufsConserved' /\ FramesAccounted'
    BY <1>2
  <2>3. Closed'
    BY <1>2
  <2> QED
    BY <2>1, <2>2, <2>3
<1> QED
  BY <1>1, <1>2

(* Check and the signal move no mbuf. *)
LEMMA ControlIInv ==
    ASSUME IInv, Check \/ Sigint
    PROVE  IInv'
PROOF
<1>1. /\ UNCHANGED <<pool, posted, rxq, txq, held, rx, tx, drops, seeded, foreign, lost>>
      /\ running' \in BOOLEAN
      /\ pc' \in Labels
      /\ pc' = pc \/ (At("check", 0) /\ pc' \in {<<"rx", 0>>, <<"stopped", 0>>})
  <2>1. CASE Check
    <3>1. At("check", 0) /\ pc' \in {<<"rx", 0>>, <<"stopped", 0>>}
      BY <2>1 DEF Check, GoTo
    <3>2. pc' \in Labels
      BY <3>1 DEF Labels, Port
    <3> QED
      BY <2>1, <3>1, <3>2 DEF IInv, TypeOK, Check, ringVars, statVars
  <2>2. CASE Sigint
    BY <2>2 DEF IInv, TypeOK, Sigint, ringVars, statVars
  <2> QED
    BY <2>1, <2>2
<1>2. At("check", 0) => held = 0
  BY EchoAssumption DEF IInv, TypeOK, At
<1>3. TypeOK'
  BY <1>1, <1>2 DEF IInv, TypeOK
<1>4. MbufsConserved' /\ FramesAccounted'
  BY <1>1 DEF IInv, MbufsConserved, FramesAccounted
<1>5. \A p \in Port : Circling(p)' = Circling(p)
  BY <1>1, <1>2 DEF Circling, At
<1>6. At("seed", 0)' => At("seed", 0)
  BY <1>1 DEF At
<1>7. At("seed", 1)' => At("seed", 1)
  BY <1>1 DEF At
<1> QED
  BY <1>1, <1>3, <1>4, <1>5, <1>6, <1>7 DEF IInv, Closed, Carried, Dropped, DropsAreForeign, Port

LEMMA TransmitIInv ==
    ASSUME IInv, NEW p \in Port, Transmit(p)
    PROVE  IInv'
PROOF
<1>1. TypeOK'
  <2> USE EchoAssumption
      DEF IInv, TypeOK, MbufsConserved, Port, Other, Labels, Transmit, Receive, Lose, statVars
  <2>1. CASE p = 0
    BY <2>1
  <2>2. CASE p = 1
    BY <2>2
  <2> QED
    BY <2>1, <2>2
<1>2. MbufsConserved' /\ FramesAccounted'
  <2> USE EchoAssumption DEF IInv, TypeOK, Port, Other, Transmit, Receive, Lose, statVars
  <2>1. CASE p = 0
    <3>1. MbufsConserved'
      BY <2>1 DEF MbufsConserved
    <3>2. FramesAccounted'
      BY <2>1 DEF FramesAccounted
    <3> QED
      BY <3>1, <3>2
  <2>2. CASE p = 1
    <3>1. MbufsConserved'
      BY <2>2 DEF MbufsConserved
    <3>2. FramesAccounted'
      BY <2>2 DEF FramesAccounted
    <3> QED
      BY <3>1, <3>2
  <2> QED
    BY <2>1, <2>2
<1>3. Closed'
  <2>1. UNCHANGED <<pc, held, rx, tx, drops, foreign>>
    BY DEF Transmit, statVars
  <2>2. \A q \in Port : Circling(q)' <= Circling(q)
    <3> USE EchoAssumption
        DEF IInv, TypeOK, Port, Other, At, Transmit, Receive, Lose, Circling
    <3>1. CASE p = 0
      BY <2>1, <3>1
    <3>2. CASE p = 1
      BY <2>1, <3>2
    <3> QED
      BY <3>1, <3>2
  <2>3. \A q \in Port : Circling(q) \in Int /\ Circling(q)' \in Int /\ Dropped(q) \in Int
    BY <1>1, EchoAssumption DEF IInv, TypeOK, Port, Other, Circling, Dropped
  <2>4. \A q \in Port : foreign[q] \in Int
    BY EchoAssumption DEF IInv, TypeOK
  <2>5. \A q \in Port : Dropped(q)' = Dropped(q)
    BY <2>1 DEF Dropped
  <2> QED
    BY <2>1, <2>2, <2>3, <2>4, <2>5, EchoAssumption
       DEF IInv, Closed, Carried, DropsAreForeign, Port, At
<1> QED
  BY <1>1, <1>2, <1>3 DEF IInv

LEMMA ArriveIInv ==
    ASSUME IInv, NEW p \in Port, Arrive(p)
    PROVE  IInv'
PROOF
<1>1. TypeOK'
  BY EchoAssumption
     DEF IInv, TypeOK, Port, Other, Labels, Arrive, Receive, Lose, statVars
<1>2. MbufsConserved' /\ FramesAccounted'
  <2>1. /\ rxq \in [Port -> Nat] /\ posted \in [Port -> Nat] /\ foreign \in [Port -> Nat]
        /\ txq[0] \in Nat /\ txq[1] \in Nat
        /\ held \in Nat /\ pool \in Nat /\ lost \in Nat /\ drops \in Nat /\ seeded \in Nat
    BY EchoAssumption DEF IInv, TypeOK, Port
  <2>2. UNCHANGED <<pool, txq, held, drops, seeded>>
    BY DEF Arrive, statVars
  <2>3. foreign'[0] + foreign'[1] = foreign[0] + foreign[1] + 1
    BY <2>1 DEF Arrive, Port
  <2>4. posted'[0] + posted'[1] + rxq'[0] + rxq'[1] = posted[0] + posted[1] + rxq[0] + rxq[1]
    BY <2>1 DEF Arrive, Receive, Lose, Port
  <2>5. rxq'[0] + rxq'[1] + lost' = rxq[0] + rxq[1] + lost + 1
    BY <2>1 DEF Arrive, Receive, Lose, Port
  <2>6. /\ rxq' \in [Port -> Nat] /\ posted' \in [Port -> Nat]
        /\ foreign' \in [Port -> Nat] /\ lost' \in Nat
    BY <1>1, EchoAssumption DEF TypeOK
  <2>7. MbufsConserved'
    BY <2>1, <2>2, <2>4, <2>6 DEF IInv, MbufsConserved, Port
  <2>8. FramesAccounted'
    <3>1. /\ {rxq[0], rxq[1], rxq'[0], rxq'[1]} \subseteq Nat
          /\ {foreign[0], foreign[1], foreign'[0], foreign'[1]} \subseteq Nat
      BY <2>1, <2>6 DEF Port
    <3>2. rxq[0] + rxq[1] + txq[0] + txq[1] + held + drops + lost
             = seeded + foreign[0] + foreign[1]
      BY DEF IInv, FramesAccounted
    <3>3. rxq'[0] + rxq'[1] + txq[0] + txq[1] + held + drops + lost'
             = seeded + foreign'[0] + foreign'[1]
      <4> DEFINE x == rxq[0] + rxq[1]
                 y == rxq'[0] + rxq'[1]
                 f == foreign[0] + foreign[1]
                 g == foreign'[0] + foreign'[1]
                 r == txq[0] + txq[1] + held + drops
      <4>1. {x, y, f, g, r, seeded, lost, lost'} \subseteq Nat
        BY <2>1, <2>6, <3>1
      <4>2. y + lost' = x + lost + 1 /\ g = f + 1
        BY <2>3, <2>5
      <4>3. x + r + lost = seeded + f
        BY <2>1, <3>1, <3>2
            <4> HIDE DEF x, y, f, g, r
      <4>5. y + r + lost' = seeded + g
        BY <4>1, <4>2, <4>3
      <4>6. y + r + lost' = rxq'[0] + rxq'[1] + txq[0] + txq[1] + held + drops + lost'
        BY <2>1, <2>6, <3>1 DEF y, r
      <4> QED
        BY <2>1, <3>1, <4>5, <4>6 DEF g
    <3> QED
      BY <2>2, <3>3 DEF FramesAccounted
  <2> QED
    BY <2>7, <2>8
<1>3. Closed'
  <2>1. UNCHANGED <<pc, held, txq, rx, tx, drops>>
    BY DEF Arrive, statVars
  <2>2. foreign \in [Port -> Nat] /\ foreign' = [foreign EXCEPT ![p] = @ + 1]
    BY EchoAssumption DEF IInv, TypeOK, Arrive
  <2>3. \A q \in Port :
          /\ Circling(q)' <= Circling(q) + (foreign'[q] - foreign[q])
          /\ foreign[q] <= foreign'[q]
    <3> USE EchoAssumption
        DEF IInv, TypeOK, Port, Other, At, Arrive, Receive, Lose, Circling
    <3>1. CASE p = 0
      BY <2>1, <2>2, <3>1
    <3>2. CASE p = 1
      BY <2>1, <2>2, <3>2
    <3> QED
      BY <3>1, <3>2
  <2>4. \A q \in Port : Circling(q) \in Int /\ Circling(q)' \in Int /\ Dropped(q) \in Int
    BY <1>1, EchoAssumption DEF IInv, TypeOK, Port, Other, Circling, Dropped
  <2>5. \A q \in Port : foreign[q] \in Int /\ foreign'[q] \in Int
    BY <2>2
  <2>6. \A q \in Port : Dropped(q)' = Dropped(q)
    BY <2>1 DEF Dropped
  <2> QED
    BY <2>1, <2>3, <2>4, <2>5, <2>6, EchoAssumption
       DEF IInv, Closed, Carried, DropsAreForeign, Port, At
<1> QED
  BY <1>1, <1>2, <1>3 DEF IInv

LEMMA RefillIInv ==
    ASSUME IInv, NEW p \in Port, Refill(p)
    PROVE  IInv'
PROOF
<1> USE EchoAssumption
    DEF IInv, TypeOK, MbufsConserved, FramesAccounted, Closed, Carried, Dropped, DropsAreForeign, Circling, Port, Other,
        Labels, At, Refill, statVars
<1>1. CASE p = 0
  BY <1>1
<1>2. CASE p = 1
  BY <1>2
<1> QED
  BY <1>1, <1>2

LEMMA StutterIInv ==
    ASSUME IInv, UNCHANGED vars
    PROVE  IInv'
BY DEF vars, ringVars, statVars, IInv, TypeOK, MbufsConserved, FramesAccounted, Closed, Carried, Dropped, DropsAreForeign,
       Circling, At

LEMMA IInvInductive == IInv /\ [Next]_vars => IInv'
PROOF
<1> SUFFICES ASSUME IInv, [Next]_vars
             PROVE  IInv'
  OBVIOUS
<1>1. ASSUME NEW p \in Port, Seed(p) \/ RxBurst(p) \/ TxBurst(p) PROVE IInv'
  BY <1>1, SeedIInv, RxBurstIInv, TxBurstIInv
<1>2. CASE Check \/ Sigint
  BY <1>2, ControlIInv
<1>3. ASSUME NEW p \in Port, Transmit(p) \/ Arrive(p) \/ Refill(p) PROVE IInv'
  BY <1>3, TransmitIInv, ArriveIInv, RefillIInv
<1>4. CASE UNCHANGED vars
  BY <1>4, StutterIInv
<1> QED
  BY <1>1, <1>2, <1>3, <1>4 DEF Next, Forwarder

-----------------------------------------------------------------------------
(* For all sizes of the pool, the rings and the bursts: no mbuf is leaked   *)
(* or freed twice, and every frame is under way, dropped or lost.           *)
THEOREM NothingIsLeaked == Spec => [](MbufsConserved /\ FramesAccounted)
PROOF
<1>1. IInv => MbufsConserved /\ FramesAccounted
  BY DEF IInv
<1> QED
  BY <1>1, InitIInv, IInvInductive, PTL DEF Spec

(* Every frame that came in is in a ring, in the loop, dropped or lost: the *)
(* drops that are printed are the whole loss inside the program.            *)
THEOREM FramesAreAccounted == Spec => []FramesAccounted
BY NothingIsLeaked, PTL

(* The loop drops no more frames than others send into it, and the pool     *)
(* does not run dry while it has mbufs for the receive rings, a burst per   *)
(* direction and those frames.                                              *)
THEOREM ClosedLoopNeverDrops == Spec => [](DropsAreForeign /\ RefillNeverFails)
PROOF
<1>1. IInv => DropsAreForeign
  BY DEF IInv, Closed
<1>2. IInv => RefillNeverFails
  <2> SUFFICES ASSUME IInv,
                      NumMbufs > 2 * RxDesc + 2 * BurstSize + foreign[0] + foreign[1]
               PROVE  pool > 0
    BY DEF RefillNeverFails
  <2>1. Dropped(0) \in Int /\ Dropped(1) \in Int /\ Dropped(0) + Dropped(1) >= 0
    BY EchoAssumption DEF IInv, TypeOK, Closed, DropsAreForeign, Port, Other, Dropped
  <2>2. Circling(0) + Circling(1) <= 2 * BurstSize + foreign[0] + foreign[1]
    BY <2>1, EchoAssumption DEF IInv, TypeOK, Closed, Carried, Circling, Port, Other, At
  <2>3. txq[0] + txq[1] + held
           <= 2 * BurstSize + foreign[0] + foreign[1] - rxq[0] - rxq[1]
    BY <2>2, EchoAssumption DEF IInv, TypeOK, Circling, Port, Other, At, Labels
  <2> QED
    BY <2>3, EchoAssumption DEF IInv, TypeOK, MbufsConserved, Port
<1> QED
  BY <1>1, <1>2, InitIInv, IInvInductive, PTL DEF Spec

(* The pool is never empty when a receive ring is refilled, while it is as  *)
(* large as the rings, the bursts and the frames of others together.        *)
THEOREM RefillSucceeds == Spec => []RefillNeverFails
BY ClosedLoopNeverDrops, PTL

=============================================================================
