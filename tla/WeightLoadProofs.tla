--------------------------- MODULE WeightLoadProofs ---------------------------
(***************************************************************************)
(* A weight load, for every model, any number of units and any width of a  *)
(* word, whatever accesses of the driver fail: what is acknowledged is in  *)
(* place, and no inference sees a part of it.                              *)
(***************************************************************************)
EXTENDS WeightLoad, TLAPS

TypeOK ==
    /\ load \in Loads
    /\ pc \in {"off", "loader", "again", "wait", "off2", "auto", "bench"}
    /\ acked \in BOOLEAN
    /\ loader \in [on : BOOLEAN, pos : Place, sizes : [Section -> Nat], aimed : SUBSET Section]
    /\ \A s \in Section : Announced[s] \in {0, load.sizes[s]}
    /\ mlp \in [at : {"idle", "reload", "infer"}, pos : Place]
    /\ ctrl \in [reload : BOOLEAN, start : BOOLEAN, auto : BOOLEAN, isr : BOOLEAN]
    /\ cache = [s \in Section |-> cache[s]]

-----------------------------------------------------------------------------
(* Item i of section s comes before place p. *)
Before(s, i, p) == s < p.sec \/ (s = p.sec /\ i < p.at)

(* The arrays when the words before p have been stored. *)
Partial(p) ==
    [s \in Section |-> [i \in 0 .. Cap[s] - 1 |->
        IF i < load.sizes[s] /\ Before(s, i, p) THEN load.image[s][i] ELSE Zero(s)]]

Less(p, q) == p.sec < q.sec \/ (p.sec = q.sec /\ p.at < q.at)

(* The place p is one that a loop to the limits visits, or its end. *)
Visits(p, limit) ==
    \/ p = End
    \/ /\ p \in [sec : Section, at : Nat]
       /\ p.at < limit[p.sec]
       /\ \E k \in Nat : p.at = k * Stride(p.sec)

Begins(p, limit) ==
    /\ Visits(p, limit)
    /\ p.at = 0
    /\ \A s \in Section : s < p.sec => limit[s] = 0

Follows(q, p, limit) ==
    /\ Visits(q, limit)
    /\ \/ q.sec = p.sec /\ q.at = p.at + Stride(p.sec)
       \/ /\ p.sec < q.sec /\ q.at = 0
          /\ p.at + Stride(p.sec) >= limit[p.sec]
          /\ \A s \in Section : p.sec < s /\ s < q.sec => limit[s] = 0

(* A section before p has not been announced. *)
Skipped(p) == \E s \in Section : s < p.sec /\ Announced[s] # load.sizes[s]

(* The word at p, of the model's sizes. *)
ItsWord(p) ==
    IF p.sec \in InBytes
    THEN [k \in 0 .. Lanes - 1 |->
             IF p.at + k < load.sizes[p.sec] THEN load.image[p.sec][p.at + k] ELSE 0]
    ELSE load.image[p.sec][p.at]

NotStarted ==
    /\ ~ loader.on /\ loader.pos = End /\ chan = None
    /\ loader.aimed = {} /\ \A s \in Section : Announced[s] = 0

(* The loader is yet to be started, and the core at the first place. *)
NotYet(p) == NotStarted /\ cache = NoWeights /\ Begins(p, load.sizes)

(* Both are at p: a section is stored as far as that, if it was read from   *)
(* its place or is yet to come.                                             *)
Aligned(p) ==
    /\ ~ Skipped(p)
    /\ \A s \in Section :
          s \in loader.aimed \/ p.sec < s \/ (p.sec = s /\ p.at = 0) => cache[s] = Partial(p)[s]
    /\ \/ chan = None /\ loader.pos = p
       \/ /\ chan # None /\ p # End
          /\ p.sec \in loader.aimed => chan = ItsWord(p)
          /\ Announced[p.sec] = load.sizes[p.sec]
          /\ Follows(loader.pos, p, Announced)

(* The loader has skipped a section: it is ahead of the core for good.      *)
Ahead(p) ==
    \/ chan = None /\ Less(p, loader.pos)
    \/ /\ chan # None
       /\ \E q \in Place : /\ q # End /\ Visits(q, load.sizes)
                           /\ Less(p, q) /\ Less(q, loader.pos)

InStep(p) ==
    /\ NotYet(p) \/ Aligned(p) \/ Ahead(p)
    /\ pc = "loader" => NotYet(p)

Unused ==
    /\ cache = NoWeights /\ ~ acked
    /\ mlp.at # "reload" /\ ~ (ctrl.start /\ ctrl.reload)
    /\ pc \notin {"auto", "bench"} => mlp.at = "idle" /\ ~ ctrl.start /\ ~ ctrl.isr
    /\ pc = "off" => NotStarted /\ ~ ctrl.reload

Pending ==
    /\ mlp.at = "idle" /\ ctrl.start /\ ctrl.reload /\ ~ ctrl.isr /\ ~ acked
    /\ cache = NoWeights
    /\ pc \notin {"off", "off2", "auto"}
    /\ InStep(First(load.sizes))

Loading ==
    /\ mlp.at = "reload" /\ ~ ctrl.isr /\ ~ acked
    /\ pc # "off"
    /\ InStep(mlp.pos)

Finished ==
    /\ mlp.at # "reload" /\ ~ (ctrl.start /\ ctrl.reload)
    /\ chan = None /\ loader.pos = End
    /\ \A s \in Section : Announced[s] = load.sizes[s]
    /\ InPlace
    /\ pc # "off"
    /\ pc = "loader" => NotYet(End)

(* A load goes through four phases; nothing leads back. *)
Phases ==
    /\ Visits(loader.pos, Announced) /\ Visits(mlp.pos, load.sizes)
    /\ ctrl.auto => pc = "bench" /\ ~ ctrl.reload
    /\ pc = "auto" => ~ ctrl.reload
    /\ Unused \/ Pending \/ Loading \/ Finished

IInv == TypeOK /\ (Fits => Phases)

-----------------------------------------------------------------------------
(* The next place is the next item, or the first of a later section, and    *)
(* the sections in between are empty.                                       *)
LEMMA SettleIsNext ==
    ASSUME NEW s \in Section, NEW at \in Nat, NEW limit \in [Section -> Nat]
    PROVE  LET p == Settle(s, at, limit)
           IN  /\ p \in Place
               /\ p # End => p.at < limit[p.sec]
               /\ \/ p = [sec |-> s, at |-> at] /\ at < limit[s]
                  \/ /\ p.sec \in s + 1 .. 5 /\ p.at = 0 /\ at >= limit[s]
                     /\ \A r \in s + 1 .. p.sec - 1 : limit[r] = 0
<1>1. CASE at < limit[s]
  <2>1. Settle(s, at, limit) = [sec |-> s, at |-> at]
    BY <1>1 DEF Settle
  <2>2. [sec |-> s, at |-> at] \in [sec : Section, at : Nat]
    OBVIOUS
  <2>3. [sec |-> s, at |-> at] \in Place
    BY <2>2 DEF Place
  <2> QED
    BY <1>1, <2>1, <2>3
<1>2. CASE ~ (at < limit[s])
  <2> DEFINE S == {[sec |-> r, at |-> 0] : r \in s + 1 .. 4} \cup {End}
             P(p) == /\ p # End => limit[p.sec] > 0
                     /\ \A r \in s + 1 .. p.sec - 1 : limit[r] = 0
             q == CHOOSE p \in S : P(p)
  <2>1. Settle(s, at, limit) = q
    BY <1>2 DEF Settle
  <2>2. \E p \in S : P(p)
    <3>1. CASE s < 2 /\ limit[2] > 0
      <4>1. [sec |-> 2, at |-> 0] \in S
        BY <3>1 DEF Section
      <4>2. P([sec |-> 2, at |-> 0])
        BY <3>1 DEF Section
      <4> QED
        BY <4>1, <4>2
    <3>2. CASE s < 3 /\ limit[3] > 0 /\ (s < 2 => limit[2] = 0)
      <4>1. [sec |-> 3, at |-> 0] \in S
        BY <3>2 DEF Section
      <4>2. P([sec |-> 3, at |-> 0])
        BY <3>2 DEF Section
      <4> QED
        BY <4>1, <4>2
    <3>3. CASE s < 4 /\ limit[4] > 0 /\ (s < 2 => limit[2] = 0) /\ (s < 3 => limit[3] = 0)
      <4>1. [sec |-> 4, at |-> 0] \in S
        BY <3>3 DEF Section
      <4>2. P([sec |-> 4, at |-> 0])
        BY <3>3 DEF Section
      <4> QED
        BY <4>1, <4>2
    <3>4. CASE (s < 2 => limit[2] = 0) /\ (s < 3 => limit[3] = 0) /\ (s < 4 => limit[4] = 0)
      <4>1. P(End)
        BY <3>4 DEF Section, End
      <4> QED
        BY <4>1
    <3> QED
      BY <3>1, <3>2, <3>3, <3>4 DEF Section
  <2>3. q \in S /\ P(q)
    BY <2>2
  <2> HIDE DEF q
  <2>4. q \in Place /\ q.sec \in s + 1 .. 5 /\ q.at = 0
    <3>1. CASE q = End
      BY <3>1 DEF Place, End, Section
    <3>2. CASE q # End
      <4>1. PICK r \in s + 1 .. 4 : q = [sec |-> r, at |-> 0]
        BY <2>3, <3>2
      <4>2. q \in [sec : Section, at : Nat]
        BY <4>1 DEF Section
      <4> QED
        BY <4>1, <4>2 DEF Place, Section
    <3> QED
      BY <3>1, <3>2
  <2>5. q # End => q.at < limit[q.sec]
    BY <2>3, <2>4
  <2> QED
    BY <1>2, <2>1, <2>3, <2>4, <2>5
<1> QED
  BY <1>1, <1>2

LEMMA Constants ==
    /\ H \in Nat \ {0} /\ D \in Nat \ {0} /\ Lanes \in Nat \ {0} /\ Bits \in Nat \ {0}
    /\ H * D \in Nat
    /\ \A s \in Section : Cap[s] \in Nat /\ Stride(s) \in Nat \ {0}
BY LoadAssumption DEF Cap, Section, Stride, InBytes

LEMMA LoadFacts ==
    ASSUME load \in Loads
    PROVE  /\ load.sizes \in [Section -> Nat]
           /\ \A s \in Section : load.image[s] \in [0 .. load.sizes[s] - 1 -> Item(s)]
BY LoadAssumption

LEMMA EndIsPlace == End \in Place /\ End.sec = 5 /\ End.at = 0
BY DEF Place, End

LEMMA PlaceFields ==
    ASSUME NEW p \in Place
    PROVE  /\ p.sec \in 1 .. 5 /\ p.at \in Nat
           /\ p # End => p \in [sec : Section, at : Nat] /\ p.sec \in Section
           /\ p.sec = 5 => p = End
           /\ \A q \in Place : p.sec = q.sec /\ p.at = q.at => p = q
<1>1. Place \subseteq [sec : 1 .. 5, at : Nat]
  BY DEF Place, End, Section
<1>2. p # End => p \in [sec : Section, at : Nat]
  BY DEF Place
<1>3. \A q \in [sec : 1 .. 5, at : Nat] : \A r \in [sec : 1 .. 5, at : Nat] :
         q.sec = r.sec /\ q.at = r.at => q = r
  OBVIOUS
<1> QED
  BY <1>1, <1>2, <1>3 DEF Section

LEMMA ExpectedIsFull ==
    ASSUME load \in Loads, Fits
    PROVE  Expected = load.sizes
BY LoadFacts, Constants DEF Expected, Fits

LEMMA Multiples ==
    ASSUME NEW j \in Nat, NEW k \in Nat, NEW n \in Nat, j * n < k * n
    PROVE  j * n + n <= k * n
<1>1. j < k
  <2> SUFFICES ASSUME k <= j PROVE FALSE
    OBVIOUS
  <2>1. PICK m \in Nat : j = k + m
    <3>1. j - k \in Nat /\ j = k + (j - k)
      OBVIOUS
    <3> QED
      BY <3>1
  <2>2. j * n = k * n + m * n /\ m * n \in Nat /\ k * n \in Nat
    BY <2>1
  <2> QED
    BY <2>2
<1>2. PICK m \in Nat : k = j + 1 + m
  <2>1. k - j - 1 \in Nat /\ k = j + 1 + (k - j - 1)
    BY <1>1
  <2> QED
    BY <2>1
<1>3. k * n = j * n + n + m * n /\ m * n \in Nat /\ j * n \in Nat
  BY <1>2
<1> QED
  BY <1>3

LEMMA FirstBegins ==
    ASSUME NEW limit \in [Section -> Nat]
    PROVE  First(limit) \in Place /\ Begins(First(limit), limit)
<1> DEFINE p == First(limit)
<1>1. 1 \in Section /\ 0 \in Nat
  BY DEF Section
<1>2. /\ p \in Place
      /\ p # End => p.at < limit[p.sec]
      /\ \/ p = [sec |-> 1, at |-> 0] /\ 0 < limit[1]
         \/ /\ p.sec \in 1 + 1 .. 5 /\ p.at = 0 /\ 0 >= limit[1]
            /\ \A r \in 1 + 1 .. p.sec - 1 : limit[r] = 0
  BY <1>1, SettleIsNext DEF First
<1> HIDE DEF p
<1>3. p.at = 0 /\ p.sec \in 1 .. 5
  BY <1>2
<1>4. ASSUME NEW s \in Section, s < p.sec PROVE limit[s] = 0
  <2>1. s \in 1 .. 4 /\ limit[s] \in Nat
    BY DEF Section
  <2>2. p.sec # 1
    BY <1>4, <2>1
  <2>3. s = 1 \/ s \in 1 + 1 .. p.sec - 1
    BY <1>3, <1>4, <2>1
  <2> QED
    BY <1>2, <2>1, <2>2, <2>3
<1>5. 0 = 0 * Stride(p.sec) \/ p = End
  <2>1. p # End => Stride(p.sec) \in Nat
    BY <1>2, PlaceFields, Constants
  <2> QED
    BY <2>1
<1>6. Visits(p, limit)
  BY <1>2, <1>3, <1>5, PlaceFields DEF Visits
<1> QED
  BY <1>2, <1>3, <1>4, <1>6 DEF p, Begins

LEMMA AfterFollows ==
    ASSUME NEW limit \in [Section -> Nat], NEW p \in Place, p # End,
           \E k \in Nat : p.at = k * Stride(p.sec)
    PROVE  After(p, limit) \in Place /\ Follows(After(p, limit), p, limit)
<1> DEFINE q == After(p, limit)
<1>1. /\ p.sec \in Section /\ p.at \in Nat /\ Stride(p.sec) \in Nat \ {0}
      /\ p.at + Stride(p.sec) \in Nat /\ limit[p.sec] \in Nat
  BY PlaceFields, Constants
<1>2. /\ q \in Place
      /\ q # End => q.at < limit[q.sec]
      /\ \/ q = [sec |-> p.sec, at |-> p.at + Stride(p.sec)] /\ p.at + Stride(p.sec) < limit[p.sec]
         \/ /\ q.sec \in p.sec + 1 .. 5 /\ q.at = 0
            /\ p.at + Stride(p.sec) >= limit[p.sec]
            /\ \A r \in p.sec + 1 .. q.sec - 1 : limit[r] = 0
  BY <1>1, SettleIsNext DEF After
<1> HIDE DEF q
<1>3. CASE q = [sec |-> p.sec, at |-> p.at + Stride(p.sec)]
  <2>1. PICK k \in Nat : p.at = k * Stride(p.sec)
    OBVIOUS
  <2>2. k + 1 \in Nat /\ p.at + Stride(p.sec) = (k + 1) * Stride(p.sec)
    BY <1>1, <2>1
  <2>3. q.sec = p.sec /\ q.at = p.at + Stride(p.sec) /\ q.at = (k + 1) * Stride(q.sec)
    BY <1>3, <2>2
  <2>4. Visits(q, limit)
    BY <1>2, <2>2, <2>3, PlaceFields DEF Visits
  <2> QED
    BY <1>2, <2>3, <2>4 DEF q, Follows
<1>4. CASE /\ q.sec \in p.sec + 1 .. 5 /\ q.at = 0
           /\ p.at + Stride(p.sec) >= limit[p.sec]
           /\ \A r \in p.sec + 1 .. q.sec - 1 : limit[r] = 0
  <2>1. q # End => Stride(q.sec) \in Nat /\ q.at = 0 * Stride(q.sec)
    BY <1>2, <1>4, PlaceFields, Constants
  <2>2. Visits(q, limit)
    BY <1>2, <2>1, PlaceFields DEF Visits
  <2>3. p.sec < q.sec
    BY <1>1, <1>4 DEF Section
  <2>4. ASSUME NEW s \in Section, p.sec < s, s < q.sec PROVE limit[s] = 0
    <3>1. s \in p.sec + 1 .. q.sec - 1
      BY <1>1, <1>2, <2>4, PlaceFields DEF Section
    <3> QED
      BY <1>4, <3>1
  <2> QED
    BY <1>2, <1>4, <2>2, <2>3, <2>4 DEF q, Follows
<1> QED
  BY <1>2, <1>3, <1>4

(* A place that follows comes later. *)
LEMMA FollowsIsLess ==
    ASSUME NEW limit, NEW p \in Place, p # End, NEW q \in Place, Follows(q, p, limit)
    PROVE  Less(p, q)
BY PlaceFields, Constants DEF Follows, Less

(* The core's next place is not beyond a place that the loader has come to. *)
LEMMA NextIsNotBeyond ==
    ASSUME NEW limit \in [Section -> Nat], NEW p \in Place, p # End, Visits(p, limit),
           NEW n \in Place, Follows(n, p, limit),
           NEW q \in Place, Visits(q, limit), Less(p, q)
    PROVE  n = q \/ Less(n, q)
<1>1. /\ p.sec \in Section /\ p.at \in Nat /\ Stride(p.sec) \in Nat \ {0}
      /\ n.sec \in 1 .. 5 /\ n.at \in Nat /\ q.sec \in 1 .. 5 /\ q.at \in Nat
      /\ limit[p.sec] \in Nat /\ p.sec \in 1 .. 4
  BY PlaceFields, Constants DEF Section
<1>2. CASE p.sec = q.sec
  <2>1. q # End /\ p.at < q.at
    BY <1>1, <1>2, EndIsPlace DEF Less
  <2>2. PICK j \in Nat : p.at = j * Stride(p.sec)
    BY DEF Visits
  <2>3. PICK k \in Nat : q.at = k * Stride(p.sec)
    BY <1>2, <2>1 DEF Visits
  <2>4. p.at + Stride(p.sec) <= q.at
    BY <1>1, <2>1, <2>2, <2>3, Multiples
  <2>5. q.at < limit[p.sec]
    BY <1>2, <2>1 DEF Visits
  <2>6. n.sec = p.sec /\ n.at = p.at + Stride(p.sec)
    BY <1>1, <2>4, <2>5 DEF Follows
  <2> QED
    BY <1>1, <1>2, <2>4, <2>6, PlaceFields DEF Less
<1>3. CASE p.sec < q.sec
  <2>1. CASE n.sec = p.sec
    BY <1>3, <2>1 DEF Less
  <2>2. CASE n.sec # p.sec
    <3>1. /\ p.sec < n.sec /\ n.at = 0
          /\ \A s \in Section : p.sec < s /\ s < n.sec => limit[s] = 0
      BY <2>2 DEF Follows
    <3>2. n.sec <= q.sec
      <4> SUFFICES ASSUME q.sec < n.sec PROVE FALSE
        BY <1>1
      <4>1. q # End
        BY <1>1, EndIsPlace
      <4>2. q.sec \in Section /\ q.at < limit[q.sec]
        BY <4>1, PlaceFields DEF Visits
      <4> QED
        BY <1>1, <1>3, <3>1, <4>2
    <3> QED
      BY <1>1, <3>1, <3>2, PlaceFields DEF Less
  <2> QED
    BY <2>1, <2>2
<1> QED
  BY <1>1, <1>2, <1>3 DEF Less

LEMMA LessIsTransitive ==
    ASSUME NEW p \in Place, NEW q \in Place, NEW r \in Place, Less(p, q), Less(q, r)
    PROVE  Less(p, r)
BY PlaceFields DEF Less

(* What is announced has its own size, so the loader's places are places of *)
(* the model.                                                               *)
LEMMA AnnouncedIsFull ==
    ASSUME TypeOK, NEW p, Visits(p, Announced)
    PROVE  /\ Visits(p, load.sizes)
           /\ p # End => Announced[p.sec] = load.sizes[p.sec]
<1>1. CASE p = End
  BY <1>1 DEF Visits
<1>2. CASE p # End
  <2>1. /\ p \in [sec : Section, at : Nat] /\ p.at < Announced[p.sec]
        /\ \E k \in Nat : p.at = k * Stride(p.sec)
    BY <1>2 DEF Visits
  <2>2. Announced[p.sec] \in {0, load.sizes[p.sec]} /\ p.at \in Nat
    BY <2>1 DEF TypeOK
  <2>3. Announced[p.sec] = load.sizes[p.sec]
    BY <2>1, <2>2
  <2> QED
    BY <2>1, <2>3 DEF Visits
<1> QED
  BY <1>1, <1>2

LEMMA WordsAreWords ==
    ASSUME load \in Loads, NEW p \in Place, p # End, p.at < load.sizes[p.sec]
    PROVE  ItsWord(p) \in [0 .. Lanes - 1 -> Int]
<1>1. /\ p.sec \in Section /\ p.at \in Nat /\ p.at < load.sizes[p.sec]
      /\ load.sizes[p.sec] \in Nat /\ Lanes \in Nat
      /\ load.image[p.sec] \in [0 .. load.sizes[p.sec] - 1 -> Item(p.sec)]
  BY LoadFacts, Constants, PlaceFields
<1>2. \A b \in Byte : b \in Int
  BY DEF Byte
<1>3. CASE p.sec \in InBytes
  <2>1. ASSUME NEW k \in 0 .. Lanes - 1, p.at + k < load.sizes[p.sec]
        PROVE  load.image[p.sec][p.at + k] \in Int
    <3>1. load.image[p.sec] \in [0 .. load.sizes[p.sec] - 1 -> Byte]
      BY <1>1, <1>3 DEF Item
    <3>2. p.at + k \in 0 .. load.sizes[p.sec] - 1
      BY <1>1, <2>1
    <3>3. load.image[p.sec][p.at + k] \in Byte
      BY <3>1, <3>2
    <3> QED
      BY <1>2, <3>3
  <2> QED
    BY <1>1, <1>3, <2>1 DEF ItsWord
<1>4. CASE p.sec \notin InBytes
  <2>1. load.image[p.sec][p.at] \in Word
    BY <1>1, <1>4 DEF Item
  <2> QED
    BY <1>2, <1>4, <2>1 DEF ItsWord, Word
<1> QED
  BY <1>3, <1>4

LEMMA EndIsLoaded ==
    ASSUME load \in Loads
    PROVE  Partial(End) = Loaded
BY LoadFacts, Constants DEF Partial, Loaded, Before, End, Section

LEMMA BeginsIsEmpty ==
    ASSUME load \in Loads, NEW p \in Place, Begins(p, load.sizes)
    PROVE  Partial(p) = NoWeights
<1>1. ASSUME NEW s \in Section, NEW i \in Nat, i < load.sizes[s]
      PROVE  ~ Before(s, i, p)
  <2>1. load.sizes[s] \in Nat /\ load.sizes[s] > 0 /\ s \in 1 .. 4
    BY <1>1, LoadFacts DEF Section
  <2> QED
    BY <1>1, <2>1, PlaceFields DEF Before, Begins
<1> QED
  BY <1>1, Constants DEF Partial, NoWeights

(* What the word at p adds to the arrays takes them to the next place. *)
LEMMA StoredIsNext ==
    ASSUME load \in Loads, NEW p \in Place, p # End, p.at < load.sizes[p.sec],
           NEW q \in Place, Follows(q, p, load.sizes)
    PROVE  /\ Stored(Partial(p)[p.sec], p, ItsWord(p)) = Partial(q)[p.sec]
           /\ \A s \in Section : s # p.sec => Partial(p)[s] = Partial(q)[s]
<1>1. /\ p.sec \in Section /\ p.at \in Nat /\ p.at < load.sizes[p.sec]
      /\ p.at + Stride(p.sec) \in Nat /\ Stride(p.sec) \in Nat \ {0}
      /\ q.sec \in 1 .. 5 /\ q.at \in Nat
  BY PlaceFields, LoadFacts, Constants
<1>2. ASSUME NEW s \in Section, NEW i \in Nat, i < load.sizes[s]
      PROVE  Before(s, i, q) <=>
                \/ Before(s, i, p)
                \/ s = p.sec /\ p.at <= i /\ i < p.at + Stride(s)
  <2>1. s \in Nat /\ load.sizes[s] \in Nat
    BY LoadFacts DEF Section
  <2>2. CASE q.sec = p.sec /\ q.at = p.at + Stride(p.sec)
    BY <1>1, <2>1, <2>2 DEF Before, Section
  <2>3. CASE /\ p.sec < q.sec /\ q.at = 0
             /\ p.at + Stride(p.sec) >= load.sizes[p.sec]
             /\ \A r \in Section : p.sec < r /\ r < q.sec => load.sizes[r] = 0
    <3>1. CASE s = p.sec
      BY <1>1, <1>2, <2>1, <2>3, <3>1 DEF Before, Section
    <3>2. CASE s # p.sec
      <4>1. ~ (p.sec < s /\ s < q.sec)
        BY <1>2, <2>1, <2>3
      <4> QED
        BY <1>1, <2>1, <2>3, <3>2, <4>1 DEF Before, Section
    <3> QED
      BY <3>1, <3>2
  <2> QED
    BY <2>2, <2>3 DEF Follows
<1> DEFINE A == Partial(p)
<1>3. ASSUME NEW i \in 0 .. Cap[p.sec] - 1
      PROVE  Stored(A[p.sec], p, ItsWord(p))[i] = Partial(q)[p.sec][i]
  <2>1. i \in Nat /\ Cap[p.sec] \in Nat /\ Lanes \in Nat /\ load.sizes[p.sec] \in Nat
    BY <1>1, Constants, LoadFacts
  <2>2. A[p.sec][i] = IF i < load.sizes[p.sec] /\ Before(p.sec, i, p)
                      THEN load.image[p.sec][i] ELSE Zero(p.sec)
    BY <1>1 DEF Partial
  <2>3. Partial(q)[p.sec][i] = IF i < load.sizes[p.sec] /\ Before(p.sec, i, q)
                               THEN load.image[p.sec][i] ELSE Zero(p.sec)
    BY <1>1 DEF Partial
  <2>4. CASE p.sec \in InBytes
    <3>1. Stored(A[p.sec], p, ItsWord(p))[i] =
             IF p.at <= i /\ i < p.at + Lanes /\ i < load.sizes[p.sec]
             THEN ItsWord(p)[i - p.at] ELSE A[p.sec][i]
      BY <2>4 DEF Stored
    <3>2. CASE p.at <= i /\ i < p.at + Lanes /\ i < load.sizes[p.sec]
      <4>1. i - p.at \in 0 .. Lanes - 1 /\ p.at + (i - p.at) = i
        BY <1>1, <2>1, <3>2
      <4>2. ItsWord(p)[i - p.at] = load.image[p.sec][i]
        BY <2>4, <3>2, <4>1 DEF ItsWord
      <4>3. Before(p.sec, i, q)
        BY <1>1, <1>2, <2>1, <2>4, <3>2 DEF Stride
      <4> QED
        BY <2>3, <3>1, <3>2, <4>2, <4>3
    <3>3. CASE ~ (p.at <= i /\ i < p.at + Lanes /\ i < load.sizes[p.sec])
      <4>1. i < load.sizes[p.sec] => (Before(p.sec, i, q) <=> Before(p.sec, i, p))
        BY <1>1, <1>2, <2>1, <2>4, <3>3 DEF Stride
      <4> QED
        BY <2>2, <2>3, <3>1, <3>3, <4>1
    <3> QED
      BY <3>2, <3>3
  <2>5. CASE p.sec \notin InBytes
    <3>1. Stored(A[p.sec], p, ItsWord(p))[i] = IF i = p.at THEN load.image[p.sec][p.at] ELSE A[p.sec][i]
      BY <2>5 DEF Stored, ItsWord
    <3>2. i < load.sizes[p.sec] => (Before(p.sec, i, q) <=> Before(p.sec, i, p) \/ i = p.at)
      BY <1>1, <1>2, <2>1, <2>5 DEF Stride
    <3> QED
      BY <1>1, <2>2, <2>3, <3>1, <3>2
  <2> QED
    BY <2>4, <2>5
<1>4. Stored(A[p.sec], p, ItsWord(p)) = Partial(q)[p.sec]
  <2>1. Partial(q)[p.sec] = [i \in 0 .. Cap[p.sec] - 1 |-> Partial(q)[p.sec][i]]
    BY <1>1 DEF Partial
  <2>2. Stored(A[p.sec], p, ItsWord(p)) = [i \in 0 .. Cap[p.sec] - 1 |-> Stored(A[p.sec], p, ItsWord(p))[i]]
    BY DEF Stored
  <2> QED
    BY <1>3, <2>1, <2>2
<1>5. ASSUME NEW s \in Section, s # p.sec
      PROVE  A[s] = Partial(q)[s]
  BY <1>2, <1>5, Constants DEF Partial
<1> QED
  BY <1>4, <1>5

-----------------------------------------------------------------------------
LEMMA InitIInv == Init => IInv
<1> SUFFICES ASSUME Init PROVE IInv
  OBVIOUS
<1>1. End \in Place /\ Visits(End, Announced) /\ Visits(End, load.sizes)
  BY EndIsPlace DEF Visits
<1>2. \A s \in Section : Announced[s] = 0
  BY DEF Init, Announced
<1>3. TypeOK
  <2>1. cache = [s \in Section |-> cache[s]]
    BY DEF Init, NoWeights
  <2> QED
    BY <1>1, <1>2, <2>1 DEF Init, TypeOK
<1>4. Phases
  BY <1>1, <1>2 DEF Init, Phases, Unused, NotStarted
<1> QED
  BY <1>3, <1>4 DEF IInv

(* No step changes the model that is loaded, so its places stay what they   *)
(* are.                                                                     *)
LEMMA LoadIsFixed ==
    ASSUME load' = load
    PROVE  /\ Fits' = Fits /\ Expected' = Expected /\ Loaded' = Loaded /\ NoWeights' = NoWeights
           /\ First(load.sizes)' = First(load.sizes)
           /\ \A p : /\ ItsWord(p)' = ItsWord(p)
                     /\ Partial(p)' = Partial(p)
                     /\ Visits(p, load.sizes)' = Visits(p, load.sizes)
                     /\ Begins(p, load.sizes)' = Begins(p, load.sizes)
<1>1. Fits' = Fits
  BY DEF Fits
<1>2. Expected' = Expected
  BY DEF Expected
<1>3. Loaded' = Loaded /\ NoWeights' = NoWeights
  BY DEF Loaded, NoWeights
<1>4. First(load.sizes)' = First(load.sizes)
  BY DEF First, Settle
<1>5. \A p : ItsWord(p)' = ItsWord(p)
  BY DEF ItsWord
<1>6. \A p : Partial(p)' = Partial(p)
  BY DEF Partial
<1>7. \A p : /\ Visits(p, load.sizes)' = Visits(p, load.sizes)
             /\ Begins(p, load.sizes)' = Begins(p, load.sizes)
  BY DEF Visits, Begins
<1> QED
  BY <1>1, <1>2, <1>3, <1>4, <1>5, <1>6, <1>7

(* The cores stay in step over a step that leaves them, the stream and the  *)
(* arrays alone.                                                            *)
LEMMA InStepIsKept ==
    ASSUME UNCHANGED <<load, loader, chan, cache>>, NEW p, InStep(p), pc' = "loader" => NotYet(p)
    PROVE  InStep(p)'
<1>1. \A q : /\ ItsWord(q)' = ItsWord(q) /\ Partial(q)' = Partial(q)
             /\ Visits(q, load.sizes)' = Visits(q, load.sizes)
             /\ Begins(q, load.sizes)' = Begins(q, load.sizes)
  BY LoadIsFixed
<1>2. Announced' = Announced /\ NoWeights' = NoWeights
  BY LoadIsFixed DEF Announced
<1>3. NotYet(p) => NotYet(p)'
  BY <1>1, <1>2 DEF NotYet, NotStarted
<1>4. Aligned(p) => Aligned(p)'
  <2>1. Skipped(p)' = Skipped(p)
    BY <1>2 DEF Skipped
  <2>2. Follows(loader.pos, p, Announced)' = Follows(loader.pos, p, Announced)
    BY <1>2 DEF Follows, Visits
  <2> QED
    BY <1>1, <1>2, <2>1, <2>2 DEF Aligned
<1>5. Ahead(p) => Ahead(p)'
  BY <1>1 DEF Ahead, Less
<1> QED
  BY <1>3, <1>4, <1>5 DEF InStep

(* Steps of the driver that leave the two cores, the stream and the arrays  *)
(* alone.                                                                   *)
LEMMA DriverIInv ==
    ASSUME IInv, SetUp \/ SetUpFails \/ SkipLoad \/ StartFails \/ Acknowledge \/ GiveUp
                 \/ ReloadOff \/ AutoRestart \/ LoadFails \/ (\E x \in Inputs : Offer(x))
                 \/ (Reassert /\ UNCHANGED loader)
    PROVE  IInv'
<1> USE DEF IInv
<1> DEFINE first == First(load.sizes)
<1>1. UNCHANGED <<load, loader, chan, mlp, cache>>
  BY DEF SetUp, SetUpFails, SkipLoad, StartFails, Acknowledge, GiveUp, ReloadOff, AutoRestart,
         LoadFails, Offer, Reassert
<1>2. TypeOK'
  <2>1. Announced' = Announced
    BY <1>1 DEF Announced
  <2>2. /\ pc' \in {"off", "loader", "again", "wait", "off2", "auto", "bench"}
        /\ acked' \in BOOLEAN
        /\ ctrl' \in [reload : BOOLEAN, start : BOOLEAN, auto : BOOLEAN, isr : BOOLEAN]
    BY DEF TypeOK, SetUp, SetUpFails, SkipLoad, StartFails, Acknowledge, GiveUp, ReloadOff,
           AutoRestart, LoadFails, Offer, Reassert
  <2> QED
    BY <1>1, <2>1, <2>2 DEF TypeOK
<1>3. ASSUME Fits' PROVE Phases'
  <2>1. Fits /\ Phases
    BY <1>1, <1>3, LoadIsFixed
  <2>2. Visits(loader.pos, Announced)' /\ Visits(mlp.pos, load.sizes)'
    BY <1>1, <2>1 DEF Visits, Phases, Announced
  <2>3. /\ (NotStarted' <=> NotStarted) /\ NoWeights' = NoWeights /\ First(load.sizes)' = first
        /\ (InPlace' <=> InPlace) /\ (NotYet(End)' <=> NotYet(End))
        /\ \A s \in Section : (Announced[s] = load.sizes[s])' <=> Announced[s] = load.sizes[s]
    BY <1>1, LoadIsFixed DEF NotStarted, NotYet, Announced, InPlace
  <2>4. pc' # "loader" => /\ InStep(first) => InStep(First(load.sizes))'
                          /\ InStep(mlp.pos) => InStep(mlp.pos)'
    BY <1>1, <2>3, InStepIsKept
  <2> HIDE DEF first
  <2>6. CASE SetUp
    <3>1. /\ pc = "off" /\ pc' = "loader" /\ UNCHANGED acked
          /\ ctrl' = [ctrl EXCEPT !.reload = TRUE, !.start = TRUE]
      BY <2>6 DEF SetUp
    <3>2. Unused
      BY <2>1, <3>1 DEF Phases, Pending, Loading, Finished
    <3>3. NotYet(first)
      BY <3>1, <3>2, FirstBegins, LoadFacts DEF Unused, NotYet, first, TypeOK
    <3>4. InStep(First(load.sizes))'
      BY <1>1, <2>3, <3>1, <3>3, InStepIsKept DEF InStep
    <3>5. Pending'
      BY <1>1, <2>3, <3>1, <3>2, <3>4 DEF TypeOK, Unused, Pending
    <3> QED
      BY <2>1, <2>2, <3>1, <3>5 DEF TypeOK, Phases
  <2>7. CASE SetUpFails
    <3>1. /\ pc = "off" /\ pc' = "loader" /\ UNCHANGED acked
          /\ ctrl'.start = ctrl.start /\ ctrl'.auto = ctrl.auto /\ ctrl'.isr = ctrl.isr
      BY <2>7 DEF SetUpFails, TypeOK
    <3>2. Unused
      BY <2>1, <3>1 DEF Phases, Pending, Loading, Finished
    <3>3. Unused'
      BY <1>1, <2>3, <3>1, <3>2 DEF Unused
    <3> QED
      BY <2>1, <2>2, <3>1, <3>3 DEF Phases
  <2>8. CASE SkipLoad
    <3>1. pc = "off" /\ pc' = "auto" /\ UNCHANGED <<acked, ctrl>>
      BY <2>8 DEF SkipLoad
    <3>2. Unused
      BY <2>1, <3>1 DEF Phases, Pending, Loading, Finished
    <3>3. Unused'
      BY <1>1, <2>3, <3>1, <3>2 DEF Unused
    <3> QED
      BY <2>1, <2>2, <3>1, <3>2, <3>3 DEF Phases, Unused
  <2>9. CASE StartFails \/ (Reassert /\ UNCHANGED loader)
    <3>1. /\ pc \in {"loader", "again"} /\ pc' \in {"again", "wait"} /\ UNCHANGED <<acked, ctrl>>
      BY <2>9 DEF StartFails, Reassert
    <3>2. Unused => Unused'
      BY <1>1, <2>3, <3>1 DEF Unused
    <3>3. Pending => Pending'
      BY <1>1, <2>3, <2>4, <3>1 DEF Pending, first
    <3>4. Loading => Loading'
      BY <1>1, <2>4, <3>1 DEF Loading
    <3>5. Finished => Finished'
      BY <1>1, <2>3, <3>1 DEF Finished
    <3> QED
      BY <2>1, <2>2, <3>1, <3>2, <3>3, <3>4, <3>5 DEF Phases
  <2>10. CASE Acknowledge
    <3>1. pc = "wait" /\ ctrl.isr /\ pc' = "off2" /\ ctrl' = [ctrl EXCEPT !.isr = FALSE]
      BY <2>10 DEF Acknowledge
    <3>2. Finished'
      BY <1>1, <2>1, <2>3, <3>1 DEF TypeOK, Phases, Unused, Pending, Loading, Finished
    <3> QED
      BY <2>1, <2>2, <3>1, <3>2 DEF TypeOK, Phases
  <2>11. CASE GiveUp
    <3>1. /\ pc = "wait" /\ (ctrl.start => mlp.at = "reload") /\ pc' = "off2"
          /\ UNCHANGED <<acked, ctrl>>
      BY <2>11 DEF GiveUp
    <3>2. Unused => Unused'
      BY <1>1, <2>3, <3>1 DEF Unused
    <3>3. Loading => Loading'
      BY <1>1, <2>4, <3>1 DEF Loading
    <3>4. Finished => Finished'
      BY <1>1, <2>3, <3>1 DEF Finished
    <3> QED
      BY <2>1, <2>2, <3>1, <3>2, <3>3, <3>4 DEF Phases, Pending
  <2>12. CASE ReloadOff
    <3>1. /\ pc = "off2" /\ pc' = "auto" /\ UNCHANGED acked
          /\ ctrl' = [ctrl EXCEPT !.reload = FALSE]
      BY <2>12 DEF ReloadOff
    <3>2. Unused => Unused'
      BY <1>1, <2>3, <3>1 DEF TypeOK, Unused
    <3>3. Loading => Loading'
      BY <1>1, <2>4, <3>1 DEF TypeOK, Loading
    <3>4. Finished => Finished'
      BY <1>1, <2>3, <3>1 DEF TypeOK, Finished
    <3> QED
      BY <2>1, <2>2, <3>1, <3>2, <3>3, <3>4 DEF TypeOK, Phases, Pending
  <2>13. CASE AutoRestart
    <3>1. /\ pc = "auto" /\ pc' = "bench" /\ UNCHANGED acked
          /\ ctrl' = [ctrl EXCEPT !.start = TRUE, !.auto = TRUE] /\ ~ ctrl.reload
      BY <2>1, <2>13 DEF AutoRestart, Phases
    <3>2. Unused => Unused'
      BY <1>1, <2>3, <3>1 DEF TypeOK, Unused
    <3>3. Loading => Loading'
      BY <1>1, <2>4, <3>1 DEF TypeOK, Loading
    <3>4. Finished => Finished'
      BY <1>1, <2>3, <3>1 DEF TypeOK, Finished
    <3> QED
      BY <2>1, <2>2, <3>1, <3>2, <3>3, <3>4 DEF TypeOK, Phases, Pending
  <2>14. CASE LoadFails \/ (\E x \in Inputs : Offer(x))
    <3>1. /\ pc \notin {"off", "loader"} /\ pc' = "bench" /\ UNCHANGED <<acked, ctrl>>
      BY <2>14 DEF LoadFails, Offer
    <3>2. Unused => Unused'
      BY <1>1, <2>3, <3>1 DEF Unused
    <3>3. Pending => Pending'
      BY <1>1, <2>3, <2>4, <3>1 DEF Pending, first
    <3>4. Loading => Loading'
      BY <1>1, <2>4, <3>1 DEF Loading
    <3>5. Finished => Finished'
      BY <1>1, <2>3, <3>1 DEF Finished
    <3> QED
      BY <2>1, <2>2, <3>1, <3>2, <3>3, <3>4, <3>5 DEF Phases
  <2> QED
    BY <2>6, <2>7, <2>8, <2>9, <2>10, <2>11, <2>12, <2>13, <2>14
<1> QED
  BY <1>2, <1>3

(* The loader starts at the core's first place, or beyond it. *)
LEMMA StartsInStep ==
    ASSUME load \in Loads, NEW p \in Place, Begins(p, load.sizes),
           NEW sizes \in [Section -> Nat], \A s \in Section : sizes[s] \in {0, load.sizes[s]},
           NEW r \in Place, Begins(r, sizes)
    PROVE  p = r \/ Less(p, r)
<1>1. p.at = 0 /\ r.at = 0 /\ p.sec \in 1 .. 5 /\ r.sec \in 1 .. 5
  BY PlaceFields DEF Begins
<1>2. p.sec <= r.sec
  <2> SUFFICES ASSUME r.sec < p.sec PROVE FALSE
    BY <1>1
  <2>1. r # End
    BY <1>1, EndIsPlace
  <2>2. r.sec \in Section /\ 0 < sizes[r.sec]
    BY <1>1, <2>1, PlaceFields DEF Begins, Visits
  <2>3. load.sizes[r.sec] = 0
    BY <2>2 DEF Begins
  <2> QED
    BY <2>2, <2>3
<1> QED
  BY <1>1, <1>2, PlaceFields DEF Less

LEMMA StartLoaderIInv ==
    ASSUME IInv, StartLoader
    PROVE  IInv'
<1> USE DEF IInv
<1>1. UNCHANGED <<load, acked, chan, mlp, ctrl, cache>> /\ pc = "loader" /\ pc' = "again"
  BY DEF StartLoader
<1>2. PICK told \in Told, aimed \in Aimed :
         LET sizes == [s \in Section |-> IF s \in told THEN load.sizes[s] ELSE 0]
         IN  loader' = [on |-> TRUE, pos |-> First(sizes), sizes |-> sizes, aimed |-> aimed]
  BY DEF StartLoader
<1> DEFINE sizes == [s \in Section |-> IF s \in told THEN load.sizes[s] ELSE 0]
<1>3. /\ sizes \in [Section -> Nat] /\ \A s \in Section : sizes[s] \in {0, load.sizes[s]}
      /\ aimed \subseteq Section
  BY LoadFacts, LoadAssumption DEF TypeOK
<1>4. loader' = [on |-> TRUE, pos |-> First(sizes), sizes |-> sizes, aimed |-> aimed]
  BY <1>2
<1> HIDE DEF sizes
<1>5. First(sizes) \in Place /\ Begins(First(sizes), sizes)
  BY <1>3, FirstBegins
<1>6. Announced' = sizes /\ loader'.pos = First(sizes)
  BY <1>4 DEF Announced
<1>7. TypeOK'
  BY <1>1, <1>3, <1>4, <1>5, <1>6 DEF TypeOK
<1>8. ASSUME Fits' PROVE Phases'
  <2>1. Fits /\ Phases
    BY <1>1, <1>8, LoadIsFixed
  <2>2. Visits(loader.pos, Announced)' /\ Visits(mlp.pos, load.sizes)'
    <3>1. Visits(First(sizes), sizes)
      BY <1>5 DEF Begins
    <3> QED
      BY <1>1, <1>6, <2>1, <3>1 DEF Visits, Phases
  <2>3. ASSUME NEW p \in Place, NotYet(p)
        PROVE  /\ p = First(sizes) \/ Less(p, First(sizes))
               /\ \A s \in Section : cache[s] = Partial(p)[s]
               /\ \A s \in Section : s < p.sec => sizes[s] = load.sizes[s]
    <3>1. Begins(p, load.sizes) /\ cache = NoWeights
      BY <2>3 DEF NotYet
    <3>2. p = First(sizes) \/ Less(p, First(sizes))
      BY <1>3, <1>5, <3>1, StartsInStep DEF TypeOK
    <3>3. cache = Partial(p)
      BY <3>1, BeginsIsEmpty DEF TypeOK
    <3>4. \A s \in Section : s < p.sec => sizes[s] = load.sizes[s]
      BY <1>3, <3>1 DEF Begins
    <3> QED
      BY <3>2, <3>3, <3>4
  <2>4. ASSUME NEW p \in Place, NotYet(p)
        PROVE  InStep(p)'
    <3>1. chan' = None
      BY <1>1, <2>4 DEF NotYet, NotStarted
    <3>2. CASE p = First(sizes)
      <4>1. \A s \in Section : cache'[s] = Partial(p)'[s]
        BY <1>1, <2>3, <2>4, LoadIsFixed
      <4>2. ~ Skipped(p)'
        BY <1>1, <1>6, <2>3, <2>4 DEF Skipped
      <4>3. Aligned(p)'
        BY <1>6, <3>1, <3>2, <4>1, <4>2 DEF Aligned
      <4> QED
        BY <1>1, <4>3 DEF InStep
    <3>3. CASE Less(p, First(sizes))
      <4>1. Ahead(p)'
        BY <1>6, <3>1, <3>3 DEF Ahead, Less
      <4> QED
        BY <1>1, <4>1 DEF InStep
    <3> QED
      BY <2>3, <2>4, <3>2, <3>3
  <2>5. CASE Unused
    <3>1. Unused'
      BY <1>1, <2>5, LoadIsFixed DEF Unused
    <3> QED
      BY <1>1, <2>1, <2>2, <3>1 DEF Phases
  <2>6. CASE Pending
    <3>1. NotYet(First(load.sizes)) /\ First(load.sizes) \in Place
      BY <1>1, <2>6, FirstBegins, LoadFacts DEF Pending, InStep, TypeOK
    <3>2. InStep(First(load.sizes))'
      BY <1>1, <2>4, <3>1, LoadIsFixed
    <3>3. Pending'
      BY <1>1, <2>6, <3>2, LoadIsFixed DEF Pending
    <3> QED
      BY <1>1, <2>1, <2>2, <3>3 DEF Phases
  <2>7. CASE Loading
    <3>1. NotYet(mlp.pos) /\ mlp.pos \in Place
      BY <1>1, <2>7 DEF Loading, InStep, TypeOK
    <3>2. InStep(mlp.pos)'
      BY <1>1, <2>4, <3>1
    <3>3. Loading'
      BY <1>1, <2>7, <3>2 DEF Loading
    <3> QED
      BY <1>1, <2>1, <2>2, <3>3 DEF Phases
  <2>8. CASE Finished
    <3>1. NotYet(End)
      BY <1>1, <2>8 DEF Finished
    <3>2. \A s \in Section : s < 5 => load.sizes[s] = 0
      BY <3>1, EndIsPlace DEF NotYet, Begins
    <3>3. \A s \in Section : load.sizes[s] = 0 /\ sizes[s] = 0
      BY <1>3, <3>2 DEF Section
    <3>4. First(sizes) = End
      <4> SUFFICES ASSUME First(sizes) # End PROVE FALSE
        OBVIOUS
      <4>1. First(sizes).sec \in Section /\ First(sizes).at = 0 /\ 0 < sizes[First(sizes).sec]
        BY <1>5, PlaceFields DEF Begins, Visits
      <4> QED
        BY <3>3, <4>1
    <3>5. \A s \in Section : cache'[s] = Loaded'[s]
      <4>1. Partial(End) = Loaded /\ \A s \in Section : cache[s] = Partial(End)[s]
        BY <2>3, <3>1, EndIsPlace, EndIsLoaded DEF TypeOK
      <4> QED
        BY <1>1, <4>1, LoadIsFixed
    <3>6. InPlace'
      BY <1>3, <1>4, <3>5 DEF InPlace
    <3>7. Finished'
      BY <1>1, <1>6, <2>8, <3>3, <3>4, <3>6, LoadIsFixed DEF Finished, End
    <3> QED
      BY <1>1, <2>1, <2>2, <3>7 DEF Phases
  <2> QED
    BY <2>1, <2>5, <2>6, <2>7, <2>8 DEF Phases
<1> QED
  BY <1>7, <1>8

(* Pointers and sizes that are seen in time are those of sections that both *)
(* are yet to come to.                                                      *)
LEMMA ReassertIInv ==
    ASSUME IInv, Reassert
    PROVE  IInv'
<1> USE DEF IInv
<1>1. CASE UNCHANGED loader
  BY <1>1, DriverIInv
<1>2. CASE loader' # loader
  <2>1. UNCHANGED <<load, acked, chan, mlp, ctrl, cache>> /\ pc = "again" /\ pc' = "wait"
    BY DEF Reassert
  <2>2. /\ loader.on /\ loader'.on /\ loader'.pos = loader.pos
        /\ loader' \in [on : BOOLEAN, pos : Place, sizes : [Section -> Nat], aimed : SUBSET Section]
        /\ \A s \in loader'.aimed : s \in loader.aimed \/ s \in Unread
        /\ \A s \in Section : \/ Announced'[s] = Announced[s]
                              \/ Announced'[s] = load.sizes[s] /\ s \in Unread
    <3>1. Unread \subseteq Section /\ 3 \in Section /\ load.sizes[3] \in Nat
      BY LoadFacts DEF Unread, Section, TypeOK
    <3>2. CASE \E found \in Aimed : loader' = [loader EXCEPT !.aimed = @ \cup (found \cap Unread)]
      <4>1. PICK found \in Aimed : loader' = [loader EXCEPT !.aimed = @ \cup (found \cap Unread)]
        BY <3>2
      <4>2. /\ loader'.on = loader.on /\ loader'.pos = loader.pos
            /\ loader'.aimed = loader.aimed \cup (found \cap Unread)
            /\ loader'.sizes = loader.sizes
            /\ loader' \in [on : BOOLEAN, pos : Place, sizes : [Section -> Nat], aimed : SUBSET Section]
        BY <3>1, <4>1 DEF TypeOK
      <4>3. loader.on
        BY <1>2 DEF Reassert
      <4> QED
        BY <4>2, <4>3 DEF Announced
    <3>3. CASE /\ 3 \in Unread
               /\ \E found \in Aimed :
                     loader' = [loader EXCEPT !.aimed = @ \cup (found \cap Unread),
                                              !.sizes[3] = load.sizes[3]]
      <4>1. PICK found \in Aimed :
               loader' = [loader EXCEPT !.aimed = @ \cup (found \cap Unread),
                                        !.sizes[3] = load.sizes[3]]
        BY <3>3
      <4>2. /\ loader'.on = loader.on /\ loader'.pos = loader.pos
            /\ loader'.aimed = loader.aimed \cup (found \cap Unread)
            /\ loader'.sizes = [loader.sizes EXCEPT ![3] = load.sizes[3]]
            /\ loader' \in [on : BOOLEAN, pos : Place, sizes : [Section -> Nat], aimed : SUBSET Section]
        BY <3>1, <4>1 DEF TypeOK
      <4>3. loader.on
        BY <1>2 DEF Reassert
      <4> QED
        BY <3>1, <3>3, <4>2, <4>3 DEF TypeOK, Announced
    <3> QED
      BY <1>2, <3>2, <3>3 DEF Reassert
  <2>3. \A s \in Section : Announced'[s] \in {0, load.sizes[s]}
    BY <2>2 DEF TypeOK
  <2>4. TypeOK'
    BY <2>1, <2>2, <2>3 DEF TypeOK
  <2>5. ASSUME Fits' PROVE Phases'
    <3>1. Fits /\ Phases
      BY <2>1, <2>5, LoadIsFixed
    <3>2. \A s \in Unread : loader.pos.sec < s \/ (loader.pos.sec = s /\ loader.pos.at = 0)
      BY DEF Unread
    <3>3. Visits(loader.pos, Announced)' /\ Visits(mlp.pos, load.sizes)'
      <4>1. CASE loader.pos = End
        BY <2>1, <2>2, <3>1, <4>1 DEF Visits, Phases
      <4>2. CASE loader.pos # End
        <5>1. /\ loader.pos.sec \in Section /\ loader.pos.at < Announced[loader.pos.sec]
              /\ Announced[loader.pos.sec] = load.sizes[loader.pos.sec]
              /\ loader.pos \in [sec : Section, at : Nat]
              /\ \E k \in Nat : loader.pos.at = k * Stride(loader.pos.sec)
          BY <3>1, <4>2, AnnouncedIsFull DEF Visits, Phases
        <5>2. loader.pos.at < Announced'[loader.pos.sec]
          BY <2>2, <5>1
        <5> QED
          BY <2>1, <2>2, <3>1, <5>1, <5>2 DEF Visits, Phases
      <4> QED
        BY <4>1, <4>2
    <3>4. ASSUME NEW p \in Place, InStep(p)
          PROVE  InStep(p)'
      <4>1. CASE Ahead(p)
        <5>1. Ahead(p)'
          BY <2>1, <2>2, <4>1, LoadIsFixed DEF Ahead, Less
        <5> QED
          BY <2>1, <5>1 DEF InStep
      <4>2. CASE Aligned(p)
        <5>1. ~ Skipped(p)'
          BY <2>1, <2>2, <4>2 DEF Aligned, Skipped
        <5>2. \A s \in Unread : s \in Section
          BY DEF Unread
        <5>3. CASE chan = None /\ loader.pos = p
          <6>1. Aligned(p)'
            BY <2>1, <2>2, <3>2, <4>2, <5>1, <5>2, <5>3, LoadIsFixed DEF Aligned
          <6> QED
            BY <2>1, <6>1 DEF InStep
        <5>4. CASE /\ chan # None /\ p # End
                   /\ p.sec \in loader.aimed => chan = ItsWord(p)
                   /\ Announced[p.sec] = load.sizes[p.sec]
                   /\ Follows(loader.pos, p, Announced)
          <6>1. /\ p.sec \in Section /\ p.at \in Nat /\ Stride(p.sec) \in Nat \ {0}
                /\ loader.pos \in Place /\ loader.pos.sec \in 1 .. 5 /\ loader.pos.at \in Nat
            BY <5>4, PlaceFields, Constants DEF TypeOK
          <6>2. \A s \in Unread : p.sec < s
            BY <3>2, <5>2, <5>4, <6>1 DEF Follows, Section
          <6>3. p.sec \notin Unread
            BY <6>1, <6>2 DEF Section
          <6>4. Announced'[p.sec] = load.sizes[p.sec] /\ Announced'[p.sec] = Announced[p.sec]
            BY <2>2, <5>4, <6>1
          <6>5. \A s \in Section : s < loader.pos.sec => Announced'[s] = Announced[s]
            BY <2>2, <3>2, <6>1 DEF Section
          <6>6. Follows(loader.pos, p, Announced)'
            BY <2>2, <3>3, <5>4, <6>4, <6>5 DEF Follows
          <6>7. \A s \in Section : s \in loader'.aimed \/ p.sec < s \/ (p.sec = s /\ p.at = 0)
                                     => cache[s] = Partial(p)[s]
            BY <2>2, <4>2, <6>2 DEF Aligned
          <6>8. p.sec \in loader'.aimed => chan = ItsWord(p)
            BY <2>2, <5>4, <6>3
          <6>9. Aligned(p)'
            BY <2>1, <5>1, <5>4, <6>4, <6>6, <6>7, <6>8, LoadIsFixed DEF Aligned
          <6> QED
            BY <2>1, <6>9 DEF InStep
        <5> QED
          BY <4>2, <5>3, <5>4 DEF Aligned
      <4> QED
        BY <2>2, <3>4, <4>1, <4>2 DEF InStep, NotYet, NotStarted
    <3>5. CASE Unused
      <4>1. Unused'
        BY <2>1, <3>5, LoadIsFixed DEF Unused
      <4> QED
        BY <2>1, <3>1, <3>3, <4>1 DEF Phases
    <3>6. CASE Pending
      <4>1. InStep(First(load.sizes))'
        <5>1. First(load.sizes) \in Place /\ InStep(First(load.sizes))
          BY <3>6, FirstBegins, LoadFacts DEF Pending, TypeOK
        <5> QED
          BY <2>1, <3>4, <5>1, LoadIsFixed
      <4>2. Pending'
        BY <2>1, <3>6, <4>1, LoadIsFixed DEF Pending
      <4> QED
        BY <2>1, <3>1, <3>3, <4>2 DEF Phases
    <3>7. CASE Loading
      <4>1. InStep(mlp.pos)'
        BY <2>1, <3>4, <3>7 DEF Loading, TypeOK
      <4>2. Loading'
        BY <2>1, <3>7, <4>1 DEF Loading
      <4> QED
        BY <2>1, <3>1, <3>3, <4>2 DEF Phases
    <3>8. CASE Finished
      <4>1. \A s \in Section : s \notin Unread
        BY <3>2, <3>8, EndIsPlace DEF Finished, Section
      <4>2. \A s \in Section : Announced'[s] = load.sizes[s]
        BY <2>2, <3>8 DEF Finished
      <4>3. InPlace'
        BY <2>1, <2>2, <3>8, <4>1, LoadIsFixed DEF Finished, InPlace, Unread
      <4>4. Finished'
        BY <2>1, <2>2, <3>8, <4>2, <4>3 DEF Finished
      <4> QED
        BY <2>1, <3>1, <3>3, <4>4 DEF Phases
    <3> QED
      BY <3>1, <3>5, <3>6, <3>7, <3>8 DEF Phases
  <2> QED
    BY <2>4, <2>5
<1> QED
  BY <1>1, <1>2

LEMMA PutIInv ==
    ASSUME IInv, Put
    PROVE  IInv'
<1> USE DEF IInv
<1>1. UNCHANGED <<load, pc, acked, mlp, ctrl, cache>> /\ loader.on /\ chan = None
  BY DEF Put
<1>2. CASE loader.pos = End
  <2>1. UNCHANGED chan /\ loader' = [loader EXCEPT !.on = FALSE]
    BY <1>2 DEF Put
  <2>2. loader'.pos = loader.pos /\ loader'.aimed = loader.aimed /\ Announced' = Announced
    BY <2>1 DEF TypeOK, Announced
  <2>3. TypeOK'
    BY <1>1, <2>1, <2>2 DEF TypeOK
  <2>4. ASSUME Fits' PROVE Phases'
    <3>1. Fits /\ Phases
      BY <1>1, <2>4, LoadIsFixed
    <3>2. Visits(loader.pos, Announced)' /\ Visits(mlp.pos, load.sizes)'
      BY <1>1, <2>2, <3>1 DEF Visits, Phases
    <3>3. ASSUME NEW p \in Place, InStep(p)
          PROVE  InStep(p)'
      <4>1. ~ NotYet(p) /\ pc # "loader"
        BY <1>1, <3>3 DEF InStep, NotYet, NotStarted
      <4>2. Ahead(p) => Ahead(p)'
        BY <1>1, <2>1, <2>2 DEF Ahead, Less
      <4>3. Aligned(p) => Aligned(p)'
        BY <1>1, <2>1, <2>2, LoadIsFixed DEF Aligned, Skipped
      <4> QED
        BY <1>1, <3>3, <4>1, <4>2, <4>3 DEF InStep
    <3>4. CASE Unused
      <4>1. Unused'
        BY <1>1, <3>4, LoadIsFixed DEF Unused, NotStarted
      <4> QED
        BY <1>1, <3>1, <3>2, <4>1 DEF Phases
    <3>5. CASE Pending
      <4>1. First(load.sizes) \in Place /\ InStep(First(load.sizes))
        BY <3>5, FirstBegins, LoadFacts DEF Pending, TypeOK
      <4>2. InStep(First(load.sizes))'
        BY <1>1, <3>3, <4>1, LoadIsFixed
      <4>3. Pending'
        BY <1>1, <3>5, <4>2, LoadIsFixed DEF Pending
      <4> QED
        BY <1>1, <3>1, <3>2, <4>3 DEF Phases
    <3>6. CASE Loading
      <4>1. InStep(mlp.pos)'
        BY <1>1, <3>3, <3>6 DEF Loading, TypeOK
      <4>2. Loading'
        BY <1>1, <3>6, <4>1 DEF Loading
      <4> QED
        BY <1>1, <3>1, <3>2, <4>2 DEF Phases
    <3>7. CASE Finished
      <4>1. pc # "loader"
        BY <1>1, <3>7 DEF Finished, NotYet, NotStarted
      <4>2. InPlace'
        BY <1>1, <2>2, <3>7, LoadIsFixed DEF Finished, InPlace
      <4>3. Finished'
        BY <1>1, <2>1, <2>2, <3>7, <4>1, <4>2, EndIsPlace DEF Finished
      <4> QED
        BY <1>1, <3>1, <3>2, <4>3 DEF Phases
    <3> QED
      BY <3>1, <3>4, <3>5, <3>6, <3>7 DEF Phases
  <2> QED
    BY <2>3, <2>4
<1>3. CASE loader.pos # End
  <2>1. /\ IF loader.pos.sec \in loader.aimed
           THEN chan' = WordAt(loader.pos) ELSE chan' \in Stray
        /\ loader' = [loader EXCEPT !.pos = After(@, Announced)]
    BY <1>3 DEF Put
  <2> DEFINE next == After(loader.pos, Announced)
  <2>2. loader.pos \in Place /\ Announced \in [Section -> Nat]
    BY DEF TypeOK, Announced
  <2>3. next \in Place
    <3>1. /\ loader.pos.sec \in Section /\ loader.pos.at + Stride(loader.pos.sec) \in Nat
      BY <1>3, <2>2, PlaceFields, Constants
    <3> QED
      BY <2>2, <3>1, SettleIsNext DEF After
  <2> HIDE DEF next
  <2>4. loader'.pos = next /\ loader'.aimed = loader.aimed /\ Announced' = Announced /\ loader'.on
    BY <1>1, <2>1 DEF TypeOK, Announced, next
  <2>5. TypeOK'
    <3>1. loader' \in [on : BOOLEAN, pos : Place, sizes : [Section -> Nat], aimed : SUBSET Section]
      BY <2>1, <2>3 DEF TypeOK, next
    <3> QED
      BY <1>1, <2>4, <3>1 DEF TypeOK
  <2>6. ASSUME Fits' PROVE Phases'
    <3>1. Fits /\ Phases
      BY <1>1, <2>6, LoadIsFixed
    <3>2. Visits(loader.pos, Announced) /\ \E k \in Nat : loader.pos.at = k * Stride(loader.pos.sec)
      BY <1>3, <3>1 DEF Phases, Visits
    <3>3. Follows(next, loader.pos, Announced)
      BY <1>3, <2>2, <3>2, AfterFollows DEF next
    <3>4. Less(loader.pos, next)
      BY <1>3, <2>2, <2>3, <3>3, FollowsIsLess
    <3>5. Visits(loader.pos, Announced)' /\ Visits(mlp.pos, load.sizes)'
      BY <1>1, <2>4, <3>1, <3>3 DEF Visits, Phases, Follows
    <3>6. Visits(loader.pos, load.sizes) /\ Announced[loader.pos.sec] = load.sizes[loader.pos.sec]
      BY <1>3, <3>2, AnnouncedIsFull
    <3>7. chan' # None /\ (loader.pos.sec \in loader.aimed => chan' = ItsWord(loader.pos))
      <4>1. CASE loader.pos.sec \in loader.aimed
        <5>1. chan' = ItsWord(loader.pos)
          BY <2>1, <3>6, <4>1 DEF WordAt, ItsWord
        <5>2. loader.pos.at < load.sizes[loader.pos.sec]
          BY <1>3, <3>6 DEF Visits
        <5>3. ItsWord(loader.pos) \in [0 .. Lanes - 1 -> Int]
          BY <1>3, <2>2, <5>2, WordsAreWords DEF TypeOK
        <5> QED
          BY <5>1, <5>3, LoadAssumption
      <4>2. CASE loader.pos.sec \notin loader.aimed
        BY <2>1, <4>2, LoadAssumption
      <4> QED
        BY <4>1, <4>2
    <3>8. ASSUME NEW p \in Place, InStep(p)
          PROVE  InStep(p)'
      <4>1. ~ NotYet(p) /\ pc # "loader"
        BY <1>1, <3>8 DEF InStep, NotYet, NotStarted
      <4>2. CASE Ahead(p)
        <5>1. Less(p, loader.pos) /\ Less(loader.pos, loader'.pos)
          BY <1>1, <2>4, <3>4, <4>2 DEF Ahead
        <5>2. \E q \in Place : /\ q # End /\ Visits(q, load.sizes)
                               /\ Less(p, q) /\ Less(q, loader'.pos)
          BY <1>3, <2>2, <3>6, <5>1
        <5>3. Ahead(p)'
          BY <1>1, <3>7, <5>2, LoadIsFixed DEF Ahead, Less
        <5> QED
          BY <1>1, <4>1, <5>3 DEF InStep
      <4>3. CASE Aligned(p)
        <5>1. p = loader.pos
          BY <1>1, <4>3 DEF Aligned
        <5>2. Follows(loader.pos, p, Announced)'
          BY <2>4, <3>3, <5>1 DEF Follows, Visits
        <5>3. ~ Skipped(p)'
          BY <1>1, <2>4, <4>3 DEF Aligned, Skipped
        <5>4. (Announced[p.sec] = load.sizes[p.sec])'
          BY <1>1, <2>4, <3>6, <5>1
        <5>5. p.sec \in loader'.aimed => chan' = ItsWord(p)'
          BY <1>1, <2>4, <3>7, <5>1, LoadIsFixed
        <5>6. \A s \in Section :
                 s \in loader'.aimed \/ p.sec < s \/ (p.sec = s /\ p.at = 0) => cache'[s] = Partial(p)'[s]
          BY <1>1, <2>4, <4>3, LoadIsFixed DEF Aligned
        <5>7. Aligned(p)'
          BY <1>3, <3>7, <5>1, <5>2, <5>3, <5>4, <5>5, <5>6, EndIsPlace DEF Aligned, End
        <5> QED
          BY <1>1, <4>1, <5>7 DEF InStep
      <4> QED
        BY <3>8, <4>1, <4>2, <4>3 DEF InStep
    <3>9. CASE Unused
      <4>1. Unused'
        BY <1>1, <3>9, LoadIsFixed DEF Unused, NotStarted
      <4> QED
        BY <1>1, <3>1, <3>5, <4>1 DEF Phases
    <3>10. CASE Pending
      <4>1. First(load.sizes) \in Place /\ InStep(First(load.sizes))
        BY <3>10, FirstBegins, LoadFacts DEF Pending, TypeOK
      <4>2. InStep(First(load.sizes))'
        BY <1>1, <3>8, <4>1, LoadIsFixed
      <4>3. Pending'
        BY <1>1, <3>10, <4>2, LoadIsFixed DEF Pending
      <4> QED
        BY <1>1, <3>1, <3>5, <4>3 DEF Phases
    <3>11. CASE Loading
      <4>1. InStep(mlp.pos)'
        BY <1>1, <3>8, <3>11 DEF Loading, TypeOK
      <4>2. Loading'
        BY <1>1, <3>11, <4>1 DEF Loading
      <4> QED
        BY <1>1, <3>1, <3>5, <4>2 DEF Phases
    <3> QED
      BY <1>3, <3>1, <3>9, <3>10, <3>11 DEF Phases, Finished
  <2> QED
    BY <2>5, <2>6
<1> QED
  BY <1>2, <1>3

LEMMA BeginIInv ==
    ASSUME IInv, Begin
    PROVE  IInv'
<1> USE DEF IInv
<1>1. UNCHANGED <<load, pc, acked, loader, chan, ctrl, cache>> /\ mlp.at = "idle" /\ ctrl.start
  BY DEF Begin
<1>2. mlp' = IF ctrl.reload THEN [at |-> "reload", pos |-> First(Expected)]
             ELSE [mlp EXCEPT !.at = "infer"]
  BY DEF Begin
<1>3. First(Expected) \in Place
  <2>1. Expected \in [Section -> Nat]
    BY LoadFacts, Constants, SMTT(60) DEF Expected, Section, TypeOK
  <2> QED
    BY <2>1, FirstBegins
<1>4. TypeOK'
  <2>1. Announced' = Announced
    BY <1>1 DEF Announced
  <2> QED
    BY <1>1, <1>2, <1>3, <2>1 DEF TypeOK
<1>5. ASSUME Fits' PROVE Phases'
  <2>1. Fits /\ Phases
    BY <1>1, <1>5, LoadIsFixed
  <2>2. Announced' = Announced /\ NoWeights' = NoWeights /\ (InPlace' <=> InPlace)
        /\ (NotYet(End)' <=> NotYet(End)) /\ (NotStarted' <=> NotStarted)
    BY <1>1, LoadIsFixed DEF Announced, InPlace, NotYet, NotStarted
  <2>3. CASE Pending
    <3>1. mlp' = [at |-> "reload", pos |-> First(load.sizes)]
      BY <1>2, <2>1, <2>3, ExpectedIsFull DEF Pending, TypeOK
    <3>2. Begins(First(load.sizes), load.sizes) /\ InStep(First(load.sizes))
      BY <2>3, FirstBegins, LoadFacts DEF Pending, TypeOK
    <3>3. Visits(loader.pos, Announced)' /\ Visits(mlp.pos, load.sizes)'
      BY <1>1, <2>1, <2>2, <3>1, <3>2 DEF Visits, Phases, Begins
    <3>4. InStep(First(load.sizes))'
      BY <1>1, <3>2, InStepIsKept DEF InStep
    <3>5. InStep(mlp.pos)'
      BY <1>1, <3>1, <3>4, LoadIsFixed
    <3>6. Loading'
      BY <1>1, <2>3, <3>1, <3>5 DEF Loading, Pending
    <3> QED
      BY <1>1, <2>1, <3>3, <3>6 DEF Phases
  <2>4. CASE ~ ctrl.reload
    <3>1. mlp' = [mlp EXCEPT !.at = "infer"] /\ mlp'.at = "infer" /\ mlp'.pos = mlp.pos
      BY <1>2, <2>4 DEF TypeOK
    <3>2. Visits(loader.pos, Announced)' /\ Visits(mlp.pos, load.sizes)'
      BY <1>1, <2>1, <2>2, <3>1 DEF Visits, Phases
    <3>3. Unused => Unused'
      BY <1>1, <2>2, <3>1 DEF Unused
    <3>4. Finished => Finished'
      BY <1>1, <2>2, <3>1 DEF Finished
    <3> QED
      BY <1>1, <2>1, <2>4, <3>2, <3>3, <3>4 DEF Phases, Pending, Loading
  <2> QED
    BY <1>1, <2>1, <2>3, <2>4 DEF Phases, Unused, Loading, Finished
<1> QED
  BY <1>4, <1>5

LEMMA TakeIInv ==
    ASSUME IInv, Take
    PROVE  IInv'
<1> USE DEF IInv
<1>1. /\ UNCHANGED <<load, pc, acked, loader, ctrl>>
      /\ mlp.at = "reload" /\ mlp.pos # End /\ chan # None /\ chan' = None
      /\ cache' = [cache EXCEPT ![mlp.pos.sec] = Stored(@, mlp.pos, chan)]
      /\ mlp' = [mlp EXCEPT !.pos = After(@, Expected)]
  BY DEF Take
<1>2. mlp.pos \in Place /\ mlp.pos.sec \in Section /\ Announced' = Announced
  BY <1>1, PlaceFields DEF TypeOK, Announced
<1>3. TypeOK'
  <2>1. /\ mlp.pos.at + Stride(mlp.pos.sec) \in Nat /\ Expected \in [Section -> Nat]
    BY <1>1, <1>2, PlaceFields, Constants, LoadFacts DEF TypeOK, Expected
  <2>2. After(mlp.pos, Expected) \in Place
    BY <1>2, <2>1, SettleIsNext DEF After
  <2>3. cache' = [s \in Section |-> cache'[s]]
    BY <1>1, <1>2 DEF TypeOK
  <2> QED
    BY <1>1, <1>2, <2>2, <2>3 DEF TypeOK
<1>4. ASSUME Fits' PROVE Phases'
  <2>1. Fits /\ Phases
    BY <1>1, <1>4, LoadIsFixed
  <2>2. Loading
    BY <1>1, <2>1 DEF Phases, Unused, Pending, Finished
  <2> DEFINE p == mlp.pos
             n == After(p, load.sizes)
             q == loader.pos
  <2>3. mlp'.at = "reload" /\ mlp'.pos = n
    BY <1>1, <2>1, ExpectedIsFull DEF TypeOK
  <2>4. /\ p \in Place /\ p # End /\ Visits(p, load.sizes) /\ q \in Place
        /\ load.sizes \in [Section -> Nat] /\ p.at < load.sizes[p.sec]
        /\ \E k \in Nat : p.at = k * Stride(p.sec)
    BY <1>1, <1>2, <2>1, LoadFacts DEF TypeOK, Phases, Visits
  <2>5. n \in Place /\ Follows(n, p, load.sizes)
    BY <2>4, AfterFollows
  <2> HIDE DEF n
  <2>6. Visits(loader.pos, Announced)' /\ Visits(mlp.pos, load.sizes)'
    BY <1>1, <1>2, <2>1, <2>3, <2>5 DEF Visits, Phases, Follows
  <2>7. pc # "loader"
    BY <1>1, <2>2 DEF Loading, InStep, NotYet, NotStarted
  <2>8. ASSUME Ahead(p) PROVE (Ahead(mlp.pos) \/ Aligned(mlp.pos))'
    <3>1. PICK r \in Place : r # End /\ Visits(r, load.sizes) /\ Less(p, r) /\ Less(r, q)
      BY <1>1, <2>8 DEF Ahead
    <3>2. n = r \/ Less(n, r)
      BY <2>4, <2>5, <3>1, NextIsNotBeyond
    <3>3. Less(n, q)
      BY <2>4, <2>5, <3>1, <3>2, LessIsTransitive
    <3> QED
      BY <1>1, <2>3, <3>3 DEF Ahead, Less
  <2>9. ASSUME Aligned(p) PROVE (Ahead(mlp.pos) \/ Aligned(mlp.pos))'
    <3>1. /\ p.sec \in loader.aimed => chan = ItsWord(p)
          /\ Announced[p.sec] = load.sizes[p.sec]
          /\ Follows(q, p, Announced) /\ ~ Skipped(p)
      BY <1>1, <2>9 DEF Aligned
    <3>2. /\ p.sec \in Section /\ p.at \in Nat /\ Stride(p.sec) \in Nat \ {0}
          /\ n.sec \in 1 .. 5 /\ n.at \in Nat /\ q.sec \in 1 .. 5 /\ q.at \in Nat
          /\ \A s \in Section : load.sizes[s] \in Nat
      BY <1>2, <2>4, <2>5, PlaceFields, Constants
    <3>3. \A s \in Section : Announced[s] \in {0, load.sizes[s]}
      BY DEF TypeOK
    <3>4. Less(p, q) /\ Visits(q, load.sizes)
      BY <2>1, <2>4, <3>1, FollowsIsLess, AnnouncedIsFull DEF Phases
    <3>5. n = q \/ Less(n, q)
      BY <2>4, <2>5, <3>4, NextIsNotBeyond
    <3>6. CASE Less(n, q)
      BY <1>1, <2>3, <3>6 DEF Ahead, Less
    <3>7. CASE n = q
      <4>1. ~ Skipped(n)
        <5> SUFFICES ASSUME NEW s \in Section, s < n.sec, Announced[s] # load.sizes[s]
                     PROVE  FALSE
          BY DEF Skipped
        <5>1. ~ (s < p.sec) /\ s # p.sec
          BY <3>1 DEF Skipped
        <5>2. p.sec < s
          BY <3>2, <5>1 DEF Section
        <5>3. load.sizes[s] = 0
          BY <2>5, <3>2, <5>2 DEF Follows, Section
        <5> QED
          BY <3>3, <5>3
      <4>2. /\ Stored(Partial(p)[p.sec], p, ItsWord(p)) = Partial(n)[p.sec]
            /\ \A s \in Section : s # p.sec => Partial(p)[s] = Partial(n)[s]
        BY <2>4, <2>5, StoredIsNext DEF TypeOK
      <4>3. ASSUME NEW s \in Section,
                   s \in loader.aimed \/ n.sec < s \/ (n.sec = s /\ n.at = 0)
            PROVE  cache'[s] = Partial(n)[s]
        <5>1. s = p.sec => s \in loader.aimed
          BY <2>5, <3>2, <4>3 DEF Follows, Section
        <5>2. s # p.sec => s \in loader.aimed \/ p.sec < s
          BY <2>5, <3>2, <4>3 DEF Follows, Section
        <5>3. CASE s = p.sec
          <6>1. cache[s] = Partial(p)[s] /\ chan = ItsWord(p)
            BY <2>9, <3>1, <5>1, <5>3 DEF Aligned
          <6>2. cache'[s] = Stored(cache[s], p, chan)
            BY <1>1, <1>2, <5>3 DEF TypeOK
          <6> QED
            BY <4>2, <5>3, <6>1, <6>2
        <5>4. CASE s # p.sec
          <6>1. cache[s] = Partial(p)[s]
            BY <2>9, <5>2, <5>4 DEF Aligned
          <6>2. cache'[s] = cache[s]
            BY <1>1, <1>2, <5>4 DEF TypeOK
          <6> QED
            BY <4>2, <5>4, <6>1, <6>2
        <5> QED
          BY <5>3, <5>4
      <4>4. Aligned(mlp.pos)'
        <5>1. ~ Skipped(mlp.pos)'
          BY <1>1, <1>2, <2>3, <4>1 DEF Skipped
        <5>2. Partial(mlp.pos)' = Partial(n)
          BY <1>1, <2>3, LoadIsFixed
        <5> QED
          BY <1>1, <2>3, <3>7, <4>3, <5>1, <5>2 DEF Aligned
      <4> QED
        BY <4>4
    <3> QED
      BY <3>5, <3>6, <3>7
  <2>10. InStep(mlp.pos)'
    <3>1. Ahead(mlp.pos)' \/ Aligned(mlp.pos)'
      BY <1>1, <2>2, <2>8, <2>9 DEF Loading, InStep, NotYet, NotStarted
    <3> QED
      BY <1>1, <2>7, <3>1 DEF InStep
  <2>11. Loading'
    BY <1>1, <2>2, <2>3, <2>10 DEF Loading
  <2> QED
    BY <1>1, <2>1, <2>6, <2>11 DEF Phases
<1> QED
  BY <1>3, <1>4

LEMMA EndReloadIInv ==
    ASSUME IInv, EndReload
    PROVE  IInv'
<1> USE DEF IInv
<1>1. /\ UNCHANGED <<load, pc, acked, loader, chan, cache>>
      /\ mlp.at = "reload" /\ mlp.pos = End
      /\ mlp' = [mlp EXCEPT !.at = "idle"]
      /\ ctrl' = [ctrl EXCEPT !.start = ctrl.auto, !.isr = TRUE]
  BY DEF EndReload, Return
<1>2. Announced' = Announced
  BY <1>1 DEF Announced
<1>3. TypeOK'
  BY <1>1, <1>2 DEF TypeOK
<1>4. ASSUME Fits' PROVE Phases'
  <2>1. Fits /\ Phases
    BY <1>1, <1>4, LoadIsFixed
  <2>2. Loading
    BY <1>1, <2>1 DEF Phases, Unused, Pending, Finished
  <2>3. /\ mlp'.at = "idle" /\ mlp'.pos = mlp.pos
        /\ ctrl'.start = ctrl.auto /\ ctrl'.reload = ctrl.reload /\ ctrl'.auto = ctrl.auto
    BY <1>1 DEF TypeOK
  <2>4. ~ Ahead(End)
    <3>1. ASSUME NEW q \in Place PROVE ~ Less(End, q)
      BY EndIsPlace, PlaceFields DEF Less
    <3> QED
      BY <3>1 DEF Ahead, TypeOK
  <2>5. InPlace /\ chan = None /\ loader.pos = End /\ \A s \in Section : Announced[s] = load.sizes[s]
    <3>1. CASE NotYet(End)
      <4>1. \A s \in Section : load.sizes[s] = 0
        BY <3>1, EndIsPlace DEF NotYet, Begins, Section
      <4> QED
        BY <3>1, <4>1 DEF NotYet, NotStarted, InPlace
    <3>2. CASE Aligned(End)
      <4>1. chan = None /\ loader.pos = End
        BY <3>2 DEF Aligned
      <4>2. \A s \in loader.aimed : cache[s] = Partial(End)[s]
        BY <3>2 DEF Aligned, TypeOK
      <4>3. InPlace
        BY <4>2, EndIsLoaded DEF InPlace, TypeOK
      <4>4. \A s \in Section : Announced[s] = load.sizes[s]
        BY <3>2, EndIsPlace DEF Aligned, Skipped, Section
      <4> QED
        BY <4>1, <4>3, <4>4
    <3> QED
      BY <1>1, <2>2, <2>4, <3>1, <3>2 DEF Loading, InStep
  <2>6. pc = "loader" => NotYet(End)
    BY <1>1, <2>2 DEF Loading, InStep
  <2>7. Finished'
    <3>1. InPlace' /\ (NotYet(End) => NotYet(End)')
      BY <1>1, <2>5, LoadIsFixed, <1>2 DEF InPlace, NotYet, NotStarted
    <3>2. ~ (ctrl'.start /\ ctrl'.reload)
      BY <2>1, <2>3 DEF Phases
    <3> QED
      BY <1>1, <1>2, <2>2, <2>3, <2>5, <2>6, <3>1, <3>2, EndIsPlace DEF Finished, Loading
  <2>8. Visits(loader.pos, Announced)' /\ Visits(mlp.pos, load.sizes)'
    BY <1>1, <1>2, <2>1, <2>3 DEF Visits, Phases
  <2> QED
    BY <1>1, <2>1, <2>3, <2>7, <2>8 DEF Phases
<1> QED
  BY <1>3, <1>4

LEMMA InferIInv ==
    ASSUME IInv, Infer
    PROVE  IInv'
<1> USE DEF IInv
<1>1. /\ UNCHANGED <<load, pc, acked, loader, chan, cache>>
      /\ mlp.at = "infer"
      /\ mlp' = [mlp EXCEPT !.at = "idle"]
      /\ ctrl' = [ctrl EXCEPT !.start = ctrl.auto, !.isr = TRUE]
  BY DEF Infer, Return
<1>2. Announced' = Announced
  BY <1>1 DEF Announced
<1>3. TypeOK'
  BY <1>1, <1>2 DEF TypeOK
<1>4. ASSUME Fits' PROVE Phases'
  <2>1. Fits /\ Phases
    BY <1>1, <1>4, LoadIsFixed
  <2>2. /\ mlp'.at = "idle" /\ mlp'.pos = mlp.pos /\ ctrl'.start = ctrl.auto
        /\ ctrl'.reload = ctrl.reload /\ ctrl'.auto = ctrl.auto
    BY <1>1 DEF TypeOK
  <2>3. NoWeights' = NoWeights /\ (InPlace' <=> InPlace)
        /\ (NotYet(End)' <=> NotYet(End)) /\ (NotStarted' <=> NotStarted)
    BY <1>1, <1>2, LoadIsFixed DEF InPlace, NotYet, NotStarted
  <2>4. Unused => Unused'
    BY <1>1, <2>1, <2>2, <2>3 DEF Unused, Phases
  <2>5. Finished => Finished'
    BY <1>1, <1>2, <2>1, <2>2, <2>3 DEF Finished, Phases
  <2>6. Visits(loader.pos, Announced)' /\ Visits(mlp.pos, load.sizes)'
    BY <1>1, <1>2, <2>1, <2>2 DEF Visits, Phases
  <2> QED
    BY <1>1, <2>1, <2>2, <2>4, <2>5, <2>6 DEF Phases, Pending, Loading
<1> QED
  BY <1>3, <1>4

LEMMA StutterIInv ==
    ASSUME IInv, UNCHANGED vars
    PROVE  IInv'
<1> USE DEF IInv, vars
<1>1. Announced' = Announced
  BY DEF Announced
<1>2. TypeOK'
  BY <1>1 DEF TypeOK
<1>3. ASSUME Fits' PROVE Phases'
  <2>1. Fits /\ Phases
    BY <1>3, LoadIsFixed
  <2>2. NoWeights' = NoWeights /\ (InPlace' <=> InPlace)
        /\ (NotYet(End)' <=> NotYet(End)) /\ (NotStarted' <=> NotStarted)
    BY <1>1, LoadIsFixed DEF InPlace, NotYet, NotStarted
  <2>3. InStep(First(load.sizes)) => InStep(First(load.sizes))'
    BY InStepIsKept DEF InStep
  <2>4. InStep(mlp.pos) => InStep(mlp.pos)'
    BY InStepIsKept DEF InStep
  <2>5. Visits(loader.pos, Announced)' /\ Visits(mlp.pos, load.sizes)'
    BY <1>1, <2>1 DEF Visits, Phases
  <2>6. Unused => Unused'
    BY <2>2 DEF Unused
  <2>7. Pending => Pending'
    BY <2>2, <2>3 DEF Pending
  <2>8. Loading => Loading'
    BY <2>4 DEF Loading
  <2>9. Finished => Finished'
    BY <1>1, <2>2 DEF Finished
  <2> QED
    BY <2>1, <2>5, <2>6, <2>7, <2>8, <2>9 DEF Phases
<1> QED
  BY <1>2, <1>3

LEMMA NextIInv == IInv /\ [Next]_vars => IInv'
BY DriverIInv, StartLoaderIInv, ReassertIInv, PutIInv, BeginIInv, TakeIInv, EndReloadIInv,
   InferIInv, StutterIInv DEF Next, Core

LEMMA IInvHolds == Spec => []IInv
BY InitIInv, NextIInv, PTL DEF Spec

-----------------------------------------------------------------------------
(* An acknowledged load that fits was announced in full and has left        *)
(* nothing in the stream, and what the loader read from its place is in     *)
(* place byte for byte, whatever accesses of the driver failed or came late *)
(* and however the two cores interleave with it (run_cycle_bench.py         *)
(* 138-211, 498-529): a loader that was told less starves the core, which   *)
(* then never ends.                                                         *)
THEOREM AcknowledgedLoadsAreInPlace == Spec => []LoadLandsInPlace
<1>1. IInv => LoadLandsInPlace
  <2> SUFFICES ASSUME IInv, acked, Fits PROVE LoadLandsInPlace
    BY DEF LoadLandsInPlace
  <2>1. Finished
    BY DEF IInv, Phases, Unused, Pending, Loading
  <2>2. Announced = load.sizes
    <3>1. Announced \in [Section -> Nat] /\ load.sizes \in [Section -> Nat]
      BY LoadFacts DEF IInv, TypeOK, Announced
    <3> QED
      BY <2>1, <3>1 DEF Finished
  <2> QED
    BY <2>1, <2>2 DEF LoadLandsInPlace, Finished
<1> QED
  BY <1>1, IInvHolds, PTL

(* The inference path of mlp_infer_stream.cpp is entered with all of what   *)
(* was read of a model that fits, or with zeros, even when the driver gives *)
(* up on a load that is still running, or that the loader was not told all  *)
(* the sizes of, and restarts the core for inference.                       *)
THEOREM ScoresAreWhole == Spec => []NeverTorn
<1>1. IInv => NeverTorn
  BY DEF IInv, Phases, NeverTorn, Unused, Pending, Loading, Finished
<1> QED
  BY <1>1, IInvHolds, PTL

=============================================================================
