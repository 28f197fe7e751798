--------------------------- MODULE HostClientProofs ---------------------------
(***************************************************************************)
(* The clients in front of the echo server, for files, batches and losses  *)
(* of any size: the replay client in C (module ReplayUdp) and the latency  *)
(* client (module LobStream).                                              *)
(*                                                                         *)
(* Both rest on one fact about the path: what is waiting in the socket     *)
(* comes before what is on the way, and both are in the order in which     *)
(* they were sent.  A client that takes replies from the front of the      *)
(* socket therefore takes each once and in order, whatever is lost.        *)
(***************************************************************************)
EXTENDS ReplayUdp, LobStream, SequenceTheorems, TLAPS, WellFoundedInduction

-----------------------------------------------------------------------------
(* Concatenating a sequence of sequences, one more at the end.  FlattenSeq  *)
(* is a recursive function: that there is one, that two agree, and what its *)
(* values are follow from a least counterexample.                           *)

(* What the recursive function behind FlattenSeq is to satisfy. *)
IsFlat(f, ss, n) == f = [i \in 1 .. n |-> IF i = 1 THEN ss[i] ELSE f[i - 1] \o ss[i]]

(* A property that fails for some number fails for a least one. *)
LEMMA LeastNumber ==
    ASSUME NEW T, T \subseteq Nat, T # {}
    PROVE  \E m \in T : \A x \in T : m <= x
<1>1. PICK m \in T : \A y \in T : ~ (<<y, m>> \in OpToRel(<, Nat))
  BY NatLessThanWellFounded, WFMin
<1>2. \A y \in T : ~ (y < m)
  BY <1>1 DEF OpToRel
<1> QED
  BY <1>2

LEMMA FlatAt ==
    ASSUME NEW f, NEW ss, NEW n, IsFlat(f, ss, n), NEW i \in 1 .. n
    PROVE  f[i] = IF i = 1 THEN ss[i] ELSE f[i - 1] \o ss[i]
BY DEF IsFlat

LEMMA FlatExists ==
    ASSUME NEW ss, NEW n \in Nat
    PROVE  \E f : IsFlat(f, ss, n)
<1> DEFINE T == {k \in Nat : k <= n /\ ~ \E f : IsFlat(f, ss, k)}
<1>1. SUFFICES ASSUME T # {} PROVE FALSE
  OBVIOUS
<1>2. PICK m \in T : \A x \in T : m <= x
  BY <1>1, LeastNumber
<1>3. IsFlat([i \in 1 .. 0 |-> 0], ss, 0)
  BY DEF IsFlat
<1>4. m \in Nat /\ m # 0 /\ m - 1 \in Nat /\ ~ (m <= m - 1) /\ m - 1 <= n
  BY <1>3
<1>5. PICK f : IsFlat(f, ss, m - 1)
  BY <1>2, <1>4
<1> DEFINE g == [i \in 1 .. m |-> IF i = m THEN IF m = 1 THEN ss[m] ELSE f[m - 1] \o ss[m]
                                          ELSE f[i]]
<1>6. DOMAIN g = 1 .. m /\ g = [i \in 1 .. m |-> g[i]]
  OBVIOUS
<1>7. ASSUME NEW i \in 1 .. m
      PROVE  g[i] = IF i = 1 THEN ss[i] ELSE g[i - 1] \o ss[i]
  <2>1. CASE i = m
    BY <1>4, <2>1
  <2>2. CASE i # m
    <3>1. i \in 1 .. m - 1 /\ g[i] = f[i]
      BY <1>4, <2>2
    <3>2. f[i] = IF i = 1 THEN ss[i] ELSE f[i - 1] \o ss[i]
      BY <1>5, <3>1 DEF IsFlat
    <3>3. i # 1 => g[i - 1] = f[i - 1]
      BY <1>4, <2>2
    <3> QED
      BY <3>1, <3>2, <3>3
  <2> QED
    BY <2>1, <2>2
<1> HIDE DEF g
<1>8. IsFlat(g, ss, m)
  BY <1>6, <1>7 DEF IsFlat
<1> QED
  BY <1>8

(* The parts that two sequences have in common are concatenated alike. *)
LEMMA FlatAgrees ==
    ASSUME NEW f, NEW g, NEW ss, NEW tt, NEW n \in Nat, NEW m \in Nat, n <= m,
           IsFlat(f, ss, n), IsFlat(g, tt, m), \A i \in 1 .. n : ss[i] = tt[i]
    PROVE  \A i \in 1 .. n : f[i] = g[i]
<1> DEFINE T == {i \in 1 .. n : f[i] # g[i]}
<1>1. SUFFICES ASSUME T # {} PROVE FALSE
  OBVIOUS
<1>0. T \subseteq Nat
  OBVIOUS
<1>2. PICK k \in T : \A x \in T : k <= x
  BY <1>0, <1>1, LeastNumber
<1>3. /\ f[k] = IF k = 1 THEN ss[k] ELSE f[k - 1] \o ss[k]
      /\ g[k] = IF k = 1 THEN tt[k] ELSE g[k - 1] \o tt[k]
  <2>1. k \in 1 .. n /\ k \in 1 .. m
    OBVIOUS
  <2> QED
    BY ONLY <2>1, IsFlat(f, ss, n), IsFlat(g, tt, m) DEF IsFlat
<1>4. k # 1 => k - 1 \in 1 .. n /\ ~ (k <= k - 1)
  OBVIOUS
<1>5. k # 1 => f[k - 1] = g[k - 1]
  BY <1>2, <1>4
<1> QED
  BY <1>3, <1>5

LEMMA FlatTyped ==
    ASSUME NEW S, NEW ss \in Seq(Seq(S)), NEW f, IsFlat(f, ss, Len(ss))
    PROVE  \A i \in 1 .. Len(ss) : f[i] \in Seq(S)
<1> DEFINE T == {i \in 1 .. Len(ss) : f[i] \notin Seq(S)}
<1>1. SUFFICES ASSUME T # {} PROVE FALSE
  OBVIOUS
<1>0. T \subseteq Nat
  OBVIOUS
<1>2. PICK k \in T : \A x \in T : k <= x
  BY <1>0, <1>1, LeastNumber
<1>3. f[k] = IF k = 1 THEN ss[k] ELSE f[k - 1] \o ss[k]
  BY DEF IsFlat
<1>4. ss[k] \in Seq(S)
  OBVIOUS
<1>5. k # 1 => k - 1 \in 1 .. Len(ss) /\ ~ (k <= k - 1)
  OBVIOUS
<1>6. k # 1 => f[k - 1] \in Seq(S)
  BY <1>2, <1>5
<1>7. k # 1 => f[k - 1] \o ss[k] \in Seq(S)
  BY <1>4, <1>6, ConcatProperties
<1> QED
  BY <1>3, <1>4, <1>7

LEMMA FlattenIs ==
    ASSUME NEW ss, Len(ss) \in Nat, Len(ss) # 0
    PROVE  \E f : IsFlat(f, ss, Len(ss)) /\ FlattenSeq(ss) = f[Len(ss)]
<1> DEFINE f == CHOOSE g : IsFlat(g, ss, Len(ss))
<1>1. IsFlat(f, ss, Len(ss))
  BY FlatExists
<1>2. FlattenSeq(ss) = f[Len(ss)]
  BY DEF FlattenSeq, IsFlat
<1> QED
  BY <1>1, <1>2

LEMMA FlattenAppend ==
    ASSUME NEW S, NEW ss \in Seq(Seq(S)), NEW t \in Seq(S)
    PROVE  /\ FlattenSeq(<<>>) = <<>>
           /\ FlattenSeq(ss) \in Seq(S)
           /\ FlattenSeq(Append(ss, t)) = FlattenSeq(ss) \o t
<1> DEFINE tt == Append(ss, t)
           n == Len(ss)
<1>1. /\ n \in Nat /\ Len(tt) = n + 1 /\ tt[n + 1] = t /\ tt \in Seq(Seq(S))
      /\ \A i \in 1 .. n : ss[i] = tt[i]
  OBVIOUS
<1>2. FlattenSeq(<<>>) = <<>>
  BY DEF FlattenSeq
<1> HIDE DEF tt
<1>3. PICK g : IsFlat(g, tt, n + 1) /\ FlattenSeq(tt) = g[n + 1]
  <2>1. Len(tt) \in Nat /\ Len(tt) # 0
    BY <1>1
  <2> QED
    BY <1>1, <2>1, FlattenIs
<1>4. g[n + 1] = IF n = 0 THEN t ELSE g[n] \o t
  <2>1. n + 1 \in 1 .. n + 1 /\ (n + 1 = 1 <=> n = 0) /\ n + 1 - 1 = n
    BY <1>1
  <2>2. g[n + 1] = IF n + 1 = 1 THEN tt[n + 1] ELSE g[n + 1 - 1] \o tt[n + 1]
    BY ONLY <1>3, <2>1, FlatAt
  <2> QED
    BY ONLY <1>1, <2>1, <2>2
<1>5. CASE n = 0
  <2>1. ss = <<>>
    BY <1>5
  <2>2. FlattenSeq(ss) = <<>> /\ <<>> \in Seq(S) /\ <<>> \o t = t
    BY <1>2, <2>1
  <2> QED
    BY <1>2, <1>3, <1>4, <1>5, <2>2 DEF tt
<1>6. CASE n # 0
  <2>1. PICK f : IsFlat(f, ss, n) /\ FlattenSeq(ss) = f[n]
    BY <1>1, <1>6, FlattenIs
  <2>2. \A i \in 1 .. n : f[i] = g[i]
    <3> DEFINE m == n + 1
    <3>1. n \in Nat /\ m \in Nat /\ n <= m
      BY <1>1
    <3>2. \A i \in 1 .. n : ss[i] = tt[i]
      BY <1>1
    <3>3. IsFlat(f, ss, n) /\ IsFlat(g, tt, m)
      BY <1>3, <2>1
    <3> HIDE DEF n, m
    <3> QED
      BY ONLY <3>1, <3>2, <3>3, FlatAgrees
  <2>3. f[n] = g[n] /\ f[n] \in Seq(S)
    <3>1. n \in Nat /\ n \in 1 .. n
      BY <1>1, <1>6
    <3>2. f[n] = g[n]
      BY <2>2, <3>1
    <3>3. IsFlat(f, ss, Len(ss))
      BY <2>1
    <3>4. \A i \in 1 .. Len(ss) : f[i] \in Seq(S)
      BY ONLY ss \in Seq(Seq(S)), <3>3, FlatTyped
    <3>5. \A i \in 1 .. n : f[i] \in Seq(S)
      BY ONLY <3>4
    <3> HIDE DEF n
    <3> QED
      BY ONLY <3>1, <3>2, <3>5
  <2> QED
    BY <1>2, <1>3, <1>4, <1>6, <2>1, <2>3 DEF tt
<1> QED
  BY <1>5, <1>6

-----------------------------------------------------------------------------
(* Sequences of numbers in increasing order. *)

Items(s) == {s[i] : i \in DOMAIN s}

Increasing(s) == \A i, j \in DOMAIN s : i < j => s[i] < s[j]

Before(s, t) == \A x \in Items(s), y \in Items(t) : x < y

LEMMA Facts ==
    ASSUME NEW s \in Seq(Nat)
    PROVE  /\ Len(s) \in Nat /\ DOMAIN s = 1 .. Len(s) /\ Items(s) \subseteq Nat
           /\ \A i \in 1 .. Len(s) : s[i] \in Nat /\ s[i] \in Items(s)
BY DEF Items

LEMMA OneMore ==
    ASSUME NEW s \in Seq(Nat), NEW x \in Nat
    PROVE  /\ Items(Append(s, x)) = Items(s) \cup {x}
           /\ Increasing(s) /\ (\A y \in Items(s) : y < x) => Increasing(Append(s, x))
<1> DEFINE t == Append(s, x)
<1>1. /\ Len(s) \in Nat /\ DOMAIN s = 1 .. Len(s) /\ DOMAIN t = 1 .. Len(s) + 1
      /\ \A i \in 1 .. Len(s) : t[i] = s[i]
      /\ t[Len(s) + 1] = x
  OBVIOUS
<1>2. /\ \A i \in 1 .. Len(s) + 1 : i \in 1 .. Len(s) \/ i = Len(s) + 1
      /\ \A i \in 1 .. Len(s) : i \in 1 .. Len(s) + 1 /\ i < Len(s) + 1
      /\ Len(s) + 1 \in 1 .. Len(s) + 1
      /\ \A i, j \in 1 .. Len(s) + 1 : i < j => i \in 1 .. Len(s)
  OBVIOUS
<1> HIDE DEF t
<1>3. Items(t) = Items(s) \cup {x}
  BY ONLY <1>1, <1>2, Zenon DEF Items
<1>4. ASSUME Increasing(s), \A y \in Items(s) : y < x
      PROVE  Increasing(t)
  <2>1. \A i \in 1 .. Len(s) : s[i] < x
    BY <1>1, <1>4 DEF Items
  <2> QED
    BY <1>1, <1>2, <1>4, <2>1 DEF Increasing
<1> QED
  BY <1>3, <1>4 DEF t

LEMMA OneLess ==
    ASSUME NEW s \in Seq(Nat), s # <<>>
    PROVE  /\ Items(s) = {Head(s)} \cup Items(Tail(s)) /\ Head(s) \in Nat
           /\ Increasing(s) => Increasing(Tail(s)) /\ \A y \in Items(Tail(s)) : Head(s) < y
<1> DEFINE t == Tail(s)
<1>1. /\ Len(s) \in Nat /\ Len(s) >= 1 /\ DOMAIN s = 1 .. Len(s)
      /\ DOMAIN t = 1 .. Len(s) - 1 /\ Head(s) = s[1] /\ s[1] \in Nat
      /\ \A i \in 1 .. Len(s) - 1 : t[i] = s[i + 1]
  OBVIOUS
<1>2. /\ \A i \in 1 .. Len(s) - 1 : i + 1 \in 1 .. Len(s) /\ 1 < i + 1
      /\ \A i, j \in 1 .. Len(s) - 1 : i < j => i + 1 < j + 1
      /\ 1 \in 1 .. Len(s)
  BY <1>1
<1>3. \A i \in 1 .. Len(s) : i = 1 \/ \E j \in 1 .. Len(s) - 1 : i = j + 1
  <2> SUFFICES ASSUME NEW i \in 1 .. Len(s), i # 1
               PROVE  i - 1 \in 1 .. Len(s) - 1 /\ i = (i - 1) + 1
    OBVIOUS
  <2> QED
    BY <1>1
<1> HIDE DEF t
<1>4. Items(s) = {Head(s)} \cup Items(t)
  <2>1. \A x \in Items(t) : x \in Items(s)
    <3> SUFFICES ASSUME NEW i \in 1 .. Len(s) - 1 PROVE t[i] \in Items(s)
      BY <1>1 DEF Items
    <3> QED
      BY <1>1, <1>2 DEF Items
  <2>2. Head(s) \in Items(s)
    BY <1>1, <1>2 DEF Items
  <2>3. \A x \in Items(s) : x = Head(s) \/ x \in Items(t)
    <3> SUFFICES ASSUME NEW i \in 1 .. Len(s), i # 1 PROVE s[i] \in Items(t)
      BY <1>1 DEF Items
    <3>1. PICK j \in 1 .. Len(s) - 1 : i = j + 1
      BY <1>3
    <3> QED
      BY <1>1, <3>1 DEF Items
  <2> QED
    BY <2>1, <2>2, <2>3
<1>5. ASSUME Increasing(s)
      PROVE  Increasing(t) /\ \A y \in Items(t) : Head(s) < y
  BY <1>1, <1>2, <1>5 DEF Increasing, Items
<1> QED
  BY <1>1, <1>4, <1>5 DEF t

LEMMA OneOut ==
    ASSUME NEW s \in Seq(Nat), NEW i \in 1 .. Len(s)
    PROVE  /\ RemoveAt(s, i) \in Seq(Nat) /\ Len(RemoveAt(s, i)) = Len(s) - 1
           /\ Items(RemoveAt(s, i)) \subseteq Items(s)
           /\ Increasing(s) => Increasing(RemoveAt(s, i))
<1> DEFINE a == SubSeq(s, 1, i - 1)
           b == SubSeq(s, i + 1, Len(s))
           t == a \o b
<1>1. /\ a \in Seq(Nat) /\ Len(a) = i - 1 /\ \A j \in 1 .. i - 1 : a[j] = s[j]
      /\ b \in Seq(Nat) /\ Len(b) = Len(s) - i /\ \A j \in 1 .. Len(s) - i : b[j] = s[i + j]
      /\ Len(s) \in Nat /\ i \in Nat /\ i >= 1 /\ i <= Len(s)
  OBVIOUS
<1>2. RemoveAt(s, i) = t
  BY DEF RemoveAt
<1> HIDE DEF a, b
<1>3. /\ t \in Seq(Nat) /\ Len(t) = Len(a) + Len(b)
      /\ \A j \in 1 .. Len(a) + Len(b) : t[j] = IF j <= Len(a) THEN a[j] ELSE b[j - Len(a)]
  <2>1. a \in Seq(Nat) /\ b \in Seq(Nat)
    BY <1>1
  <2> QED
    BY ONLY <2>1, ConcatProperties DEF t
<1> HIDE DEF t
<1>4. Len(t) = Len(s) - 1
  BY ONLY <1>1, <1>3
<1>5. \A j \in 1 .. Len(s) - 1 : t[j] = IF j < i THEN s[j] ELSE s[j + 1]
  <2> SUFFICES ASSUME NEW j \in 1 .. Len(s) - 1
               PROVE  t[j] = IF j < i THEN s[j] ELSE s[j + 1]
    OBVIOUS
  <2>1. j \in 1 .. Len(a) + Len(b) /\ j \in Nat /\ j >= 1 /\ j <= Len(s) - 1
    BY ONLY <1>1, j \in 1 .. Len(s) - 1
  <2>2. t[j] = IF j <= Len(a) THEN a[j] ELSE b[j - Len(a)]
    BY <1>3, <2>1
  <2>3. CASE j < i
    <3>1. j <= Len(a) /\ j \in 1 .. i - 1
      BY ONLY <1>1, <2>1, <2>3
    <3> QED
      BY ONLY <1>1, <2>2, <2>3, <3>1
  <2>4. CASE ~ (j < i)
    <3>1. ~ (j <= Len(a)) /\ j - Len(a) \in 1 .. Len(s) - i /\ i + (j - Len(a)) = j + 1
      BY ONLY <1>1, <2>1, <2>4
    <3>2. t[j] = b[j - Len(a)] /\ b[j - Len(a)] = s[i + (j - Len(a))]
      BY ONLY <1>1, <2>2, <3>1
    <3> QED
      BY ONLY <2>4, <3>1, <3>2
  <2> QED
    BY <2>3, <2>4
<1> DEFINE at(j) == IF j < i THEN j ELSE j + 1
<1>6. /\ \A j \in 1 .. Len(s) - 1 : at(j) \in 1 .. Len(s) /\ t[j] = s[at(j)]
      /\ \A j, k \in 1 .. Len(s) - 1 : j < k => at(j) < at(k)
      /\ DOMAIN t = 1 .. Len(s) - 1 /\ DOMAIN s = 1 .. Len(s)
  <2>1. /\ \A j \in 1 .. Len(s) - 1 : at(j) \in 1 .. Len(s)
        /\ \A j, k \in 1 .. Len(s) - 1 : j < k => at(j) < at(k)
    BY ONLY <1>1
  <2>2. \A j \in 1 .. Len(s) - 1 : t[j] = s[at(j)]
    BY ONLY <1>5
  <2>3. DOMAIN t = 1 .. Len(t) /\ DOMAIN s = 1 .. Len(s)
    BY <1>3
  <2> QED
    BY ONLY <1>4, <2>1, <2>2, <2>3
<1> HIDE DEF at
<1>7. Items(t) \subseteq Items(s)
  BY ONLY <1>6 DEF Items
<1>8. Increasing(s) => Increasing(t)
  BY ONLY <1>6 DEF Increasing
<1> QED
  BY <1>2, <1>3, <1>4, <1>7, <1>8

LEMMA Joined ==
    ASSUME NEW s \in Seq(Nat), NEW t \in Seq(Nat)
    PROVE  /\ s \o t \in Seq(Nat) /\ Len(s \o t) = Len(s) + Len(t)
           /\ Items(s \o t) = Items(s) \cup Items(t)
           /\ Increasing(s) /\ Increasing(t) /\ Before(s, t) => Increasing(s \o t)
<1> DEFINE u == s \o t
<1>1. /\ u \in Seq(Nat) /\ Len(u) = Len(s) + Len(t)
      /\ \A i \in 1 .. Len(s) + Len(t) : u[i] = IF i <= Len(s) THEN s[i] ELSE t[i - Len(s)]
  BY ConcatProperties
<1> HIDE DEF u
<1>2. /\ Len(s) \in Nat /\ Len(t) \in Nat /\ DOMAIN s = 1 .. Len(s) /\ DOMAIN t = 1 .. Len(t)
      /\ DOMAIN u = 1 .. Len(s) + Len(t)
  <2>1. DOMAIN u = 1 .. Len(u)
    BY <1>1
  <2> QED
    BY <1>1, <2>1
<1>3. \A i \in 1 .. Len(s) : i \in 1 .. Len(s) + Len(t) /\ u[i] = s[i]
  BY ONLY <1>1, <1>2
<1>4. \A j \in 1 .. Len(t) : Len(s) + j \in 1 .. Len(s) + Len(t) /\ u[Len(s) + j] = t[j]
  <2> SUFFICES ASSUME NEW j \in 1 .. Len(t)
               PROVE  Len(s) + j \in 1 .. Len(s) + Len(t) /\ u[Len(s) + j] = t[j]
    OBVIOUS
  <2>1. /\ Len(s) + j \in 1 .. Len(s) + Len(t) /\ ~ (Len(s) + j <= Len(s))
        /\ (Len(s) + j) - Len(s) = j
    BY <1>2
  <2>2. u[Len(s) + j] = t[(Len(s) + j) - Len(s)]
    BY ONLY <1>1, <2>1
  <2> QED
    BY ONLY <2>1, <2>2
<1>5. \A i \in 1 .. Len(s) + Len(t) :
         i \in 1 .. Len(s) \/ \E j \in 1 .. Len(t) : i = Len(s) + j
  <2> SUFFICES ASSUME NEW i \in 1 .. Len(s) + Len(t), i \notin 1 .. Len(s)
               PROVE  i - Len(s) \in 1 .. Len(t) /\ i = Len(s) + (i - Len(s))
    OBVIOUS
  <2> QED
    BY <1>2
<1>6. Items(u) = Items(s) \cup Items(t)
  <2>1. \A x \in Items(u) : x \in Items(s) \cup Items(t)
    <3> SUFFICES ASSUME NEW i \in 1 .. Len(s) + Len(t) PROVE u[i] \in Items(s) \cup Items(t)
      BY <1>2 DEF Items
    <3> QED
      BY <1>2, <1>3, <1>4, <1>5 DEF Items
  <2>2. \A x \in Items(s) \cup Items(t) : x \in Items(u)
    BY <1>2, <1>3, <1>4 DEF Items
  <2> QED
    BY <2>1, <2>2
<1>7. ASSUME Increasing(s), Increasing(t), Before(s, t)
      PROVE  Increasing(u)
  <2> SUFFICES ASSUME NEW i \in 1 .. Len(s) + Len(t), NEW j \in 1 .. Len(s) + Len(t), i < j
               PROVE  u[i] < u[j]
    BY <1>2 DEF Increasing
  <2>1. CASE j \in 1 .. Len(s)
    <3>1. i \in 1 .. Len(s)
      BY <2>1
    <3> QED
      BY <1>2, <1>3, <1>7, <2>1, <3>1 DEF Increasing
  <2>2. CASE \E k \in 1 .. Len(t) : j = Len(s) + k
    <3>1. PICK k \in 1 .. Len(t) : j = Len(s) + k
      BY <2>2
    <3>2. CASE i \in 1 .. Len(s)
      BY <1>2, <1>3, <1>4, <1>7, <3>1, <3>2 DEF Before, Items
    <3>3. CASE \E l \in 1 .. Len(t) : i = Len(s) + l
      <4>1. PICK l \in 1 .. Len(t) : i = Len(s) + l
        BY <3>3
      <4>2. l < k
        BY <1>2, <3>1, <4>1
      <4> QED
        BY <1>2, <1>4, <1>7, <3>1, <4>1, <4>2 DEF Increasing
    <3> QED
      BY <1>5, <3>2, <3>3
  <2> QED
    BY <1>5, <2>1, <2>2
<1> QED
  BY <1>1, <1>6, <1>7 DEF u


-----------------------------------------------------------------------------
(* What a request and a step of the path leave of the order of the packets. *)

(* Replies in the socket and requests on the way are in the order of their  *)
(* packets, which have been sent.                                           *)
Queued(n) ==
    /\ pending \in Seq(Nat) /\ inbox \in Seq(Nat) /\ lost \in Nat
    /\ Increasing(inbox) /\ Increasing(pending) /\ Before(inbox, pending)
    /\ \A x \in Items(inbox) \cup Items(pending) : x < n

Waiting == Len(inbox) + Len(pending) + lost

LEMMA PathKeepsOrder ==
    ASSUME NEW n \in Nat, Queued(n), Path
    PROVE  /\ Queued(n)'
           /\ Items(inbox)' \cup Items(pending)' \subseteq Items(inbox) \cup Items(pending)
           /\ Waiting' = Waiting
<1>0. pending \in Seq(Nat) /\ inbox \in Seq(Nat) /\ lost \in Nat
  BY DEF Queued
<1>1. CASE Reply
  <2>1. /\ pending # <<>> /\ pending' = Tail(pending)
        /\ inbox' = Append(inbox, Head(pending)) /\ lost' = lost
    BY <1>1 DEF Reply
  <2>2. /\ Items(pending) = {Head(pending)} \cup Items(pending') /\ Head(pending) \in Nat
        /\ Increasing(pending') /\ \A y \in Items(pending') : Head(pending) < y
    BY <1>0, <2>1, OneLess DEF Queued
  <2>3. \A y \in Items(inbox) : y < Head(pending)
    BY <2>2 DEF Queued, Before
  <2>4. /\ Items(inbox') = Items(inbox) \cup {Head(pending)}
        /\ Increasing(inbox')
    BY <1>0, <2>1, <2>2, <2>3, OneMore DEF Queued
  <2>5. /\ pending' \in Seq(Nat) /\ inbox' \in Seq(Nat) /\ lost' \in Nat
        /\ Len(pending') = Len(pending) - 1 /\ Len(inbox') = Len(inbox) + 1
        /\ Len(pending) \in Nat /\ Len(inbox) \in Nat
    BY <1>0, <2>1, <2>2
  <2>6. Before(inbox', pending')
    BY <2>2, <2>4 DEF Queued, Before
  <2>7. Waiting' = Waiting
    BY ONLY <1>0, <2>1, <2>5 DEF Waiting
  <2> QED
    BY <2>2, <2>4, <2>5, <2>6, <2>7 DEF Queued
<1>2. CASE Lose
  <2>1. PICK i \in DOMAIN pending : pending' = RemoveAt(pending, i)
    BY <1>2 DEF Lose
  <2>2. lost' = lost + 1 /\ inbox' = inbox
    BY <1>2 DEF Lose
  <2>3. i \in 1 .. Len(pending)
    BY <1>0
  <2>4. /\ pending' \in Seq(Nat) /\ Len(pending') = Len(pending) - 1
        /\ Items(pending') \subseteq Items(pending)
        /\ Increasing(pending')
    BY <1>0, <2>1, <2>3, OneOut DEF Queued
  <2>5. Before(inbox', pending')
    BY <2>2, <2>4 DEF Queued, Before
  <2>6. Waiting' = Waiting
    <3>1. Len(pending) \in Nat /\ Len(inbox) \in Nat
      BY <1>0
    <3> QED
      BY ONLY <1>0, <2>2, <2>4, <3>1 DEF Waiting
  <2> QED
    BY <1>0, <2>2, <2>4, <2>5, <2>6 DEF Queued
<1> QED
  BY <1>1, <1>2 DEF Path

LEMMA RequestKeepsOrder ==
    ASSUME NEW n \in Nat, Queued(n), Request(n), inbox' = inbox
    PROVE  /\ Queued(n + 1)'
           /\ Items(inbox)' \cup Items(pending)' \subseteq Items(inbox) \cup Items(pending) \cup {n}
           /\ Waiting' = Waiting + 1
<1>0. pending \in Seq(Nat) /\ inbox \in Seq(Nat) /\ lost \in Nat
  BY DEF Queued
<1>0a. Len(pending) \in Nat /\ Len(inbox) \in Nat
  BY <1>0
<1>0b. \A x \in Items(inbox) \cup Items(pending) : x \in Nat /\ x < n /\ x < n + 1
  <2>1. Items(inbox) \subseteq Nat /\ Items(pending) \subseteq Nat
    BY <1>0, Facts
  <2> QED
    BY <2>1 DEF Queued
<1>1. CASE pending' = Append(pending, n) /\ lost' = lost
  <2>1. Items(pending') = Items(pending) \cup {n} /\ Increasing(pending')
    BY <1>0, <1>0b, <1>1, OneMore DEF Queued
  <2>2. pending' \in Seq(Nat) /\ Len(pending') = Len(pending) + 1
    BY <1>0, <1>1
  <2>3. Before(inbox', pending')
    BY <1>0b, <2>1 DEF Queued, Before
  <2>4. n < n + 1
    OBVIOUS
  <2>5. Waiting' = Waiting + 1
    BY ONLY <1>0, <1>0a, <1>1, <2>2, inbox' = inbox DEF Waiting
  <2> QED
    BY <1>0, <1>0b, <1>1, <2>1, <2>2, <2>3, <2>4, <2>5 DEF Queued
<1>2. CASE lost' = lost + 1 /\ pending' = pending
  <2>1. Waiting' = Waiting + 1
    BY ONLY <1>0, <1>0a, <1>2, inbox' = inbox DEF Waiting
  <2> QED
    BY <1>0, <1>0b, <1>2, <2>1 DEF Queued
<1> QED
  BY <1>1, <1>2 DEF Request

(* A reply taken from the socket is the first of all that are left. *)
LEMMA TakingKeepsOrder ==
    ASSUME NEW n \in Nat, Queued(n), inbox # <<>>, inbox' = Tail(inbox), pending' = pending,
           lost' = lost
    PROVE  /\ Queued(n)'
           /\ Head(inbox) \in Nat /\ Head(inbox) < n
           /\ Items(inbox) = {Head(inbox)} \cup Items(inbox)'
           /\ \A x \in Items(inbox)' \cup Items(pending)' : Head(inbox) < x
           /\ Waiting' + 1 = Waiting
<1>0. pending \in Seq(Nat) /\ inbox \in Seq(Nat) /\ lost \in Nat
  BY DEF Queued
<1>1. /\ Items(inbox) = {Head(inbox)} \cup Items(inbox') /\ Head(inbox) \in Nat
      /\ Increasing(inbox') /\ \A y \in Items(inbox') : Head(inbox) < y
  BY <1>0, OneLess DEF Queued
<1>2. /\ inbox' \in Seq(Nat) /\ Len(inbox') = Len(inbox) - 1
      /\ Len(pending) \in Nat /\ Len(inbox) \in Nat
  BY <1>0
<1>3. Waiting' + 1 = Waiting
  BY ONLY <1>0, <1>2, pending' = pending, lost' = lost DEF Waiting
<1> QED
  BY <1>0, <1>1, <1>2, <1>3 DEF Queued, Before

-----------------------------------------------------------------------------
(* The inductive invariant of the replay client.                            *)

Pcs == {"read", "wait", "add", "send", "drain", "flush", "final", "done", "failed"}

Packet == [seq : Nat, reset : BOOLEAN, deltas : Seq(Nat)]

TypeOK ==
    /\ speed \in BOOLEAN
    /\ pc \in Pcs
    /\ line \in Nat /\ seq \in Nat /\ received \in Nat /\ tries \in Nat
    /\ features \in Seq(Nat) /\ order \in Seq(Nat) /\ batch \in Seq(Nat)
    /\ sent \in Seq(Packet)
    /\ dumped \in Seq(Packet)
    /\ first \in BOOLEAN /\ due \in BOOLEAN /\ graceOver \in BOOLEAN

(* Packets are numbered from 0, the first resets, and none is empty. *)
Numbered ==
    /\ seq = Len(sent)
    /\ first <=> seq = 0
    /\ pc \in {"send", "flush"} => batch # <<>>
    /\ FirstPacketResets

(* There is room in the batch when a line is read, and nothing in it after  *)
(* a packet has gone.                                                       *)
Batched ==
    /\ pc \in {"read", "wait", "add"} => Len(batch) < Batch
    /\ pc \in {"drain", "final", "done"} => batch = <<>>
    /\ pc # "failed" => Deltas(sent) \o batch \o InHand = order

(* Replies and requests are in the order of their packets, and each is in   *)
(* one place: dumped, in the socket, or on the way.                         *)
InLine ==
    /\ Queued(seq)
    /\ Increasing(features)
    /\ \A x \in Items(features) :
          x < seq /\ \A y \in Items(inbox) \cup Items(pending) : x < y

(* Until the end of the file every packet sent is in the dump, and what has *)
(* been dumped stays there.                                                 *)
Dumped ==
    /\ pc \notin {"final", "done", "failed"} => dumped = sent
    /\ \A x \in Items(features) :
          x + 1 \in DOMAIN sent /\ x + 1 \in DOMAIN dumped /\ dumped[x + 1] = sent[x + 1]

(* Every datagram is accounted for; the wait for a time of the file, which  *)
(* counts its replies twice, is entered with --speed only.                  *)
Counted ==
    /\ pc = "wait" => speed
    /\ ~ speed => Len(features) + received + Waiting = Len(sent)
    /\ Len(features) + Waiting <= Len(sent)

IInv == TypeOK /\ Numbered /\ Batched /\ InLine /\ Dumped /\ Counted

-----------------------------------------------------------------------------
LEMMA InitIInv == Init => IInv
<1> SUFFICES ASSUME Init PROVE IInv
  OBVIOUS
<1>1. \A s : s = <<>> => /\ s \in Seq(Nat) /\ s \in Seq(Packet) /\ Len(s) = 0 /\ DOMAIN s = {}
                         /\ Items(s) = {} /\ Increasing(s)
  BY DEF Items, Increasing
<1>2. TypeOK
  BY <1>1 DEF Init, PathInit, TypeOK, Pcs
<1>3. Numbered
  BY <1>1 DEF Init, Numbered, FirstPacketResets
<1>4. Deltas(sent) \o batch \o InHand = order
  <2>1. Deltas(sent) = <<>>
    <3>1. sent = <<>> /\ DOMAIN sent = {}
      BY <1>1 DEF Init
    <3> DEFINE d == [i \in DOMAIN sent |-> sent[i].deltas]
    <3>2. d \in Seq(Nat) /\ Len(d) = 0
      BY <3>1
    <3>3. d = <<>>
      BY ONLY <3>2
    <3> QED
      BY <3>3, FlattenAppend, <<>> \in Seq(Nat), <<>> \in Seq(Seq(Nat)) DEF Deltas
  <2> QED
    BY <2>1 DEF Init, InHand
<1>5. Batched
  BY <1>1, <1>4, ReplayAssumption DEF Init, Batched
<1>6. InLine
  BY <1>1 DEF Init, PathInit, InLine, Queued, Before
<1>7. Dumped /\ Counted
  BY <1>1 DEF Init, PathInit, Dumped, Counted, Waiting
<1> QED
  BY <1>2, <1>3, <1>5, <1>6, <1>7 DEF IInv

LEMMA PacketTyped ==
    ASSUME TypeOK
    PROVE  NewPacket \in Packet /\ NewPacket.seq = seq /\ NewPacket.reset = first
           /\ NewPacket.deltas = batch
BY DEF TypeOK, NewPacket, Packet

LEMMA StepTyped ==
    ASSUME TypeOK, InLine, [Next]_vars
    PROVE  TypeOK'
<1>0. inbox \in Seq(Nat) /\ Len(inbox) \in Nat
  BY DEF InLine, Queued
<1>1. speed' = speed
  BY DEF Next, vars
<1>2. CASE UNCHANGED vars
  BY <1>2 DEF TypeOK, vars, fileVars, replyVars
<1>3. CASE SkipLine \/ EndOfFile \/ WaitFails \/ Network
  BY <1>1, <1>3 DEF TypeOK, SkipLine, EndOfFile, WaitFails, Network, fileVars, replyVars, Pcs
<1>4. CASE ReadLine
  BY <1>1, <1>4 DEF TypeOK, ReadLine, fileVars, replyVars, Pcs
<1>5. CASE Wait
  <2>1. features \o inbox \in Seq(Nat)
    BY <1>0, ConcatProperties DEF TypeOK
  <2>2. features' \in Seq(Nat) /\ received' \in Nat
    BY <1>0, <1>5, <2>1 DEF TypeOK, Wait
  <2>3. due' \in BOOLEAN /\ pc' \in Pcs
    BY <1>5 DEF TypeOK, Wait, Pcs
  <2>4. UNCHANGED <<line, order, batch, seq, first, sent, dumped, tries, graceOver>>
    BY <1>5 DEF Wait, fileVars
  <2> QED
    BY <1>1, <2>1, <2>2, <2>3, <2>4 DEF TypeOK
<1>6. CASE Add
  BY <1>1, <1>6 DEF TypeOK, Add, fileVars, replyVars, Pcs
<1>7. CASE Send \/ SendFails \/ Flush
  <2>1. Append(sent, NewPacket) \in Seq(Packet) /\ Append(dumped, NewPacket) \in Seq(Packet)
    BY PacketTyped, AppendProperties DEF TypeOK
  <2>2. sent' \in Seq(Packet) /\ dumped' \in Seq(Packet)
    BY <1>7, <2>1 DEF TypeOK, Send, SendFails, Flush
  <2>3. batch' \in Seq(Nat) /\ seq' \in Nat /\ first' \in BOOLEAN /\ tries' \in Nat /\ pc' \in Pcs
    <3>1. /\ batch' = <<>> \/ batch' = batch
          /\ seq' = seq \/ seq' = seq + 1
          /\ first' = FALSE \/ first' = first
          /\ tries' = tries \/ tries' = 0
          /\ pc' \in {"drain", "failed", "final"}
      BY <1>7 DEF Send, SendFails, Flush
    <3> QED
      <4>1. batch' \in Seq(Nat)
        BY <3>1, <<>> \in Seq(Nat) DEF TypeOK
      <4>2. seq' \in Nat /\ tries' \in Nat
        BY <3>1 DEF TypeOK
      <4>3. first' \in BOOLEAN /\ pc' \in Pcs
        BY <3>1 DEF TypeOK, Pcs
      <4> QED
        BY <4>1, <4>2, <4>3
  <2>4. UNCHANGED <<line, order, due, features, received, graceOver>>
    BY <1>7 DEF Send, SendFails, Flush, fileVars, replyVars
  <2> QED
    BY <1>1, <2>2, <2>3, <2>4 DEF TypeOK
<1>8. CASE Poll
  <2>1. inbox # <<>> => Head(inbox) \in Nat
    BY <1>0
  <2>2. features' \in Seq(Nat) /\ tries' \in Nat /\ pc' \in Pcs
    <3>1. inbox # <<>> => Append(features, Head(inbox)) \in Seq(Nat)
      BY <2>1, AppendProperties DEF TypeOK
    <3>2. features' = features \/ (inbox # <<>> /\ features' = Append(features, Head(inbox)))
      BY <1>8 DEF Poll
    <3>3. tries' \in {tries, tries + 1} /\ pc' \in {"drain", "read"}
      BY <1>8 DEF Poll
    <3>4. features' \in Seq(Nat)
      BY <3>1, <3>2 DEF TypeOK
    <3>5. tries' \in Nat /\ pc' \in Pcs
      BY <3>3 DEF TypeOK, Pcs
    <3> QED
      BY <3>4, <3>5
  <2>3. UNCHANGED <<line, order, due, batch, seq, first, sent, dumped, received, graceOver>>
    BY <1>8 DEF Poll, fileVars
  <2> QED
    BY <1>1, <2>2, <2>3 DEF TypeOK
<1>9. CASE FinalDrain
  BY <1>1, <1>9 DEF TypeOK, FinalDrain, fileVars, replyVars, Pcs
<1> QED
  BY <1>2, <1>3, <1>4, <1>5, <1>6, <1>7, <1>8, <1>9 DEF Next, Client

LEMMA StepNumbered ==
    ASSUME TypeOK, TypeOK', Numbered, [Next]_vars
    PROVE  Numbered'
<1>1. CASE UNCHANGED vars
  BY <1>1 DEF Numbered, FirstPacketResets, vars
<1>2. CASE /\ UNCHANGED <<seq, first, sent>>
           /\ pc' \in {"send", "flush"} => batch' # <<>>
  BY <1>2 DEF Numbered, FirstPacketResets
<1>3. CASE Send \/ Flush
  <2>1. /\ sent' = Append(sent, NewPacket) /\ seq' = seq + 1 /\ first' = FALSE
        /\ pc' \notin {"send", "flush"} /\ batch # <<>>
    BY <1>3 DEF Send, Flush, Numbered
  <2>2. /\ Len(sent) \in Nat /\ Len(sent') = Len(sent) + 1 /\ DOMAIN sent = 1 .. Len(sent)
        /\ DOMAIN sent' = 1 .. Len(sent) + 1
        /\ \A i \in 1 .. Len(sent) : sent'[i] = sent[i]
        /\ sent'[Len(sent) + 1] = NewPacket
    BY <2>1, PacketTyped DEF TypeOK
  <2>3. \A i \in 1 .. Len(sent) + 1 : i \in 1 .. Len(sent) \/ i = Len(sent) + 1
    BY <2>2
  <2>4. /\ NewPacket.seq = Len(sent) + 1 - 1
        /\ NewPacket.reset <=> Len(sent) + 1 = 1
        /\ NewPacket.deltas # <<>>
    BY <2>1, <2>2, PacketTyped DEF Numbered
  <2>5. FirstPacketResets'
    <3> SUFFICES ASSUME NEW i \in 1 .. Len(sent) + 1
                 PROVE  /\ sent'[i].seq = i - 1
                        /\ sent'[i].reset <=> i = 1
                        /\ sent'[i].deltas # <<>>
      BY <2>2 DEF FirstPacketResets
    <3>1. CASE i \in 1 .. Len(sent)
      BY <2>2, <3>1 DEF Numbered, FirstPacketResets
    <3>2. CASE i = Len(sent) + 1
      BY <2>2, <2>4, <3>2
    <3> QED
      BY <2>3, <3>1, <3>2
  <2>6. seq' = Len(sent') /\ (first' <=> seq' = 0)
    BY <2>1, <2>2 DEF Numbered
  <2> QED
    BY <2>1, <2>5, <2>6 DEF Numbered
<1>4. CASE SkipLine \/ ReadLine \/ EndOfFile \/ Wait \/ WaitFails \/ SendFails \/ Poll \/ FinalDrain
           \/ Network
  <2>1. UNCHANGED <<seq, first, sent>>
    BY <1>4 DEF SkipLine, ReadLine, EndOfFile, Wait, WaitFails, SendFails, Poll, FinalDrain, Network
  <2>2. pc' \in {"send", "flush"} => batch' # <<>>
    BY <1>4 DEF SkipLine, ReadLine, EndOfFile, Wait, WaitFails, SendFails, Poll, FinalDrain, Network,
                Numbered
  <2> QED
    BY <1>2, <2>1, <2>2
<1>5. CASE Add
  <2>1. UNCHANGED <<seq, first, sent>>
    BY <1>5 DEF Add
  <2>2. pc' \in {"send", "read"}
    BY <1>5 DEF Add
  <2>3. batch' # <<>>
    <3>0. batch \in Seq(Nat) /\ line \in Nat /\ Batch >= 1 /\ Batch \in Nat /\ Len(batch) \in Nat
      BY ReplayAssumption DEF TypeOK
    <3>1. Append(batch, line) # <<>>
      BY <3>0
    <3>2. Len(batch) >= Batch => batch # <<>>
      BY <3>0
    <3> QED
      BY <1>5, <3>0, <3>1, <3>2 DEF Add
  <2> QED
    BY <1>2, <2>1, <2>3
<1> QED
  BY <1>1, <1>3, <1>4, <1>5 DEF Next, Client

LEMMA DeltasAppend ==
    ASSUME NEW s \in Seq(Packet), NEW p \in Packet
    PROVE  Deltas(s) \in Seq(Nat) /\ Deltas(Append(s, p)) = Deltas(s) \o p.deltas
<1> DEFINE d == [i \in DOMAIN s |-> s[i].deltas]
           e == [i \in DOMAIN Append(s, p) |-> Append(s, p)[i].deltas]
<1>1. /\ Len(s) \in Nat /\ DOMAIN s = 1 .. Len(s) /\ \A i \in 1 .. Len(s) : s[i] \in Packet
      /\ DOMAIN Append(s, p) = 1 .. Len(s) + 1
      /\ \A i \in 1 .. Len(s) : Append(s, p)[i] = s[i]
      /\ Append(s, p)[Len(s) + 1] = p
  OBVIOUS
<1>2. d \in Seq(Seq(Nat)) /\ Len(d) = Len(s) /\ p.deltas \in Seq(Nat)
  <2>1. \A i \in 1 .. Len(s) : s[i].deltas \in Seq(Nat)
    BY <1>1 DEF Packet
  <2> QED
    BY <1>1, <2>1 DEF Packet
<1>3. e = Append(d, p.deltas)
  <2>1. /\ Append(d, p.deltas) = [i \in 1 .. Len(s) + 1 |-> Append(d, p.deltas)[i]]
        /\ \A i \in 1 .. Len(s) : Append(d, p.deltas)[i] = d[i]
        /\ Append(d, p.deltas)[Len(s) + 1] = p.deltas
    <3> HIDE DEF d
    <3> QED
      BY <1>1, <1>2
  <2>2. \A i \in 1 .. Len(s) : d[i] = s[i].deltas
    BY <1>1
  <2>3. e = [i \in 1 .. Len(s) + 1 |-> Append(s, p)[i].deltas]
    BY <1>1
  <2>4. \A i \in 1 .. Len(s) + 1 : Append(s, p)[i].deltas = Append(d, p.deltas)[i]
    <3> HIDE DEF d, e
    <3> SUFFICES ASSUME NEW i \in 1 .. Len(s) + 1
                 PROVE  Append(s, p)[i].deltas = Append(d, p.deltas)[i]
      OBVIOUS
    <3>1. CASE i \in 1 .. Len(s)
      BY ONLY <1>1, <2>1, <2>2, <3>1
    <3>2. CASE i = Len(s) + 1
      BY ONLY <1>1, <2>1, <3>2
    <3>3. i \in 1 .. Len(s) \/ i = Len(s) + 1
      BY ONLY <1>1, i \in 1 .. Len(s) + 1
    <3> QED
      BY <3>1, <3>2, <3>3
  <2> HIDE DEF d, e
  <2> QED
    BY ONLY <2>1, <2>3, <2>4
<1> HIDE DEF d, e
<1>4. FlattenSeq(d) \in Seq(Nat) /\ FlattenSeq(Append(d, p.deltas)) = FlattenSeq(d) \o p.deltas
  BY <1>2, FlattenAppend
<1> QED
  BY <1>3, <1>4 DEF Deltas, d, e

LEMMA StepBatched ==
    ASSUME TypeOK, Numbered, Batched, [Next]_vars
    PROVE  Batched'
<1> DEFINE D == Deltas(sent)
<1>0. /\ sent \in Seq(Packet) /\ NewPacket \in Packet /\ NewPacket.deltas = batch
      /\ batch \in Seq(Nat) /\ line \in Nat /\ Len(batch) \in Nat /\ D \in Seq(Nat)
      /\ Batch \in Nat /\ Batch >= 1
  BY PacketTyped, DeltasAppend, ReplayAssumption DEF TypeOK
<1>e. \A s \in Seq(Nat) : s \o <<>> = s /\ Len(<<>>) = 0
  OBVIOUS
<1> HIDE DEF D
<1>1. CASE UNCHANGED vars
  BY <1>1 DEF Batched, InHand, vars, fileVars, Deltas
<1>2. CASE UNCHANGED <<sent, batch, order, line>> /\ (pc \in {"wait", "add"} <=> pc' \in {"wait", "add"})
           /\ pc # "failed"
           /\ (pc' \in {"read", "wait", "add"} => pc \in {"read", "wait", "add", "drain"})
           /\ (pc' \in {"drain", "final", "done"} =>
                  pc \in {"drain", "final", "done"} \/ batch = <<>>)
  <2>1. InHand' = InHand /\ Deltas(sent)' = Deltas(sent)
    BY <1>2 DEF InHand
  <2>2. pc' \in {"read", "wait", "add"} => Len(batch') < Batch
    BY <1>0, <1>2, <1>e DEF Batched
  <2>3. pc' \in {"drain", "final", "done"} => batch' = <<>>
    BY <1>2 DEF Batched
  <2>4. Deltas(sent)' \o batch' \o InHand' = order'
    BY <1>2, <2>1 DEF Batched
  <2> QED
    BY <2>2, <2>3, <2>4 DEF Batched
<1>3. CASE SkipLine
  <2>1. pc = "read" /\ pc' = "read" /\ UNCHANGED <<sent, batch, order>>
    BY <1>3 DEF SkipLine
  <2>2. InHand' = InHand /\ Deltas(sent)' = Deltas(sent)
    BY <2>1 DEF InHand
  <2> QED
    BY <2>1, <2>2 DEF Batched
<1>4. CASE ReadLine
  <2>1. /\ pc = "read" /\ pc' \in {"wait", "add"} /\ UNCHANGED <<sent, batch>>
        /\ order' = Append(order, line')
    BY <1>4 DEF ReadLine
  <2>2. InHand = <<>> /\ InHand' = <<line'>> /\ Deltas(sent)' = D
    BY <2>1 DEF InHand, D
  <2>3. D \o batch = order
    <3>1. D \o batch \in Seq(Nat)
      BY <1>0, ConcatProperties
    <3> QED
      BY <1>e, <2>1, <2>2, <3>1 DEF Batched, D
  <2>4. D \o batch \o <<line'>> = Append(order, line')
    BY <2>3 DEF TypeOK
  <2> QED
    BY <2>1, <2>2, <2>4 DEF Batched
<1>5. CASE Wait \/ WaitFails
  BY <1>2, <1>5 DEF Wait, WaitFails, fileVars, Batched
<1>6. CASE Add
  <2>1. /\ pc = "add" /\ Len(batch) < Batch /\ batch' = Append(batch, line)
        /\ pc' \in {"send", "read"} /\ (pc' = "read" => ~ (Len(batch') >= Batch))
        /\ sent' = sent /\ order' = order
    BY <1>6 DEF Add, Batched, fileVars
  <2>2. InHand = <<line>> /\ InHand' = <<>> /\ Deltas(sent)' = D
    BY <2>1 DEF InHand, D
  <2>3. D \o Append(batch, line) = D \o batch \o <<line>>
    BY <1>0
  <2>4. D \o batch' \o <<>> = D \o batch'
    <3>1. batch' \in Seq(Nat)
      BY <1>0, <2>1
    <3>2. D \o batch' \in Seq(Nat)
      BY <1>0, <3>1, ConcatProperties
    <3> QED
      BY <1>e, <3>2
  <2>5. Deltas(sent)' \o batch' \o InHand' = order'
    BY <2>1, <2>2, <2>3, <2>4 DEF Batched, D
  <2>6. pc' = "read" => Len(batch') < Batch
    BY <1>0, <2>1
  <2> QED
    BY <2>1, <2>5, <2>6 DEF Batched
<1>7. CASE Send \/ Flush
  <2>1. /\ pc \in {"send", "flush"} /\ pc' \in {"drain", "final"} /\ batch' = <<>>
        /\ sent' = Append(sent, NewPacket) /\ order' = order
    BY <1>7 DEF Send, Flush, fileVars
  <2>2. InHand = <<>> /\ InHand' = <<>>
    BY <2>1 DEF InHand
  <2>3. Deltas(sent') = D \o batch
    BY <1>0, <2>1, DeltasAppend DEF D
  <2>4. D \o batch \in Seq(Nat)
    BY <1>0, ConcatProperties
  <2>5. Deltas(sent') \o <<>> \o <<>> = order
    <3>1. D \o batch \o <<>> = D \o batch
      BY <1>e, <2>4
    <3>2. D \o batch \o InHand = order
      BY <2>1 DEF Batched, D
    <3> QED
      BY <2>2, <2>3, <3>1, <3>2
  <2> QED
    BY <2>1, <2>2, <2>5 DEF Batched
<1>8. CASE SendFails
  BY <1>8 DEF SendFails, Batched
<1>9. CASE Poll \/ FinalDrain
  BY <1>2, <1>9 DEF Poll, FinalDrain, fileVars
<1>10. CASE EndOfFile
  BY <1>2, <1>10 DEF EndOfFile, fileVars
<1>11. CASE Network
  <2>1. UNCHANGED <<pc, sent, batch, order, line>>
    BY <1>11 DEF Network, fileVars
  <2> QED
    BY <2>1 DEF Batched, InHand
<1> QED
  BY <1>1, <1>3, <1>4, <1>5, <1>6, <1>7, <1>8, <1>9, <1>10, <1>11 DEF Next, Client

(* The replies taken in one round of the wait are all that there are. *)
LEMMA TakingAllKeepsOrder ==
    ASSUME NEW n \in Nat, Queued(n), inbox' = <<>>, pending' = pending, lost' = lost
    PROVE  Queued(n)' /\ Items(inbox)' = {} /\ Waiting' + Len(inbox) = Waiting
<1>1. Items(<<>>) = {} /\ Increasing(<<>>) /\ <<>> \in Seq(Nat) /\ Len(<<>>) = 0
  BY DEF Items, Increasing
<1>2. Len(inbox) \in Nat /\ Len(pending) \in Nat /\ lost \in Nat
  BY DEF Queued
<1>3. Waiting' + Len(inbox) = Waiting
  BY <1>1, <1>2 DEF Waiting
<1> QED
  BY <1>1, <1>3 DEF Queued, Before

LEMMA StepInLine ==
    ASSUME TypeOK, InLine, [Next]_vars
    PROVE  InLine'
<1>0. /\ seq \in Nat /\ features \in Seq(Nat) /\ Queued(seq)
      /\ inbox \in Seq(Nat) /\ pending \in Seq(Nat)
      /\ Items(features) \subseteq Nat
  BY Facts DEF TypeOK, InLine, Queued
<1>1. CASE UNCHANGED <<inbox, pending, lost, seq, features>>
  BY <1>1 DEF InLine, Queued
<1>2. CASE UNCHANGED vars
  BY <1>1, <1>2 DEF vars, pathVars, replyVars
<1>3. CASE SkipLine \/ ReadLine \/ EndOfFile \/ WaitFails \/ Add \/ SendFails
  BY <1>1, <1>3 DEF SkipLine, ReadLine, EndOfFile, WaitFails, Add, SendFails, pathVars, replyVars
<1>4. CASE Wait
  <2>1. /\ features' = features \o inbox /\ inbox' = <<>> /\ pending' = pending /\ lost' = lost
        /\ seq' = seq
    BY <1>4 DEF Wait
  <2>2. Queued(seq)' /\ Items(inbox)' = {}
    BY <1>0, <2>1, TakingAllKeepsOrder DEF Queued
  <2>3. Before(features, inbox)
    BY DEF InLine, Before
  <2>4. Items(features') = Items(features) \cup Items(inbox) /\ Increasing(features')
    BY <1>0, <2>1, <2>3, Joined DEF InLine, Queued
  <2>5. \A x \in Items(features') : x < seq /\ \A y \in Items(pending) : x < y
    BY <2>4 DEF InLine, Queued, Before
  <2> QED
    BY <2>1, <2>2, <2>4, <2>5 DEF InLine
<1>5. CASE Send \/ Flush
  <2>1. Request(seq) /\ seq' = seq + 1 /\ inbox' = inbox /\ features' = features
    BY <1>5 DEF Send, Flush, replyVars
  <2>2. PICK n \in Nat : n = seq
    BY <1>0
  <2>3. /\ Queued(seq)'
        /\ Items(inbox)' \cup Items(pending)' \subseteq Items(inbox) \cup Items(pending) \cup {seq}
    <3>1. Queued(n) /\ Request(n) /\ n + 1 = seq'
      BY <1>0, <2>1, <2>2
    <3>2. /\ Queued(n + 1)'
          /\ Items(inbox)' \cup Items(pending)' \subseteq Items(inbox) \cup Items(pending) \cup {n}
      BY <2>1, <2>2, <3>1, RequestKeepsOrder
    <3> QED
      BY <2>2, <3>1, <3>2 DEF Queued
  <2>4. \A x \in Items(features) : x < seq + 1 /\ \A y \in Items(inbox)' \cup Items(pending)' : x < y
    <3>1. \A x \in Items(features) : x \in Nat /\ x < seq
      BY <1>0 DEF InLine
    <3>2. \A x \in Items(features) : x < seq + 1
      BY <1>0, <3>1
    <3> QED
      BY <2>3, <3>1, <3>2 DEF InLine
  <2> QED
    BY <2>1, <2>3, <2>4 DEF InLine
<1>6. CASE Poll \/ FinalDrain
  <2>1. CASE UNCHANGED <<inbox, features>>
    <3>1. UNCHANGED <<pending, lost, seq>>
      BY <1>6 DEF Poll, FinalDrain
    <3> QED
      BY <1>1, <2>1, <3>1
  <2>2. CASE /\ inbox # <<>> /\ inbox' = Tail(inbox)
             /\ features' = features \/ features' = Append(features, Head(inbox))
    <3>1. UNCHANGED <<pending, lost, seq>>
      BY <1>6 DEF Poll, FinalDrain
    <3>2. /\ Queued(seq)' /\ Head(inbox) \in Nat /\ Head(inbox) < seq
          /\ Items(inbox) = {Head(inbox)} \cup Items(inbox)'
          /\ \A x \in Items(inbox)' \cup Items(pending)' : Head(inbox) < x
      BY <1>0, <2>2, <3>1, TakingKeepsOrder DEF Queued
    <3>3. Items(pending)' = Items(pending)
      BY <3>1
    <3>4. \A y \in Items(features) : y < Head(inbox)
      BY <3>2 DEF InLine
    <3>5. /\ Items(Append(features, Head(inbox))) = Items(features) \cup {Head(inbox)}
          /\ Increasing(Append(features, Head(inbox)))
      BY <1>0, <3>2, <3>4, OneMore DEF InLine
    <3>6. Increasing(features') /\ Items(features') \subseteq Items(features) \cup {Head(inbox)}
      BY <2>2, <3>5 DEF InLine
    <3>7. \A x \in Items(features') :
             x < seq /\ \A y \in Items(inbox)' \cup Items(pending)' : x < y
      BY <3>2, <3>3, <3>6 DEF InLine
    <3>8. Queued(seq)' /\ seq' = seq
      BY <3>1, <3>2
    <3> QED
      BY <3>6, <3>7, <3>8 DEF InLine
  <2> QED
    BY <1>6, <2>1, <2>2 DEF Poll, FinalDrain
<1>7. CASE Network
  <2>1. Path /\ UNCHANGED <<seq, features>>
    BY <1>7 DEF Network, replyVars
  <2>2. /\ Queued(seq)'
        /\ Items(inbox)' \cup Items(pending)' \subseteq Items(inbox) \cup Items(pending)
    BY <1>0, <2>1, PathKeepsOrder DEF Queued
  <2> QED
    BY <2>1, <2>2 DEF InLine
<1> QED
  BY <1>2, <1>3, <1>4, <1>5, <1>6, <1>7 DEF Next, Client

LEMMA StepDumped ==
    ASSUME TypeOK, Numbered, InLine, Dumped, [Next]_vars
    PROVE  Dumped'
<1>0. /\ Items(features) \subseteq Nat /\ Items(inbox) \subseteq Nat
      /\ Len(sent) \in Nat /\ DOMAIN sent = 1 .. Len(sent) /\ seq = Len(sent)
      /\ features \in Seq(Nat) /\ inbox \in Seq(Nat)
      /\ Len(dumped) \in Nat /\ DOMAIN dumped = 1 .. Len(dumped)
  BY Facts DEF TypeOK, InLine, Queued, Numbered
<1>1. CASE /\ UNCHANGED <<sent, dumped, features>>
           /\ pc' \notin {"final", "done", "failed"} => pc \notin {"final", "done", "failed"}
  BY <1>1 DEF Dumped
<1>2. CASE UNCHANGED vars
  BY <1>1, <1>2 DEF vars, replyVars
<1>3. CASE SkipLine \/ ReadLine \/ EndOfFile \/ WaitFails \/ Add \/ FinalDrain \/ Network
  BY <1>1, <1>3
     DEF SkipLine, ReadLine, EndOfFile, WaitFails, Add, FinalDrain, Network, replyVars, Dumped
<1>4. CASE /\ pc \notin {"final", "done", "failed"} /\ sent' = sent /\ dumped' = dumped
           /\ Items(features') \subseteq Items(features) \cup Items(inbox)
  <2>1. dumped = sent
    BY <1>4 DEF Dumped
  <2>2. \A x \in Items(features') : x \in Nat /\ x < Len(sent)
    BY <1>0, <1>4 DEF InLine, Queued
  <2>3. \A x \in Items(features') : x + 1 \in 1 .. Len(sent)
    BY <1>0, <2>2
  <2> QED
    BY <1>0, <1>4, <2>1, <2>3 DEF Dumped
<1>5. CASE Wait
  <2>1. Items(features \o inbox) = Items(features) \cup Items(inbox)
    BY <1>0, Joined
  <2> QED
    BY <1>4, <1>5, <2>1 DEF Wait
<1>6. CASE Poll
  <2>1. /\ pc = "drain" /\ sent' = sent /\ dumped' = dumped
        /\ \/ features' = features
           \/ inbox # <<>> /\ features' = Append(features, Head(inbox))
    BY <1>6 DEF Poll
  <2>2. inbox # <<>> => /\ Head(inbox) \in Nat /\ Head(inbox) \in Items(inbox)
    BY <1>0, OneLess
  <2>3. inbox # <<>> => Items(Append(features, Head(inbox))) = Items(features) \cup {Head(inbox)}
    BY <1>0, <2>2, OneMore
  <2> QED
    BY <1>4, <2>1, <2>2, <2>3
<1>7. CASE Send \/ Flush \/ SendFails
  <2>1. /\ features' = features
        /\ sent' = sent \/ sent' = Append(sent, NewPacket)
        /\ dumped' = dumped \/ dumped' = Append(dumped, NewPacket)
    BY <1>7 DEF Send, Flush, SendFails, replyVars
  <2>2. \A s \in Seq(Packet) : \A i \in DOMAIN s :
           i \in DOMAIN Append(s, NewPacket) /\ Append(s, NewPacket)[i] = s[i]
    BY PacketTyped
  <2>3. \A i \in DOMAIN sent : i \in DOMAIN sent' /\ sent'[i] = sent[i]
    BY <2>1, <2>2 DEF TypeOK
  <2>4. \A i \in DOMAIN dumped : i \in DOMAIN dumped' /\ dumped'[i] = dumped[i]
    BY <2>1, <2>2 DEF TypeOK
  <2>5. pc' \notin {"final", "done", "failed"} => dumped' = sent'
    BY <1>7 DEF Send, Flush, SendFails, Dumped
  <2> QED
    BY <2>1, <2>3, <2>4, <2>5 DEF Dumped
<1> QED
  BY <1>2, <1>3, <1>5, <1>6, <1>7 DEF Next, Client

LEMMA StepCounted ==
    ASSUME TypeOK, InLine, Counted, [Next]_vars
    PROVE  Counted'
<1>0. /\ Queued(seq) /\ seq \in Nat /\ Len(features) \in Nat /\ received \in Nat /\ Len(sent) \in Nat
      /\ inbox \in Seq(Nat) /\ Len(inbox) \in Nat /\ Len(pending) \in Nat /\ lost \in Nat
      /\ features \in Seq(Nat)
  BY DEF TypeOK, InLine, Queued
<1>w. Waiting \in Nat
  BY <1>0 DEF Waiting
<1>s. speed' = speed
  BY DEF Next, vars
<1>1. CASE /\ UNCHANGED <<pending, inbox, lost, sent, features, received>>
           /\ pc' = "wait" => speed
  BY <1>1, <1>s DEF Counted, Waiting
<1>2. CASE UNCHANGED vars
  BY <1>1, <1>2 DEF vars, replyVars, pathVars, Counted
<1>3. CASE SkipLine \/ ReadLine \/ EndOfFile \/ WaitFails \/ Add \/ SendFails
  BY <1>1, <1>3
     DEF SkipLine, ReadLine, EndOfFile, WaitFails, Add, SendFails, replyVars, pathVars, Counted
<1>4. CASE Wait
  <2>1. /\ pc = "wait" /\ features' = features \o inbox /\ inbox' = <<>> /\ pending' = pending
        /\ lost' = lost /\ sent' = sent
    BY <1>4 DEF Wait
  <2>2. Waiting' + Len(inbox) = Waiting
    BY <1>0, <2>1, TakingAllKeepsOrder
  <2>3. Len(features') = Len(features) + Len(inbox)
    BY <1>0, <2>1, Joined
  <2>4. Waiting' \in Nat
    BY <1>0, <2>1 DEF Waiting
  <2>5. Len(features') + Waiting' <= Len(sent)
    BY ONLY <1>0, <1>w, <2>2, <2>3, <2>4, Counted DEF Counted
  <2> QED
    BY <1>s, <2>1, <2>5 DEF Counted
<1>5. CASE Send \/ Flush
  <2>1. /\ Request(seq) /\ inbox' = inbox /\ UNCHANGED <<features, received>>
        /\ sent' = Append(sent, NewPacket) /\ pc' # "wait"
    BY <1>5 DEF Send, Flush, replyVars
  <2>2. Waiting' = Waiting + 1
    BY <1>0, <2>1, RequestKeepsOrder
  <2>3. Len(sent') = Len(sent) + 1
    BY <2>1, PacketTyped DEF TypeOK
  <2> QED
    BY ONLY <1>0, <1>w, <1>s, <2>1, <2>2, <2>3, Counted DEF Counted
<1>6. CASE Poll \/ FinalDrain
  <2>1. CASE UNCHANGED <<inbox, features, received>>
    BY <1>1, <1>6, <2>1 DEF Poll, FinalDrain
  <2>2. CASE /\ inbox # <<>> /\ inbox' = Tail(inbox)
             /\ \/ features' = Append(features, Head(inbox)) /\ received' = received
                \/ features' = features /\ received' = received + 1
    <3>1. UNCHANGED <<pending, lost, sent>> /\ pc' # "wait"
      BY <1>6 DEF Poll, FinalDrain
    <3>2. Waiting' + 1 = Waiting /\ Head(inbox) \in Nat
      BY <1>0, <2>2, <3>1, TakingKeepsOrder
    <3>3. \/ Len(features') = Len(features) + 1 /\ received' = received
          \/ Len(features') = Len(features) /\ received' = received + 1
      BY <1>0, <2>2, <3>2
    <3>4. Waiting' \in Nat /\ Len(features') \in Nat /\ received' \in Nat
      <4>1. inbox' \in Seq(Nat)
        BY <1>0, <2>2
      <4> QED
        BY <1>0, <2>2, <3>1, <3>3, <4>1 DEF Waiting
    <3>5. /\ Len(features') + received' + Waiting' = Len(features) + received + Waiting
          /\ Len(features') + Waiting' <= Len(features) + Waiting
      <4> DEFINE a == Len(features)
                 b == Len(features')
                 w == Waiting
                 v == Waiting'
                 r == received
                 q == received'
      <4>1. /\ {a, b, w, v, r, q} \subseteq Nat /\ v + 1 = w
            /\ (b = a + 1 /\ q = r) \/ (b = a /\ q = r + 1)
        BY <1>0, <1>w, <3>2, <3>3, <3>4
      <4> HIDE DEF a, b, w, v, r, q
      <4>2. b + q + v = a + r + w /\ b + v <= a + w
        BY ONLY <4>1
      <4> QED
        BY ONLY <4>2 DEF a, b, w, v, r, q
    <3>6. Len(features') + Waiting' <= Len(sent)
      BY ONLY <1>0, <1>w, <3>4, <3>5, Counted DEF Counted
    <3> QED
      BY <1>s, <3>1, <3>5, <3>6 DEF Counted
  <2> QED
    BY <1>6, <2>1, <2>2 DEF Poll, FinalDrain
<1>7. CASE Network
  <2>1. Path /\ UNCHANGED <<pc, sent, features, received>>
    BY <1>7 DEF Network, replyVars
  <2>2. Waiting' = Waiting
    BY <1>0, <2>1, PathKeepsOrder
  <2> QED
    BY <1>s, <2>1, <2>2 DEF Counted
<1> QED
  BY <1>2, <1>3, <1>4, <1>5, <1>6, <1>7 DEF Next, Client

(* The replay client: numbers, batches, the order of replies, the dumps and *)
(* the counters (replay-udp.c, mode lob) are always as described above.     *)
THEOREM ClientInvariant == Spec => []IInv
<1>1. Init => IInv
  BY InitIInv
<1>2. IInv /\ [Next]_vars => IInv'
  BY StepTyped, StepNumbered, StepBatched, StepInLine, StepDumped, StepCounted DEF IInv
<1> QED
  BY <1>1, <1>2, PTL DEF Spec

(* For every file, batch size, pacing and loss: each delta that was read is *)
(* in exactly one packet or still in the batch, in the order of the file,   *)
(* and nothing is left at the end (replay-udp.c:322, 414).                  *)
THEOREM EventsGoOnceInOrder == Spec => []EventsOnceInOrder
<1>1. IInv => EventsOnceInOrder
  BY DEF IInv, Batched, EventsOnceInOrder
<1> QED
  BY <1>1, ClientInvariant, PTL

(* The reset bit is in the first packet and in no other, sequence numbers   *)
(* have no gap, and no packet is empty (replay-udp.c:345, 414).             *)
THEOREM OnlyTheFirstResets == Spec => []FirstPacketResets
<1>1. IInv => FirstPacketResets
  BY DEF IInv, Numbered
<1> QED
  BY <1>1, ClientInvariant, PTL

(* A reply in the dump of features has its packet in the dump of packets,   *)
(* as it was sent: the join of the validator never lacks a row.             *)
THEOREM FeaturesCanBeJoined == Spec => []FeaturesHaveDeltas
<1>1. ASSUME IInv
      PROVE  FeaturesHaveDeltas
  <2> SUFFICES ASSUME NEW i \in DOMAIN features
               PROVE  \E j \in DOMAIN dumped :
                         dumped[j].seq = features[i] /\ dumped[j] = sent[features[i] + 1]
    BY DEF FeaturesHaveDeltas
  <2> DEFINE x == features[i]
  <2>1. x \in Items(features) /\ x \in Nat
    BY <1>1 DEF Items, IInv, TypeOK
  <2>2. x + 1 \in DOMAIN sent /\ x + 1 \in DOMAIN dumped /\ dumped[x + 1] = sent[x + 1]
    BY <1>1, <2>1 DEF IInv, Dumped
  <2>3. sent[x + 1].seq = x
    BY <1>1, <2>1, <2>2 DEF IInv, Numbered, FirstPacketResets
  <2> QED
    BY <2>2, <2>3
<1> QED
  BY <1>1, ClientInvariant, PTL

(* No reply is dumped twice, and requests and replies add up to the packets *)
(* sent, whichever of the three loops takes a reply.                        *)
THEOREM RepliesAreDumpedOnce == Spec => []RepliesDumpedOnce
<1>1. ASSUME IInv
      PROVE  RepliesDumpedOnce
  <2>1. features \in Seq(Nat) /\ Increasing(features)
    BY <1>1 DEF IInv, TypeOK, InLine
  <2>2. \A i, j \in DOMAIN features : i < j \/ j < i \/ i = j
    BY <2>1
  <2>3. \A i \in DOMAIN features : features[i] \in Nat
    BY <2>1
  <2>4. IsInjective(features)
    BY <2>1, <2>2, <2>3 DEF IsInjective, Increasing
  <2>5. /\ Len(features) \in Nat /\ Len(inbox) \in Nat /\ Len(pending) \in Nat /\ lost \in Nat
        /\ received \in Nat
    BY <1>1, <2>1 DEF IInv, TypeOK, InLine, Queued
  <2>6. /\ ~ speed => Len(features) + received + Waiting = Len(sent)
        /\ Len(features) + Waiting <= Len(sent)
    BY <1>1 DEF IInv, Counted
  <2>7. /\ Len(features) + received + Waiting
              = Len(features) + received + Len(inbox) + Len(pending) + lost
        /\ Len(features) + Waiting = Len(features) + Len(inbox) + Len(pending) + lost
    BY ONLY <2>5 DEF Waiting
  <2> QED
    BY <2>4, <2>6, <2>7 DEF RepliesDumpedOnce
<1> QED
  BY <1>1, ClientInvariant, PTL

-----------------------------------------------------------------------------
(* The latency client on the same path (module LobStream).                  *)

LobRow == [seq : Nat, t1 : Nat, t5 : Nat]

MeasuredPackets == {rows[i].seq : i \in DOMAIN rows}

(* Every packet has a time of sending that has passed, and the dictionary   *)
(* agrees with it.                                                          *)
LobTimes ==
    /\ clock \in Nat
    /\ DOMAIN sentAt = 0 .. nsent - 1
    /\ \A p \in 0 .. nsent - 1 : sentAt[p] \in Nat /\ sentAt[p] < clock
    /\ \A p \in DOMAIN pending_sends : pending_sends[p] = sentAt[p]
    /\ \A i \in DOMAIN rows : rows[i].t1 = sentAt[rows[i].seq] /\ rows[i].t1 < rows[i].t5

(* A row for each reply that was taken, in the order of the packets, all    *)
(* before what is still on the path; a sending time for every other packet. *)
LobInv ==
    /\ nsent \in Nat /\ nreceived \in Nat /\ rows \in Seq(LobRow)
    /\ Queued(nsent)
    /\ LobTimes
    /\ \A i, j \in DOMAIN rows : i < j => rows[i].seq < rows[j].seq
    /\ \A x \in MeasuredPackets :
          x < nsent /\ \A y \in Items(inbox) \cup Items(pending) : x < y
    /\ DOMAIN pending_sends = (0 .. nsent - 1) \ MeasuredPackets
    /\ Len(rows) = nreceived
    /\ nreceived + Waiting = nsent

LEMMA LobStart == LobInit => LobInv
<1> SUFFICES ASSUME LobInit PROVE LobInv
  OBVIOUS
<1>1. /\ pending = <<>> /\ inbox = <<>> /\ lost = 0 /\ nsent = 0 /\ nreceived = 0
      /\ DOMAIN pending_sends = {} /\ rows = <<>> /\ clock = 0 /\ DOMAIN sentAt = {}
  BY DEF LobInit, PathInit
<1>2. \A s : s = <<>> => /\ s \in Seq(Nat) /\ s \in Seq(LobRow) /\ Len(s) = 0 /\ DOMAIN s = {}
                         /\ Items(s) = {} /\ Increasing(s)
  BY DEF Items, Increasing
<1>3. MeasuredPackets = {} /\ 0 .. 0 - 1 = {}
  BY <1>1, <1>2 DEF MeasuredPackets
<1>4. Queued(nsent) /\ Waiting = 0
  BY <1>1, <1>2 DEF Queued, Before, Waiting
<1>5. LobTimes
  BY <1>1, <1>2, <1>3 DEF LobTimes
<1> QED
  BY <1>1, <1>2, <1>3, <1>4, <1>5 DEF LobInv

LEMMA LobTyped ==
    ASSUME LobInv
    PROVE  /\ Len(rows) \in Nat /\ DOMAIN rows = 1 .. Len(rows)
           /\ \A i \in 1 .. Len(rows) : rows[i].seq \in Nat
           /\ MeasuredPackets \subseteq Nat
           /\ inbox \in Seq(Nat) /\ pending \in Seq(Nat) /\ lost \in Nat /\ Waiting \in Nat
<1>1. rows \in Seq(LobRow) /\ inbox \in Seq(Nat) /\ pending \in Seq(Nat) /\ lost \in Nat
  BY DEF LobInv, Queued
<1>2. Len(rows) \in Nat /\ DOMAIN rows = 1 .. Len(rows) /\ \A i \in 1 .. Len(rows) : rows[i] \in LobRow
  BY <1>1
<1>3. \A i \in 1 .. Len(rows) : rows[i].seq \in Nat
  BY <1>2 DEF LobRow
<1>4. Waiting \in Nat
  BY <1>1 DEF Waiting
<1> QED
  BY <1>1, <1>2, <1>3, <1>4 DEF MeasuredPackets

LEMMA LobStep ==
    ASSUME LobInv, [LobNext]_lobVars
    PROVE  LobInv'
<1>0. /\ Len(rows) \in Nat /\ DOMAIN rows = 1 .. Len(rows)
      /\ \A i \in 1 .. Len(rows) : rows[i].seq \in Nat
      /\ MeasuredPackets \subseteq Nat
      /\ inbox \in Seq(Nat) /\ pending \in Seq(Nat) /\ lost \in Nat /\ Waiting \in Nat
      /\ nsent \in Nat /\ nreceived \in Nat /\ Queued(nsent)
  BY LobTyped DEF LobInv
<1>1. CASE UNCHANGED <<pending, inbox, lost, clock, nsent, nreceived, pending_sends, rows, sentAt>>
  BY <1>1 DEF LobInv, LobTimes, Queued, Waiting, MeasuredPackets
<1>2. CASE UNCHANGED lobVars \/ Timeout
  BY <1>1, <1>2 DEF lobVars, clientVars, pathVars, Timeout
<1>3. CASE SendPacket
  <2>1. /\ Request(nsent) /\ inbox' = inbox /\ nsent' = nsent + 1 /\ nreceived' = nreceived
        /\ rows' = rows /\ clock' = clock + 1
        /\ pending_sends' = Put(pending_sends, nsent, clock)
        /\ sentAt' = Put(sentAt, nsent, clock)
    BY <1>3 DEF SendPacket
  <2>2. PICK n \in Nat : n = nsent
    BY <1>0
  <2>3. /\ Queued(n + 1)'
        /\ Items(inbox)' \cup Items(pending)' \subseteq Items(inbox) \cup Items(pending) \cup {n}
        /\ Waiting' = Waiting + 1
    <3>1. Queued(n) /\ Request(n)
      BY <1>0, <2>1, <2>2
    <3> QED
      BY <2>1, <2>2, <3>1, RequestKeepsOrder
  <2>4. Queued(nsent)'
    BY <2>1, <2>2, <2>3 DEF Queued
  <2>5. MeasuredPackets' = MeasuredPackets
    BY <2>1 DEF MeasuredPackets
  <2>6. \A x \in MeasuredPackets :
           x # nsent /\ x < nsent + 1 /\ \A y \in Items(inbox)' \cup Items(pending)' : x < y
    <3>1. \A x \in MeasuredPackets :
             x \in Nat /\ x < nsent /\ \A y \in Items(inbox) \cup Items(pending) : x < y
      BY <1>0 DEF LobInv
    <3>2. \A x \in Nat : x < nsent => x # nsent /\ x < nsent + 1
      BY <1>0
    <3> QED
      BY <2>2, <2>3, <3>1, <3>2
  <2>7. DOMAIN pending_sends' = (0 .. nsent' - 1) \ MeasuredPackets
    <3>1. 0 .. nsent' - 1 = (0 .. nsent - 1) \cup {nsent}
      BY <1>0, <2>1
    <3>2. DOMAIN pending_sends' = DOMAIN pending_sends \cup {nsent}
      BY <2>1 DEF Put
    <3> QED
      BY <2>6, <3>1, <3>2 DEF LobInv
  <2>8. nreceived' + Waiting' = nsent'
    BY <1>0, <2>1, <2>3 DEF LobInv
  <2>9. nsent' \in Nat /\ \A x \in MeasuredPackets' :
           x < nsent' /\ \A y \in Items(inbox)' \cup Items(pending)' : x < y
    BY <1>0, <2>1, <2>5, <2>6
  <2>10. LobTimes'
    <3>1. /\ clock \in Nat /\ DOMAIN sentAt = 0 .. nsent - 1
          /\ \A p \in 0 .. nsent - 1 : sentAt[p] \in Nat /\ sentAt[p] < clock
          /\ \A p \in DOMAIN pending_sends : pending_sends[p] = sentAt[p]
          /\ \A i \in DOMAIN rows : rows[i].t1 = sentAt[rows[i].seq] /\ rows[i].t1 < rows[i].t5
      BY DEF LobInv, LobTimes
    <3>2. clock' \in Nat /\ clock < clock' /\ \A x \in Nat : x < clock => x < clock'
      BY <2>1, <3>1
    <3>3. 0 .. nsent' - 1 = (0 .. nsent - 1) \cup {nsent} /\ nsent \notin 0 .. nsent - 1
      BY <1>0, <2>1
    <3>4. /\ DOMAIN sentAt' = 0 .. nsent' - 1
          /\ sentAt'[nsent] = clock
          /\ \A p \in 0 .. nsent - 1 : sentAt'[p] = sentAt[p]
      BY <2>1, <3>1, <3>3 DEF Put
    <3>5. \A p \in 0 .. nsent' - 1 : sentAt'[p] \in Nat /\ sentAt'[p] < clock'
      BY <3>1, <3>2, <3>3, <3>4
    <3>6. DOMAIN pending_sends \subseteq 0 .. nsent - 1
      BY DEF LobInv
    <3>7. \A p \in DOMAIN pending_sends' : pending_sends'[p] = sentAt'[p]
      BY <2>1, <3>1, <3>3, <3>4, <3>6 DEF Put
    <3>8. \A i \in DOMAIN rows : rows[i].seq \in 0 .. nsent - 1
      <4>1. \A i \in DOMAIN rows : rows[i].seq \in Nat /\ rows[i].seq < nsent
        BY <1>0 DEF LobInv, MeasuredPackets
      <4> QED
        BY <1>0, <4>1
    <3> QED
      BY <2>1, <3>1, <3>2, <3>4, <3>5, <3>7, <3>8 DEF LobTimes
  <2> QED
    BY <2>1, <2>4, <2>5, <2>7, <2>8, <2>9, <2>10 DEF LobInv
<1>4. CASE Receive
  <2> DEFINE reply == Head(inbox)
             row == [seq |-> reply, t1 |-> pending_sends[reply], t5 |-> clock]
  <2>1. inbox # <<>> /\ inbox' = Tail(inbox) /\ nreceived' = nreceived + 1
        /\ pending' = pending /\ lost' = lost /\ nsent' = nsent
        /\ clock' = clock + 1 /\ sentAt' = sentAt
    BY <1>4 DEF Receive, Taken
  <2>2. PICK n \in Nat : n = nsent
    BY <1>0
  <2>3. /\ Queued(n)' /\ reply \in Nat /\ reply < n
        /\ Items(inbox) = {reply} \cup Items(inbox)'
        /\ \A x \in Items(inbox)' \cup Items(pending)' : reply < x
        /\ Waiting' + 1 = Waiting
    <3>1. Queued(n)
      BY <1>0, <2>2
    <3> QED
      BY <2>1, <2>2, <3>1, TakingKeepsOrder
  <2>4. Queued(nsent)'
    BY <2>1, <2>2, <2>3 DEF Queued
  <2>5. \A x \in MeasuredPackets : x < reply
    BY <2>3 DEF LobInv
  <2>6. reply \in DOMAIN pending_sends /\ reply \in 0 .. nsent - 1
    <3>1. reply \in 0 .. nsent - 1
      BY <1>0, <2>2, <2>3
    <3>2. reply \notin MeasuredPackets
      BY <2>3, <2>5
    <3> QED
      BY <3>1, <3>2 DEF LobInv
  <2>7. rows' = Append(rows, row) /\ pending_sends' = Pop(pending_sends, reply)
    BY <1>4, <2>6 DEF Receive, Taken, NewRow
  <2>18. clock \in Nat /\ pending_sends[reply] = sentAt[reply]
         /\ sentAt[reply] \in Nat /\ sentAt[reply] < clock
    BY <2>6 DEF LobInv, LobTimes
  <2>8. row \in LobRow /\ row.seq = reply /\ row.t1 = sentAt[reply] /\ row.t1 < row.t5
    BY <2>3, <2>18 DEF LobRow
  <2> HIDE DEF row
  <2>9. /\ rows' \in Seq(LobRow) /\ Len(rows') = Len(rows) + 1 /\ DOMAIN rows' = 1 .. Len(rows) + 1
        /\ \A i \in 1 .. Len(rows) : rows'[i] = rows[i]
        /\ rows'[Len(rows) + 1] = row
    BY <1>0, <2>7, <2>8, AppendProperties DEF LobInv
  <2>10. /\ \A i \in 1 .. Len(rows) + 1 : i \in 1 .. Len(rows) \/ i = Len(rows) + 1
         /\ \A i \in 1 .. Len(rows) : i \in 1 .. Len(rows) + 1 /\ i < Len(rows) + 1
         /\ \A i, j \in 1 .. Len(rows) + 1 : i < j => i \in 1 .. Len(rows)
         /\ Len(rows) + 1 \in 1 .. Len(rows) + 1
    BY <1>0
  <2>11. MeasuredPackets' = MeasuredPackets \cup {reply}
    <3>1. \A x \in MeasuredPackets' : x \in MeasuredPackets \cup {reply}
      BY <1>0, <2>8, <2>9, <2>10 DEF MeasuredPackets
    <3>2. \A x \in MeasuredPackets \cup {reply} : x \in MeasuredPackets'
      BY <1>0, <2>8, <2>9, <2>10 DEF MeasuredPackets
    <3> QED
      BY <3>1, <3>2
  <2>12. LobTimes'
    <3>1. /\ DOMAIN sentAt = 0 .. nsent - 1
          /\ \A p \in 0 .. nsent - 1 : sentAt[p] \in Nat /\ sentAt[p] < clock
          /\ \A p \in DOMAIN pending_sends : pending_sends[p] = sentAt[p]
          /\ \A i \in DOMAIN rows : rows[i].t1 = sentAt[rows[i].seq] /\ rows[i].t1 < rows[i].t5
      BY DEF LobInv, LobTimes
    <3>2. clock' \in Nat /\ \A x \in Nat : x < clock => x < clock'
      BY <2>1, <2>18
    <3>3. \A p \in DOMAIN pending_sends' : pending_sends'[p] = sentAt'[p]
      BY <2>1, <2>7, <3>1 DEF Pop
    <3>4. \A i \in 1 .. Len(rows) + 1 :
             rows'[i].t1 = sentAt[rows'[i].seq] /\ rows'[i].t1 < rows'[i].t5
      BY <1>0, <2>8, <2>9, <2>10, <3>1
    <3> QED
      BY <2>1, <2>9, <3>1, <3>2, <3>3, <3>4 DEF LobTimes
  <2>13. \A i, j \in 1 .. Len(rows) + 1 : i < j => rows'[i].seq < rows'[j].seq
    <3> SUFFICES ASSUME NEW i \in 1 .. Len(rows) + 1, NEW j \in 1 .. Len(rows) + 1, i < j
                 PROVE  rows'[i].seq < rows'[j].seq
      OBVIOUS
    <3>1. i \in 1 .. Len(rows) /\ rows'[i] = rows[i] /\ rows[i].seq \in MeasuredPackets
      BY <1>0, <2>9, <2>10 DEF MeasuredPackets
    <3>2. CASE j \in 1 .. Len(rows)
      BY <1>0, <2>9, <3>1, <3>2 DEF LobInv
    <3>3. CASE j = Len(rows) + 1
      BY <2>5, <2>8, <2>9, <3>1, <3>3
    <3> QED
      BY <2>10, <3>2, <3>3
  <2>14. \A x \in MeasuredPackets' :
            x < nsent' /\ \A y \in Items(inbox)' \cup Items(pending)' : x < y
    BY <2>1, <2>2, <2>3, <2>11 DEF LobInv
  <2>15. DOMAIN pending_sends' = (0 .. nsent' - 1) \ MeasuredPackets'
    BY <2>1, <2>7, <2>11 DEF LobInv, Pop
  <2>16. Len(rows') = nreceived' /\ nreceived' + Waiting' = nsent'
    <3>1. Waiting' \in Nat
      <4>1. inbox' \in Seq(Nat)
        BY <1>0, <2>1
      <4> QED
        BY <1>0, <2>1, <4>1 DEF Waiting
    <3>2. Len(rows) = nreceived /\ nreceived + Waiting = nsent
      BY DEF LobInv
    <3>3. Len(rows') = Len(rows) + 1 /\ nreceived' = nreceived + 1 /\ Waiting' + 1 = Waiting
          /\ nsent' = nsent
      BY <2>1, <2>3, <2>9
    <3>4. nreceived' + Waiting' = nreceived + Waiting
      <4> DEFINE w == Waiting
                 v == Waiting'
      <4>1. nreceived \in Nat /\ w \in Nat /\ v \in Nat /\ nreceived' = nreceived + 1 /\ v + 1 = w
        BY <1>0, <3>1, <3>3
      <4> HIDE DEF w, v
      <4>2. nreceived' + v = nreceived + w
        BY ONLY <4>1
      <4> QED
        BY <4>2 DEF w, v
    <3> QED
      BY <3>2, <3>3, <3>4
  <2>17. nreceived' \in Nat /\ nsent' \in Nat
    BY <1>0, <2>1
  <2> QED
    BY <2>4, <2>9, <2>12, <2>13, <2>14, <2>15, <2>16, <2>17 DEF LobInv
<1>5. CASE LobNetwork
  <2>1. Path /\ UNCHANGED <<clock, nsent, nreceived, pending_sends, rows, sentAt>>
    BY <1>5 DEF LobNetwork, clientVars
  <2>2. PICK n \in Nat : n = nsent
    BY <1>0
  <2>3. /\ Queued(n)' /\ Waiting' = Waiting
        /\ Items(inbox)' \cup Items(pending)' \subseteq Items(inbox) \cup Items(pending)
    <3>1. Queued(n)
      BY <1>0, <2>2
    <3> QED
      BY <2>1, <3>1, PathKeepsOrder
  <2>4. Queued(nsent)' /\ MeasuredPackets' = MeasuredPackets
    BY <2>1, <2>2, <2>3 DEF Queued, MeasuredPackets
  <2>5. LobTimes'
    BY <2>1 DEF LobInv, LobTimes
  <2> QED
    BY <2>1, <2>3, <2>4, <2>5 DEF LobInv
<1> QED
  BY <1>2, <1>3, <1>4, <1>5 DEF LobNext

(* The inductive invariant of the latency client (test_lob_stream.py). *)
THEOREM LatencyInvariant == LobSpec => []LobInv
BY LobStart, LobStep, PTL DEF LobSpec

(* However late a reply is taken, and whatever was sent and lost since, the *)
(* latency in its row runs from the moment its own packet was sent, and no  *)
(* packet has two rows (test_lob_stream.py, --log-csv).                     *)
THEOREM LatencyIsOwn == LobSpec => []RowsAreOwn
<1>1. ASSUME LobInv
      PROVE  RowsAreOwn
  <2>1. /\ DOMAIN rows = 1 .. Len(rows) /\ Len(rows) \in Nat
        /\ \A i \in DOMAIN rows : rows[i].seq \in Nat
    BY <1>1, LobTyped
  <2>2. \A i, j \in DOMAIN rows : i < j \/ j < i \/ i = j
    BY <2>1
  <2>3. \A i, j \in DOMAIN rows : i < j => rows[i].seq < rows[j].seq
    BY <1>1 DEF LobInv
  <2>4. \A i, j \in DOMAIN rows : rows[i].seq = rows[j].seq => i = j
    BY <2>1, <2>2, <2>3
  <2> QED
    BY <1>1, <2>4 DEF RowsAreOwn, LobInv, LobTimes
<1> QED
  BY <1>1, LatencyInvariant, PTL

(* Every reply taken is measured, and what is not measured is on the path   *)
(* or lost; the stored sending times are those of exactly the others.       *)
THEOREM EveryReplyHasARow == LobSpec => []EveryReplyMeasured
<1>1. ASSUME LobInv
      PROVE  EveryReplyMeasured
  <2>1. inbox \in Seq(Nat) /\ pending \in Seq(Nat) /\ lost \in Nat /\ nreceived \in Nat
    BY <1>1, LobTyped DEF LobInv
  <2>2. nreceived + Len(inbox) + Len(pending) + lost = nreceived + Waiting
    <3>1. Len(inbox) \in Nat /\ Len(pending) \in Nat
      BY <2>1
    <3> QED
      BY ONLY <2>1, <3>1 DEF Waiting
  <2> QED
    BY <1>1, <2>2 DEF LobInv, EveryReplyMeasured, MeasuredPackets
<1> QED
  BY <1>1, LatencyInvariant, PTL

=============================================================================
