-------------------------- MODULE ReplayRunnerProofs --------------------------
(***************************************************************************)
(* The runner's replies, for any number of packets, losses and delays:     *)
(* how far behind a row's reply may be and what brings it back.            *)
(***************************************************************************)
EXTENDS ReplayRunner, FiniteSetTheorems, SequenceTheorems, TLAPS

(* The replies the runner may still take, in the order it will take them. *)
Outstanding == inbox \o pending

(* Packets handed to the socket. *)
Sent == IF act = None THEN seq ELSE seq + 1

Timeouts == Cardinality(TimedOut(Len(rows) + 1))

(* Row k is about packet k - 1; an iteration that is under way has sent its *)
(* packet and has no row yet.                                              *)
RowsInOrder ==
    /\ seq = Len(rows)
    /\ \A k \in DOMAIN rows : rows[k].seq = k - 1

(* Each packet sent is answered in a row, lost, or outstanding; rows        *)
(* without an answer make up for the last two.                             *)
Balance == Len(Outstanding) + lost = Timeouts + Sent - seq

(* Outstanding replies are in the order of their packets, no further apart *)
(* than losses explain, and the next is at least as late as the number of  *)
(* rows that had a reply.                                                   *)
QueueInOrder ==
    /\ \A j \in DOMAIN Outstanding :
          /\ Outstanding[j] < Sent
          /\ Outstanding[j] >= seq - Timeouts + j - 1
    /\ \A i, j \in DOMAIN Outstanding : i < j =>
          /\ Outstanding[i] < Outstanding[j]
          /\ Outstanding[j] - Outstanding[i] <= lost + j - i

(* The same between the rows and the outstanding replies. *)
RowsBeforeQueue ==
    \A k \in DOMAIN rows : rows[k].reply # None =>
        \A j \in DOMAIN Outstanding :
            /\ rows[k].reply < Outstanding[j]
            /\ Outstanding[j] - rows[k].reply <= lost + (seq - k) + j

IInv ==
    /\ TypeOK
    /\ RowsInOrder
    /\ Balance
    /\ QueueInOrder
    /\ RowsBeforeQueue
    /\ LagIsTimeouts
    /\ RepliesUsedOnce
    /\ LagIsSticky

-----------------------------------------------------------------------------
(* The iterations that timed out are finitely many, and fewer before a row  *)
(* than before the next iteration.                                          *)
LEMMA TimeoutsCount ==
    ASSUME rows \in Seq(Row), NEW k \in Nat
    PROVE  /\ IsFiniteSet(TimedOut(k))
           /\ Cardinality(TimedOut(k)) \in Nat
           /\ Timeouts \in Nat
           /\ Cardinality(TimedOut(k)) <= Timeouts
<1> DEFINE all == TimedOut(Len(rows) + 1)
<1>1. IsFiniteSet(1 .. Len(rows))
  BY FS_Interval
<1>2. all \in SUBSET (1 .. Len(rows)) /\ TimedOut(k) \in SUBSET all
  BY DEF TimedOut
<1>3. IsFiniteSet(all)
  BY <1>1, <1>2, FS_Subset
<1> HIDE DEF all
<1>4. IsFiniteSet(TimedOut(k)) /\ Cardinality(TimedOut(k)) <= Cardinality(all)
  BY <1>2, <1>3, FS_Subset
<1>5. Cardinality(TimedOut(k)) \in Nat /\ Cardinality(all) \in Nat
  BY <1>3, <1>4, FS_CardinalityType
<1> QED
  BY <1>4, <1>5 DEF Timeouts, all

(* A bound that holds before an iteration holds after it. *)
LEMMA OneMoreBehind ==
    ASSUME NEW r \in Int, NEW o \in Int, NEW l \in Int, NEW s \in Int, NEW k \in Int,
           NEW j \in Int, o - r <= l + (s - k) + j
    PROVE  o - r <= l + (s + 1 - k) + j
OBVIOUS

(* What Append makes of a sequence. *)
LEMMA Appended ==
    ASSUME NEW S, NEW s \in Seq(S), NEW x \in S
    PROVE  /\ Append(s, x) \in Seq(S) /\ Len(Append(s, x)) = Len(s) + 1
           /\ \A k \in 1 .. Len(s) : Append(s, x)[k] = s[k]
           /\ Append(s, x)[Len(s) + 1] = x
OBVIOUS

(* A new row leaves the old ones, and what timed out before each, alone. *)
LEMMA RowIsAppended ==
    ASSUME TypeOK, act # None, NEW reply \in Seqno \cup {None}, NEW score \in Int,
           WriteRow(reply, score)
    PROVE  /\ rows' \in Seq(Row) /\ Len(rows') = Len(rows) + 1
           /\ \A k \in DOMAIN rows : rows'[k] = rows[k]
           /\ rows'[Len(rows) + 1].seq = seq /\ rows'[Len(rows) + 1].reply = reply
           /\ \A k \in 1 .. Len(rows) + 1 : TimedOut(k)' = TimedOut(k)
           /\ reply # None => Timeouts' = Timeouts
           /\ reply = None => Timeouts' = Timeouts + 1
<1> DEFINE n == Len(rows)
           row == [seq |-> seq, reply |-> reply, act |-> act, dec |-> Decide(act, score)]
<1>1. seq \in Seqno /\ act \in ReflexAction /\ n \in Nat
  BY PathAssumption DEF TypeOK, Seqno, Reflexes
<1>2. Decide(act, score) \in Decision
  BY <1>1 DEF Decide, Decision, ReflexAction
<1>3. row \in Row
  BY <1>1, <1>2 DEF Row
<1>4. rows' = Append(rows, row)
  BY DEF WriteRow
<1> HIDE DEF row
<1>5. /\ rows' \in Seq(Row) /\ Len(rows') = n + 1
      /\ \A k \in 1 .. n : rows'[k] = rows[k]
      /\ rows'[n + 1] = row
  <2>1. rows \in Seq(Row)
    BY DEF TypeOK
  <2> QED
    BY ONLY <1>3, <1>4, <2>1, Appended
<1>5a. DOMAIN rows = 1 .. n /\ DOMAIN rows' = 1 .. n + 1
  <2>1. rows \in Seq(Row) /\ rows' \in Seq(Row) /\ Len(rows') = n + 1
    BY <1>5 DEF TypeOK
  <2> QED
    BY ONLY <2>1
<1>6. \A k \in 1 .. n + 1 : TimedOut(k)' = TimedOut(k)
  <2>1. ASSUME NEW k \in 1 .. n + 1, NEW i
        PROVE  i \in TimedOut(k)' <=> i \in TimedOut(k)
    <3>1. i \in TimedOut(k)' <=> i \in 1 .. n + 1 /\ i < k /\ rows'[i].reply = None
      BY <1>5a DEF TimedOut
    <3>2. i \in TimedOut(k) <=> i \in 1 .. n /\ i < k /\ rows[i].reply = None
      BY <1>5a DEF TimedOut
    <3>3. i \in 1 .. n + 1 /\ i < k <=> i \in 1 .. n /\ i < k
      BY ONLY <1>1, <2>1
    <3>4. i \in 1 .. n => rows'[i] = rows[i]
      BY ONLY <1>5
    <3> QED
      BY ONLY <3>1, <3>2, <3>3, <3>4
  <2>2. ASSUME NEW k \in 1 .. n + 1
        PROVE  TimedOut(k)' = TimedOut(k)
    <3>1. \A i : i \in TimedOut(k)' <=> i \in TimedOut(k)
      BY ONLY <2>1, <2>2
    <3>2. TimedOut(k)' \subseteq TimedOut(k) /\ TimedOut(k) \subseteq TimedOut(k)'
      BY ONLY <3>1
    <3> QED
      BY ONLY <3>2
  <2> QED
    BY ONLY <2>2
<1>7. row.reply = reply /\ row.seq = seq
  BY DEF row
<1>8. CASE reply # None
  <2>1. TimedOut(Len(rows) + 1)' = TimedOut(n + 1)
    <3>1. \A i : i \in TimedOut(Len(rows) + 1)' <=> i \in TimedOut(n + 1)
      BY <1>1, <1>5, <1>7, <1>5a, <1>8 DEF TimedOut
    <3> QED
      BY <3>1
  <2> QED
    BY <1>5, <1>6, <1>7, <1>8, <2>1, SMTT(60) DEF Timeouts, TypeOK
<1>9. CASE reply = None
  <2>1. /\ TimedOut(Len(rows) + 1)' = TimedOut(n + 1) \cup {n + 1}
        /\ n + 1 \notin TimedOut(n + 1)
    <3>1. \A i : i \in TimedOut(Len(rows) + 1)' <=> i \in TimedOut(n + 1) \/ i = n + 1
      BY <1>1, <1>5, <1>7, <1>5a, <1>9 DEF TimedOut
    <3>2. n + 1 \notin TimedOut(n + 1)
      BY <1>1 DEF TimedOut
    <3> QED
      BY <3>1, <3>2
  <2>2. IsFiniteSet(TimedOut(n + 1)) /\ Cardinality(TimedOut(n + 1)) \in Nat
    <3>1. rows \in Seq(Row) /\ n + 1 \in Nat
      BY <1>1 DEF TypeOK
    <3> QED
      BY ONLY TimeoutsCount, <3>1
  <2>3. Cardinality(TimedOut(Len(rows) + 1)') = Cardinality(TimedOut(n + 1)) + 1
    BY <2>1, <2>2, FS_AddElement
  <2> QED
    BY <1>5, <1>6, <1>7, <1>9, <2>3 DEF Timeouts, TypeOK
<1> QED
  BY <1>8, <1>9

LEMMA InitIInv == Init => IInv
<1> SUFFICES ASSUME Init PROVE IInv
  OBVIOUS
<1> USE DEF Init, PathInit
<1>1. TypeOK
  BY PathAssumption DEF TypeOK
<1>2. Outstanding = <<>> /\ DOMAIN rows = {}
  BY DEF Outstanding
<1>3. TimedOut(Len(rows) + 1) = {}
  BY <1>2 DEF TimedOut
<1>4. Timeouts = 0
  BY <1>3, FS_EmptySet DEF Timeouts
<1> QED
  BY <1>1, <1>2, <1>4 DEF IInv, RowsInOrder, Balance, QueueInOrder, RowsBeforeQueue, Sent,
     LagIsTimeouts, RepliesUsedOnce, LagIsSticky

-----------------------------------------------------------------------------

(* Everything in the rows and in the queue is a number or None. *)
LEMMA Numbers ==
    ASSUME TypeOK
    PROVE  /\ Outstanding \in Seq(Seqno)
           /\ Len(Outstanding) = Len(inbox) + Len(pending) /\ Len(Outstanding) \in Nat
           /\ DOMAIN Outstanding = 1 .. Len(Outstanding)
           /\ \A j \in DOMAIN Outstanding : Outstanding[j] \in Nat /\ Outstanding[j] \in Seqno
           /\ DOMAIN rows = 1 .. Len(rows) /\ Len(rows) \in Nat
           /\ \A k \in DOMAIN rows : rows[k].seq \in Nat
                                     /\ (rows[k].reply # None => rows[k].reply \in Nat)
           /\ seq \in Nat /\ lost \in Nat /\ Timeouts \in Nat
           /\ \A k \in DOMAIN rows : /\ Cardinality(TimedOut(k)) \in Nat
                                     /\ Cardinality(TimedOut(k)) <= Timeouts
<1>1. /\ Outstanding \in Seq(Seqno)
      /\ Len(Outstanding) = Len(inbox) + Len(pending) /\ Len(Outstanding) \in Nat
  BY DEF TypeOK, Outstanding
<1>2. \A k \in DOMAIN rows : rows[k] \in Row
  BY DEF TypeOK
<1>3. \A k \in DOMAIN rows : rows[k].seq \in Seqno /\ rows[k].reply \in Seqno \cup {None}
  BY <1>2 DEF Row
<1>4. Seqno \subseteq Nat
  BY PathAssumption DEF Seqno
<1>5. rows \in Seq(Row) /\ DOMAIN rows = 1 .. Len(rows) /\ Len(rows) \in Nat
  BY DEF TypeOK
<1>6. \A k \in Nat : Cardinality(TimedOut(k)) \in Nat /\ Timeouts \in Nat
                     /\ Cardinality(TimedOut(k)) <= Timeouts
  BY ONLY TimeoutsCount, <1>5
<1>7. seq \in Nat /\ lost \in Nat
  BY PathAssumption DEF TypeOK
<1>8. DOMAIN Outstanding = 1 .. Len(Outstanding)
  BY <1>1
<1>9. \A j \in DOMAIN Outstanding : Outstanding[j] \in Seqno
  BY <1>1
<1>10. \A k \in DOMAIN rows : k \in Nat
  BY <1>5
<1> QED
  BY <1>1, <1>3, <1>4, <1>5, <1>6, <1>7, <1>8, <1>9, <1>10

LEMMA RemovesOne ==
    ASSUME NEW S, NEW s \in Seq(S), NEW i \in 1 .. Len(s)
    PROVE  /\ RemoveAt(s, i) \in Seq(S)
           /\ Len(RemoveAt(s, i)) = Len(s) - 1
           /\ \A j \in 1 .. Len(s) - 1 : RemoveAt(s, i)[j] = IF j < i THEN s[j] ELSE s[j + 1]
<1> DEFINE a == SubSeq(s, 1, i - 1)
           b == SubSeq(s, i + 1, Len(s))
<1>1. a \in Seq(S) /\ Len(a) = i - 1 /\ \A j \in 1 .. i - 1 : a[j] = s[j]
  OBVIOUS
<1>2. b \in Seq(S) /\ Len(b) = Len(s) - i /\ \A j \in 1 .. Len(s) - i : b[j] = s[i + j]
  OBVIOUS
<1>3. RemoveAt(s, i) = a \o b
  BY DEF RemoveAt
<1>0. Len(s) \in Nat /\ i \in Nat /\ i >= 1 /\ i <= Len(s)
  OBVIOUS
<1> HIDE DEF a, b
<1>4. a \o b \in Seq(S) /\ Len(a \o b) = Len(s) - 1
  <2>1. a \o b \in Seq(S) /\ Len(a \o b) = Len(a) + Len(b)
    <3>1. a \in Seq(S) /\ b \in Seq(S)
      BY <1>1, <1>2
    <3> QED
      BY ONLY <3>1, ConcatProperties
  <2> QED
    BY <1>1, <1>2, <1>0, <2>1
<1>5. \A j \in 1 .. Len(s) - 1 : (a \o b)[j] = IF j < i THEN s[j] ELSE s[j + 1]
  <2> TAKE j \in 1 .. Len(s) - 1
  <2>1. (a \o b)[j] = IF j <= Len(a) THEN a[j] ELSE b[j - Len(a)]
    <3>1. a \in Seq(S) /\ b \in Seq(S) /\ j \in 1 .. Len(a) + Len(b)
      BY <1>1, <1>2, <1>0
    <3> QED
      BY ONLY <3>1, ConcatProperties
  <2>0. j \in Nat /\ j >= 1 /\ j <= Len(s) - 1
    BY <1>0
  <2>2. CASE j < i
    <3>1. j <= Len(a) /\ a[j] = s[j]
      BY <1>1, <1>0, <2>0, <2>2
    <3> QED
      BY <2>1, <2>2, <3>1
  <2>3. CASE j >= i
    <3>1. b[j - (i - 1)] = s[i + (j - (i - 1))]
      BY <1>2, <1>0, <2>0, <2>3
    <3>2. i + (j - (i - 1)) = j + 1 /\ ~ (j <= Len(a)) /\ j - Len(a) = j - (i - 1)
      BY <1>1, <1>0, <2>0, <2>3
    <3> QED
      BY <2>1, <2>3, <2>0, <1>0, <3>1, <3>2
  <2>4. j < i \/ j >= i
    BY <1>0, <2>0
  <2> QED
    BY <2>2, <2>3, <2>4
<1> QED
  BY <1>3, <1>4, <1>5

(* What the steps of the path do to the queue of outstanding replies. *)
LEMMA ReplyKeepsQueue ==
    ASSUME TypeOK, Reply
    PROVE  /\ {pending', inbox'} \subseteq Seq(Seqno)
           /\ Outstanding' = Outstanding /\ lost' = lost
<1>1. pending \in Seq(Seqno) /\ inbox \in Seq(Seqno)
  BY DEF TypeOK
<1>2. pending # <<>> /\ pending' = Tail(pending) /\ inbox' = Append(inbox, Head(pending))
      /\ lost' = lost
  BY DEF Reply
<1>3. Head(pending) \in Seqno /\ pending' \in Seq(Seqno) /\ inbox' \in Seq(Seqno)
  BY <1>1, <1>2
<1>4. inbox' \o pending' = inbox \o pending
  <2>1. Len(inbox' \o pending') = Len(inbox \o pending)
    BY <1>1, <1>2, <1>3
  <2>2. \A j \in 1 .. Len(inbox \o pending) : (inbox' \o pending')[j] = (inbox \o pending)[j]
    BY <1>1, <1>2, <1>3
  <2>3. inbox' \o pending' \in Seq(Seqno) /\ inbox \o pending \in Seq(Seqno)
    BY <1>1, <1>3
  <2> QED
    BY <2>1, <2>2, <2>3, SeqEqual
<1> QED
  BY <1>2, <1>3, <1>4 DEF Outstanding

LEMMA LossShortensQueue ==
    ASSUME TypeOK, Lose
    PROVE  /\ {pending', inbox'} \subseteq Seq(Seqno)
           /\ lost' = lost + 1
           /\ Len(Outstanding') = Len(Outstanding) - 1
           /\ \E i \in DOMAIN Outstanding :
                 \A j \in 1 .. Len(Outstanding) - 1 :
                     Outstanding'[j] = IF j < i THEN Outstanding[j] ELSE Outstanding[j + 1]
<1>1. pending \in Seq(Seqno) /\ inbox \in Seq(Seqno)
  BY DEF TypeOK
<1>2. PICK i \in DOMAIN pending : pending' = RemoveAt(pending, i)
  BY DEF Lose
<1>3. lost' = lost + 1 /\ inbox' = inbox
  BY DEF Lose
<1>4. i \in 1 .. Len(pending)
  BY <1>1
<1>5. /\ pending' \in Seq(Seqno) /\ Len(pending') = Len(pending) - 1
      /\ \A j \in 1 .. Len(pending) - 1 :
            pending'[j] = IF j < i THEN pending[j] ELSE pending[j + 1]
  BY <1>1, <1>2, <1>4, RemovesOne
<1>6. Len(Outstanding') = Len(Outstanding) - 1
  <2>1. Len(inbox) \in Nat /\ Len(pending) \in Nat
    BY <1>1
  <2>2. Len(inbox' \o pending') = Len(inbox) + Len(pending')
    <3>1. inbox' \in Seq(Seqno) /\ pending' \in Seq(Seqno) /\ Len(inbox') = Len(inbox)
      BY <1>1, <1>3, <1>5
    <3>2. Len(inbox' \o pending') = Len(inbox') + Len(pending')
      BY ONLY <3>1, ConcatProperties, Zenon
    <3> QED
      BY <3>1, <3>2
  <2>3. Len(inbox \o pending) = Len(inbox) + Len(pending)
    BY <1>1
  <2> QED
    BY <1>5, <2>1, <2>2, <2>3 DEF Outstanding
<1>7. i + Len(inbox) \in DOMAIN Outstanding
  BY <1>1, <1>4 DEF Outstanding
<1>8. ASSUME NEW j \in 1 .. Len(Outstanding) - 1
      PROVE  Outstanding'[j] = IF j < i + Len(inbox) THEN Outstanding[j] ELSE Outstanding[j + 1]
  <2>1. CASE j <= Len(inbox)
    BY <1>1, <1>3, <1>4, <1>5, <2>1 DEF Outstanding
  <2>2. CASE j > Len(inbox)
    <3>1. j - Len(inbox) \in 1 .. Len(pending) - 1 /\ Len(inbox) \in Nat /\ Len(pending) \in Nat
      BY <1>1, <2>2 DEF Outstanding
    <3>2. Outstanding'[j] = pending'[j - Len(inbox)]
      BY <1>1, <1>3, <1>5, <2>2, <3>1 DEF Outstanding
    <3>3. /\ Outstanding[j] = pending[j - Len(inbox)]
          /\ Outstanding[j + 1] = pending[j - Len(inbox) + 1]
      BY <1>1, <2>2, <3>1 DEF Outstanding
    <3> QED
      BY <1>4, <1>5, <3>1, <3>2, <3>3, SMTT(60)
  <2> QED
    BY <1>1, <2>1, <2>2
<1> QED
  BY <1>3, <1>1, <1>5, <1>6, <1>7, <1>8

-----------------------------------------------------------------------------
(* A step that writes no row leaves what was said of rows alone; losses only *)
(* make it weaker.                                                           *)
LEMMA RowsStay ==
    ASSUME IInv, UNCHANGED rows, lost' \in Nat, lost' >= lost
    PROVE  /\ Timeouts' = Timeouts
           /\ LagIsTimeouts' /\ RepliesUsedOnce' /\ LagIsSticky'
<1>1. \A k : TimedOut(k)' = TimedOut(k)
  BY DEF TimedOut
<1>2. Timeouts' = Timeouts
  BY DEF Timeouts, TimedOut
<1>3. LagIsTimeouts'
  <2> SUFFICES ASSUME NEW k \in DOMAIN rows, rows[k].reply # None
               PROVE  /\ rows[k].reply <= rows[k].seq
                      /\ rows[k].seq - rows[k].reply <= Cardinality(TimedOut(k))
    BY <1>1 DEF LagIsTimeouts
  <2> QED
    BY DEF IInv, LagIsTimeouts
<1>4. RepliesUsedOnce'
  BY DEF IInv, RepliesUsedOnce
<1>5. LagIsSticky'
  <2> SUFFICES ASSUME NEW i \in DOMAIN rows, NEW k \in DOMAIN rows, i < k,
                      rows[i].reply # None, rows[k].reply # None
               PROVE  (rows[i].seq - rows[i].reply) - (rows[k].seq - rows[k].reply) <= lost'
    BY DEF LagIsSticky
  <2>1. (rows[i].seq - rows[i].reply) - (rows[k].seq - rows[k].reply) <= lost
    BY DEF IInv, LagIsSticky
  <2>2. lost \in Nat /\ \A m \in {i, k} : rows[m].seq \in Nat /\ rows[m].reply \in Nat
    BY Numbers DEF IInv
  <2> QED
    BY <2>1, <2>2
<1> QED
  BY <1>2, <1>3, <1>4, <1>5

LEMMA ReplyKeeps ==
    ASSUME IInv, Reply, UNCHANGED <<seq, act, rows>>
    PROVE  IInv'
<1>1. TypeOK
  BY DEF IInv
<1>2. /\ {pending', inbox'} \subseteq Seq(Seqno)
      /\ Outstanding' = Outstanding /\ lost' = lost
  BY <1>1, ReplyKeepsQueue
<1>3. TypeOK'
  BY <1>1, <1>2 DEF TypeOK
<1>4. lost' \in Nat /\ lost' >= lost
  BY <1>1, <1>2 DEF TypeOK
<1>5. /\ Timeouts' = Timeouts
      /\ LagIsTimeouts' /\ RepliesUsedOnce' /\ LagIsSticky'
  BY <1>4, RowsStay
<1>6. Sent' = Sent
  BY DEF Sent
<1>7. RowsInOrder'
  BY DEF IInv, RowsInOrder
<1>8. Balance'
  BY <1>2, <1>5, <1>6 DEF IInv, Balance
<1>9. QueueInOrder'
  BY <1>2, <1>5, <1>6 DEF IInv, QueueInOrder
<1>10. RowsBeforeQueue'
  BY <1>2, <1>5, <1>6 DEF IInv, RowsBeforeQueue
<1> QED
  BY <1>3, <1>5, <1>7, <1>8, <1>9, <1>10 DEF IInv

LEMMA LoseKeeps ==
    ASSUME IInv, Lose, UNCHANGED <<seq, act, rows>>
    PROVE  IInv'
<1> DEFINE n == Len(Outstanding)
<1>1. TypeOK
  BY DEF IInv
<1>2. /\ {pending', inbox'} \subseteq Seq(Seqno)
      /\ lost' = lost + 1 /\ Len(Outstanding') = n - 1
  BY <1>1, LossShortensQueue
<1>3. PICK i \in DOMAIN Outstanding :
          \A j \in 1 .. n - 1 :
              Outstanding'[j] = IF j < i THEN Outstanding[j] ELSE Outstanding[j + 1]
  BY <1>1, LossShortensQueue
<1>4. TypeOK'
  BY <1>1, <1>2 DEF TypeOK
<1>5. /\ n \in Nat /\ DOMAIN Outstanding = 1 .. n
      /\ \A j \in 1 .. n : Outstanding[j] \in Nat
      /\ DOMAIN rows = 1 .. Len(rows)
      /\ \A k \in DOMAIN rows : rows[k].reply # None => rows[k].reply \in Nat
      /\ seq \in Nat /\ lost \in Nat /\ Timeouts \in Nat
  BY <1>1, Numbers
<1>6. DOMAIN Outstanding' = 1 .. n - 1
  BY <1>2, <1>4, <1>5, Numbers
<1>7. /\ Timeouts' = Timeouts
      /\ LagIsTimeouts' /\ RepliesUsedOnce' /\ LagIsSticky'
  BY <1>2, <1>5, RowsStay
<1>8. Sent' = Sent /\ Sent \in Nat
  BY <1>5 DEF Sent
<1>9. RowsInOrder'
  BY DEF IInv, RowsInOrder
<1>10. Balance'
  <2>1. n + lost = Timeouts + Sent - seq
    BY DEF IInv, Balance
  <2>2. (n - 1) + (lost + 1) = Timeouts + Sent - seq
    BY ONLY <1>5, <2>1
  <2> QED
    BY <1>2, <1>7, <1>8, <2>2 DEF Balance
<1> DEFINE from(j) == IF j < i THEN j ELSE j + 1
<1>11. \A j \in 1 .. n - 1 : /\ Outstanding'[j] = Outstanding[from(j)]
                             /\ from(j) \in 1 .. n /\ j <= from(j) /\ from(j) <= j + 1
  BY <1>3, <1>5
<1>12. \A j, k \in 1 .. n - 1 : j < k => from(j) < from(k) /\ from(k) - from(j) <= k - j + 1
  BY <1>5
<1> HIDE DEF from, n
<1>13. QueueInOrder'
  <2>1. ASSUME NEW j \in 1 .. n - 1
        PROVE  Outstanding'[j] < Sent /\ Outstanding'[j] >= seq - Timeouts + j - 1
    <3>1. Outstanding[from(j)] < Sent /\ Outstanding[from(j)] >= seq - Timeouts + from(j) - 1
      BY <1>5, <1>11 DEF IInv, QueueInOrder
    <3> QED
      BY <3>1, <1>5, <1>8, <1>11, SMTT(60)
  <2>2. ASSUME NEW j \in 1 .. n - 1, NEW k \in 1 .. n - 1, j < k
        PROVE  /\ Outstanding'[j] < Outstanding'[k]
               /\ Outstanding'[k] - Outstanding'[j] <= lost' + k - j
    <3>1. /\ Outstanding[from(j)] < Outstanding[from(k)]
          /\ Outstanding[from(k)] - Outstanding[from(j)] <= lost + from(k) - from(j)
      BY <1>5, <1>11, <1>12, <2>2 DEF IInv, QueueInOrder
    <3>2. from(k) - from(j) <= k - j + 1 /\ from(j) \in Nat /\ from(k) \in Nat
      BY <1>11, <1>12, <1>5, <2>2, SMTT(60)
    <3>3. /\ Outstanding'[j] = Outstanding[from(j)] /\ Outstanding[from(j)] \in Nat
          /\ Outstanding'[k] = Outstanding[from(k)] /\ Outstanding[from(k)] \in Nat
      BY <1>5, <1>11
    <3>4. j \in Nat /\ k \in Nat /\ lost \in Nat /\ lost' = lost + 1
      BY <1>2, <1>5
    <3> QED
      BY ONLY <3>1, <3>2, <3>3, <3>4
  <2> QED
    BY <1>6, <1>7, <1>8, <2>1, <2>2 DEF QueueInOrder
<1>14. RowsBeforeQueue'
  <2>1. ASSUME NEW k \in DOMAIN rows, rows[k].reply # None, NEW j \in 1 .. n - 1
        PROVE  /\ rows[k].reply < Outstanding'[j]
               /\ Outstanding'[j] - rows[k].reply <= lost' + (seq - k) + j
    <3>1. /\ rows[k].reply < Outstanding[from(j)]
          /\ Outstanding[from(j)] - rows[k].reply <= lost + (seq - k) + from(j)
      BY <1>5, <1>11, <2>1 DEF IInv, RowsBeforeQueue
    <3>2. from(j) <= j + 1 /\ from(j) \in Nat /\ k \in Nat /\ rows[k].reply \in Nat
          /\ Outstanding'[j] = Outstanding[from(j)] /\ Outstanding[from(j)] \in Nat
      BY <1>5, <1>11, <2>1, SMTT(60)
    <3>3. j \in Nat /\ seq \in Nat /\ lost \in Nat /\ lost' = lost + 1
      BY <1>2, <1>5
    <3> QED
      BY ONLY <3>1, <3>2, <3>3
  <2> QED
    BY <1>6, <2>1 DEF RowsBeforeQueue
<1> QED
  BY <1>4, <1>7, <1>9, <1>10, <1>13, <1>14 DEF IInv

(* A new packet's reply is the last outstanding one: the losses and the     *)
(* replies before it make up for the timeouts.                              *)
LEMMA SendKeeps ==
    ASSUME IInv, SendAndReflex
    PROVE  IInv'
<1> DEFINE n == Len(Outstanding)
<1>1. TypeOK /\ act = None /\ seq < MaxSeq /\ act' \in Reflexes /\ Request(seq)
      /\ UNCHANGED <<inbox, seq, rows>>
  BY DEF IInv, SendAndReflex
<1>2. /\ n \in Nat /\ DOMAIN Outstanding = 1 .. n
      /\ \A j \in 1 .. n : Outstanding[j] \in Nat
      /\ DOMAIN rows = 1 .. Len(rows) /\ Len(rows) \in Nat
      /\ \A k \in DOMAIN rows : rows[k].reply # None => rows[k].reply \in Nat
      /\ seq \in Nat /\ lost \in Nat /\ Timeouts \in Nat
  BY <1>1, Numbers
<1>3. seq \in Seqno /\ act' # None
  BY <1>1, <1>2, PathAssumption, RunnerAssumption DEF Seqno, Reflexes
<1>4. Sent = seq /\ Sent' = seq + 1
  BY <1>1, <1>3 DEF Sent
<1>5. n + lost = Timeouts
  BY <1>2, <1>4 DEF IInv, Balance
<1>6. RowsInOrder'
  BY <1>1 DEF IInv, RowsInOrder
<1>7. CASE lost' = lost + 1 /\ UNCHANGED pending
  <2>1. TypeOK'
    BY <1>1, <1>2, <1>7 DEF TypeOK
  <2>2. /\ Timeouts' = Timeouts
        /\ LagIsTimeouts' /\ RepliesUsedOnce' /\ LagIsSticky'
    BY <1>1, <1>2, <1>7, RowsStay
  <2>3. Outstanding' = Outstanding /\ seq' = seq /\ lost' = lost + 1
    BY <1>1, <1>7 DEF Outstanding
  <2>4. Balance'
    BY <1>2, <1>4, <1>5, <2>2, <2>3 DEF Balance
  <2>5. QueueInOrder'
    <3>1. ASSUME NEW j \in 1 .. n
          PROVE  Outstanding[j] < seq + 1 /\ Outstanding[j] >= seq - Timeouts + j - 1
      BY <1>2, <1>4, SMTT(60) DEF IInv, QueueInOrder
    <3>2. ASSUME NEW i \in 1 .. n, NEW j \in 1 .. n, i < j
          PROVE  /\ Outstanding[i] < Outstanding[j]
                 /\ Outstanding[j] - Outstanding[i] <= lost + 1 + j - i
      <4>1. /\ Outstanding[i] < Outstanding[j]
            /\ Outstanding[j] - Outstanding[i] <= lost + j - i
        BY <1>2, <3>2 DEF IInv, QueueInOrder
      <4> QED
        BY <1>2, <4>1
    <3> HIDE DEF n
    <3> QED
      BY <1>2, <1>4, <2>2, <2>3, <3>1, <3>2 DEF QueueInOrder
  <2>6. RowsBeforeQueue'
    <3>1. ASSUME NEW k \in DOMAIN rows, rows[k].reply # None, NEW j \in 1 .. n
          PROVE  /\ rows[k].reply < Outstanding[j]
                 /\ Outstanding[j] - rows[k].reply <= lost + 1 + (seq - k) + j
      <4>1. /\ rows[k].reply < Outstanding[j]
            /\ Outstanding[j] - rows[k].reply <= lost + (seq - k) + j
        BY <1>2, <3>1 DEF IInv, RowsBeforeQueue
      <4> QED
        BY <1>2, <3>1, <4>1, SMTT(60)
    <3> HIDE DEF n
    <3> QED
      BY <1>1, <1>2, <2>3, <3>1 DEF RowsBeforeQueue
  <2> QED
    BY <1>6, <2>1, <2>2, <2>4, <2>5, <2>6 DEF IInv
<1>8. CASE pending' = Append(pending, seq) /\ UNCHANGED lost
  <2>1. TypeOK'
    BY <1>1, <1>3, <1>8 DEF TypeOK
  <2>2. /\ Timeouts' = Timeouts
        /\ LagIsTimeouts' /\ RepliesUsedOnce' /\ LagIsSticky'
    BY <1>1, <1>2, <1>8, RowsStay
  <2>3. /\ Len(Outstanding') = n + 1 /\ DOMAIN Outstanding' = 1 .. n + 1
        /\ \A j \in 1 .. n : Outstanding'[j] = Outstanding[j]
        /\ Outstanding'[n + 1] = seq
    BY <1>1, <1>3, <1>8 DEF Outstanding, TypeOK
  <2>4. Balance'
    BY <1>1, <1>2, <1>4, <1>5, <1>8, <2>2, <2>3 DEF Balance
  <2> HIDE DEF n
  <2>5. ASSUME NEW j \in 1 .. n
        PROVE  /\ Outstanding[j] < seq /\ Outstanding[j] >= seq - Timeouts + j - 1
               /\ seq - Outstanding[j] <= lost + (n + 1) - j
    <3>1. Outstanding[j] < seq /\ Outstanding[j] >= seq - Timeouts + j - 1
      BY <1>2, <1>4 DEF IInv, QueueInOrder
    <3> QED
      BY <1>2, <1>5, <3>1
  <2>6. QueueInOrder'
    <3>1. ASSUME NEW j \in 1 .. n + 1
          PROVE  /\ Outstanding'[j] < seq + 1
                 /\ Outstanding'[j] >= seq - Timeouts + j - 1
      <4>1. CASE j \in 1 .. n
        BY <1>2, <2>3, <2>5, <4>1
      <4>2. CASE j = n + 1
        BY <1>2, <1>5, <2>3, <4>2
      <4> QED
        BY <1>2, <4>1, <4>2
    <3>2. ASSUME NEW i \in 1 .. n + 1, NEW j \in 1 .. n + 1, i < j
          PROVE  /\ Outstanding'[i] < Outstanding'[j]
                 /\ Outstanding'[j] - Outstanding'[i] <= lost + j - i
      <4>0. i \in 1 .. n
        BY <1>2, <3>2
      <4>1. CASE j \in 1 .. n
        <5>1. /\ Outstanding[i] < Outstanding[j]
              /\ Outstanding[j] - Outstanding[i] <= lost + j - i
          BY <1>2, <3>2, <4>0, <4>1 DEF IInv, QueueInOrder
        <5> QED
          BY <2>3, <4>0, <4>1, <5>1
      <4>2. CASE j = n + 1
        BY <2>3, <2>5, <4>0, <4>2
      <4> QED
        BY <1>2, <4>1, <4>2
    <3> QED
      BY <1>1, <1>4, <1>8, <2>2, <2>3, <3>1, <3>2 DEF QueueInOrder
  <2>7. RowsBeforeQueue'
    <3>1. ASSUME NEW k \in DOMAIN rows, rows[k].reply # None, NEW j \in 1 .. n + 1
          PROVE  /\ rows[k].reply < Outstanding'[j]
                 /\ Outstanding'[j] - rows[k].reply <= lost + (seq - k) + j
      <4>1. CASE j \in 1 .. n
        <5>1. /\ rows[k].reply < Outstanding[j]
              /\ Outstanding[j] - rows[k].reply <= lost + (seq - k) + j
          BY <1>2, <3>1, <4>1 DEF IInv, RowsBeforeQueue
        <5> QED
          BY <2>3, <4>1, <5>1
      <4>2. CASE j = n + 1
        <5>1. /\ rows[k].reply <= rows[k].seq
              /\ rows[k].seq - rows[k].reply <= Cardinality(TimedOut(k))
          BY <3>1 DEF IInv, LagIsTimeouts
        <5>2. rows[k].seq = k - 1 /\ seq = Len(rows) /\ k \in Nat /\ k <= seq
          BY <1>2 DEF IInv, RowsInOrder
        <5>3. Cardinality(TimedOut(k)) \in Nat /\ Cardinality(TimedOut(k)) <= n + lost
          BY <1>1, <1>5, Numbers
        <5>4. rows[k].reply \in Nat
          BY <1>2, <3>1
        <5>5. rows[k].reply < seq /\ seq - rows[k].reply <= lost + (seq - k) + (n + 1)
          BY ONLY <1>2, <5>1, <5>2, <5>3, <5>4, SMTT(60)
        <5> QED
          BY <2>3, <4>2, <5>5
      <4> QED
        BY <1>2, <4>1, <4>2
    <3> QED
      BY <1>1, <1>8, <2>3, <3>1 DEF RowsBeforeQueue
  <2> QED
    BY <1>6, <2>1, <2>2, <2>4, <2>6, <2>7 DEF IInv
<1> QED
  BY <1>1, <1>7, <1>8 DEF Request

(* The row that takes the next outstanding reply. *)
LEMMA ReceiveKeeps ==
    ASSUME IInv, Receive
    PROVE  IInv'
<1> DEFINE n == Len(Outstanding)
           h == Outstanding[1]
           new == Len(rows) + 1
<1>1. TypeOK /\ act # None /\ inbox # <<>> /\ inbox' = Tail(inbox)
      /\ WriteRow(Head(inbox), ParsedScore) /\ UNCHANGED <<pending, lost>>
  BY DEF IInv, Receive
<1>2. /\ n \in Nat /\ DOMAIN Outstanding = 1 .. n
      /\ \A j \in 1 .. n : Outstanding[j] \in Nat
      /\ DOMAIN rows = 1 .. Len(rows) /\ Len(rows) \in Nat
      /\ \A k \in DOMAIN rows : rows[k].seq \in Nat
                                /\ (rows[k].reply # None => rows[k].reply \in Nat)
      /\ seq \in Nat /\ lost \in Nat /\ Timeouts \in Nat
  BY <1>1, Numbers
<1>3. seq = Len(rows) /\ Sent = seq + 1 /\ Sent' = seq + 1 /\ seq' = seq + 1 /\ act' = None
  BY <1>1 DEF IInv, RowsInOrder, Sent, WriteRow
<1>4. n >= 1 /\ h = Head(inbox) /\ h \in Seqno /\ h \in Nat
  <2>1. inbox \in Seq(Seqno) /\ pending \in Seq(Seqno)
    BY <1>1 DEF TypeOK
  <2>2. n >= 1 /\ h = Head(inbox)
    BY <1>1, <2>1 DEF Outstanding
  <2> QED
    BY <1>1, <1>2, <2>2, Numbers
<1>5. h # None
  BY <1>4, RunnerAssumption
<1>6. /\ Len(Outstanding') = n - 1 /\ DOMAIN Outstanding' = 1 .. n - 1
      /\ \A j \in 1 .. n - 1 : Outstanding'[j] = Outstanding[j + 1]
  BY <1>1 DEF Outstanding, TypeOK
<1>7. ParsedScore \in Int
  BY RunnerAssumption DEF ParsedScore, WordAt48
<1>8. /\ rows' \in Seq(Row) /\ Len(rows') = new
      /\ \A k \in DOMAIN rows : rows'[k] = rows[k]
      /\ rows'[new].seq = seq /\ rows'[new].reply = h
      /\ \A k \in 1 .. new : TimedOut(k)' = TimedOut(k)
      /\ Timeouts' = Timeouts
  BY <1>1, <1>4, <1>5, <1>7, RowIsAppended
<1>9. DOMAIN rows' = 1 .. new /\ new = seq + 1
  BY <1>3, <1>8
<1>10. /\ h < seq + 1 /\ h >= seq - Timeouts
       /\ \A j \in 1 .. n - 1 :
             /\ Outstanding[j + 1] < seq + 1 /\ Outstanding[j + 1] >= seq - Timeouts + j
             /\ h < Outstanding[j + 1] /\ Outstanding[j + 1] - h <= lost + j
  <2>1. h < seq + 1 /\ h >= seq - Timeouts + 1 - 1
    BY <1>2, <1>3, <1>4 DEF IInv, QueueInOrder
  <2>2. ASSUME NEW j \in 1 .. n - 1
        PROVE  /\ Outstanding[j + 1] < seq + 1
               /\ Outstanding[j + 1] >= seq - Timeouts + (j + 1) - 1
               /\ h < Outstanding[j + 1] /\ Outstanding[j + 1] - h <= lost + (j + 1) - 1
    <3>1. 1 \in 1 .. n /\ j + 1 \in 1 .. n /\ 1 < j + 1
      BY <1>2
    <3> QED
      BY <1>2, <1>3, <3>1 DEF IInv, QueueInOrder
  <2> HIDE DEF n, h
  <2> QED
    BY <1>2, <1>4, <2>1, <2>2
<1>11. ASSUME NEW i \in DOMAIN rows, rows[i].reply # None
       PROVE  /\ rows[i].reply < h /\ h - rows[i].reply <= lost + (seq - i) + 1
              /\ \A j \in 1 .. n - 1 :
                    /\ rows[i].reply < Outstanding[j + 1]
                    /\ Outstanding[j + 1] - rows[i].reply <= lost + (seq - i) + (j + 1)
  <2> DEFINE r == rows[i].reply
  <2>1. ASSUME NEW j \in 1 .. n
        PROVE  r < Outstanding[j] /\ Outstanding[j] - r <= lost + (seq - i) + j
    BY <1>2, <1>11 DEF IInv, RowsBeforeQueue
  <2>2. 1 \in 1 .. n /\ \A j \in 1 .. n - 1 : j + 1 \in 1 .. n
    BY <1>2, <1>4
  <2> HIDE DEF n, r
  <2>3. r < h /\ h - r <= lost + (seq - i) + 1
    BY <2>1, <2>2
  <2>4. ASSUME NEW j \in 1 .. n - 1
        PROVE  /\ r < Outstanding[j + 1]
               /\ Outstanding[j + 1] - r <= lost + (seq - i) + (j + 1)
    BY <2>1, <2>2
  <2> QED
    BY <2>3, <2>4 DEF r
<1> HIDE DEF n, h, new
<1>12. TypeOK'
  <2>1. seq' \in 0 .. MaxSeq /\ inbox' \in Seq(Seqno)
    BY <1>1, <1>2, <1>3, PathAssumption DEF TypeOK
  <2> QED
    BY <1>1, <1>3, <1>8, <2>1 DEF TypeOK
<1>13. RowsInOrder'
  <2>1. \A k \in 1 .. new : rows'[k].seq = k - 1
    BY <1>2, <1>3, <1>8, <1>9 DEF IInv, RowsInOrder
  <2> QED
    BY <1>3, <1>8, <1>9, <2>1 DEF RowsInOrder
<1>14. Balance'
  <2>1. n + lost = Timeouts + (seq + 1) - seq
    BY <1>3 DEF IInv, Balance, n
  <2>2. n - 1 + lost = Timeouts + (seq + 1) - (seq + 1)
    BY <1>2, <2>1
  <2> QED
    BY <1>1, <1>3, <1>6, <1>8, <2>2 DEF Balance
<1>15. QueueInOrder'
  <2>1. ASSUME NEW j \in 1 .. n - 1
        PROVE  Outstanding'[j] < seq + 1 /\ Outstanding'[j] >= seq + 1 - Timeouts + j - 1
    <3>1. /\ Outstanding'[j] = Outstanding[j + 1] /\ Outstanding[j + 1] < seq + 1
          /\ Outstanding[j + 1] >= seq - Timeouts + j
      BY <1>6, <1>10
    <3>2. /\ seq + 1 - Timeouts + j - 1 = seq - Timeouts + j
      BY <1>2
    <3> QED
      BY <3>1, <3>2
  <2>2. ASSUME NEW i \in 1 .. n - 1, NEW j \in 1 .. n - 1, i < j
        PROVE  /\ Outstanding'[i] < Outstanding'[j]
               /\ Outstanding'[j] - Outstanding'[i] <= lost + j - i
    <3>1. i + 1 \in 1 .. n /\ j + 1 \in 1 .. n /\ i + 1 < j + 1
      BY <1>2, <2>2
    <3>2. /\ Outstanding[i + 1] < Outstanding[j + 1]
          /\ Outstanding[j + 1] - Outstanding[i + 1] <= lost + (j + 1) - (i + 1)
      BY <1>2, <3>1 DEF IInv, QueueInOrder
    <3> QED
      BY <1>2, <1>6, <3>1, <3>2
  <2>3. lost' = lost /\ Timeouts' = Timeouts /\ seq' = seq + 1 /\ Sent' = seq + 1
    BY <1>1, <1>3, <1>8
  <2>4. \A j \in DOMAIN Outstanding' :
           Outstanding'[j] < Sent' /\ Outstanding'[j] >= seq' - Timeouts' + j - 1
    BY ONLY <1>2, <1>6, <2>1, <2>3
  <2>5. \A i, j \in DOMAIN Outstanding' : i < j =>
           /\ Outstanding'[i] < Outstanding'[j]
           /\ Outstanding'[j] - Outstanding'[i] <= lost' + j - i
    BY ONLY <1>6, <2>2, <2>3
  <2> QED
    BY <2>4, <2>5 DEF QueueInOrder
<1>16. RowsBeforeQueue'
  <2>1. ASSUME NEW k \in 1 .. new, rows'[k].reply # None, NEW j \in 1 .. n - 1
        PROVE  /\ rows'[k].reply < Outstanding'[j]
               /\ Outstanding'[j] - rows'[k].reply <= lost + (seq + 1 - k) + j
    <3>1. CASE k = new
      <4>1. rows'[k].reply = h /\ Outstanding'[j] = Outstanding[j + 1]
        BY <1>6, <1>8, <3>1
      <4>2. h < Outstanding[j + 1] /\ Outstanding[j + 1] - h <= lost + j
        BY <1>10
      <4>3. seq + 1 - k = 0 /\ lost + (seq + 1 - k) + j = lost + j
        BY <1>2, <1>9, <3>1
      <4> QED
        BY ONLY <4>1, <4>2, <4>3
    <3>2. CASE k \in DOMAIN rows
      <4>1. rows'[k].reply = rows[k].reply /\ Outstanding'[j] = Outstanding[j + 1]
        BY <1>6, <1>8, <3>2
      <4>2. /\ rows[k].reply < Outstanding[j + 1]
            /\ Outstanding[j + 1] - rows[k].reply <= lost + (seq - k) + (j + 1)
        BY <1>11, <2>1, <3>2, <4>1
      <4>3. lost + (seq - k) + (j + 1) = lost + (seq + 1 - k) + j
        BY <1>2
      <4> QED
        BY <4>1, <4>2, <4>3
    <3> QED
      BY <1>2, <1>3, <1>9, <3>1, <3>2
  <2>2. lost' = lost
    BY <1>1
  <2>3. ASSUME NEW k \in DOMAIN rows', rows'[k].reply # None, NEW j \in DOMAIN Outstanding'
        PROVE  /\ rows'[k].reply < Outstanding'[j]
               /\ Outstanding'[j] - rows'[k].reply <= lost' + (seq' - k) + j
    <3>1. k \in 1 .. new /\ j \in 1 .. n - 1
      BY ONLY <1>6, <1>9
    <3>2. /\ rows'[k].reply < Outstanding'[j]
          /\ Outstanding'[j] - rows'[k].reply <= lost + (seq + 1 - k) + j
      BY ONLY <2>1, <2>3, <3>1
    <3>3. lost' = lost /\ seq' = seq + 1
      BY ONLY <1>3, <2>2
    <3>4. k \in Int /\ j \in Int /\ seq \in Int /\ lost \in Int
      BY <1>2, <1>4, <1>9, <3>1
    <3>5. lost' + (seq' - k) + j = lost + (seq + 1 - k) + j
      BY ONLY <3>3, <3>4
    <3> QED
      BY ONLY <3>2, <3>5
  <2> QED
    BY ONLY <2>3 DEF RowsBeforeQueue
<1>17. LagIsTimeouts'
  <2>1. ASSUME NEW k \in 1 .. new, rows'[k].reply # None
        PROVE  /\ rows'[k].reply <= rows'[k].seq
               /\ rows'[k].seq - rows'[k].reply <= Cardinality(TimedOut(k)')
    <3>1. CASE k = new
      <4>1. Cardinality(TimedOut(k)') = Timeouts
        BY <1>8, <3>1 DEF Timeouts, new
      <4> QED
        BY <1>2, <1>4, <1>8, <1>10, <3>1, <4>1
    <3>2. CASE k \in DOMAIN rows
      BY <1>8, <2>1, <3>2 DEF IInv, LagIsTimeouts
    <3> QED
      BY <1>2, <1>3, <1>9, <3>1, <3>2
  <2> QED
    BY <1>9, <2>1 DEF LagIsTimeouts
<1>18. ASSUME NEW i \in 1 .. new, NEW k \in 1 .. new, i < k,
              rows'[i].reply # None, rows'[k].reply # None
       PROVE  /\ rows'[i].reply < rows'[k].reply
              /\ (rows'[i].seq - rows'[i].reply) - (rows'[k].seq - rows'[k].reply) <= lost
  <2>0. i \in DOMAIN rows /\ i \in Nat /\ rows'[i] = rows[i]
    BY <1>2, <1>3, <1>8, <1>9, <1>18
  <2>1. CASE k = new
    <3>1. rows[i].seq = i - 1 /\ rows[i].reply \in Nat
      BY <1>2, <1>18, <2>0 DEF IInv, RowsInOrder
    <3>2. rows[i].reply < h /\ h - rows[i].reply <= lost + (seq - i) + 1
      BY <1>11, <1>18, <2>0
    <3>3. rows'[k].seq = seq /\ rows'[k].reply = h
      BY <1>8, <2>1
    <3>4. h \in Nat /\ seq \in Nat /\ lost \in Nat
      BY <1>2, <1>4
    <3> QED
      BY ONLY <2>0, <3>1, <3>2, <3>3, <3>4
  <2>2. CASE k \in DOMAIN rows
    <3>1. rows'[k] = rows[k]
      BY <1>8, <2>2
    <3> QED
      BY <1>18, <2>0, <2>2, <3>1 DEF IInv, RepliesUsedOnce, LagIsSticky
  <2> QED
    BY <1>2, <1>3, <1>9, <2>1, <2>2
<1>19. RepliesUsedOnce' /\ LagIsSticky'
  BY <1>1, <1>9, <1>18 DEF RepliesUsedOnce, LagIsSticky
<1> QED
  BY <1>12, <1>13, <1>14, <1>15, <1>16, <1>17, <1>19 DEF IInv

(* The row without a reply: one more timeout for later rows to be behind.   *)
LEMMA TimeoutKeeps ==
    ASSUME IInv, Timeout
    PROVE  IInv'
<1> DEFINE n == Len(Outstanding)
           new == Len(rows) + 1
<1>1. TypeOK /\ act # None /\ WriteRow(None, 0) /\ UNCHANGED pathVars
  BY DEF IInv, Timeout
<1>2. /\ n \in Nat /\ DOMAIN Outstanding = 1 .. n
      /\ \A j \in 1 .. n : Outstanding[j] \in Nat
      /\ DOMAIN rows = 1 .. Len(rows) /\ Len(rows) \in Nat
      /\ \A k \in DOMAIN rows : rows[k].seq \in Nat
                                /\ (rows[k].reply # None => rows[k].reply \in Nat)
      /\ seq \in Nat /\ lost \in Nat /\ Timeouts \in Nat
  BY <1>1, Numbers
<1>3. seq = Len(rows) /\ Sent = seq + 1 /\ Sent' = seq + 1 /\ seq' = seq + 1 /\ act' = None
  BY <1>1 DEF IInv, RowsInOrder, Sent, WriteRow
<1>4. Outstanding' = Outstanding /\ pending' = pending /\ inbox' = inbox /\ lost' = lost
  BY <1>1 DEF pathVars, Outstanding
<1>5. /\ rows' \in Seq(Row) /\ Len(rows') = new
      /\ \A k \in DOMAIN rows : rows'[k] = rows[k]
      /\ rows'[new].seq = seq /\ rows'[new].reply = None
      /\ \A k \in 1 .. new : TimedOut(k)' = TimedOut(k)
      /\ Timeouts' = Timeouts + 1
  BY <1>1, RowIsAppended, SMTT(60)
<1>6. DOMAIN rows' = 1 .. new /\ new = seq + 1
  BY <1>3, <1>5
<1>7. Timeouts' = Timeouts + 1
  BY <1>5
<1> HIDE DEF n, new
<1>8. \A k \in DOMAIN rows' : rows'[k].reply # None =>
         k \in DOMAIN rows /\ rows'[k] = rows[k] /\ TimedOut(k)' = TimedOut(k)
  BY <1>2, <1>3, <1>5, <1>6
<1>9. TypeOK'
  <2>1. seq' \in 0 .. MaxSeq
    BY <1>1, <1>2, <1>3, PathAssumption DEF TypeOK
  <2> QED
    BY <1>1, <1>3, <1>4, <1>5, <2>1 DEF TypeOK
<1>10. RowsInOrder'
  <2>1. \A k \in 1 .. new : rows'[k].seq = k - 1
    BY <1>2, <1>3, <1>5, <1>6 DEF IInv, RowsInOrder
  <2> QED
    BY <1>3, <1>5, <1>6, <2>1 DEF RowsInOrder
<1>11. Balance'
  <2>1. n + lost = Timeouts + (seq + 1) - seq
    BY <1>3 DEF IInv, Balance, n
  <2>2. n + lost = (Timeouts + 1) + (seq + 1) - (seq + 1)
    BY <1>2, <2>1
  <2> QED
    BY <1>3, <1>4, <1>7, <2>2 DEF Balance, n
<1>12. QueueInOrder'
  <2>1. \A j \in 1 .. n : Outstanding[j] < seq + 1
                          /\ Outstanding[j] >= seq - Timeouts + j - 1
    BY <1>2, <1>3 DEF IInv, QueueInOrder
  <2>2. \A j \in DOMAIN Outstanding' :
           Outstanding'[j] < Sent' /\ Outstanding'[j] >= seq' - Timeouts' + j - 1
    BY ONLY <1>2, <1>3, <1>4, <1>7, <2>1
  <2>3. \A i, j \in DOMAIN Outstanding' : i < j =>
           /\ Outstanding'[i] < Outstanding'[j]
           /\ Outstanding'[j] - Outstanding'[i] <= lost' + j - i
    BY <1>4 DEF IInv, QueueInOrder
  <2> QED
    BY <2>2, <2>3 DEF QueueInOrder
<1>13. RowsBeforeQueue'
  <2>1. ASSUME NEW k \in DOMAIN rows', rows'[k].reply # None, NEW j \in 1 .. n
        PROVE  /\ rows'[k].reply < Outstanding[j]
               /\ Outstanding[j] - rows'[k].reply <= lost + (seq + 1 - k) + j
    <3>1. k \in DOMAIN rows /\ rows'[k] = rows[k]
      BY <1>8, <2>1
    <3>2. /\ rows[k].reply < Outstanding[j]
          /\ Outstanding[j] - rows[k].reply <= lost + (seq - k) + j
      BY <1>2, <2>1, <3>1 DEF IInv, RowsBeforeQueue
    <3>3. rows[k].reply \in Int /\ k \in Int
      BY <1>2, <2>1, <3>1
    <3>4. Outstanding[j] \in Int /\ lost \in Int /\ seq \in Int /\ j \in Int
      BY <1>2, <2>1
    <3>5. Outstanding[j] - rows[k].reply <= lost + (seq + 1 - k) + j
      BY ONLY <3>2, <3>3, <3>4, OneMoreBehind
    <3> QED
      BY ONLY <3>1, <3>2, <3>5
  <2>2. \A k \in DOMAIN rows' : rows'[k].reply # None =>
           \A j \in DOMAIN Outstanding' :
               /\ rows'[k].reply < Outstanding'[j]
               /\ Outstanding'[j] - rows'[k].reply <= lost' + (seq' - k) + j
    <3>1. /\ DOMAIN Outstanding' = 1 .. n
          /\ \A j \in 1 .. n : Outstanding'[j] = Outstanding[j]
          /\ lost' = lost /\ seq' = seq + 1
      BY ONLY <1>2, <1>3, <1>4
    <3>2. ASSUME NEW k \in DOMAIN rows', rows'[k].reply # None, NEW j \in DOMAIN Outstanding'
          PROVE  /\ rows'[k].reply < Outstanding'[j]
                 /\ Outstanding'[j] - rows'[k].reply <= lost' + (seq' - k) + j
      <4>1. j \in 1 .. n /\ Outstanding'[j] = Outstanding[j]
        BY <3>1
      <4>2. /\ rows'[k].reply < Outstanding[j]
            /\ Outstanding[j] - rows'[k].reply <= lost + (seq + 1 - k) + j
        BY <2>1, <3>2, <4>1
      <4>3. lost' = lost /\ seq' = seq + 1 /\ Outstanding'[j] = Outstanding[j]
        BY <3>1, <4>1
      <4>4. k \in Int /\ j \in Int /\ seq \in Nat /\ lost \in Nat
        BY <1>2, <1>6, <4>1
      <4>5. lost' + (seq' - k) + j = lost + (seq + 1 - k) + j
        BY ONLY <4>3, <4>4
      <4> QED
        BY ONLY <4>2, <4>3, <4>5
    <3> QED
      BY <3>2
  <2> QED
    BY <2>2 DEF RowsBeforeQueue
<1>14. LagIsTimeouts'
  <2>1. \A k \in DOMAIN rows' : rows'[k].reply # None =>
           /\ rows'[k].reply <= rows'[k].seq
           /\ rows'[k].seq - rows'[k].reply <= Cardinality(TimedOut(k)')
    BY <1>8 DEF IInv, LagIsTimeouts
  <2> QED
    BY <2>1 DEF LagIsTimeouts
<1>15. RepliesUsedOnce' /\ LagIsSticky'
  <2>1. \A i, k \in DOMAIN rows' :
           i < k /\ rows'[i].reply # None /\ rows'[k].reply # None =>
              /\ rows'[i].reply < rows'[k].reply
              /\ (rows'[i].seq - rows'[i].reply) - (rows'[k].seq - rows'[k].reply) <= lost'
    BY <1>4, <1>8 DEF IInv, RepliesUsedOnce, LagIsSticky
  <2> QED
    BY <2>1 DEF RepliesUsedOnce, LagIsSticky
<1> QED
  BY <1>9, <1>10, <1>11, <1>12, <1>13, <1>14, <1>15 DEF IInv

-----------------------------------------------------------------------------
(* The rows and the queue of outstanding replies, for any number of packets *)
(* and any losses (the loop of replay_runner.py).                           *)
THEOREM RunnerInvariant == Spec => []IInv
<1>1. Init => IInv
  BY InitIInv
<1>2. IInv /\ [Next]_vars => IInv'
  <2> SUFFICES ASSUME IInv, [Next]_vars PROVE IInv'
    OBVIOUS
  <2>1. CASE SendAndReflex
    BY <2>1, SendKeeps
  <2>2. CASE Receive
    BY <2>2, ReceiveKeeps
  <2>3. CASE Timeout
    BY <2>3, TimeoutKeeps
  <2>4. CASE Reply /\ UNCHANGED <<seq, act, rows>>
    BY <2>4, ReplyKeeps
  <2>5. CASE Lose /\ UNCHANGED <<seq, act, rows>>
    BY <2>5, LoseKeeps
  <2>6. CASE UNCHANGED vars
    <3>1. UNCHANGED <<pending, inbox, lost, seq, act, rows>>
      BY <2>6 DEF vars, pathVars
    <3>2. \A k : TimedOut(k)' = TimedOut(k)
      BY <3>1 DEF TimedOut
    <3>3. Timeouts' = Timeouts /\ Sent' = Sent /\ Outstanding' = Outstanding
      BY <3>1 DEF Timeouts, TimedOut, Sent, Outstanding
    <3>4. TypeOK' /\ RowsInOrder' /\ Balance' /\ QueueInOrder' /\ RowsBeforeQueue'
      BY <3>1, <3>3 DEF IInv, TypeOK, RowsInOrder, Balance, QueueInOrder, RowsBeforeQueue
    <3>5. LagIsTimeouts' /\ RepliesUsedOnce' /\ LagIsSticky'
      BY <3>1, <3>2 DEF IInv, LagIsTimeouts, RepliesUsedOnce, LagIsSticky
    <3> QED
      BY <3>4, <3>5 DEF IInv
  <2> QED
    BY <2>1, <2>2, <2>3, <2>4, <2>5, <2>6 DEF Next, Path
<1> QED
  BY <1>1, <1>2, PTL DEF Spec

(* A row's reply is at most as many packets behind its own packet as        *)
(* iterations before it timed out (replay_runner.py:94-115).                *)
THEOREM LagNeedsTimeouts == Spec => []LagIsTimeouts
<1>1. IInv => LagIsTimeouts
  BY DEF IInv
<1> QED
  BY <1>1, RunnerInvariant, PTL

(* No reply is written in two rows, and never an earlier one after a later. *)
THEOREM NoReplyTwice == Spec => []RepliesUsedOnce
<1>1. IInv => RepliesUsedOnce
  BY DEF IInv
<1> QED
  BY <1>1, RunnerInvariant, PTL

(* Only lost datagrams bring a runner that has fallen behind closer.        *)
THEOREM NothingCatchesUp == Spec => []LagIsSticky
<1>1. IInv => LagIsSticky
  BY DEF IInv
<1> QED
  BY <1>1, RunnerInvariant, PTL

(* Between iterations every timeout is a loss or a reply still to come.     *)
THEOREM TimeoutsAreOwed == Spec => []BacklogIsTimeouts
<1>1. IInv => BacklogIsTimeouts
  <2> SUFFICES ASSUME IInv, act = None PROVE Len(pending) + Len(inbox) + lost = Timeouts
    BY DEF BacklogIsTimeouts, Timeouts
  <2>1. Len(Outstanding) + lost = Timeouts + seq - seq
    BY DEF IInv, Balance, Sent
  <2>2. /\ Len(Outstanding) = Len(inbox) + Len(pending)
        /\ seq \in Nat /\ lost \in Nat /\ Timeouts \in Nat
    BY Numbers DEF IInv
  <2>3. Len(inbox) \in Nat /\ Len(pending) \in Nat
    BY DEF IInv, TypeOK
  <2> QED
    BY ONLY <2>1, <2>2, <2>3
<1> QED
  BY <1>1, RunnerInvariant, PTL

=============================================================================
