--------------------------- MODULE MediaQueueProofs ---------------------------
(***************************************************************************)
(* Safety of the media queue, for any number of entries and users.         *)
(*                                                                         *)
(* What callers do to the queue is an edit that leaves the head where it   *)
(* is (HeadKeepingStep); only the worker's playNext takes the head off,    *)
(* and by then the entry is the worker's current one and was stopped.      *)
(* IInv says how the worker's cur and prev follow the head, which makes    *)
(* OnlyHeadPlays, RemovedOnce and CursorAhead inductive.                   *)
(*                                                                         *)
(* LifeInv says that it holds in every life of the process, and RestartInv *)
(* what a restart finds in the file and in the database.                   *)
(***************************************************************************)
EXTENDS MediaQueueRestart, SequenceTheorems, FiniteSetTheorems, WellFoundedInduction, TLAPS

-----------------------------------------------------------------------------
(* The edits of the queue's slice: which elements a sequence of distinct    *)
(* ones holds afterwards, that the head stays, and which of its elements    *)
(* change their order.                                                      *)

\* f comes before g in s.
Before(s, f, g) == \E i, j \in 1..Len(s) : i < j /\ s[i] = f /\ s[j] = g

\* No two elements of s have changed their order in t.
SameOrder(s, t) == \A f, g : Before(s, f, g) => ~Before(t, g, f)

\* No two elements of s but e and another one have.
OnlyMoves(s, t, e) == \A f, g : Before(s, f, g) /\ Before(t, g, f) => e \in {f, g}

\* What comes before another element is held, and does not come after it.
LEMMA OneWay ==
  ASSUME NEW s, Len(s) \in Nat, Distinct(s), NEW f, NEW g, Before(s, f, g)
  PROVE  Holds(s, f) /\ Holds(s, g) /\ f # g /\ ~Before(s, g, f)
<1>1. PICK i, j \in 1..Len(s) : i < j /\ s[i] = f /\ s[j] = g
  BY DEF Before
<1>2. Holds(s, f) /\ Holds(s, g)
  BY <1>1 DEF Holds
<1>3. f # g
  BY <1>1 DEF Distinct
<1>4. ASSUME NEW k \in 1..Len(s), NEW l \in 1..Len(s), k < l, s[k] = g, s[l] = f
      PROVE  FALSE
  <2>1. k = j /\ l = i
    BY <1>1, <1>4 DEF Distinct
  <2> QED
    BY <1>1, <1>4, <2>1
<1> QED
  BY <1>2, <1>3, <1>4 DEF Before

\* A sequence that is unchanged keeps its order, whether or not it is empty.
LEMMA NoEdit == ASSUME NEW s, Len(s) \in Nat, Distinct(s) PROVE SameOrder(s, s)
BY OneWay DEF SameOrder

\* What t keeps of s is in s at the increasing positions at.
Keeps(s, t, at) ==
  /\ \A i, j \in 1..Len(t) : i < j /\ Holds(s, t[i]) /\ Holds(s, t[j]) => at[i] < at[j]
  /\ \A i \in 1..Len(t) : Holds(s, t[i]) => at[i] \in 1..Len(s) /\ s[at[i]] = t[i]

\* Then it keeps the order.
LEMMA ShiftKeepsOrder ==
  ASSUME NEW s, Len(s) \in Nat, Distinct(s), NEW t, NEW at, Keeps(s, t, at)
  PROVE  SameOrder(s, t)
<1> SUFFICES ASSUME NEW f, NEW g, Before(s, f, g), Before(t, g, f) PROVE FALSE
  BY DEF SameOrder
<1>1. Holds(s, f) /\ Holds(s, g)
  BY OneWay
<1>2. PICK k, l \in 1..Len(t) : k < l /\ t[k] = g /\ t[l] = f
  BY DEF Before
<1>3. /\ at[k] \in 1..Len(s) /\ s[at[k]] = g
      /\ at[l] \in 1..Len(s) /\ s[at[l]] = f
      /\ at[k] < at[l]
  BY <1>1, <1>2 DEF Keeps
<1>4. Before(s, g, f)
  BY <1>3 DEF Before
<1> QED
  BY <1>4, OneWay

\* Appending an element to a sequence (Enqueue without a cursor).
LEMMA AppendEdit ==
  ASSUME NEW S, NEW s \in Seq(S), Distinct(s), NEW e \in S, ~Holds(s, e)
  PROVE  /\ Append(s, e) \in Seq(S)
         /\ Distinct(Append(s, e))
         /\ Append(s, e) # <<>>
         /\ s # <<>> => Append(s, e)[1] = s[1]
         /\ \A f : Holds(Append(s, e), f) <=> Holds(s, f) \/ f = e
         /\ SameOrder(s, Append(s, e))
<1> DEFINE t == Append(s, e)
<1>1. /\ t \in Seq(S)
      /\ Len(t) = Len(s) + 1
      /\ \A i \in 1..Len(s) : t[i] = s[i]
      /\ t[Len(s) + 1] = e
  BY AppendProperties
<1>2. Len(s) \in Nat
  OBVIOUS
<1> HIDE DEF t
<1>3. Distinct(t)
  BY <1>1, <1>2, SMT DEF Distinct, Holds
<1>4. \A f : Holds(t, f) <=> Holds(s, f) \/ f = e
  BY <1>1, <1>2, SMT DEF Holds
<1>5. t # <<>> /\ (s # <<>> => t[1] = s[1])
  BY <1>1, <1>2, SMT
<1>6. SameOrder(s, t)
  <2> DEFINE at == [i \in 1..Len(t) |-> i]
  <2>1. \A i, j \in 1..Len(t) : i < j /\ Holds(s, t[i]) /\ Holds(s, t[j]) => at[i] < at[j]
    BY <1>1, <1>2
  <2>2. \A i \in 1..Len(t) : Holds(s, t[i]) => at[i] \in 1..Len(s) /\ s[at[i]] = t[i]
    BY <1>1, <1>2
  <2> HIDE DEF at
  <2>3. Keeps(s, t, at)
    BY <2>1, <2>2 DEF Keeps
  <2> QED
    BY <1>2, <2>3, ShiftKeepsOrder
<1> QED
  BY <1>1, <1>3, <1>4, <1>5, <1>6 DEF t

\* Inserting an element anywhere but at the head (Enqueue at the cursor and
\* playAfterNextNoMutex).
LEMMA InsertEdit ==
  ASSUME NEW S, NEW s \in Seq(S), Distinct(s), NEW e \in S, ~Holds(s, e),
         NEW p \in 2..Len(s)
  PROVE  /\ InsertAt(s, p, e) \in Seq(S)
         /\ Distinct(InsertAt(s, p, e))
         /\ InsertAt(s, p, e) # <<>>
         /\ InsertAt(s, p, e)[1] = s[1]
         /\ \A f : Holds(InsertAt(s, p, e), f) <=> Holds(s, f) \/ f = e
         /\ SameOrder(s, InsertAt(s, p, e))
<1> DEFINE t == InsertAt(s, p, e)
           a == SubSeq(s, 1, p-1)
           b == SubSeq(s, p, Len(s))
<1>1. a \in Seq(S) /\ Len(a) = p-1 /\ \A i \in 1..(p-1) : a[i] = s[i]
  BY SMT
<1>2. b \in Seq(S) /\ Len(b) = Len(s) - p + 1 /\ \A i \in 1..(Len(s)-p+1) : b[i] = s[p + i - 1]
  BY SMT
<1>3. t = a \o <<e>> \o b
  BY DEF InsertAt
<1>4. <<e>> \in Seq(S) /\ Len(<<e>>) = 1 /\ <<e>>[1] = e
  OBVIOUS
<1>5. Len(s) \in Nat /\ p \in Nat
  OBVIOUS
<1> HIDE DEF t, a, b
<1> DEFINE c == a \o <<e>>
<1>6. /\ c \in Seq(S)
      /\ Len(c) = Len(a) + 1
      /\ \A i \in 1..(Len(a) + 1) : c[i] = IF i <= Len(a) THEN a[i] ELSE <<e>>[i - Len(a)]
  BY <1>1, <1>4, ConcatProperties
<1>7. t = c \o b
  BY <1>3
<1> HIDE DEF c
<1>8. /\ t \in Seq(S)
      /\ Len(t) = Len(c) + Len(b)
      /\ \A i \in 1..(Len(c) + Len(b)) : t[i] = IF i <= Len(c) THEN c[i] ELSE b[i - Len(c)]
  BY <1>2, <1>6, <1>7, ConcatProperties
<1>9. Len(c) = p /\ c[p] = e /\ \A i \in 1..(p-1) : c[i] = s[i]
  BY <1>1, <1>4, <1>6, <1>5, SMT
<1>10. /\ t \in Seq(S)
       /\ Len(t) = Len(s) + 1
       /\ \A i \in 1..(p-1) : t[i] = s[i]
       /\ t[p] = e
       /\ \A i \in (p+1)..(Len(s)+1) : t[i] = s[i-1]
  <2>1. Len(t) = Len(s) + 1
    BY <1>2, <1>8, <1>9, <1>5, SMT
  <2>2. ASSUME NEW i \in 1..(p-1) PROVE t[i] = s[i]
    <3>1. i \in 1..(Len(c) + Len(b)) /\ i <= Len(c)
      BY <1>2, <1>9, <1>5
    <3>2. t[i] = c[i]
      BY <1>8, <3>1
    <3> QED
      BY <1>9, <3>2
  <2>3. t[p] = e
    <3>1. p \in 1..(Len(c) + Len(b)) /\ p <= Len(c)
      BY <1>2, <1>9, <1>5
    <3>2. t[p] = c[p]
      BY <1>8, <3>1
    <3> QED
      BY <1>9, <3>2
  <2>4. ASSUME NEW i \in (p+1)..(Len(s)+1) PROVE t[i] = s[i-1]
    <3>1. i - p \in 1..(Len(s)-p+1) /\ p + (i - p) - 1 = i - 1 /\ ~(i <= p)
      BY <1>5, SMT
    <3>2. t[i] = b[i - p]
      BY <1>2, <1>8, <1>9, <1>5, <3>1, SMT
    <3>3. b[i - p] = s[p + (i - p) - 1]
      BY <1>2, <3>1
    <3> QED
      BY <3>1, <3>2, <3>3
  <2> QED
    BY <1>8, <2>1, <2>2, <2>3, <2>4
<1> DEFINE at == [i \in 1..Len(t) |-> IF i < p THEN i ELSE i - 1]
<1>11. /\ at \in [1..Len(t) -> Int]
       /\ \A i, j \in 1..Len(t) : i < j /\ i # p /\ j # p => at[i] < at[j]
  BY <1>10, <1>5
<1>12. ASSUME NEW i \in 1..Len(t), i # p PROVE at[i] \in 1..Len(s) /\ s[at[i]] = t[i]
  <2>1. CASE i < p
    BY <2>1, <1>12, <1>10, <1>5
  <2>2. CASE i > p
    <3>1. i \in (p+1)..(Len(s)+1) /\ i - 1 \in 1..Len(s) /\ at[i] = i - 1
      BY <2>2, <1>12, <1>10, <1>5
    <3> QED
      BY <3>1, <1>10
  <2> QED
    BY <2>1, <2>2, <1>12, <1>5
<1> HIDE DEF at
<1>13. \A i \in 1..Len(t) : Holds(s, t[i]) => i # p
  BY <1>10
<1>14. SameOrder(s, t)
  <2>1. \A i, j \in 1..Len(t) : i < j /\ Holds(s, t[i]) /\ Holds(s, t[j]) => at[i] < at[j]
    BY <1>11, <1>13
  <2>2. \A i \in 1..Len(t) : Holds(s, t[i]) => at[i] \in 1..Len(s) /\ s[at[i]] = t[i]
    BY <1>12, <1>13
  <2>3. Keeps(s, t, at)
    BY <2>1, <2>2 DEF Keeps
  <2> QED
    BY <1>5, <2>3, ShiftKeepsOrder
<1>15. Distinct(t)
  <2> SUFFICES ASSUME NEW i \in 1..Len(t), NEW j \in 1..Len(t), i < j PROVE t[i] # t[j]
    BY <1>10, <1>5 DEF Distinct
  <2>1. CASE i # p /\ j # p
    <3>1. /\ at[i] \in 1..Len(s) /\ s[at[i]] = t[i]
          /\ at[j] \in 1..Len(s) /\ s[at[j]] = t[j]
      BY <2>1, <1>12
    <3>2. at[i] # at[j]
      BY <2>1, <3>1, <1>11
    <3> QED
      BY <3>1, <3>2 DEF Distinct
  <2>2. CASE i = p
    <3>1. t[i] = e /\ j # p
      BY <2>2, <1>10, <1>5
    <3> QED
      BY <3>1, <1>12 DEF Holds
  <2>3. CASE j = p
    <3>1. t[j] = e /\ i # p
      BY <2>3, <1>10, <1>5
    <3> QED
      BY <3>1, <1>12 DEF Holds
  <2> QED
    BY <2>1, <2>2, <2>3
<1>16. ASSUME NEW f PROVE Holds(t, f) <=> Holds(s, f) \/ f = e
  <2>1. ASSUME NEW i \in 1..Len(t), t[i] = f PROVE Holds(s, f) \/ f = e
    <3>1. CASE i < p
      <4>1. i \in 1..(p - 1) /\ i \in 1..Len(s) /\ t[i] = s[i]
        BY <3>1, <1>10, <1>5, SMT
      <4> QED
        BY <4>1, <2>1 DEF Holds
    <3>2. CASE i = p
      BY <3>2, <2>1, <1>10
    <3>3. CASE i > p
      <4>1. i \in (p+1)..(Len(s)+1) /\ i - 1 \in 1..Len(s)
        BY <3>3, <1>10, <1>5, SMT
      <4> QED
        BY <4>1, <2>1, <1>10 DEF Holds
    <3> QED
      BY <3>1, <3>2, <3>3, <1>5, SMT
  <2>2. ASSUME NEW i \in 1..Len(s), s[i] = f PROVE Holds(t, f)
    <3>1. CASE i < p
      <4>1. i \in 1..(p - 1) /\ i \in 1..Len(t) /\ t[i] = s[i]
        BY <3>1, <1>10, <1>5, SMT
      <4> QED
        BY <4>1, <2>2 DEF Holds
    <3>2. CASE i >= p
      <4>1. i + 1 \in (p+1)..(Len(s)+1) /\ i + 1 \in 1..Len(t) /\ t[i + 1] = s[i]
        BY <3>2, <1>10, <1>5, SMT
      <4> QED
        BY <4>1, <2>2 DEF Holds
    <3> QED
      BY <3>1, <3>2, SMT
  <2>3. Holds(t, e)
    BY <1>10, <1>5, SMT DEF Holds
  <2> QED
    BY <2>1, <2>2, <2>3 DEF Holds
<1>17. t # <<>> /\ t[1] = s[1]
  BY <1>10, <1>5, SMT
<1> QED
  BY <1>10, <1>14, <1>15, <1>16, <1>17 DEF t

\* Removing an element that is not the head (removeEntryInMutex).
LEMMA RemoveEdit ==
  ASSUME NEW S, NEW s \in Seq(S), Distinct(s), NEW p \in 2..Len(s)
  PROVE  /\ RemoveAt(s, p) \in Seq(S)
         /\ Distinct(RemoveAt(s, p))
         /\ RemoveAt(s, p) # <<>>
         /\ RemoveAt(s, p)[1] = s[1]
         /\ \A f : Holds(RemoveAt(s, p), f) <=> Holds(s, f) /\ f # s[p]
         /\ SameOrder(s, RemoveAt(s, p))
<1> DEFINE t == RemoveAt(s, p)
           a == SubSeq(s, 1, p-1)
           b == SubSeq(s, p+1, Len(s))
<1>1. a \in Seq(S) /\ Len(a) = p-1 /\ \A i \in 1..(p-1) : a[i] = s[i]
  BY SMT
<1>2. b \in Seq(S) /\ Len(b) = Len(s) - p /\ \A i \in 1..(Len(s)-p) : b[i] = s[p + i]
  BY SMT
<1>3. t = a \o b
  BY DEF RemoveAt
<1>4. Len(s) \in Nat /\ p \in Nat
  OBVIOUS
<1> HIDE DEF t, a, b
<1>5. /\ t \in Seq(S)
      /\ Len(t) = Len(a) + Len(b)
      /\ \A i \in 1..(Len(a) + Len(b)) : t[i] = IF i <= Len(a) THEN a[i] ELSE b[i - Len(a)]
  BY <1>1, <1>2, <1>3, ConcatProperties
<1>6. /\ Len(t) = Len(s) - 1
      /\ \A i \in 1..(p-1) : t[i] = s[i]
      /\ \A i \in p..(Len(s)-1) : t[i] = s[i+1]
  <2>1. Len(t) = Len(s) - 1
    BY <1>1, <1>2, <1>4, <1>5, SMT
  <2>2. Len(a) = p-1 /\ Len(a) + Len(b) = Len(s) - 1
    BY <1>1, <1>2, <1>4, SMT
  <2>3. \A i \in 1..(Len(s)-1) : t[i] = IF i <= p-1 THEN a[i] ELSE b[i - (p-1)]
    BY <1>5, <2>2
  <2>4. ASSUME NEW i \in 1..(p-1) PROVE t[i] = s[i]
    BY <1>1, <1>4, <2>3, SMT
  <2>5. ASSUME NEW i \in p..(Len(s)-1) PROVE t[i] = s[i+1]
    <3>1. i - (p - 1) \in 1..(Len(s)-p) /\ p + (i - (p - 1)) = i + 1 /\ ~(i <= p - 1)
      BY <1>4, SMT
    <3>2. t[i] = b[i - (p - 1)]
      BY <1>4, <2>3, <3>1, SMT
    <3>3. b[i - (p - 1)] = s[p + (i - (p - 1))]
      BY <1>2, <3>1
    <3> QED
      BY <3>1, <3>2, <3>3
  <2> QED
    BY <2>1, <2>4, <2>5
<1> DEFINE at == [i \in 1..Len(t) |-> IF i < p THEN i ELSE i + 1]
<1>7. /\ at \in [1..Len(t) -> Int]
       /\ \A i, j \in 1..Len(t) : i < j => at[i] < at[j]
  BY <1>6, <1>4
<1>8. ASSUME NEW i \in 1..Len(t) PROVE at[i] \in (1..Len(s)) \ {p} /\ s[at[i]] = t[i]
  <2>1. CASE i < p
    BY <2>1, <1>6, <1>4
  <2>2. CASE i >= p
    <3>1. i \in p..(Len(s)-1) /\ i + 1 \in (1..Len(s)) \ {p} /\ at[i] = i + 1
      BY <2>2, <1>6, <1>4
    <3> QED
      BY <3>1, <1>6
  <2> QED
    BY <2>1, <2>2, <1>4
<1> HIDE DEF at
<1>9. SameOrder(s, t)
  <2>1. \A i, j \in 1..Len(t) : i < j /\ Holds(s, t[i]) /\ Holds(s, t[j]) => at[i] < at[j]
    BY <1>7
  <2>2. \A i \in 1..Len(t) : Holds(s, t[i]) => at[i] \in 1..Len(s) /\ s[at[i]] = t[i]
    BY <1>8
  <2>3. Keeps(s, t, at)
    BY <2>1, <2>2 DEF Keeps
  <2> QED
    BY <1>4, <2>3, ShiftKeepsOrder
<1>10. Distinct(t)
  <2> SUFFICES ASSUME NEW i \in 1..Len(t), NEW j \in 1..Len(t), i < j PROVE t[i] # t[j]
    <3>1. \A i, j \in 1..Len(t) : i < j \/ j < i \/ i = j
      BY <1>6, <1>4
    <3> QED
      BY <3>1 DEF Distinct
  <2>1. at[i] # at[j] /\ at[i] \in 1..Len(s) /\ at[j] \in 1..Len(s)
    BY <1>7, <1>8
  <2> QED
    BY <2>1, <1>8 DEF Distinct
<1>11. ASSUME NEW f PROVE Holds(t, f) <=> Holds(s, f) /\ f # s[p]
  <2>1. ASSUME NEW i \in 1..Len(t), t[i] = f PROVE Holds(s, f) /\ f # s[p]
    <3>1. at[i] \in 1..Len(s) /\ at[i] # p /\ s[at[i]] = f
      BY <2>1, <1>8
    <3> QED
      BY <3>1 DEF Holds, Distinct
  <2>2. ASSUME NEW i \in 1..Len(s), s[i] = f, f # s[p] PROVE Holds(t, f)
    <3>1. CASE i < p
      BY <3>1, <2>2, <1>4, <1>6, SMT DEF Holds
    <3>2. CASE i > p
      <4>1. i - 1 \in p..(Len(s)-1) /\ i - 1 \in 1..Len(t) /\ t[i - 1] = s[i]
        BY <3>2, <1>4, <1>6, SMT
      <4> QED
        BY <4>1, <2>2 DEF Holds
    <3> QED
      BY <3>1, <3>2, <2>2, SMT
  <2> QED
    BY <2>1, <2>2 DEF Holds
<1>12. t # <<>> /\ t[1] = s[1]
  BY <1>4, <1>5, <1>6, SMT
<1> QED
  BY <1>5, <1>9, <1>10, <1>11, <1>12 DEF t

\* Exchanging two elements neither of which is the head (MoveEntry).
Swap(s, p, q) == [s EXCEPT ![p] = s[q], ![q] = s[p]]

LEMMA SwapEdit ==
  ASSUME NEW S, NEW s \in Seq(S), Distinct(s), NEW p \in 2..Len(s), NEW q \in 2..Len(s)
  PROVE  /\ Swap(s, p, q) \in Seq(S)
         /\ Distinct(Swap(s, p, q))
         /\ Swap(s, p, q) # <<>>
         /\ Swap(s, p, q)[1] = s[1]
         /\ \A f : Holds(Swap(s, p, q), f) <=> Holds(s, f)
<1> DEFINE t == Swap(s, p, q)
<1>1. Len(s) \in Nat /\ \A i \in 1..Len(s) : s[i] \in S
  OBVIOUS
<1>2. /\ t \in Seq(S)
      /\ Len(t) = Len(s)
      /\ t[q] = s[p]
      /\ p # q => t[p] = s[q]
      /\ \A i \in (1..Len(s)) \ {p, q} : t[i] = s[i]
  BY <1>1, SMT DEF Swap
<1> HIDE DEF t
<1>3. Distinct(t)
  BY <1>1, <1>2, SMTT(30) DEF Distinct
<1>4. ASSUME NEW f PROVE Holds(t, f) <=> Holds(s, f)
  BY <1>1, <1>2, SMTT(30) DEF Holds
<1>5. t # <<>> /\ t[1] = s[1]
  BY <1>1, <1>2, SMT
<1> QED
  BY <1>2, <1>3, <1>4, <1>5 DEF t

\* Exchanging neighbours changes the order of no two elements but these.
LEMMA AdjacentSwap ==
  ASSUME NEW S, NEW s \in Seq(S), Distinct(s), NEW p \in 2..Len(s), NEW q \in 2..Len(s),
         q = p + 1 \/ q = p - 1
  PROVE  OnlyMoves(s, Swap(s, p, q), s[p])
<1> SUFFICES ASSUME NEW f, NEW g, Before(s, f, g), Before(Swap(s, p, q), g, f)
             PROVE  s[p] \in {f, g}
  BY DEF OnlyMoves
<1> DEFINE t == Swap(s, p, q)
<1>1. Len(s) \in Nat /\ \A i \in 1..Len(s) : s[i] \in S
  OBVIOUS
<1>2. Len(t) = Len(s) /\ t[q] = s[p] /\ t[p] = s[q] /\ \A i \in (1..Len(s)) \ {p, q} : t[i] = s[i]
  BY <1>1 DEF Swap
<1> HIDE DEF t
<1>3. PICK i, j \in 1..Len(s) : i < j /\ s[i] = f /\ s[j] = g
  BY DEF Before
<1>4. PICK k, l \in 1..Len(s) : k < l /\ t[k] = g /\ t[l] = f
  BY <1>2 DEF Before, t
<1> DEFINE back(m) == IF m = p THEN q ELSE IF m = q THEN p ELSE m
<1>5. back(k) \in 1..Len(s) /\ s[back(k)] = g /\ back(l) \in 1..Len(s) /\ s[back(l)] = f
  BY <1>1, <1>2, <1>4
<1>6. back(k) = j /\ back(l) = i
  BY <1>3, <1>5 DEF Distinct
<1>7. {i, j} = {p, q}
  BY <1>1, <1>3, <1>4, <1>6
<1> QED
  BY <1>3, <1>7

\* Taking the head off (playNext).
LEMMA TailEdit ==
  ASSUME NEW S, NEW s \in Seq(S), Distinct(s), s # <<>>
  PROVE  /\ Tail(s) \in Seq(S)
         /\ Distinct(Tail(s))
         /\ \A f : Holds(Tail(s), f) <=> Holds(s, f) /\ f # s[1]
         /\ SameOrder(s, Tail(s))
<1> DEFINE t == Tail(s)
<1>1. /\ t \in Seq(S)
      /\ Len(t) = Len(s) - 1
      /\ Len(s) \in Nat \ {0}
      /\ \A i \in 1..(Len(s) - 1) : t[i] = s[i + 1]
  BY SMT
<1> HIDE DEF t
<1>2. Distinct(t)
  BY <1>1, SMT DEF Distinct
<1>3. ASSUME NEW f PROVE Holds(t, f) <=> Holds(s, f) /\ f # s[1]
  <2>1. Holds(t, f) => Holds(s, f) /\ f # s[1]
    BY <1>1, SMT DEF Holds, Distinct
  <2>2. ASSUME NEW i \in 1..Len(s), s[i] = f, f # s[1] PROVE Holds(t, f)
    <3>1. i - 1 \in 1..Len(t) /\ t[i - 1] = s[i]
      BY <1>1, <2>2, SMT
    <3> QED
      BY <3>1, <2>2 DEF Holds
  <2> QED
    BY <2>1, <2>2 DEF Holds
<1>4. SameOrder(s, t)
  <2> DEFINE at == [i \in 1..Len(t) |-> i + 1]
  <2>1. \A i, j \in 1..Len(t) : i < j /\ Holds(s, t[i]) /\ Holds(s, t[j]) => at[i] < at[j]
    BY <1>1
  <2>2. \A i \in 1..Len(t) : Holds(s, t[i]) => at[i] \in 1..Len(s) /\ s[at[i]] = t[i]
    BY <1>1
  <2>3. Len(s) \in Nat
    BY <1>1
  <2> HIDE DEF at
  <2>4. Keeps(s, t, at)
    BY <2>1, <2>2 DEF Keeps
  <2> QED
    BY <2>3, <2>4, ShiftKeepsOrder
<1> QED
  BY <1>1, <1>2, <1>3, <1>4 DEF t

-----------------------------------------------------------------------------
(* The inductive invariant                                                  *)

\* The part of the state the invariants are about has its type.
CoreTypes ==
  /\ queue \in Seq(Entries) /\ Distinct(queue)
  /\ insertCursor \in Entries \cup {NoEntry}
  /\ used \subseteq Entries
  /\ started \in [Entries -> BOOLEAN]
  /\ played \in [Entries -> BOOLEAN]
  /\ donePending \in [Entries -> BOOLEAN]
  /\ pc \in {"read", "announce", "check", "play", "subscribe", "wait", "pop"}
  /\ cur \in Entries \cup {NoEntry}
  /\ prev \in Entries \cup {NoEntry}
  /\ onNextMedia \in BOOLEAN
  /\ removed \in [Entries -> Nat]

\* From its first critical section on, the worker's cur is the head.
CurIsHead == pc # "read" /\ cur # NoEntry => queue # <<>> /\ queue[1] = cur

\* After the announcement prev is cur; a position past the check has an entry.
PrevFollows ==
  /\ pc \in {"check", "play", "subscribe", "wait", "pop"} => prev = cur
  /\ pc \in {"check", "play", "subscribe", "pop"} => cur # NoEntry

\* The announced entry is the head, or it has left the queue.
PrevIsHead ==
  /\ prev # NoEntry /\ Queued(prev) => queue # <<>> /\ queue[1] = prev
  /\ pc = "announce" /\ cur = NoEntry /\ prev # NoEntry => ~Queued(prev)

\* A notification about an entry, delivered or deferred, follows its stop.
NotifiedWasPlayed ==
  /\ \A e \in Entries : donePending[e] => played[e]
  /\ onNextMedia => pc = "wait" /\ cur # NoEntry /\ played[cur]
  /\ pc = "pop" => played[cur]

\* What is playing is the head, announced, and the worker's current entry.
HeadPlays ==
  \A e \in Entries : Playing(e) => /\ queue # <<>> /\ queue[1] = e
                                   /\ prev = e
                                   /\ pc # "read" => cur = e

\* Entries in the queue or announced were handed to it before.
UsedBefore ==
  /\ \A e \in Entries : Queued(e) => e \in used
  /\ prev # NoEntry => prev \in used

IInv == /\ CoreTypes /\ CurIsHead /\ PrevFollows /\ PrevIsHead /\ NotifiedWasPlayed
        /\ HeadPlays /\ UsedBefore /\ RemovedOnce /\ CursorAhead

\* What a step may do to the entries' playing state on behalf of a caller or a
\* timer: stop them, and notify those that listen.
OnlyStops ==
  /\ started' \in [Entries -> BOOLEAN] /\ played' \in [Entries -> BOOLEAN]
  /\ donePending' \in [Entries -> BOOLEAN] /\ onNextMedia' \in BOOLEAN
  /\ \A f \in Entries : played[f] => played'[f]
  /\ \A f \in Entries : started'[f] /\ ~played'[f] => Playing(f)
  /\ \A f \in Entries : donePending'[f] => played'[f]
  /\ onNextMedia' => pc = "wait" /\ cur # NoEntry /\ played'[cur]

\* CommonQueueEntry.Stop only stops the entry.
LEMMA StopOnlyStops == ASSUME IInv, NEW e \in Entries, Stop(e) PROVE OnlyStops
<1> USE DEF IInv, CoreTypes, NotifiedWasPlayed
<1>1. CASE Playing(e)
  <2>1. /\ played' = [played EXCEPT ![e] = TRUE]
        /\ onNextMedia' = (onNextMedia \/ WorkerListens(e))
        /\ donePending' = [donePending EXCEPT ![e] = @ \/ ~(WorkerListens(e) \/ TimerListens(e))]
        /\ UNCHANGED started
    BY <1>1 DEF Stop
  <2>2. WorkerListens(e) => pc = "wait" /\ cur = e /\ cur # NoEntry
    BY QueueAssumption DEF WorkerListens
  <2>3. (WorkerListens(e) \in BOOLEAN) /\ ((WorkerListens(e) \/ TimerListens(e)) \in BOOLEAN)
    BY DEF WorkerListens, TimerListens
  <2>4. onNextMedia => cur \in Entries
    OBVIOUS
  <2>5. donePending' \in [Entries -> BOOLEAN] /\ \A f \in Entries : donePending'[f] => played'[f]
    BY <2>1, <2>3
  <2>6. onNextMedia' \in BOOLEAN /\ (onNextMedia' => pc = "wait" /\ cur # NoEntry /\ played'[cur])
    BY <2>1, <2>2, <2>3, <2>4
  <2> QED
    BY <2>1, <2>5, <2>6 DEF OnlyStops, Playing
<1>2. CASE ~Playing(e)
  BY <1>2 DEF Stop, OnlyStops, Playing, playVars
<1> QED
  BY <1>1, <1>2

\* A step that leaves the playing state alone stops nothing.
LEMMA UnchangedOnlyStops == ASSUME IInv, UNCHANGED playVars PROVE OnlyStops
BY DEF IInv, CoreTypes, NotifiedWasPlayed, OnlyStops, Playing, playVars

\* The heart of the argument: any step of a caller, a timer or the persister
\* keeps the head, adds only fresh entries, and fires entryRemoved for what it
\* takes out.
LEMMA HeadKeepingStep ==
  ASSUME IInv, OnlyStops, NEW add \in SUBSET Entries, NEW del \in SUBSET Entries,
         queue' \in Seq(Entries), Distinct(queue'),
         queue # <<>> => queue' # <<>> /\ queue'[1] = queue[1],
         \A e \in Entries : Holds(queue', e) <=> (Holds(queue, e) /\ e \notin del) \/ e \in add,
         add \cap used = {}, used' = used \cup add,
         \A e \in del : Queued(e) /\ e # queue[1],
         removed' = [e \in Entries |-> IF e \in del THEN removed[e] + 1 ELSE removed[e]],
         pc' = pc, cur' = cur, prev' = prev,
         insertCursor' \in Entries \cup {NoEntry},
         insertCursor' # NoEntry => /\ Holds(queue', insertCursor')
                                    /\ pc # "read" => insertCursor' # cur
  PROVE  IInv'
<1> USE DEF IInv, Queued
<1>1. CoreTypes'
  BY DEF CoreTypes, OnlyStops
<1>2. CurIsHead' /\ PrevFollows'
  BY DEF CurIsHead, PrevFollows, CoreTypes
<1>3. PrevIsHead'
  <2>1. ASSUME prev # NoEntry PROVE Holds(queue', prev) <=> Holds(queue, prev) /\ prev \notin del
    BY <2>1 DEF UsedBefore, CoreTypes
  <2>2. ASSUME prev # NoEntry, Holds(queue, prev) PROVE queue' # <<>> /\ queue'[1] = prev
    BY <2>2 DEF PrevIsHead
  <2> QED
    BY <2>1, <2>2 DEF PrevIsHead
<1>4. NotifiedWasPlayed'
  <2>1. pc = "pop" => cur \in Entries
    BY DEF PrevFollows, CoreTypes
  <2> QED
    BY <2>1 DEF NotifiedWasPlayed, OnlyStops
<1>5. HeadPlays'
  BY DEF HeadPlays, OnlyStops, Playing
<1>6. UsedBefore'
  BY DEF UsedBefore
<1>7. RemovedOnce'
  <2> SUFFICES ASSUME NEW e \in Entries
               PROVE  removed'[e] = IF e \in used' /\ ~Holds(queue', e) /\ e # prev THEN 1 ELSE 0
    BY DEF RemovedOnce
  <2>1. CASE e \in del
    <3>0. e \in Entries /\ Holds(queue, e) /\ e # queue[1]
      BY <2>1
    <3>1. e \in used /\ e \notin add
      BY <3>0 DEF UsedBefore
    <3>3. e # prev
      BY <3>0, QueueAssumption DEF PrevIsHead
    <3>2. removed[e] = 0
      BY <3>0 DEF RemovedOnce
    <3> QED
      BY <2>1, <3>0, <3>1, <3>2, <3>3
  <2>2. CASE e \in add
    <3>1. removed[e] = 0
      BY <2>2 DEF RemovedOnce
    <3>2. e \notin del
      BY <2>2 DEF UsedBefore
    <3> QED
      BY <2>2, <3>1, <3>2
  <2>3. CASE e \notin del /\ e \notin add
    BY <2>3 DEF RemovedOnce
  <2> QED
    BY <2>1, <2>2, <2>3
<1>8. CursorAhead'
  BY DEF CursorAhead
<1> QED
  BY <1>1, <1>2, <1>3, <1>4, <1>5, <1>6, <1>7, <1>8
-----------------------------------------------------------------------------
(* Edits as operations of the queue                                          *)

\* The head stays where it is.
HeadKept == queue # <<>> => queue' # <<>> /\ queue'[1] = queue[1]

\* A step that adds e, or takes it out, behind the head and leaves the rest in order.
Added(e) ==
  /\ queue' \in Seq(Entries) /\ Distinct(queue') /\ queue' # <<>> /\ HeadKept
  /\ \A f : Holds(queue', f) <=> Holds(queue, f) \/ f = e
  /\ SameOrder(queue, queue')

TakenOut(e) ==
  /\ queue' \in Seq(Entries) /\ Distinct(queue') /\ HeadKept
  /\ \A f : Holds(queue', f) <=> Holds(queue, f) /\ f # e
  /\ SameOrder(queue, queue')

\* A step that moves e behind the head: it overtakes or falls back, the rest stays.
Moved(e) ==
  /\ queue' \in Seq(Entries) /\ Distinct(queue') /\ HeadKept
  /\ \A f : Holds(queue', f) <=> Holds(queue, f)
  /\ OnlyMoves(queue, queue', e)

\* A fresh entry is not in the queue.
LEMMA FreshNotQueued == ASSUME IInv, NEW e \in Entries, Fresh(e) PROVE ~Holds(queue, e)
BY DEF IInv, UsedBefore, Fresh, Queued

LEMMA EnqueueAdds == ASSUME IInv, NEW e \in Entries, Enqueue(e) PROVE Added(e)
<1>1. queue \in Seq(Entries) /\ Distinct(queue) /\ ~Holds(queue, e)
  BY FreshNotQueued DEF IInv, CoreTypes, Enqueue
<1>2. CASE EnqueueAtCursor(e)
  <2>1. PICK i \in 2..Len(queue) : queue' = InsertAt(queue, i, e)
    BY <1>2 DEF EnqueueAtCursor
  <2> QED
    BY <1>1, <2>1, InsertEdit DEF Added, HeadKept
<1>3. CASE EnqueueAtEnd(e)
  <2>1. queue' = Append(queue, e)
    BY <1>3 DEF EnqueueAtEnd
  <2> QED
    BY <1>1, <2>1, AppendEdit DEF Added, HeadKept
<1> QED
  BY <1>2, <1>3 DEF Enqueue

LEMMA PlayAfterNextAdds ==
  ASSUME IInv, NEW e \in Entries, Fresh(e), playAfterNextNoMutex(e)
  PROVE  Added(e)
<1>1. queue \in Seq(Entries) /\ Distinct(queue) /\ ~Holds(queue, e)
  BY FreshNotQueued DEF IInv, CoreTypes
<1>2. CASE Len(queue) < 2
  <2>1. queue' = Append(queue, e)
    BY <1>2 DEF playAfterNextNoMutex
  <2> QED
    BY <1>1, <2>1, AppendEdit DEF Added, HeadKept
<1>3. CASE ~(Len(queue) < 2)
  <2>1. 2 \in 2..Len(queue) /\ queue' = InsertAt(queue, 2, e)
    BY <1>1, <1>3 DEF playAfterNextNoMutex
  <2> QED
    BY <1>1, <2>1, InsertEdit DEF Added, HeadKept
<1> QED
  BY <1>2, <1>3

LEMMA RemoveTakesOut ==
  ASSUME IInv, NEW e \in Entries, removeEntryInMutex(e), e # queue[1]
  PROVE  TakenOut(e)
<1>1. queue \in Seq(Entries) /\ Distinct(queue)
  BY DEF IInv, CoreTypes
<1>2. Index(e) \in 1..Len(queue) /\ queue[Index(e)] = e
  BY DEF removeEntryInMutex, Queued, Index, Holds
<1>3. Index(e) \in 2..Len(queue)
  BY <1>1, <1>2
<1>4. queue' = RemoveAt(queue, Index(e))
  BY DEF removeEntryInMutex
<1> QED
  BY <1>1, <1>2, <1>3, <1>4, RemoveEdit DEF TakenOut, HeadKept

LEMMA MoveEntryMoves ==
  ASSUME IInv, NEW e \in Entries, NEW u \in Users, NEW up \in BOOLEAN, MoveEntry(e, u, up)
  PROVE  Moved(e) /\ u \notin movedBy[e]
<1> DEFINE i == Index(e)
           j == IF up THEN i - 1 ELSE i + 1
<1>1. queue \in Seq(Entries) /\ Distinct(queue)
  BY DEF IInv, CoreTypes
<1>2. canMoveEntryInMutex(i, j, u) /\ queue' = [queue EXCEPT ![i] = queue[j], ![j] = queue[i]]
  BY DEF MoveEntry
<1>3. i \in 1..Len(queue) /\ queue[i] = e
  BY DEF MoveEntry, Queued, Index, Holds
<1>4. i \in 2..Len(queue) /\ j \in 2..Len(queue) /\ (j = i + 1 \/ j = i - 1)
  BY <1>1, <1>2, <1>3 DEF canMoveEntryInMutex
<1>5. u \notin movedBy[e]
  BY <1>2, <1>3 DEF canMoveEntryInMutex
<1> HIDE DEF i, j
<1>6. queue' = Swap(queue, i, j)
  BY <1>2 DEF Swap
<1>7. /\ queue' \in Seq(Entries) /\ Distinct(queue') /\ HeadKept
      /\ \A f : Holds(queue', f) <=> Holds(queue, f)
  BY <1>1, <1>4, <1>6, SwapEdit DEF HeadKept
<1>8. OnlyMoves(queue, queue', e)
  BY <1>1, <1>3, <1>4, <1>6, AdjacentSwap
<1> QED
  BY <1>5, <1>7, <1>8 DEF Moved

-----------------------------------------------------------------------------
(* Steps of callers, timers and persistenceWorker                          *)

\* The cases of HeadKeepingStep in which the queue itself is not touched.
LEMMA QueueKept ==
  ASSUME IInv, OnlyStops, queue' = queue, used' = used, removed' = removed,
         pc' = pc, cur' = cur, prev' = prev, insertCursor' \in {insertCursor, NoEntry}
  PROVE  IInv'
<1>1. queue \in Seq(Entries) /\ Distinct(queue) /\ insertCursor \in Entries \cup {NoEntry}
      /\ removed \in [Entries -> Nat]
  BY DEF IInv, CoreTypes
<1>2. insertCursor # NoEntry => /\ Holds(queue, insertCursor)
                                /\ pc # "read" => insertCursor # cur
  BY DEF IInv, CursorAhead, Queued
<1>3. removed' = [e \in Entries |-> IF e \in {} THEN removed[e] + 1 ELSE removed[e]]
  BY <1>1
<1>4. \A f \in Entries : Holds(queue', f) <=> (Holds(queue, f) /\ f \notin {}) \/ f \in {}
  OBVIOUS
<1>5. {} \in SUBSET Entries /\ used' = used \cup {} /\ {} \cap used = {}
  OBVIOUS
<1>6. insertCursor' \in Entries \cup {NoEntry} /\ \A f \in {} : Queued(f) /\ f # queue[1]
  BY <1>1
<1> QED
  BY <1>1, <1>2, <1>3, <1>4, <1>5, <1>6, HeadKeepingStep

\* What may become of the cursor when one entry is added to the queue.
LEMMA OneAdded ==
  ASSUME IInv, OnlyStops, NEW e \in Entries, Fresh(e), removed' = removed,
         Added(e),
         pc' = pc, cur' = cur, prev' = prev, insertCursor' \in {insertCursor, NoEntry}
  PROVE  IInv'
<1>1. insertCursor \in Entries \cup {NoEntry} /\ removed \in [Entries -> Nat]
  BY DEF IInv, CoreTypes
<1>2. insertCursor # NoEntry => /\ Holds(queue, insertCursor)
                                /\ pc # "read" => insertCursor # cur
  BY DEF IInv, CursorAhead, Queued
<1>3. removed' = [f \in Entries |-> IF f \in {} THEN removed[f] + 1 ELSE removed[f]]
  BY <1>1
<1>4. {e} \cap used = {} /\ used' = used \cup {e}
  BY DEF Fresh
<1>5. /\ queue' \in Seq(Entries) /\ Distinct(queue')
      /\ queue # <<>> => queue' # <<>> /\ queue'[1] = queue[1]
      /\ \A f \in Entries : Holds(queue', f) <=> (Holds(queue, f) /\ f \notin {}) \/ f \in {e}
  BY DEF Added, HeadKept
<1>6. {e} \in SUBSET Entries /\ {} \in SUBSET Entries /\ \A f \in {} : Queued(f) /\ f # queue[1]
  OBVIOUS
<1>7. /\ insertCursor' \in Entries \cup {NoEntry}
      /\ insertCursor' # NoEntry => /\ Holds(queue', insertCursor')
                                    /\ pc # "read" => insertCursor' # cur
  BY <1>1, <1>2 DEF Added
<1> QED
  BY <1>3, <1>4, <1>5, <1>6, <1>7, HeadKeepingStep

\* Enqueue adds one entry behind the head, at the cursor or at the end.
LEMMA EnqueueStep == ASSUME IInv, NEW e \in Entries, Enqueue(e) PROVE IInv'
<1>1. Fresh(e) /\ UNCHANGED <<playVars, workVars>> /\ insertCursor' \in {insertCursor, NoEntry}
  BY DEF Enqueue, EnqueueAtCursor, EnqueueAtEnd
<1> QED
  BY <1>1, EnqueueAdds, UnchangedOnlyStops, OneAdded DEF workVars

\* PlayAfterCurrent and PlayNow add one entry behind the head.
LEMMA PlayAfterNextStep ==
  ASSUME IInv, OnlyStops, NEW e \in Entries, Fresh(e), playAfterNextNoMutex(e),
         UNCHANGED <<insertCursor, workVars>>
  PROVE  IInv'
BY PlayAfterNextAdds, OneAdded DEF workVars

\* Removing stops the head, or takes out and announces another entry.
LEMMA RemoveStep == ASSUME IInv, NEW e \in Entries, removeEntryInMutex(e) PROVE IInv'
<1>1. queue \in Seq(Entries) /\ Distinct(queue) /\ insertCursor \in Entries \cup {NoEntry}
      /\ removed \in [Entries -> Nat]
  BY DEF IInv, CoreTypes
<1>2. used' = used /\ pc' = pc /\ cur' = cur /\ prev' = prev /\ Holds(queue, e)
  BY DEF removeEntryInMutex, Queued
<1>3. CASE e = queue[1]
  <2>1. Stop(e) /\ UNCHANGED <<queue, insertCursor, removed>>
    BY <1>3 DEF removeEntryInMutex
  <2> QED
    BY <1>2, <2>1, StopOnlyStops, QueueKept
<1>4. CASE e # queue[1]
  <2>1. /\ queue' = RemoveAt(queue, Index(e))
        /\ insertCursor' = IF e = insertCursor THEN NoEntry ELSE insertCursor
        /\ removed' = [removed EXCEPT ![e] = @ + 1]
        /\ UNCHANGED playVars
    BY <1>4 DEF removeEntryInMutex
  <2>2. /\ queue' \in Seq(Entries) /\ Distinct(queue')
        /\ queue # <<>> => queue' # <<>> /\ queue'[1] = queue[1]
        /\ \A f : Holds(queue', f) <=> Holds(queue, f) /\ f # e
    BY <1>4, RemoveTakesOut DEF TakenOut, HeadKept
  <2>3. insertCursor' # NoEntry => /\ Holds(queue', insertCursor')
                                   /\ pc # "read" => insertCursor' # cur
    BY <2>1, <2>2 DEF IInv, CursorAhead, Queued
  <2>4. removed' = [f \in Entries |-> IF f \in {e} THEN removed[f] + 1 ELSE removed[f]]
    BY <1>1, <2>1
  <2>5. OnlyStops
    BY <2>1, UnchangedOnlyStops
  <2>6. \A f \in Entries : Holds(queue', f) <=> (Holds(queue, f) /\ f \notin {e}) \/ f \in {}
    BY <2>2
  <2>7. \A f \in {e} : Queued(f) /\ f # queue[1]
    BY <1>2, <1>4 DEF Queued
  <2>8. insertCursor' \in Entries \cup {NoEntry}
    BY <1>1, <2>1
  <2>9. {e} \in SUBSET Entries /\ {} \in SUBSET Entries /\ used' = used \cup {} /\ {} \cap used = {}
    BY <1>2
  <2> QED
    BY <1>2, <2>2, <2>3, <2>4, <2>5, <2>6, <2>7, <2>8, <2>9, HeadKeepingStep
<1> QED
  BY <1>3, <1>4

\* Moving exchanges two entries behind the head.
LEMMA MoveStep ==
  ASSUME IInv, NEW e \in Entries, NEW u \in Users, NEW up \in BOOLEAN, MoveEntry(e, u, up)
  PROVE  IInv'
<1>1. removed \in [Entries -> Nat] /\ insertCursor \in Entries \cup {NoEntry}
  BY DEF IInv, CoreTypes
<1>2. UNCHANGED <<insertCursor, used, playVars, workVars>>
  BY DEF MoveEntry
<1>3. /\ queue' \in Seq(Entries) /\ Distinct(queue')
      /\ queue # <<>> => queue' # <<>> /\ queue'[1] = queue[1]
      /\ \A f : Holds(queue', f) <=> Holds(queue, f)
  BY MoveEntryMoves DEF Moved, HeadKept
<1>4. insertCursor' # NoEntry => /\ Holds(queue', insertCursor')
                                 /\ pc # "read" => insertCursor' # cur
  BY <1>2, <1>3 DEF IInv, CursorAhead, Queued
<1>5. removed' = [f \in Entries |-> IF f \in {} THEN removed[f] + 1 ELSE removed[f]]
  BY <1>1, <1>2 DEF workVars
<1>6. OnlyStops
  BY <1>2, UnchangedOnlyStops
<1>7. \A f \in Entries : Holds(queue', f) <=> (Holds(queue, f) /\ f \notin {}) \/ f \in {}
  BY <1>3
<1>8. {} \in SUBSET Entries /\ used' = used \cup {} /\ {} \cap used = {}
  BY <1>2
<1>9. pc' = pc /\ cur' = cur /\ prev' = prev /\ insertCursor' \in Entries \cup {NoEntry}
  BY <1>1, <1>2 DEF workVars
<1> QED
  BY <1>3, <1>4, <1>5, <1>6, <1>7, <1>8, <1>9, HeadKeepingStep

\* Every operation of a caller keeps the invariant.
LEMMA CallerStep == ASSUME IInv, Caller PROVE IInv'
<1> USE DEF apiVars, workVars, fileVars
<1>1. ASSUME NEW s \in AllSwitches, NEW on \in BOOLEAN, SetAllowed(s, on) PROVE IInv'
  BY <1>1, UnchangedOnlyStops, QueueKept DEF SetAllowed
<1>2. ASSUME NEW u \in Users, RefillTokens(u) PROVE IInv'
  BY <1>2, UnchangedOnlyStops, QueueKept DEF RefillTokens
<1>3. ASSUME NEW e \in Entries, SetInsertCursor(e) PROVE IInv'
  <2>1. PICK i \in 2..Len(queue) : queue[i] = e
    BY <1>3 DEF SetInsertCursor
  <2>2. insertCursor' = e /\ UNCHANGED <<queue, used, removed, pc, cur, prev, playVars>>
    BY <1>3 DEF SetInsertCursor
  <2>3. queue \in Seq(Entries) /\ Distinct(queue) /\ removed \in [Entries -> Nat]
    BY DEF IInv, CoreTypes
  <2>4. Holds(queue, e) /\ e # queue[1]
    BY <2>1, <2>3 DEF Holds, Distinct
  <2>5. pc # "read" => e # cur
    BY <2>4, QueueAssumption DEF IInv, CurIsHead
  <2>6. OnlyStops
    BY <2>2, UnchangedOnlyStops
  <2>7. removed' = [f \in Entries |-> IF f \in {} THEN removed[f] + 1 ELSE removed[f]]
    BY <2>2, <2>3
  <2>8. \A f \in Entries : Holds(queue', f) <=> (Holds(queue, f) /\ f \notin {}) \/ f \in {}
    BY <2>2
  <2>9. {} \in SUBSET Entries /\ used' = used \cup {} /\ {} \cap used = {}
    BY <2>2
  <2> QED
    BY <2>2, <2>3, <2>4, <2>5, <2>6, <2>7, <2>8, <2>9, HeadKeepingStep
<1>4. ASSUME NEW e \in Entries, PlayAfterCurrent(e) PROVE IInv'
  BY <1>4, UnchangedOnlyStops, PlayAfterNextStep DEF PlayAfterCurrent
<1>5. ASSUME NEW e \in Entries, PlayNow(e) PROVE IInv'
  <2>1. CASE queue # <<>> /\ queue[1] \notin Unskippables /\ "skipping" \in allowed
    <3>1. queue[1] \in Entries /\ Stop(queue[1])
      BY <1>5, <2>1 DEF PlayNow, IInv, CoreTypes
    <3> QED
      BY <1>5, <3>1, StopOnlyStops, PlayAfterNextStep DEF PlayNow
  <2>2. CASE ~(queue # <<>> /\ queue[1] \notin Unskippables /\ "skipping" \in allowed)
    BY <1>5, <2>2, UnchangedOnlyStops, PlayAfterNextStep DEF PlayNow
  <2> QED
    BY <2>1, <2>2
<1>6. ASSUME ClearInsertCursor PROVE IInv'
  BY <1>6, UnchangedOnlyStops, QueueKept DEF ClearInsertCursor
<1>7. ASSUME SkipCurrentEntry PROVE IInv'
  <2>1. queue[1] \in Entries /\ Stop(queue[1])
    BY <1>7 DEF SkipCurrentEntry, IInv, CoreTypes
  <2> QED
    BY <1>7, <2>1, StopOnlyStops, QueueKept DEF SkipCurrentEntry
<1> QED
  BY <1>1, <1>2, <1>3, <1>4, <1>5, <1>6, <1>7, EnqueueStep, RemoveStep, MoveStep
     DEF Caller, RemoveEntry, RemoveOwnEntry

\* The goroutines of Play subscribe, or stop their entry.
LEMMA TimerStep == ASSUME IInv, Timer PROVE IInv'
<1> USE DEF workVars, apiVars
<1>1. ASSUME NEW e \in Entries, NEW k \in Plays, TimerSubscribe(e, k) PROVE IInv'
  <2>1. OnlyStops
    BY <1>1 DEF TimerSubscribe, OnlyStops, IInv, CoreTypes, NotifiedWasPlayed, Playing
  <2> QED
    BY <1>1, <2>1, QueueKept DEF TimerSubscribe
<1>2. ASSUME NEW e \in Entries, NEW k \in Plays, TimerFires(e, k) PROVE IInv'
  <2>1. OnlyStops
    <3>1. CASE Playing(e)
      BY <1>2, <3>1, StopOnlyStops DEF TimerFires
    <3>2. CASE ~Playing(e)
      BY <1>2, <3>2 DEF TimerFires, OnlyStops, IInv, CoreTypes, NotifiedWasPlayed, Playing
    <3> QED
      BY <3>1, <3>2
  <2> QED
    BY <1>2, <2>1, QueueKept DEF TimerFires
<1> QED
  BY <1>1, <1>2 DEF Timer

\* persistenceWorker only reads the queue.
LEMMA PersisterStep == ASSUME IInv, Persister PROVE IInv'
BY UnchangedOnlyStops, QueueKept
   DEF Persister, PersisterTake, PersisterWrite, workVars, apiVars

\* Nothing happens to this part.
LEMMA StutterStep == ASSUME IInv, UNCHANGED vars PROVE IInv'
BY UnchangedOnlyStops, QueueKept DEF vars, workVars, apiVars

-----------------------------------------------------------------------------
(* Steps of ProcessQueueWorker                                             *)

\* The worker reads the head.
LEMMA ReadStep == ASSUME IInv, WorkerRead PROVE IInv'
<1> USE DEF IInv, apiVars, playVars, fileVars, Queued
<1>1. /\ pc = "read" /\ pc' = "announce"
      /\ cur' = IF queue = <<>> THEN NoEntry ELSE queue[1]
      /\ insertCursor' = IF queue = <<>> \/ insertCursor = cur' THEN NoEntry ELSE insertCursor
      /\ UNCHANGED <<queue, used, started, played, donePending, onNextMedia, prev, removed>>
  BY DEF WorkerRead
<1>2. queue # <<>> => queue[1] \in Entries /\ queue[1] # NoEntry
  BY QueueAssumption DEF CoreTypes
<1>3. CoreTypes' /\ CurIsHead' /\ PrevFollows'
  BY <1>1, <1>2 DEF CoreTypes, CurIsHead, PrevFollows
<1>4. PrevIsHead'
  BY <1>1, <1>2 DEF PrevIsHead, Holds
<1>5. NotifiedWasPlayed'
  BY <1>1 DEF NotifiedWasPlayed
<1>6. HeadPlays'
  BY <1>1 DEF HeadPlays, Playing
<1>7. UsedBefore' /\ RemovedOnce'
  BY <1>1 DEF UsedBefore, RemovedOnce
<1>8. CursorAhead'
  BY <1>1 DEF CursorAhead
<1> QED
  BY <1>3, <1>4, <1>5, <1>6, <1>7, <1>8

\* The worker fires entryRemoved for the previous entry, once it has left.
LEMMA AnnounceStep == ASSUME IInv, WorkerAnnounce PROVE IInv'
<1> USE DEF IInv, apiVars, playVars, fileVars, Queued
<1>1. /\ pc = "announce" /\ pc' = (IF cur = NoEntry THEN "wait" ELSE "check")
      /\ prev' = cur
      /\ UNCHANGED <<queue, insertCursor, used, started, played, donePending, onNextMedia, cur>>
  BY DEF WorkerAnnounce
<1>2. removed' = IF prev = cur \/ prev = NoEntry THEN removed
                 ELSE [removed EXCEPT ![prev] = @ + 1]
  BY DEF WorkerAnnounce
<1>3. prev # cur /\ prev # NoEntry => prev \in used /\ ~Holds(queue, prev)
  BY <1>1 DEF PrevIsHead, CurIsHead, UsedBefore
<1>4. cur # NoEntry => Holds(queue, cur) /\ cur \in used /\ cur \in Entries
  BY <1>1 DEF CurIsHead, UsedBefore, Holds, CoreTypes
<1>5. CoreTypes'
  BY <1>1, <1>2 DEF CoreTypes
<1>6. CurIsHead' /\ PrevFollows'
  BY <1>1 DEF CurIsHead, PrevFollows
<1>7. PrevIsHead'
  BY <1>1 DEF PrevIsHead, CurIsHead
<1>8. NotifiedWasPlayed'
  BY <1>1 DEF NotifiedWasPlayed
<1>9. HeadPlays'
  BY <1>1 DEF HeadPlays, Playing
<1>10. UsedBefore'
  BY <1>1, <1>4 DEF UsedBefore
<1>11. RemovedOnce'
  <2> SUFFICES ASSUME NEW e \in Entries
               PROVE  removed'[e] = IF e \in used /\ ~Holds(queue, e) /\ e # cur THEN 1 ELSE 0
    BY <1>1 DEF RemovedOnce
  <2>1. CASE e = prev
    BY <1>2, <1>3, <1>4, <2>1, QueueAssumption DEF RemovedOnce, CoreTypes
  <2>2. CASE e # prev
    <3>1. removed'[e] = removed[e]
      BY <1>2, <2>2 DEF CoreTypes
    <3>2. removed[e] = IF e \in used /\ ~Holds(queue, e) /\ e # prev THEN 1 ELSE 0
      BY DEF RemovedOnce
    <3>3. e = cur => Holds(queue, e)
      BY <1>4, QueueAssumption
    <3> QED
      BY <2>2, <3>1, <3>2, <3>3
  <2> QED
    BY <2>1, <2>2
<1>12. CursorAhead'
  BY <1>1 DEF CursorAhead
<1> QED
  BY <1>5, <1>6, <1>7, <1>8, <1>9, <1>10, <1>11, <1>12

\* The steps between the announcement and the pop touch neither the queue nor
\* what was announced.
LEMMA LoopStep ==
  ASSUME IInv, WorkerCheckPlayed \/ WorkerPlay \/ WorkerSubscribe \/ WorkerNextMedia
                 \/ WorkerQueueUpdated
  PROVE  IInv'
<1> USE DEF IInv, apiVars, playVars, fileVars, Queued
<1> DEFINE Same == UNCHANGED <<queue, insertCursor, used, cur, prev, removed>>
<1>1. CASE WorkerCheckPlayed
  <2>1. /\ Same /\ UNCHANGED <<started, played, donePending, onNextMedia>>
        /\ pc = "check" /\ pc' = IF played[cur] THEN "pop" ELSE "play"
    BY <1>1 DEF WorkerCheckPlayed
  <2>2. played[cur] \in BOOLEAN
    BY <2>1 DEF PrevFollows, CoreTypes
  <2> QED
    BY <2>1, <2>2 DEF CoreTypes, CurIsHead, PrevFollows, PrevIsHead, NotifiedWasPlayed, HeadPlays,
                      Playing, UsedBefore, RemovedOnce, CursorAhead
<1>2. CASE WorkerPlay
  <2>1. /\ Same /\ UNCHANGED <<played, donePending, onNextMedia>>
        /\ pc = "play" /\ pc' = "subscribe"
        /\ started' = IF Playing(cur) THEN started ELSE [started EXCEPT ![cur] = TRUE]
    BY <1>2 DEF WorkerPlay
  <2>2. cur \in Entries /\ prev = cur /\ queue # <<>> /\ queue[1] = cur
    BY <2>1 DEF PrevFollows, CoreTypes, CurIsHead
  <2>3. started' \in [Entries -> BOOLEAN] /\ \A f \in Entries : f # cur => started'[f] = started[f]
    BY <2>1 DEF CoreTypes
  <2>4. HeadPlays'
    BY <2>1, <2>2, <2>3 DEF HeadPlays, Playing
  <2> QED
    BY <2>1, <2>2, <2>3, <2>4 DEF CoreTypes, CurIsHead, PrevFollows, PrevIsHead, NotifiedWasPlayed,
                                  UsedBefore, RemovedOnce, CursorAhead
<1>3. CASE WorkerSubscribe
  <2>1. /\ Same /\ UNCHANGED <<started, played>>
        /\ pc = "subscribe" /\ pc' = "wait"
        /\ onNextMedia' = donePending[cur]
        /\ donePending' = [donePending EXCEPT ![cur] = FALSE]
    BY <1>3 DEF WorkerSubscribe
  <2>2. cur \in Entries /\ prev = cur /\ cur # NoEntry
    BY <2>1 DEF PrevFollows, CoreTypes
  <2>3. NotifiedWasPlayed'
    BY <2>1, <2>2 DEF NotifiedWasPlayed, CoreTypes
  <2>4. CoreTypes'
    BY <2>1, <2>2 DEF CoreTypes
  <2> QED
    BY <2>1, <2>2, <2>3, <2>4 DEF CurIsHead, PrevFollows, PrevIsHead, HeadPlays, Playing,
                                  UsedBefore, RemovedOnce, CursorAhead
<1>4. CASE WorkerNextMedia
  <2>1. /\ Same /\ UNCHANGED <<started, played, donePending>>
        /\ pc = "wait" /\ onNextMedia /\ pc' = "pop" /\ onNextMedia' = FALSE
    BY <1>4 DEF WorkerNextMedia
  <2> QED
    BY <2>1 DEF CoreTypes, CurIsHead, PrevFollows, PrevIsHead, NotifiedWasPlayed, HeadPlays,
                Playing, UsedBefore, RemovedOnce, CursorAhead
<1>5. CASE WorkerQueueUpdated
  <2>1. /\ Same /\ UNCHANGED <<started, played, donePending>>
        /\ pc = "wait" /\ pc' = "read" /\ onNextMedia' = FALSE
    BY <1>5 DEF WorkerQueueUpdated
  <2> QED
    BY <2>1 DEF CoreTypes, CurIsHead, PrevFollows, PrevIsHead, NotifiedWasPlayed, HeadPlays,
                Playing, UsedBefore, RemovedOnce, CursorAhead
<1> QED
  BY <1>1, <1>2, <1>3, <1>4, <1>5

\* playNext takes off the entry the worker waited for.
LEMMA PopStep == ASSUME IInv, playNext PROVE IInv'
<1> USE DEF IInv, apiVars, playVars, fileVars, Queued
<1>1. /\ pc = "pop" /\ pc' = "read"
      /\ UNCHANGED <<insertCursor, used, started, played, donePending, onNextMedia, cur, prev, removed>>
  BY DEF playNext
<1>2. cur \in Entries /\ prev = cur /\ played[cur] /\ queue # <<>> /\ queue[1] = cur
  BY <1>1 DEF PrevFollows, CurIsHead, NotifiedWasPlayed, CoreTypes
<1>3. /\ queue' \in Seq(Entries) /\ Distinct(queue')
      /\ \A f : Holds(queue', f) <=> Holds(queue, f) /\ f # cur
  <2>1. queue' = Tail(queue)
    BY <1>2 DEF playNext
  <2> QED
    BY <1>2, <2>1, TailEdit DEF CoreTypes
<1>4. CoreTypes' /\ CurIsHead' /\ PrevFollows'
  BY <1>1, <1>3 DEF CoreTypes, CurIsHead, PrevFollows
<1>5. PrevIsHead'
  BY <1>1, <1>2, <1>3 DEF PrevIsHead
<1>6. NotifiedWasPlayed'
  BY <1>1 DEF NotifiedWasPlayed
<1>7. HeadPlays'
  <2>1. ASSUME NEW f \in Entries PROVE ~Playing(f)
    BY <1>1, <1>2 DEF HeadPlays, Playing
  <2> QED
    BY <1>1, <2>1 DEF HeadPlays, Playing
<1>8. UsedBefore'
  BY <1>1, <1>3 DEF UsedBefore
<1>9. RemovedOnce'
  BY <1>1, <1>2, <1>3 DEF RemovedOnce
<1>10. CursorAhead'
  <2>1. insertCursor # NoEntry => Holds(queue, insertCursor) /\ insertCursor # cur
    BY <1>1 DEF CursorAhead
  <2> QED
    BY <1>1, <1>3, <2>1 DEF CursorAhead
<1> QED
  BY <1>4, <1>5, <1>6, <1>7, <1>8, <1>9, <1>10

-----------------------------------------------------------------------------
\* The process starts with the restored queue, announced and playing nothing.
LEMMA InitInv == ASSUME Init PROVE IInv
<1> USE DEF Init
<1>1. queue \in Seq(Entries) /\ Distinct(queue)
  BY RestorableAssumption
<1>2. CoreTypes
  BY <1>1 DEF CoreTypes
<1>3. UsedBefore /\ RemovedOnce
  BY QueueAssumption DEF UsedBefore, RemovedOnce
<1> QED
  BY <1>2, <1>3 DEF IInv, CurIsHead, PrevFollows, PrevIsHead, NotifiedWasPlayed, HeadPlays,
                    Playing, CursorAhead

\* Whatever callers, timers and the persister do between two steps of the worker.
LEMMA NextStep == ASSUME IInv, [Next]_vars PROVE IInv'
<1>1. CASE Caller
  BY <1>1, CallerStep
<1>2. CASE Worker
  BY <1>2, ReadStep, AnnounceStep, LoopStep, PopStep DEF Worker
<1>3. CASE Timer
  BY <1>3, TimerStep
<1>4. CASE Persister
  BY <1>4, PersisterStep
<1>5. CASE UNCHANGED vars
  BY <1>5, StutterStep
<1> QED
  BY <1>1, <1>2, <1>3, <1>4, <1>5 DEF Next

\* IInv holds throughout every behaviour.
THEOREM Inductive == Spec => []IInv
<1>1. Init => IInv
  BY InitInv
<1>2. IInv /\ [Next]_vars => IInv'
  BY NextStep
<1> QED
  BY <1>1, <1>2, PTL DEF Spec

\* Two entries never play at once, and what plays is the announced head of the
\* queue, for any number of entries (media_queue.go:454-539).
THEOREM PlaysOnlyHead == Spec => []OnlyHeadPlays
<1>1. IInv => OnlyHeadPlays
  BY DEF IInv, HeadPlays, OnlyHeadPlays
<1> QED
  BY <1>1, Inductive, PTL

\* entryRemoved is fired exactly once per entry that leaves the queue, however
\* it leaves (media_queue.go:59-61, 368, 486).
THEOREM RemovedExactlyOnce == Spec => []RemovedOnce
<1>1. IInv => RemovedOnce
  BY DEF IInv
<1> QED
  BY <1>1, Inductive, PTL

\* The insert cursor marks a queued entry that is not the one being played
\* (media_queue.go:156-170, 218-251, 468).
THEOREM CursorStaysAhead == Spec => []CursorAhead
<1>1. IInv => CursorAhead
  BY DEF IInv
<1> QED
  BY <1>1, Inductive, PTL

-----------------------------------------------------------------------------
(* The head                                                                *)

\* No caller takes the head off the queue or puts another entry before it.
LEMMA CallersKeepHead == ASSUME IInv, Caller PROVE HeadKept
<1>1. ASSUME NEW e \in Entries, Enqueue(e) \/ PlayAfterCurrent(e) \/ PlayNow(e) PROVE HeadKept
  BY <1>1, EnqueueAdds, PlayAfterNextAdds DEF PlayAfterCurrent, PlayNow, Added
<1>2. ASSUME NEW e \in Entries, removeEntryInMutex(e) PROVE HeadKept
  <2>1. CASE e = queue[1]
    BY <1>2, <2>1 DEF removeEntryInMutex, HeadKept
  <2> QED
    BY <1>2, <2>1, RemoveTakesOut DEF TakenOut
<1>3. ASSUME NEW e \in Entries, NEW u \in Users, NEW up \in BOOLEAN, MoveEntry(e, u, up)
      PROVE  HeadKept
  BY <1>3, MoveEntryMoves DEF Moved
<1>4. ASSUME UNCHANGED queue PROVE HeadKept
  BY <1>4 DEF HeadKept
<1> QED
  BY <1>1, <1>2, <1>3, <1>4
     DEF Caller, SetAllowed, RefillTokens, SetInsertCursor, ClearInsertCursor, SkipCurrentEntry,
         RemoveEntry, RemoveOwnEntry

\* playNext pops the entry the worker waited for, which was stopped, although it
\* looks at neither (media_queue.go:525, 534): nothing else takes the head off.
THEOREM HeadLeavesStopped == Spec => HeadLeavesPlayed
<1>1. IInv /\ [Next]_vars => [queue # <<>> /\ (queue' = <<>> \/ queue'[1] # queue[1])
                                => pc = "pop" /\ played[queue[1]]]_queue
  <2> SUFFICES ASSUME IInv, [Next]_vars, queue # <<>>, queue' = <<>> \/ queue'[1] # queue[1]
               PROVE  pc = "pop" /\ played[queue[1]]
    OBVIOUS
  <2>1. queue' # queue /\ ~Caller
    BY CallersKeepHead DEF HeadKept
  <2>2. playNext
    BY <2>1 DEF Next, vars, Worker, Timer, Persister, WorkerRead, WorkerAnnounce, WorkerCheckPlayed,
                WorkerPlay, WorkerSubscribe, WorkerNextMedia, WorkerQueueUpdated, TimerSubscribe,
                TimerFires, PersisterTake, PersisterWrite
  <2> QED
    BY <2>2 DEF playNext, IInv, PrevFollows, CurIsHead, NotifiedWasPlayed
<1> QED
  BY <1>1, Inductive, PTL DEF Spec, HeadLeavesPlayed

-----------------------------------------------------------------------------
(* The types of the state IInv does not speak of                           *)

RestTypes ==
  /\ allowed \subseteq AllSwitches
  /\ tokens \in [Users -> 0..RemovalTokens]
  /\ movedBy \in [Entries -> SUBSET Users]
  /\ timers \in [Entries -> [Plays -> TimerPhases]]
  /\ updated \subseteq {"worker", "persister"}
  /\ playingSince \in BOOLEAN
  /\ played_media \in [Entries -> {"none", "started", "ended"}]
  /\ queueEvent \in {"none", "filled", "emptied"}

\* Stop keeps the phases of the timers.
LEMMA StopTypes ==
  ASSUME NEW e \in Entries, timers \in [Entries -> [Plays -> TimerPhases]], Stop(e)
  PROVE  timers' \in [Entries -> [Plays -> TimerPhases]]
<1>1. CASE Playing(e)
  <2> DEFINE row == [k \in Plays |-> IF timers[e][k] = "waiting" THEN "done" ELSE timers[e][k]]
  <2>1. row \in [Plays -> TimerPhases]
    BY DEF TimerPhases
  <2>2. timers' = [timers EXCEPT ![e] = row]
    BY <1>1 DEF Stop
  <2> HIDE DEF row
  <2> QED
    BY <2>1, <2>2
<1>2. CASE ~Playing(e)
  BY <1>2 DEF Stop, playVars
<1> QED
  BY <1>1, <1>2

\* Callers keep the types of the rest.
LEMMA CallerTypes == ASSUME IInv, RestTypes, Caller PROVE RestTypes'
<1> USE DEF RestTypes, workVars, fileVars, NotifyUpdated
<1>1. ASSUME NEW s \in AllSwitches, NEW on \in BOOLEAN, SetAllowed(s, on) PROVE RestTypes'
  BY <1>1 DEF SetAllowed, playVars
<1>2. ASSUME NEW u \in Users, RefillTokens(u) PROVE RestTypes'
  BY <1>2, QueueAssumption DEF RefillTokens, playVars
<1>3. ASSUME NEW e \in Entries, SetInsertCursor(e) \/ Enqueue(e) \/ PlayAfterCurrent(e) PROVE RestTypes'
  BY <1>3 DEF SetInsertCursor, Enqueue, PlayAfterCurrent, playVars, apiVars
<1>4. ASSUME NEW e \in Entries, PlayNow(e) PROVE RestTypes'
  <2>1. timers' \in [Entries -> [Plays -> TimerPhases]]
    BY <1>4, StopTypes DEF PlayNow, playVars, IInv, CoreTypes
  <2> QED
    BY <1>4, <2>1 DEF PlayNow
<1>5. CASE SkipCurrentEntry
  <2>1. timers' \in [Entries -> [Plays -> TimerPhases]]
    BY <1>5, StopTypes DEF SkipCurrentEntry, IInv, CoreTypes
  <2> QED
    BY <1>5, <2>1 DEF SkipCurrentEntry, apiVars
<1>6. CASE ClearInsertCursor
  BY <1>6 DEF ClearInsertCursor, playVars, apiVars
<1>7. ASSUME NEW e \in Entries, removeEntryInMutex(e), tokens' \in [Users -> 0..RemovalTokens]
      PROVE  RestTypes'
  <2>1. timers' \in [Entries -> [Plays -> TimerPhases]]
    BY <1>7, StopTypes DEF removeEntryInMutex, playVars
  <2>2. updated' \subseteq {"worker", "persister"}
    BY <1>7 DEF removeEntryInMutex
  <2> QED
    BY <1>7, <2>1, <2>2 DEF removeEntryInMutex
<1>8. ASSUME NEW e \in Entries, RemoveEntry(e) PROVE RestTypes'
  BY <1>7, <1>8 DEF RemoveEntry
<1>9. ASSUME NEW e \in Entries, NEW u \in Users, RemoveOwnEntry(e, u) PROVE RestTypes'
  <2>1. tokens' \in [Users -> 0..RemovalTokens]
    BY <1>9, QueueAssumption DEF RemoveOwnEntry
  <2> QED
    BY <1>7, <1>9, <2>1 DEF RemoveOwnEntry
<1>10. ASSUME NEW e \in Entries, NEW u \in Users, NEW up \in BOOLEAN, MoveEntry(e, u, up)
       PROVE  RestTypes'
  BY <1>10 DEF MoveEntry, playVars
<1> QED
  BY <1>1, <1>2, <1>3, <1>4, <1>5, <1>6, <1>8, <1>9, <1>10 DEF Caller

\* So does the worker.
LEMMA WorkerTypes == ASSUME IInv, RestTypes, Worker PROVE RestTypes'
<1> USE DEF RestTypes, apiVars, fileVars
<1>1. CASE WorkerAnnounce
  <2>1. /\ played_media' \in [Entries -> {"none", "started", "ended"}]
        /\ queueEvent' \in {"none", "filled", "emptied"}
    BY <1>1 DEF WorkerAnnounce, logPlayedMedia
  <2> QED
    BY <1>1, <2>1 DEF WorkerAnnounce, playVars
<1>2. CASE WorkerPlay
  <2>1. timers' \in [Entries -> [Plays -> TimerPhases]]
    <3>1. ASSUME cur \in Entries, NEW k \in Plays PROVE
             [timers EXCEPT ![cur][k] = "starting"] \in [Entries -> [Plays -> TimerPhases]]
      BY <3>1 DEF TimerPhases
    <3>2. cur \in Entries /\ {1, 2} \subseteq Plays
      BY <1>2 DEF WorkerPlay, IInv, CoreTypes, PrevFollows, Plays
    <3>3. PICK k \in Plays : \/ timers' = timers
                             \/ timers' = [timers EXCEPT ![cur][k] = "starting"]
      <4>1. CASE Playing(cur)
        BY <1>2, <3>2, <4>1 DEF WorkerPlay
      <4>2. CASE ~Playing(cur) /\ timers[cur][1] = "none"
        BY <1>2, <3>2, <4>2 DEF WorkerPlay
      <4>3. CASE ~Playing(cur) /\ timers[cur][1] # "none"
        BY <1>2, <3>2, <4>3 DEF WorkerPlay
      <4> QED
        BY <4>1, <4>2, <4>3
    <3> QED
      BY <3>1, <3>2, <3>3
  <2> QED
    BY <1>2, <2>1 DEF WorkerPlay
<1>3. CASE WorkerRead \/ WorkerCheckPlayed \/ WorkerSubscribe \/ WorkerNextMedia
             \/ WorkerQueueUpdated \/ playNext
  BY <1>3 DEF WorkerRead, WorkerCheckPlayed, WorkerSubscribe, WorkerNextMedia,
              WorkerQueueUpdated, playNext, playVars, NotifyUpdated
<1> QED
  BY <1>1, <1>2, <1>3 DEF Worker

\* So do the timers.
LEMMA TimerTypes == ASSUME RestTypes, Timer PROVE RestTypes'
<1> USE DEF RestTypes, apiVars, workVars, fileVars
<1>1. PICK e \in Entries, k \in Plays : TimerSubscribe(e, k) \/ TimerFires(e, k)
  BY DEF Timer
<1>2. timers' \in [Entries -> [Plays -> TimerPhases]]
  <2>1. ASSUME NEW v \in TimerPhases
        PROVE  [timers EXCEPT ![e][k] = v] \in [Entries -> [Plays -> TimerPhases]]
    OBVIOUS
  <2>2. {"done", "waiting"} \subseteq TimerPhases
    BY DEF TimerPhases
  <2>3. CASE TimerSubscribe(e, k)
    BY <2>1, <2>2, <2>3 DEF TimerSubscribe
  <2>4. CASE TimerFires(e, k)
    BY <2>1, <2>2, <2>4, StopTypes DEF TimerFires
  <2> QED
    BY <1>1, <2>3, <2>4
<1> QED
  BY <1>1, <1>2 DEF TimerSubscribe, TimerFires

\* They have their types when the process starts for the first time.
LEMMA InitTypes == ASSUME Init PROVE RestTypes
<1>1. RemovalTokens \in 0..RemovalTokens
  BY QueueAssumption
<1>2. [e \in Entries |-> [k \in Plays |-> "none"]] \in [Entries -> [Plays -> TimerPhases]]
  BY DEF TimerPhases
<1> QED
  BY <1>1, <1>2 DEF Init, RestTypes

\* Every step keeps them.
LEMMA NextTypes == ASSUME IInv, RestTypes, [Next]_vars PROVE RestTypes'
<1>1. CASE Persister
  BY <1>1 DEF Persister, PersisterTake, PersisterWrite, RestTypes, apiVars, playVars, workVars
<1>2. CASE UNCHANGED vars
  BY <1>2 DEF vars, RestTypes, apiVars, playVars, workVars
<1> QED
  BY <1>1, <1>2, CallerTypes, WorkerTypes, TimerTypes DEF Next

\* Every variable keeps its type, for any number of entries and users
\* (media_queue.go:34-62).
THEOREM TypeCorrect == Spec => []TypeOK
<1>1. Init => RestTypes
  BY InitTypes
<1>2. IInv /\ RestTypes /\ [Next]_vars => RestTypes'
  BY NextTypes
<1>3. IInv /\ RestTypes => TypeOK
  BY DEF IInv, CoreTypes, RestTypes, TypeOK
<1> QED
  BY <1>1, <1>2, <1>3, Inductive, PTL DEF Spec

-----------------------------------------------------------------------------
(* The order                                                               *)

\* Only a move changes the order of two entries: whatever else is done to the
\* queue, while the worker pops its head, leaves it.
LEMMA OthersKeepOrder ==
  ASSUME IInv, [Next]_vars,
         \A e \in Entries, u \in Users, up \in BOOLEAN : ~MoveEntry(e, u, up)
  PROVE  SameOrder(queue, queue')
<1>1. queue \in Seq(Entries) /\ Distinct(queue) /\ Len(queue) \in Nat
  <2>1. queue \in Seq(Entries) /\ Distinct(queue)
    BY DEF IInv, CoreTypes
  <2> QED
    BY <2>1
<1>2. ASSUME NEW e \in Entries, Enqueue(e) \/ PlayAfterCurrent(e) \/ PlayNow(e)
      PROVE  SameOrder(queue, queue')
  BY <1>2, EnqueueAdds, PlayAfterNextAdds DEF PlayAfterCurrent, PlayNow, Added
<1>3. ASSUME UNCHANGED queue PROVE SameOrder(queue, queue')
  BY <1>1, <1>3, NoEdit
<1>4. ASSUME NEW e \in Entries, removeEntryInMutex(e) PROVE SameOrder(queue, queue')
  <2>1. CASE e = queue[1]
    BY <1>3, <1>4, <2>1 DEF removeEntryInMutex
  <2> QED
    BY <1>4, <2>1, RemoveTakesOut DEF TakenOut
<1>5. CASE playNext
  <2>1. CASE queue = <<>>
    BY <1>3, <1>5, <2>1 DEF playNext
  <2>2. CASE queue # <<>>
    BY <1>1, <1>5, <2>2, TailEdit DEF playNext
  <2> QED
    BY <2>1, <2>2
<1>6. CASE Caller
  BY <1>2, <1>3, <1>4, <1>6
     DEF Caller, SetAllowed, RefillTokens, SetInsertCursor, ClearInsertCursor, SkipCurrentEntry,
         RemoveEntry, RemoveOwnEntry
<1>7. CASE Worker \/ Timer \/ Persister \/ UNCHANGED vars
  BY <1>3, <1>5, <1>7
     DEF vars, Worker, Timer, Persister, WorkerRead, WorkerAnnounce, WorkerCheckPlayed, WorkerPlay,
         WorkerSubscribe, WorkerNextMedia, WorkerQueueUpdated, TimerSubscribe, TimerFires,
         PersisterTake, PersisterWrite
<1> QED
  BY <1>6, <1>7 DEF Next

\* Two entries change their order only when a user moves one of them that had
\* not moved it before, for any queue: no insertion, removal or pop that comes
\* between reorders the others (media_queue.go:231-241, 263-265, 364, 404, 525).
THEOREM OnlyMovesReorder == Spec => OrderKept
<1>1. ASSUME IInv, TypeOK, [Next]_vars, NEW e \in Entries, NEW f \in Entries, Ahead(e, f), Ahead(f, e)'
      PROVE  \E m \in {e, f}, u \in Users : u \in movedBy'[m] \ movedBy[m]
  <2>1. Before(queue, e, f) /\ Before(queue', f, e)
    BY <1>1 DEF Ahead, Before
  <2>2. PICK m \in Entries, u \in Users, up \in BOOLEAN : MoveEntry(m, u, up)
    BY <1>1, <2>1, OthersKeepOrder DEF SameOrder
  <2>3. m \in {e, f} /\ u \notin movedBy[m]
    BY <1>1, <2>1, <2>2, MoveEntryMoves DEF Moved, OnlyMoves
  <2>4. u \in movedBy'[m]
    BY <1>1, <2>2 DEF MoveEntry, TypeOK
  <2> QED
    BY <2>3, <2>4
<1>2. IInv /\ TypeOK /\ [Next]_vars
        => [\A e, f \in Entries :
              Ahead(e, f) /\ Ahead(f, e)' =>
                \E m \in {e, f}, u \in Users : u \in movedBy'[m] \ movedBy[m]]_<<queue, movedBy>>
  BY <1>1
<1> QED
  BY <1>2, Inductive, TypeCorrect, PTL DEF Spec, OrderKept

-----------------------------------------------------------------------------
(* What the loop over the restored entries keeps                           *)

\* A set of natural numbers has a least element.
LEMMA LeastElement ==
  ASSUME NEW T, T \subseteq Nat, T # {}
  PROVE  \E x \in T : \A y \in T : x <= y
<1> DEFINE R == OpToRel(<, Nat)
<1>1. IsWellFoundedOn(R, Nat)
  BY NatLessThanWellFounded
<1>2. \A x, y \in Nat : <<x, y>> \in R <=> x < y
  BY DEF OpToRel
<1> HIDE DEF R
<1>3. PICK x \in T : \A y \in T : ~(<<y, x>> \in R)
  BY <1>1, WFMin
<1>4. x \in Nat /\ \A y \in T : y \in Nat
  OBVIOUS
<1>5. \A y \in T : ~(y < x)
  BY <1>2, <1>3, <1>4
<1> QED
  BY <1>4, <1>5

\* What was kept after each turn, up to the n-th.
Turns(f, q, n) ==
  f = [i \in 0..n |-> IF i = 0 THEN <<>>
                      ELSE IF keepInQueue(q[i]) THEN Append(f[i - 1], q[i]) ELSE f[i - 1]]

\* There is something after every turn.
LEMMA TurnsExist ==
  ASSUME NEW q, NEW m \in Nat
  PROVE  \E f : Turns(f, q, m)
<1> DEFINE T == {n \in Nat : ~ \E f : Turns(f, q, n)}
<1>1. SUFFICES T = {}
  OBVIOUS
<1>2. SUFFICES ASSUME T # {} PROVE FALSE
  OBVIOUS
<1>3. T \subseteq Nat
  OBVIOUS
<1>4. PICK n \in T : \A y \in T : n <= y
  BY <1>2, <1>3, LeastElement
<1>5. n \in Nat /\ ~ \E f : Turns(f, q, n)
  OBVIOUS
<1>6. n # 0
  <2> DEFINE g == [i \in 0..0 |-> <<>>]
  <2>1. Turns(g, q, 0)
    BY DEF Turns
  <2> QED
    BY <1>5, <2>1
<1>7. n - 1 \in Nat /\ n - 1 \notin T
  BY <1>4, <1>5, <1>6
<1>8. PICK f : Turns(f, q, n - 1)
  BY <1>7
<1> DEFINE g == [i \in 0..n |-> IF i = n THEN (IF keepInQueue(q[n]) THEN Append(f[n - 1], q[n]) ELSE f[n - 1])
                                ELSE f[i]]
<1>9. ASSUME NEW i \in 0..n
      PROVE  g[i] = IF i = 0 THEN <<>> ELSE IF keepInQueue(q[i]) THEN Append(g[i - 1], q[i]) ELSE g[i - 1]
  <2>1. CASE i = 0
    <3>1. f[0] = <<>>
      <4>1. 0 \in 0..(n - 1)
        BY <1>7
      <4> QED
        BY <1>8, <4>1 DEF Turns
    <3> QED
      BY <1>6, <2>1, <3>1
  <2>2. CASE i # 0 /\ i # n
    <3>1. i \in 0..(n - 1) /\ i - 1 \in 0..(n - 1) /\ i - 1 \in 0..n /\ i - 1 # n
      BY <1>5, <2>2
    <3>2. f[i] = IF keepInQueue(q[i]) THEN Append(f[i - 1], q[i]) ELSE f[i - 1]
      BY <1>8, <2>2, <3>1 DEF Turns
    <3> QED
      BY <2>2, <3>1, <3>2
  <2>3. CASE i = n
    <3>1. n - 1 \in 0..n /\ n - 1 # n
      BY <1>5, <1>7
    <3>2. g[n - 1] = f[n - 1]
      BY <3>1
    <3> QED
      BY <1>6, <2>3, <3>2
  <2> QED
    BY <2>1, <2>2, <2>3
<1>10. Turns(g, q, n)
  BY <1>9 DEF Turns
<1> QED
  BY <1>5, <1>10

\* What Kept computes, turn by turn.
LEMMA KeptIs ==
  ASSUME NEW q, Len(q) \in Nat
  PROVE  \E f : Turns(f, q, Len(q)) /\ Kept(q) = f[Len(q)]
<1> DEFINE f == CHOOSE g : Turns(g, q, Len(q))
<1>1. Turns(f, q, Len(q))
  BY TurnsExist
<1>2. Kept(q) = f[Len(q)]
  BY DEF Kept, Turns
<1> QED
  BY <1>1, <1>2

\* The turns have kept, in their order, the first entries that are to be kept.
KeptSoFar(s, q, n) ==
  /\ s \in Seq({q[j] : j \in 1..n})
  /\ \A i \in 1..Len(s) : keepInQueue(s[i])
  /\ Distinct(q) => Distinct(s)
  /\ (\A j \in 1..n : keepInQueue(q[j])) => Len(s) = n /\ \A j \in 1..n : s[j] = q[j]

LEMMA KeptTurns ==
  ASSUME NEW q, Len(q) \in Nat, NEW f, Turns(f, q, Len(q)), NEW m \in 0..Len(q)
  PROVE  KeptSoFar(f[m], q, m)
<1> DEFINE T == {n \in 0..Len(q) : ~ KeptSoFar(f[n], q, n)}
<1>1. SUFFICES ASSUME T # {} PROVE FALSE
  OBVIOUS
<1>2. T \subseteq Nat
  OBVIOUS
<1>3. PICK n \in T : \A y \in T : n <= y
  BY <1>1, <1>2, LeastElement
<1>4. n \in 0..Len(q) /\ n \in Nat /\ ~ KeptSoFar(f[n], q, n)
  OBVIOUS
<1>5. n # 0
  <2>1. f[0] = <<>>
    BY DEF Turns
  <2>2. KeptSoFar(<<>>, q, 0)
    BY DEF KeptSoFar, Distinct
  <2> QED
    BY <1>4, <2>1, <2>2
<1>6. n - 1 \in 0..Len(q) /\ n - 1 \in Nat /\ n \in 1..Len(q)
  BY <1>4, <1>5
<1> DEFINE s == f[n - 1]
           t == f[n]
<1>7. KeptSoFar(s, q, n - 1)
  BY <1>3, <1>6
<1>8. t = IF keepInQueue(q[n]) THEN Append(s, q[n]) ELSE s
  BY <1>4, <1>5 DEF Turns
<1>9. t = f[n]
  OBVIOUS
<1> HIDE DEF s, t, T
<1> DEFINE A == {q[j] : j \in 1..(n - 1)}
           B == {q[j] : j \in 1..n}
<1>10. A \subseteq B /\ q[n] \in B
  BY <1>6
<1>11. s \in Seq(A) /\ s \in Seq(B) /\ Len(s) \in Nat
  <2>1. s \in Seq(A)
    BY <1>7 DEF KeptSoFar
  <2> HIDE DEF A, B
  <2>2. Len(s) \in Nat /\ \A i \in 1..Len(s) : s[i] \in A
    BY <2>1
  <2>3. \A i \in 1..Len(s) : s[i] \in B
    BY <1>10, <2>2
  <2>4. s = [i \in 1..Len(s) |-> s[i]]
    BY <2>1
  <2> QED
    BY <2>1, <2>2, <2>3, <2>4
<1>12. \A i \in 1..Len(s) : s[i] \in A
  BY <1>11
<1>13. CASE ~keepInQueue(q[n])
  <2>1. t = s
    BY <1>8, <1>13
  <2>2. ~ \A j \in 1..n : keepInQueue(q[j])
    BY <1>6, <1>13
  <2>3. KeptSoFar(s, q, n)
    BY <1>7, <1>11, <2>2 DEF KeptSoFar
  <2> QED
    BY <1>4, <1>9, <2>1, <2>3
<1>14. CASE keepInQueue(q[n])
  <2>1. t = Append(s, q[n])
    BY <1>8, <1>14
  <2>2. t \in Seq(B) /\ Len(t) = Len(s) + 1 /\ t[Len(s) + 1] = q[n] /\ \A i \in 1..Len(s) : t[i] = s[i]
    BY <1>10, <1>11, <2>1, AppendProperties
  <2>3. \A i \in 1..Len(t) : i \in 1..Len(s) \/ i = Len(s) + 1
    BY <1>11, <2>2
  <2>4. \A i \in 1..Len(t) : keepInQueue(t[i])
    BY <1>7, <1>14, <2>2, <2>3 DEF KeptSoFar
  <2>5. ASSUME Distinct(q) PROVE Distinct(t)
    <3>1. \A i \in 1..Len(s) : s[i] # q[n]
      <4> SUFFICES ASSUME NEW i \in 1..Len(s), s[i] = q[n] PROVE FALSE
        OBVIOUS
      <4>1. PICK j \in 1..(n - 1) : s[i] = q[j]
        BY <1>12
      <4>2. j \in 1..Len(q) /\ j # n
        BY <1>6, <4>1
      <4> QED
        BY <1>6, <2>5, <4>1, <4>2 DEF Distinct
    <3>2. Distinct(s)
      BY <1>7, <2>5 DEF KeptSoFar
    <3> QED
      BY <2>2, <2>3, <3>1, <3>2 DEF Distinct
  <2>6. ASSUME \A j \in 1..n : keepInQueue(q[j])
        PROVE  Len(t) = n /\ \A j \in 1..n : t[j] = q[j]
    <3>1. \A j \in 1..(n - 1) : j \in 1..n
      BY <1>6
    <3>2. Len(s) = n - 1 /\ \A j \in 1..(n - 1) : s[j] = q[j]
      BY <1>7, <2>6, <3>1 DEF KeptSoFar
    <3>3. \A j \in 1..n : j \in 1..(n - 1) \/ j = n
      BY <1>6
    <3> QED
      BY <1>6, <2>2, <3>2, <3>3
  <2>7. KeptSoFar(t, q, n)
    BY <2>2, <2>4, <2>5, <2>6 DEF KeptSoFar
  <2> QED
    BY <1>4, <1>9, <2>7
<1> QED
  BY <1>13, <1>14

\* Of a queue, a queue is kept; and the loop keeps the whole of what it has kept.
LEMMA KeptQueue ==
  ASSUME NEW q \in Seq(Entries), Distinct(q)
  PROVE  Kept(q) \in Seq(Entries) /\ Distinct(Kept(q)) /\ Kept(Kept(q)) = Kept(q)
<1> DEFINE s == Kept(q)
<1>1. Len(q) \in Nat
  OBVIOUS
<1>2. KeptSoFar(s, q, Len(q))
  <2>1. PICK f : Turns(f, q, Len(q)) /\ Kept(q) = f[Len(q)]
    BY <1>1, KeptIs
  <2> QED
    BY <1>1, <2>1, KeptTurns
<1> HIDE DEF s
<1>3. {q[j] : j \in 1..Len(q)} \subseteq Entries
  OBVIOUS
<1>4. s \in Seq(Entries) /\ Distinct(s)
  BY <1>2, <1>3 DEF KeptSoFar
<1>5. Len(s) \in Nat
  BY <1>4
<1>6. KeptSoFar(Kept(s), s, Len(s))
  <2>1. PICK f : Turns(f, s, Len(s)) /\ Kept(s) = f[Len(s)]
    BY <1>5, KeptIs
  <2> QED
    BY <1>5, <2>1, KeptTurns
<1>7. \A j \in 1..Len(s) : keepInQueue(s[j])
  BY <1>2 DEF KeptSoFar
<1>8. Len(Kept(s)) = Len(s) /\ \A j \in 1..Len(s) : Kept(s)[j] = s[j]
  BY <1>6, <1>7 DEF KeptSoFar
<1>9. {s[j] : j \in 1..Len(s)} \subseteq Entries
  BY <1>4
<1>10. Kept(s) \in Seq(Entries)
  BY <1>6, <1>9 DEF KeptSoFar
<1>11. Kept(s) = s
  BY <1>4, <1>8, <1>10, SeqEqual
<1> QED
  BY <1>4, <1>11 DEF s

-----------------------------------------------------------------------------
(* The lives of the process                                                *)

\* A copy of the queue, in the file or about to be written to it.
CopyOk(f) ==
  /\ f.queue \in Seq(Entries) /\ Distinct(f.queue)
  /\ f.movedBy \in [Entries -> SUBSET Users]

Copies ==
  /\ CopyOk(file)
  /\ snapshot = <<>> \/ \E f : snapshot = <<f>> /\ CopyOk(f)
  /\ life \in Nat \ {0}

LifeInv == IInv /\ RestTypes /\ Copies

\* A restart from this copy brings back the queue as it is.
Agrees(f) ==
  /\ Kept(f.queue) = Kept(queue)
  /\ \A e \in ToSet(Kept(queue)) : f.movedBy[e] = movedBy[e]

\* Unless the persister has yet to be told, it has written the queue as it is, or
\* is about to.
Written ==
  "persister" \notin updated => IF snapshot = <<>> THEN Agrees(file) ELSE Agrees(snapshot[1])

\* The worker has read that the queue is empty, before it announced any entry of
\* this life.
FoundEmpty ==
  /\ prev = NoEntry
  /\ \/ pc = "read" /\ queue = <<>>
     \/ pc = "announce" /\ cur = NoEntry
     \/ pc = "wait"

CutShort(entries) == \E e \in entries : played_media[e] = "started"

\* The database says that a streak goes on if an entry of this life was announced;
\* otherwise if one was cut short, which is lost if nothing was there to announce.
Streaks ==
  /\ pc # "read" => playingSince = (cur # NoEntry)
  /\ prev # NoEntry => played_media[prev] = "started" /\ queueEvent = "filled"
  /\ queueEvent = "filled" => CutShort(used \cup lost) /\ (FoundEmpty => CutShort(lost))

\* Each earlier life has left one row without an end, or none.
RowsIn(state) == {e \in Entries : played_media[e] = state}
OneRowPerLife ==
  /\ IsFiniteSet(RowsIn("started")) /\ IsFiniteSet(RowsIn("ended"))
  /\ Cardinality(RowsIn("started") \ {prev}) <= life - 1

\* Whoever changes the queue, or who moved what, tells the persister.
LEMMA PersisterTold ==
  ASSUME Caller \/ Worker \/ Timer
  PROVE  /\ UNCHANGED fileVars
         /\ "persister" \notin updated' => "persister" \notin updated /\ UNCHANGED <<queue, movedBy>>
<1> DEFINE Told == /\ UNCHANGED fileVars
                   /\ "persister" \notin updated' => "persister" \notin updated /\ UNCHANGED <<queue, movedBy>>
<1>1. ASSUME NEW s \in AllSwitches, NEW on \in BOOLEAN, SetAllowed(s, on) PROVE Told
  BY <1>1 DEF SetAllowed, NotifyUpdated
<1>2. ASSUME NEW e \in Entries, removeEntryInMutex(e) PROVE Told
  BY <1>2 DEF removeEntryInMutex, NotifyUpdated
<1>3. CASE Caller
  BY <1>1, <1>2, <1>3 DEF Caller, RefillTokens, SetInsertCursor, Enqueue, PlayAfterCurrent, PlayNow, RemoveEntry,
    ClearInsertCursor, SkipCurrentEntry, RemoveOwnEntry, MoveEntry, NotifyUpdated, apiVars
<1>4. CASE Worker
  BY <1>4 DEF Worker, WorkerRead, WorkerAnnounce, WorkerCheckPlayed, WorkerPlay, WorkerSubscribe,
    WorkerNextMedia, WorkerQueueUpdated, playNext, NotifyUpdated, apiVars
<1>5. CASE Timer
  BY <1>5 DEF Timer, TimerSubscribe, TimerFires, apiVars
<1> QED
  BY <1>3, <1>4, <1>5

\* A restart leads to a state in which everything that holds in every state of a
\* life holds.
LEMMA RestartStep ==
  ASSUME LifeInv, Restart
  PROVE  LifeInv'
<1>1. PICK f \in {file} \cup ToSet(snapshot) : 
        /\ file' = f
        /\ queue' = Kept(f.queue)
        /\ movedBy' = [e \in Entries |-> IF e \in ToSet(queue') THEN f.movedBy[e] ELSE {}]
  BY DEF Restart, restoreQueueFromFile
<1>2. CopyOk(f)
  <2>1. CASE snapshot = <<>>
    BY <2>1 DEF LifeInv, Copies, ToSet
  <2>2. CASE snapshot # <<>>
    <3>1. PICK g : snapshot = <<g>> /\ CopyOk(g)
      BY <2>2 DEF LifeInv, Copies
    <3> QED
      BY <3>1 DEF LifeInv, Copies, ToSet
  <2> QED
    BY <2>1, <2>2
<1>3. queue' \in Seq(Entries) /\ Distinct(queue')
  BY <1>1, <1>2, KeptQueue DEF CopyOk
<1>4. ToSet(queue') = {e \in Entries : Holds(queue', e)}
  BY <1>3 DEF ToSet, Holds
<1>5. Copies'
  BY <1>1, <1>2 DEF Restart, Copies, LifeInv
<1>6. RestTypes'
  <2>1. RemovalTokens \in 0..RemovalTokens
    BY QueueAssumption
  <2>2. [e \in Entries |-> [k \in Plays |-> "none"]] \in [Entries -> [Plays -> TimerPhases]]
    BY DEF TimerPhases
  <2>3. movedBy' \in [Entries -> SUBSET Users]
    BY <1>1, <1>2 DEF CopyOk
  <2>4. /\ played_media' \in [Entries -> {"none", "started", "ended"}]
        /\ queueEvent' \in {"none", "filled", "emptied"}
        /\ playingSince' \in BOOLEAN
    BY DEF Restart, restorePlayingSinceFromDatabase, LifeInv, RestTypes
  <2> QED
    BY <2>1, <2>2, <2>3, <2>4 DEF Restart, RestTypes
<1>7. CoreTypes'
  BY <1>3, <1>4 DEF Restart, CoreTypes
<1>8. UsedBefore' /\ RemovedOnce'
  BY <1>4, QueueAssumption DEF Restart, UsedBefore, RemovedOnce, Queued
<1>9. /\ CurIsHead' /\ PrevFollows' /\ PrevIsHead' /\ NotifiedWasPlayed'
      /\ HeadPlays' /\ CursorAhead'
  BY DEF Restart, CurIsHead, PrevFollows, PrevIsHead, NotifiedWasPlayed, HeadPlays, Playing, CursorAhead
<1> QED
  BY <1>5, <1>6, <1>7, <1>8, <1>9 DEF LifeInv, IInv

\* And a step of a life keeps it.
LEMMA LifeStep ==
  ASSUME LifeInv, Next, UNCHANGED <<life, lost>>
  PROVE  LifeInv'
<1>1. IInv' /\ RestTypes'
  BY NextStep, NextTypes DEF LifeInv
<1>2. CASE Caller \/ Worker \/ Timer
  <2>1. UNCHANGED <<file, snapshot>>
    BY <1>2, PersisterTold DEF fileVars
  <2>2. Copies'
    BY <2>1 DEF LifeInv, Copies
  <2> QED
    BY <1>1, <2>2 DEF LifeInv
<1>3. CASE PersisterTake
  <2> DEFINE f == [queue |-> queue, movedBy |-> movedBy]
  <2>1. CopyOk(f)
    BY DEF CopyOk, LifeInv, IInv, CoreTypes, RestTypes
  <2>2. snapshot' = <<f>> /\ file' = file
    BY <1>3 DEF PersisterTake
  <2> HIDE DEF f
  <2>3. Copies'
    BY <2>1, <2>2 DEF LifeInv, Copies
  <2> QED
    BY <1>1, <2>3 DEF LifeInv
<1>4. CASE PersisterWrite
  <2>1. PICK g : snapshot = <<g>> /\ CopyOk(g)
    BY <1>4 DEF PersisterWrite, LifeInv, Copies
  <2>2. snapshot[1] = g /\ file' \in {snapshot[1], file} /\ snapshot' = <<>>
    BY <1>4, <2>1 DEF PersisterWrite
  <2>3. CopyOk(file')
    BY <2>1, <2>2 DEF LifeInv, Copies
  <2>4. Copies'
    BY <2>2, <2>3 DEF LifeInv, Copies, CopyOk
  <2> QED
    BY <1>1, <2>4 DEF LifeInv
<1> QED
  BY <1>2, <1>3, <1>4 DEF Next, Persister

LEMMA LifeInit == ASSUME RestartInit PROVE LifeInv
<1>1. IInv /\ RestTypes
  BY InitInv, InitTypes DEF RestartInit
<1>2. Copies
  BY <1>1 DEF RestartInit, Init, Copies, CopyOk, IInv, CoreTypes, RestTypes
<1> QED
  BY <1>1, <1>2 DEF LifeInv

\* However often the process is killed and started again, in each of its lives one
\* entry plays at most, the head; each removal is announced once; and the cursor
\* marks a queued entry (media_queue.go:62-92, 454-539).
THEOREM EveryLife == RestartSpec => [](OnlyHeadPlays /\ RemovedOnce /\ CursorAhead /\ TypeOK)
<1>1. RestartInit => LifeInv
  BY LifeInit
<1>2. LifeInv /\ [RestartNext]_restartVars => LifeInv'
  <2> SUFFICES ASSUME LifeInv, [RestartNext]_restartVars PROVE LifeInv'
    OBVIOUS
  <2>1. CASE Run
    BY <2>1, LifeStep DEF Run
  <2>2. CASE Restart
    BY <2>2, RestartStep
  <2>3. CASE UNCHANGED restartVars
    <3>1. UNCHANGED vars /\ UNCHANGED <<file, snapshot, life>>
      BY <2>3 DEF restartVars, vars, fileVars
    <3>2. IInv' /\ RestTypes'
      BY <3>1, NextStep, NextTypes DEF LifeInv
    <3>3. Copies'
      BY <3>1 DEF LifeInv, Copies
    <3> QED
      BY <3>2, <3>3 DEF LifeInv
  <2> QED
    BY <2>1, <2>2, <2>3 DEF RestartNext
<1>3. LifeInv => OnlyHeadPlays /\ RemovedOnce /\ CursorAhead /\ TypeOK
  BY DEF LifeInv, IInv, HeadPlays, OnlyHeadPlays, CoreTypes, RestTypes, TypeOK
<1> QED
  BY <1>1, <1>2, <1>3, PTL DEF RestartSpec

-----------------------------------------------------------------------------
(* What a restart brings back                                              *)

\* The database and the disk do what they are asked to.
Reliable == LogOutcomes \subseteq {TRUE} /\ WriteOutcomes \subseteq {TRUE}

\* What is written stays up to date.
LEMMA WrittenStep ==
  ASSUME Reliable, LifeInv, Written, Next
  PROVE  Written'
<1>1. ASSUME UNCHANGED <<queue, movedBy>>, NEW f, Agrees(f) PROVE Agrees(f)'
  BY <1>1 DEF Agrees
<1>2. CASE Caller \/ Worker \/ Timer
  <2> SUFFICES ASSUME "persister" \notin updated' PROVE Written'
    BY DEF Written
  <2>1. UNCHANGED <<file, snapshot, queue, movedBy>> /\ "persister" \notin updated
    BY <1>2, PersisterTold DEF fileVars
  <2> QED
    BY <2>1 DEF Written, Agrees
<1>3. CASE PersisterTake
  <2>1. snapshot' = <<[queue |-> queue, movedBy |-> movedBy]>> /\ UNCHANGED <<queue, movedBy>>
    BY <1>3 DEF PersisterTake, apiVars
  <2> DEFINE f == [queue |-> queue, movedBy |-> movedBy]
  <2>2. f.queue = queue /\ f.movedBy = movedBy
    OBVIOUS
  <2>3. snapshot' # <<>> /\ snapshot'[1] = f
    BY <2>1
  <2> HIDE DEF f
  <2>4. f.queue = queue' /\ f.movedBy = movedBy'
    BY <2>1, <2>2
  <2> QED
    BY <2>3, <2>4 DEF Written, Agrees
<1>4. CASE PersisterWrite
  <2>1. PICK g : snapshot = <<g>>
    BY <1>4 DEF PersisterWrite, LifeInv, Copies
  <2>2. file' = snapshot[1] /\ snapshot' = <<>> /\ snapshot # <<>> /\ UNCHANGED <<queue, movedBy, updated>>
    BY <1>4 DEF PersisterWrite, Reliable, apiVars
  <2> QED
    BY <2>2 DEF Written, Agrees
<1> QED
  BY <1>2, <1>3, <1>4 DEF Next, Persister

\* A restart leaves the file that it has read.
LEMMA WrittenRestart ==
  ASSUME LifeInv, Restart
  PROVE  Written'
<1>1. PICK f \in {file} \cup ToSet(snapshot) : 
        /\ file' = f
        /\ queue' = Kept(f.queue)
        /\ movedBy' = [e \in Entries |-> IF e \in ToSet(queue') THEN f.movedBy[e] ELSE {}]
  BY DEF Restart, restoreQueueFromFile
<1>2. CopyOk(f)
  <2>1. CASE snapshot = <<>>
    BY <2>1 DEF LifeInv, Copies, ToSet
  <2>2. CASE snapshot # <<>>
    <3>1. PICK g : snapshot = <<g>> /\ CopyOk(g)
      BY <2>2 DEF LifeInv, Copies
    <3> QED
      BY <3>1 DEF LifeInv, Copies, ToSet
  <2> QED
    BY <2>1, <2>2
<1>3. Kept(f.queue) \in Seq(Entries) /\ Kept(Kept(f.queue)) = Kept(f.queue)
  BY <1>2, KeptQueue DEF CopyOk
<1>4. Kept(queue') = queue' /\ queue' \in Seq(Entries)
  BY <1>1, <1>3
<1>5. \A e \in ToSet(queue') : e \in Entries
  BY <1>4 DEF ToSet
<1>6. snapshot' = <<>>
  BY DEF Restart
<1>7. Kept(file'.queue) = Kept(queue')
  BY <1>1, <1>4
<1>8. \A e \in ToSet(Kept(queue')) : file'.movedBy[e] = movedBy'[e]
  BY <1>1, <1>4, <1>5
<1> QED
  BY <1>6, <1>7, <1>8 DEF Written, Agrees

\* The steps that neither announce nor read leave the streak alone.
LEMMA StreaksKept ==
  ASSUME LifeInv, Streaks, UNCHANGED <<prev, cur, playingSince, played_media, queueEvent, lost>>,
         used \subseteq used', pc' = "read" => pc = "read" \/ pc = "wait" \/ prev # NoEntry,
         pc' = "announce" => pc = "announce", pc' = "wait" => pc = "wait" \/ prev # NoEntry,
         pc = "read" => pc' = "read",
         pc = "read" /\ queue # <<>> => queue' # <<>>
  PROVE  Streaks'
<1>1. FoundEmpty' => FoundEmpty
  BY DEF FoundEmpty
<1>2. (CutShort(lost) => CutShort(lost)') /\ (CutShort(used \cup lost) => CutShort(used \cup lost)')
  BY DEF CutShort
<1> QED
  BY <1>1, <1>2 DEF Streaks

LEMMA CallerStreaks ==
  ASSUME LifeInv, Streaks, Caller \/ Timer \/ Persister, UNCHANGED lost
  PROVE  Streaks'
<1>1. UNCHANGED <<pc, prev, cur, playingSince, played_media, queueEvent>>
  <2>1. ASSUME NEW s \in AllSwitches, NEW on \in BOOLEAN, SetAllowed(s, on)
        PROVE  UNCHANGED <<pc, prev, cur, playingSince, played_media, queueEvent>>
    BY <2>1 DEF SetAllowed, workVars
  <2>2. ASSUME NEW e \in Entries, removeEntryInMutex(e)
        PROVE  UNCHANGED <<pc, prev, cur, playingSince, played_media, queueEvent>>
    BY <2>2 DEF removeEntryInMutex
  <2>3. CASE Caller
    BY <2>1, <2>2, <2>3 DEF Caller, RefillTokens, SetInsertCursor, Enqueue, PlayAfterCurrent, PlayNow, RemoveEntry,
      ClearInsertCursor, SkipCurrentEntry, RemoveOwnEntry, MoveEntry, workVars
  <2>4. CASE Timer \/ Persister
    BY <2>4 DEF Timer, TimerSubscribe, TimerFires, Persister, PersisterTake, PersisterWrite, workVars
  <2> QED
    BY <2>3, <2>4
<1>2. used \subseteq used'
  <2>1. ASSUME NEW s \in AllSwitches, NEW on \in BOOLEAN, SetAllowed(s, on)
        PROVE  used \subseteq used'
    BY <2>1 DEF SetAllowed, workVars
  <2>2. ASSUME NEW e \in Entries, removeEntryInMutex(e)
        PROVE  used \subseteq used'
    BY <2>2 DEF removeEntryInMutex
  <2>3. CASE Caller
    BY <2>1, <2>2, <2>3 DEF Caller, RefillTokens, SetInsertCursor, Enqueue, PlayAfterCurrent, PlayNow, RemoveEntry,
      ClearInsertCursor, SkipCurrentEntry, RemoveOwnEntry, MoveEntry, Fresh, apiVars
  <2>4. CASE Timer \/ Persister
    BY <2>4 DEF Timer, TimerSubscribe, TimerFires, Persister, PersisterTake, PersisterWrite, apiVars
  <2> QED
    BY <2>3, <2>4
<1>3. queue # <<>> => queue' # <<>>
  <2>1. CASE Caller
    BY <2>1, CallersKeepHead DEF HeadKept, LifeInv
  <2>2. CASE Timer \/ Persister
    BY <2>2 DEF Timer, TimerSubscribe, TimerFires, Persister, PersisterTake, PersisterWrite
  <2> QED
    BY <2>1, <2>2
<1> QED
  BY <1>1, <1>2, <1>3, StreaksKept

\* So do the turns of the worker between two announcements.
LEMMA LoopStreaks ==
  ASSUME LifeInv, Streaks, Worker, ~WorkerRead, ~WorkerAnnounce, UNCHANGED lost
  PROVE  Streaks'
<1>1. UNCHANGED <<prev, cur, playingSince, played_media, queueEvent, used>>
  BY DEF Worker, WorkerCheckPlayed, WorkerPlay, WorkerSubscribe, WorkerNextMedia, WorkerQueueUpdated, playNext, apiVars
<1>2. /\ pc # "read" /\ pc' # "announce"
      /\ pc' = "wait" => prev # NoEntry
      /\ pc' = "read" => pc = "wait" \/ prev # NoEntry
  BY DEF Worker, WorkerCheckPlayed, WorkerPlay, WorkerSubscribe, WorkerNextMedia, WorkerQueueUpdated, playNext,
         LifeInv, IInv, PrevFollows
<1> QED
  BY <1>1, <1>2, StreaksKept

LEMMA ReadStreaks ==
  ASSUME LifeInv, Streaks, WorkerRead, UNCHANGED lost
  PROVE  Streaks'
<1>1. /\ pc = "read" /\ pc' = "announce"
      /\ cur' = IF queue = <<>> THEN NoEntry ELSE queue[1]
      /\ playingSince' = (queue # <<>>)
      /\ UNCHANGED <<queue, used, prev, played_media, queueEvent>>
  BY DEF WorkerRead, apiVars
<1>2. queue # <<>> => cur' # NoEntry
  BY <1>1, QueueAssumption DEF LifeInv, IInv, CoreTypes
<1>3. playingSince' = (cur' # NoEntry)
  BY <1>1, <1>2
<1>4. FoundEmpty' => FoundEmpty
  BY <1>1, <1>2 DEF FoundEmpty
<1>5. (CutShort(lost) => CutShort(lost)') /\ (CutShort(used \cup lost) => CutShort(used \cup lost)')
  BY <1>1 DEF CutShort
<1> QED
  BY <1>1, <1>3, <1>4, <1>5 DEF Streaks

\* An announcement ends the row of the entry that was announced before and starts
\* that of the next.
LEMMA AnnounceRows ==
  ASSUME Reliable, LifeInv, Streaks, WorkerAnnounce, prev # cur
  PROVE  /\ played_media' = [e \in Entries |-> CASE e = cur  -> "started"
                                                  [] e = prev -> "ended"
                                                  [] OTHER    -> played_media[e]]
         /\ queueEvent' = CASE prev = NoEntry -> "filled"
                            [] cur = NoEntry  -> "emptied"
                            [] OTHER          -> queueEvent
<1>1. prev # NoEntry => played_media[prev] # "none"
  BY DEF Streaks
<1>2. logPlayedMedia
  BY DEF WorkerAnnounce
<1>3. PICK ok \in LogOutcomes :
        IF ok /\ (prev # NoEntry => played_media[prev] # "none")
        THEN /\ played_media' = [e \in Entries |-> CASE e = cur  -> "started"
                                                      [] e = prev -> "ended"
                                                      [] OTHER    -> played_media[e]]
             /\ queueEvent' = CASE prev = NoEntry -> "filled"
                                [] cur = NoEntry  -> "emptied"
                                [] OTHER          -> queueEvent
        ELSE UNCHANGED <<played_media, queueEvent>>
  BY <1>2 DEF logPlayedMedia
<1>4. ok
  BY DEF Reliable
<1> QED
  BY <1>1, <1>3, <1>4

LEMMA AnnounceStreaks ==
  ASSUME Reliable, LifeInv, Streaks, WorkerAnnounce, UNCHANGED lost
  PROVE  Streaks'
<1>1. /\ pc = "announce" /\ prev' = cur /\ UNCHANGED <<queue, used, cur, playingSince>>
      /\ pc' = IF cur = NoEntry THEN "wait" ELSE "check"
  BY DEF WorkerAnnounce, apiVars
<1>2. playingSince' = (cur' # NoEntry)
  BY <1>1 DEF Streaks
<1>3. CASE prev = cur
  <2>1. UNCHANGED <<played_media, queueEvent>>
    BY <1>3 DEF WorkerAnnounce
  <2>2. FoundEmpty' => FoundEmpty
    BY <1>1, <1>3 DEF FoundEmpty
  <2>3. (CutShort(lost) => CutShort(lost)') /\ (CutShort(used \cup lost) => CutShort(used \cup lost)')
    BY <1>1, <2>1 DEF CutShort
  <2> QED
    BY <1>1, <1>2, <1>3, <2>1, <2>2, <2>3 DEF Streaks
<1>4. CASE prev # cur /\ cur = NoEntry
  <2>1. prev # NoEntry /\ queueEvent' = "emptied"
    BY <1>4, AnnounceRows
  <2> QED
    BY <1>1, <1>2, <1>4, <2>1 DEF Streaks
<1>5. CASE prev # cur /\ cur # NoEntry
  <2>1. cur \in Entries /\ cur \in used
    BY <1>1, <1>5 DEF LifeInv, IInv, CoreTypes, CurIsHead, UsedBefore, Queued, Holds
  <2>2. played_media'[cur] = "started"
    BY <1>5, <2>1, AnnounceRows
  <2>3. queueEvent' = "filled"
    <3>1. CASE prev = NoEntry
      BY <1>5, <3>1, AnnounceRows
    <3>2. CASE prev # NoEntry
      BY <1>5, <3>2, AnnounceRows DEF Streaks
    <3> QED
      BY <3>1, <3>2
  <2>4. CutShort(used \cup lost)'
    BY <1>1, <2>1, <2>2 DEF CutShort
  <2>5. ~FoundEmpty'
    BY <1>1, <1>5 DEF FoundEmpty
  <2> QED
    BY <1>1, <1>2, <1>5, <2>2, <2>3, <2>4, <2>5 DEF Streaks
<1> QED
  BY <1>3, <1>4, <1>5

LEMMA RestartStreaks ==
  ASSUME LifeInv, Streaks, Restart
  PROVE  Streaks'
<1>1. /\ pc' = "read" /\ prev' = NoEntry /\ UNCHANGED <<played_media, queueEvent>>
      /\ lost' = (lost \cup used) \ ToSet(queue') /\ used' = ToSet(queue')
  BY DEF Restart
<1>2. CutShort(used \cup lost) => CutShort(used \cup lost)'
  BY <1>1 DEF CutShort
<1>3. CutShort(used \cup lost) /\ FoundEmpty' => CutShort(lost)'
  <2> SUFFICES ASSUME CutShort(used \cup lost), FoundEmpty' PROVE CutShort(lost)'
    OBVIOUS
  <2>1. queue' = <<>>
    BY <1>1 DEF FoundEmpty
  <2>2. ToSet(queue') = {}
    BY <2>1 DEF ToSet
  <2> QED
    BY <1>1, <2>2 DEF CutShort
<1> QED
  BY <1>1, <1>2, <1>3 DEF Streaks

\* Of what an announcement leaves without an end, only the next entry was not.
LEMMA AnnounceCounts ==
  ASSUME Reliable, LifeInv, Streaks, OneRowPerLife, WorkerAnnounce, UNCHANGED life
  PROVE  OneRowPerLife'
<1>1. prev' = cur
  BY DEF WorkerAnnounce
<1>2. played_media \in [Entries -> {"none", "started", "ended"}]
  BY DEF LifeInv, RestTypes
<1>3. CASE prev = cur
  <2>1. UNCHANGED played_media
    BY <1>3 DEF WorkerAnnounce
  <2> QED
    BY <1>1, <1>3, <2>1 DEF OneRowPerLife, RowsIn
<1>4. CASE prev # cur
  <2> DEFINE open == RowsIn("started")
  <2>1. played_media' = [e \in Entries |-> CASE e = cur  -> "started"
                                              [] e = prev -> "ended"
                                              [] OTHER    -> played_media[e]]
    BY <1>4, AnnounceRows
  <2>2. \A e \in Entries : /\ e = cur => played_media'[e] = "started"
                           /\ e # cur /\ e = prev => played_media'[e] = "ended"
                           /\ e # cur /\ e # prev => played_media'[e] = played_media[e]
    BY <1>4, <2>1
  <2>3. RowsIn("started")' \subseteq open \cup {cur}
    BY <2>2 DEF RowsIn
  <2>4. RowsIn("ended")' \subseteq RowsIn("ended") \cup {prev}
    BY <2>2 DEF RowsIn
  <2>5. RowsIn("started")' \ {cur} \subseteq open \ {prev}
    BY <1>4, <2>2 DEF RowsIn
  <2>6. IsFiniteSet(open) /\ IsFiniteSet(RowsIn("ended")) /\ Cardinality(open \ {prev}) <= life - 1 
    BY DEF OneRowPerLife
  <2> HIDE DEF open
  <2>7. IsFiniteSet(open \cup {cur}) /\ IsFiniteSet(RowsIn("ended") \cup {prev}) /\ IsFiniteSet(open \ {prev})
    BY <2>6, FS_AddElement, FS_RemoveElement
  <2>8. IsFiniteSet(RowsIn("started")') /\ IsFiniteSet(RowsIn("ended")')
    BY <2>3, <2>4, <2>7, FS_Subset
  <2>9. Cardinality(RowsIn("started")' \ {cur}) <= Cardinality(open \ {prev})
    BY <2>5, <2>7, FS_Subset
  <2>10. Cardinality(RowsIn("started")' \ {cur}) \in Nat /\ Cardinality(open \ {prev}) \in Nat /\ life \in Nat
    <3>1. IsFiniteSet(RowsIn("started")' \ {cur})
      BY <2>8, FS_RemoveElement
    <3> QED
      BY <2>7, <3>1, FS_CardinalityType DEF LifeInv, Copies
  <2>11. Cardinality(RowsIn("started")' \ {cur}) <= life - 1
    BY <2>6, <2>9, <2>10
  <2> QED
    BY <1>1, <2>8, <2>11 DEF OneRowPerLife
<1> QED
  BY <1>3, <1>4

\* Nothing else touches the rows.
LEMMA OthersKeepRows ==
  ASSUME Next, ~WorkerAnnounce
  PROVE  UNCHANGED <<prev, played_media>>
<1>1. ASSUME NEW s \in AllSwitches, NEW on \in BOOLEAN, SetAllowed(s, on) PROVE UNCHANGED <<prev, played_media>>
  BY <1>1 DEF SetAllowed, workVars
<1>2. ASSUME NEW e \in Entries, removeEntryInMutex(e) PROVE UNCHANGED <<prev, played_media>>
  BY <1>2 DEF removeEntryInMutex
<1>3. CASE Caller
  BY <1>1, <1>2, <1>3 DEF Caller, RefillTokens, SetInsertCursor, Enqueue, PlayAfterCurrent, PlayNow, RemoveEntry,
    ClearInsertCursor, SkipCurrentEntry, RemoveOwnEntry, MoveEntry, workVars
<1>4. CASE Worker
  BY <1>4 DEF Worker, WorkerRead, WorkerCheckPlayed, WorkerPlay, WorkerSubscribe, WorkerNextMedia,
    WorkerQueueUpdated, playNext
<1>5. CASE Timer \/ Persister
  BY <1>5 DEF Timer, TimerSubscribe, TimerFires, Persister, PersisterTake, PersisterWrite, workVars
<1> QED
  BY <1>3, <1>4, <1>5 DEF Next

\* The row that a killed process leaves without an end is one more.
LEMMA RestartCounts ==
  ASSUME LifeInv, OneRowPerLife, Restart
  PROVE  OneRowPerLife'
<1> DEFINE open == RowsIn("started")
<1>1. prev' = NoEntry /\ life' = life + 1 /\ UNCHANGED played_media /\ life \in Nat
  BY DEF Restart, LifeInv, Copies
<1>2. IsFiniteSet(open) /\ IsFiniteSet(RowsIn("ended")) /\ Cardinality(open \ {prev}) <= life - 1 
  BY DEF OneRowPerLife
<1>3. open' = open /\ RowsIn("ended")' = RowsIn("ended")
  BY <1>1 DEF RowsIn
<1>4. open \ {NoEntry} = open
  BY QueueAssumption DEF RowsIn
<1> HIDE DEF open
<1>5. Cardinality(open) \in Nat /\ Cardinality(open \ {prev}) \in Nat
  BY <1>2, FS_RemoveElement, FS_CardinalityType
<1>6. Cardinality(open) <= Cardinality(open \ {prev}) + 1
  <2>1. Cardinality(open \ {prev}) = IF prev \in open THEN Cardinality(open) - 1 ELSE Cardinality(open)
    BY <1>2, FS_RemoveElement
  <2> QED
    BY <1>5, <2>1
<1>7. Cardinality(open \ {NoEntry}) <= life' - 1
  <2>1. Cardinality(open) <= life
    BY <1>1, <1>2, <1>5, <1>6
  <2>2. life' - 1 = life
    BY <1>1
  <2> QED
    BY <1>4, <2>1, <2>2
<1> QED
  BY <1>1, <1>2, <1>3, <1>7 DEF OneRowPerLife, open

\* Everything that holds in every life if the database and the disk are reliable.
RestartInv == LifeInv /\ Written /\ Streaks /\ OneRowPerLife

LEMMA RestartInvInit == ASSUME RestartInit PROVE RestartInv
<1>1. LifeInv
  BY LifeInit
<1>2. Written
  <2>1. file.queue = queue /\ file.movedBy = movedBy /\ snapshot = <<>>
    BY DEF RestartInit, Init
  <2> QED
    BY <2>1 DEF Written, Agrees
<1>3. Streaks
  BY DEF RestartInit, Init, Streaks
<1>4. OneRowPerLife
  <2>1. RowsIn("started") = {} /\ RowsIn("ended") = {} /\ life = 1
    BY DEF RestartInit, Init, RowsIn
  <2>2. RowsIn("started") \ {prev} = {}
    BY <2>1
  <2> QED
    BY <2>1, <2>2, FS_EmptySet DEF OneRowPerLife
<1> QED
  BY <1>1, <1>2, <1>3, <1>4 DEF RestartInv

LEMMA RestartInvStep ==
  ASSUME Reliable, RestartInv, [RestartNext]_restartVars
  PROVE  RestartInv'
<1>1. CASE Run
  <2>1. Next /\ UNCHANGED <<life, lost>>
    BY <1>1 DEF Run
  <2>2. LifeInv' /\ Written'
    BY <2>1, LifeStep, WrittenStep DEF RestartInv
  <2>3. Streaks'
    BY <2>1, CallerStreaks, LoopStreaks, ReadStreaks, AnnounceStreaks DEF RestartInv, Next
  <2>4. OneRowPerLife'
    <3>1. CASE WorkerAnnounce
      BY <2>1, <3>1, AnnounceCounts DEF RestartInv
    <3>2. CASE ~WorkerAnnounce
      <4>1. UNCHANGED <<prev, played_media>>
        BY <2>1, <3>2, OthersKeepRows
      <4> QED
        BY <2>1, <4>1 DEF RestartInv, OneRowPerLife, RowsIn
    <3> QED
      BY <3>1, <3>2
  <2> QED
    BY <2>2, <2>3, <2>4 DEF RestartInv
<1>2. CASE Restart
  BY <1>2, RestartStep, WrittenRestart, RestartStreaks, RestartCounts DEF RestartInv
<1>3. CASE UNCHANGED restartVars
  <2>1. UNCHANGED vars /\ UNCHANGED <<queue, movedBy, used, pc, cur, prev, updated, playingSince, played_media>>
        /\ UNCHANGED <<queueEvent, file, snapshot, life, lost>>
    BY <1>3 DEF restartVars, vars, apiVars, workVars, fileVars
  <2>2. LifeInv'
    <3>1. IInv' /\ RestTypes'
      BY <2>1, NextStep, NextTypes DEF RestartInv, LifeInv
    <3>2. Copies'
      BY <2>1 DEF RestartInv, LifeInv, Copies
    <3> QED
      BY <3>1, <3>2 DEF LifeInv
  <2>3. Written' /\ Streaks' /\ OneRowPerLife'
    BY <2>1 DEF RestartInv, Written, Agrees, Streaks, FoundEmpty, CutShort, OneRowPerLife, RowsIn
  <2> QED
    BY <2>2, <2>3 DEF RestartInv
<1> QED
  BY <1>1, <1>2, <1>3 DEF RestartNext

THEOREM RestartInductive ==
  ASSUME Reliable
  PROVE  RestartSpec => []RestartInv
<1>1. RestartInit => RestartInv
  BY RestartInvInit
<1>2. RestartInv /\ [RestartNext]_restartVars => RestartInv'
  BY RestartInvStep
<1> QED
  BY <1>1, <1>2, PTL DEF RestartSpec

\* What the enqueuing limits count exceeds the entries of the user that have
\* finished by one for each earlier life at most, never within the first, however
\* many entries and lives there are (media_queue.go:760-860).
THEOREM OvershootBounded ==
  ASSUME Reliable
  PROVE  RestartSpec => []CountOvershoot
<1>1. ASSUME RestartInv, NEW u \in Users
      PROVE  RecentlyPlayedCount(u) - Cardinality(Rows(u, {"ended"})) <= life - 1
  <2> DEFINE both == Rows(u, {"started", "ended"})
             open == Rows(u, {"started"})
             done == Rows(u, {"ended"})
             all == RowsIn("started")
  <2>1. open \subseteq all /\ done \subseteq RowsIn("ended") /\ both = open \cup done /\ open \cap done = {}
    BY DEF Rows, RowsIn
  <2>2. IsFiniteSet(all) /\ IsFiniteSet(RowsIn("ended")) /\ Cardinality(all \ {prev}) <= life - 1 /\ life \in Nat
    BY <1>1 DEF RestartInv, OneRowPerLife, LifeInv, Copies
  <2>3. RecentlyPlayedCount(u) = Cardinality(both) - (IF open # {} THEN 1 ELSE 0)
    BY DEF RecentlyPlayedCount
  <2> HIDE DEF both, open, done, all
  <2>4. IsFiniteSet(open) /\ IsFiniteSet(done) /\ Cardinality(open) <= Cardinality(all)
    BY <2>1, <2>2, FS_Subset
  <2>5. Cardinality(both) = Cardinality(open) + Cardinality(done)
    <3>1. Cardinality(open \cap done) = 0
      BY <2>1, FS_EmptySet
    <3>2. Cardinality(both) = Cardinality(open) + Cardinality(done) - Cardinality(open \cap done)
      BY <2>1, <2>4, FS_Union
    <3> QED
      BY <2>4, <3>1, <3>2, FS_CardinalityType
  <2>6. /\ Cardinality(open) \in Nat /\ Cardinality(done) \in Nat
        /\ Cardinality(all) \in Nat /\ Cardinality(all \ {prev}) \in Nat
    BY <2>2, <2>4, FS_RemoveElement, FS_CardinalityType
  <2>7. Cardinality(all) <= Cardinality(all \ {prev}) + 1
    <3>1. Cardinality(all \ {prev}) = IF prev \in all THEN Cardinality(all) - 1 ELSE Cardinality(all)
      BY <2>2, FS_RemoveElement
    <3> QED
      BY <2>6, <3>1
  <2>8. open = {} => Cardinality(open) = 0
    BY FS_EmptySet
  <2>9. Cardinality(both) - (IF open # {} THEN 1 ELSE 0) - Cardinality(done) <= life - 1
    <3>1. CASE open = {}
      BY <2>2, <2>5, <2>6, <2>8, <3>1
    <3>2. CASE open # {}
      BY <2>2, <2>4, <2>5, <2>6, <2>7, <3>2
    <3> QED
      BY <3>1, <3>2
  <2> QED
    BY <2>3, <2>9 DEF done
<1>2. RestartInv => CountOvershoot
  BY <1>1 DEF CountOvershoot
<1> QED
  BY <1>2, RestartInductive, PTL

\* A restart once everything was written brings back the queue and who moved what,
\* and ends no streak; it begins one only where an entry was cut short that an
\* earlier restart had lost (media_queue.go:570-666).
THEOREM QuietRestarts ==
  ASSUME Reliable
  PROVE  RestartSpec => QuietRestartKeepsQueue
<1>1. ASSUME RestartInv, [RestartNext]_restartVars, life' # life
      PROVE  /\ snapshot = <<>> /\ "persister" \notin updated =>
                  /\ queue' = Kept(queue)
                  /\ \A e \in ToSet(queue') : movedBy'[e] = movedBy[e]
             /\ pc = "wait" =>
                  /\ playingSince => playingSince'
                  /\ playingSince' /\ ~playingSince => \E e \in lost : played_media[e] = "started"
  <2>1. Restart
    BY <1>1 DEF RestartNext, Run, restartVars
  <2>2. ASSUME snapshot = <<>>, "persister" \notin updated
        PROVE  queue' = Kept(queue) /\ \A e \in ToSet(queue') : movedBy'[e] = movedBy[e]
    <3>1. Agrees(file)
      BY <1>1, <2>2 DEF RestartInv, Written
    <3>2. ToSet(snapshot) = {}
      BY <2>2 DEF ToSet
    <3>3. /\ queue' = Kept(file.queue)
          /\ movedBy' = [e \in Entries |-> IF e \in ToSet(queue') THEN file.movedBy[e] ELSE {}]
      BY <2>1, <3>2 DEF Restart, restoreQueueFromFile
    <3>4. queue' = Kept(queue)
      BY <3>1, <3>3 DEF Agrees
    <3>5. Kept(file.queue) \in Seq(Entries)
      BY <1>1, KeptQueue DEF RestartInv, LifeInv, Copies, CopyOk
    <3>6. \A e \in ToSet(queue') : e \in Entries
      BY <3>3, <3>5 DEF ToSet
    <3> QED
      BY <3>1, <3>3, <3>4, <3>6 DEF Agrees
  <2>3. ASSUME pc = "wait"
        PROVE  /\ playingSince => playingSince'
               /\ playingSince' /\ ~playingSince => \E e \in lost : played_media[e] = "started"
    <3>1. playingSince' = (queueEvent = "filled")
      BY <2>1 DEF Restart, restorePlayingSinceFromDatabase
    <3>2. prev = cur /\ Streaks
      BY <1>1, <2>3 DEF RestartInv, LifeInv, IInv, PrevFollows
    <3>3. playingSince => queueEvent = "filled"
      BY <2>3, <3>2 DEF Streaks
    <3>4. ASSUME ~playingSince, queueEvent = "filled"
          PROVE  CutShort(lost)
      <4>1. prev = NoEntry
        BY <2>3, <3>2, <3>4 DEF Streaks
      <4> QED
        BY <2>3, <3>2, <3>4, <4>1 DEF Streaks, FoundEmpty
    <3> QED
      BY <3>1, <3>3, <3>4 DEF CutShort
  <2> QED
    BY <2>2, <2>3
<1>2. RestartInv /\ [RestartNext]_restartVars =>
        [life' # life /\ snapshot = <<>> /\ "persister" \notin updated =>
            /\ queue' = Kept(queue)
            /\ \A e \in ToSet(queue') : movedBy'[e] = movedBy[e]]_restartVars
  BY <1>1
<1>3. RestartInv /\ [RestartNext]_restartVars =>
        [life' # life /\ pc = "wait" =>
            /\ playingSince => playingSince'
            /\ playingSince' /\ ~playingSince => \E e \in lost : played_media[e] = "started"]_restartVars
  BY <1>1
<1> QED
  BY <1>2, <1>3, RestartInductive, PTL DEF RestartSpec, QuietRestartKeepsQueue
=============================================================================
