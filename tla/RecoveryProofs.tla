---------------------------- MODULE RecoveryProofs ----------------------------
(***************************************************************************)
(* What a client shows after it was connected again, for any number of     *)
(* messages, applications and tabs, and whatever is lost with a stream.    *)
(***************************************************************************)
EXTENDS RecoveryMC, MediaQueueProofs

-----------------------------------------------------------------------------
(* Sequences                                                               *)

\* What a loop has made of b after each of its turns up to the n-th, when
\* step[i] is the i-th.
LoopTurns(f, S, b, n, step) ==
  f \in [0..n -> S] /\ f[0] = b /\ \A i \in 1..n : f[i] = step[i][f[i - 1]]

LEMMA TurnsOfALoop ==
  ASSUME NEW S, NEW b \in S, NEW n \in Nat, NEW step \in [1..n -> [S -> S]]
  PROVE  \E f : LoopTurns(f, S, b, n, step)
<1> DEFINE Upto(m, f) == LoopTurns(f, S, b, m, step)
           T == {m \in 0..n : ~ \E f : Upto(m, f)}
<1> HIDE DEF Upto
<1>0. SUFFICES \E f : Upto(n, f)
  BY DEF Upto
<1>1. SUFFICES ASSUME T # {} PROVE FALSE
  OBVIOUS
<1>2. T \subseteq Nat
  OBVIOUS
<1>3. PICK m \in T : \A y \in T : m <= y
  BY <1>1, <1>2, LeastElement
<1>4. m \in 0..n /\ m \in Nat /\ ~ \E f : Upto(m, f)
  OBVIOUS
<1>5. m # 0
  <2> DEFINE g == [i \in 0..0 |-> b]
  <2>1. Upto(0, g)
    BY DEF Upto, LoopTurns
  <2> QED
    BY <1>4, <2>1
<1>6. m - 1 \in 0..n /\ m - 1 \in Nat /\ m \in 1..n
  BY <1>4, <1>5
<1>7. PICK f : LoopTurns(f, S, b, m - 1, step)
  <2>1. m - 1 \notin T
    BY <1>3, <1>4, <1>6
  <2> QED
    BY <1>6, <2>1 DEF Upto
<1> HIDE DEF T
<1> DEFINE g == [i \in 0..m |-> IF i = m THEN step[m][f[m - 1]] ELSE f[i]]
<1>8. f[m - 1] \in S /\ step[m][f[m - 1]] \in S
  BY <1>6, <1>7 DEF LoopTurns
<1>9. g \in [0..m -> S]
  <2>1. ASSUME NEW i \in 0..m PROVE (IF i = m THEN step[m][f[m - 1]] ELSE f[i]) \in S
    <3>1. i # m => i \in 0..(m - 1)
      BY <1>6
    <3> QED
      BY <1>7, <1>8, <3>1 DEF LoopTurns
  <2> QED
    BY <2>1
<1>10. Upto(m, g)
  <2>1. g[0] = b
    BY <1>5, <1>6, <1>7 DEF LoopTurns
  <2>2. ASSUME NEW i \in 1..m PROVE g[i] = step[i][g[i - 1]]
    <3>1. i - 1 \in 0..m /\ i - 1 # m /\ i \in 0..m
      BY <1>6
    <3>2. g[i - 1] = f[i - 1]
      BY <3>1
    <3>3. i # m => i \in 1..(m - 1)
      BY <1>6
    <3> QED
      BY <1>7, <3>1, <3>2, <3>3 DEF LoopTurns
  <2> QED
    BY <1>9, <2>1, <2>2 DEF Upto, LoopTurns
<1> QED
  BY <1>4, <1>10

\* The turns of Without.
Filters(f, R, s, gone) ==
  /\ f \in [0..Len(s) -> Seq(R)]
  /\ Without(s, gone) = f[Len(s)] /\ f[0] = <<>>
  /\ \A i \in 1..Len(s) :
       f[i] = IF s[i] \in gone THEN f[i - 1] ELSE Append(f[i - 1], s[i])

LEMMA WithoutTurns ==
  ASSUME NEW R, NEW s \in Seq(R), NEW gone
  PROVE  \E f : Filters(f, R, s, gone)
<1> DEFINE n == Len(s)
           Q == Seq(R)
           step == [i \in 1..n |-> [u \in Q |-> IF s[i] \in gone THEN u ELSE Append(u, s[i])]]
           IsLoop(f) == f = [i \in 0..n |->
                               IF i = 0 THEN <<>>
                               ELSE IF s[i] \in gone THEN f[i - 1] ELSE Append(f[i - 1], s[i])]
<1>1. n \in Nat /\ <<>> \in Q
  OBVIOUS
<1>2. step \in [1..n -> [Q -> Q]]
  <2>1. ASSUME NEW i \in 1..n, NEW u \in Q PROVE Append(u, s[i]) \in Q
    BY <1>1
  <2> QED
    BY <2>1
<1>3. PICK f \in [0..n -> Q] : f[0] = <<>> /\ \A i \in 1..n : f[i] = step[i][f[i - 1]]
  <2> DEFINE empty == <<>>
  <2>1. empty \in Q
    BY <1>1
  <2> HIDE DEF step, Q, n, empty
  <2>2. \E f : LoopTurns(f, Q, empty, n, step)
    BY <1>1, <1>2, <2>1, TurnsOfALoop
  <2> QED
    BY <2>2 DEF LoopTurns, empty
<1>4. \A i \in 1..n : f[i] = IF s[i] \in gone THEN f[i - 1] ELSE Append(f[i - 1], s[i])
  <2> TAKE i \in 1..n
  <2>1. i - 1 \in 0..n
    BY <1>1
  <2>2. f[i - 1] \in Q
    BY <1>3, <2>1
  <2> QED
    BY <1>3, <2>2
<1>5. IsLoop(f)
  <2>1. ASSUME NEW i \in 0..n
        PROVE  f[i] = IF i = 0 THEN <<>>
                      ELSE IF s[i] \in gone THEN f[i - 1] ELSE Append(f[i - 1], s[i])
    <3>1. i # 0 => i \in 1..n
      BY <1>1
    <3> QED
      BY <1>3, <1>4, <3>1
  <2> HIDE DEF n, Q
  <2> QED
    BY <1>3, <2>1
<1> DEFINE g == CHOOSE h : IsLoop(h)
<1>6. IsLoop(g) /\ Without(s, gone) = g[n]
  <2>1. Without(s, gone) = g[n]
    BY DEF Without
  <2>2. IsLoop(g)
    BY <1>5
  <2> QED
    BY <2>1, <2>2
<1> HIDE DEF g
<1> DEFINE T == {m \in 0..n : g[m] # f[m]}
<1>7. T = {}
  <2> SUFFICES ASSUME T # {} PROVE FALSE
    OBVIOUS
  <2>1. T \subseteq Nat
    BY <1>1
  <2>2. PICK m \in T : \A y \in T : m <= y
    BY <2>1, LeastElement
  <2>3. m \in 0..n /\ g[m] # f[m]
    OBVIOUS
  <2>4. m # 0
    BY <1>1, <1>3, <1>6, <2>3
  <2>5. m \in 1..n /\ m - 1 \in 0..n
    BY <1>1, <2>3, <2>4
  <2>6. g[m - 1] = f[m - 1]
    BY <1>1, <2>2, <2>5
  <2> QED
    BY <1>4, <1>6, <2>3, <2>4, <2>5, <2>6
<1>8. g[n] = f[n]
  BY <1>1, <1>7
<1> QED
  BY <1>3, <1>4, <1>6, <1>8 DEF Filters

\* What is left is what was held and is not taken out.
LEMMA WithoutHolds ==
  ASSUME NEW R, NEW s \in Seq(R), NEW gone
  PROVE  /\ Without(s, gone) \in Seq(R)
         /\ \A x : Holds(Without(s, gone), x) <=> Holds(s, x) /\ x \notin gone
         /\ Distinct(s) => Distinct(Without(s, gone))
<1>0. PICK f : Filters(f, R, s, gone)
  BY WithoutTurns
<1>1. /\ f \in [0..Len(s) -> Seq(R)]
      /\ Without(s, gone) = f[Len(s)] /\ f[0] = <<>>
      /\ \A i \in 1..Len(s) :
           f[i] = IF s[i] \in gone THEN f[i - 1] ELSE Append(f[i - 1], s[i])
  BY <1>0 DEF Filters
<1> DEFINE Ok(u, i) == /\ \A x : Holds(u, x) <=> (\E k \in 1..i : s[k] = x) /\ x \notin gone
                       /\ Distinct(s) => Distinct(u)
           T == {i \in 0..Len(s) : ~Ok(f[i], i)}
<1>2. T = {}
  <2> SUFFICES ASSUME T # {} PROVE FALSE
    OBVIOUS
  <2>1. T \subseteq Nat
    OBVIOUS
  <2>2. PICK m \in T : \A y \in T : m <= y
    BY <2>1, LeastElement
  <2>3. m \in 0..Len(s) /\ ~Ok(f[m], m)
    OBVIOUS
  <2>4. m # 0
    <3>1. Ok(<<>>, 0)
      BY DEF Holds, Distinct
    <3> QED
      BY <1>1, <2>3, <3>1
  <2>5. m \in 1..Len(s) /\ m - 1 \in 0..Len(s)
    BY <2>3, <2>4
  <2>6. Ok(f[m - 1], m - 1)
    <3>1. ~(m <= m - 1)
      BY <2>5
    <3>2. m - 1 \notin T
      BY <2>2, <3>1
    <3> HIDE DEF Ok
    <3> QED
      BY <2>5, <3>2
  <2> DEFINE u == f[m - 1]
             x == s[m]
  <2>7. u \in Seq(R) /\ x \in R
    BY <1>1, <2>5
  <2>8. \A y : (\E k \in 1..m : s[k] = y) <=> (\E k \in 1..(m - 1) : s[k] = y) \/ y = x
    BY <2>5
  <2>9. CASE x \in gone
    <3>1. f[m] = u
      BY <1>1, <2>5, <2>9
    <3>2. Ok(u, m)
      BY <2>6, <2>8, <2>9
    <3> QED
      BY <2>3, <3>1, <3>2
  <2>10. CASE x \notin gone
    <3>1. f[m] = Append(u, x)
      BY <1>1, <2>5, <2>10
    <3>2. /\ Len(Append(u, x)) = Len(u) + 1 /\ Append(u, x)[Len(u) + 1] = x /\ Len(u) \in Nat
          /\ \A i \in 1..Len(u) : Append(u, x)[i] = u[i]
      BY <2>7, AppendProperties
    <3>3. \A y : Holds(Append(u, x), y) <=> Holds(u, y) \/ y = x
      BY <3>2, SMT DEF Holds
    <3>4. ASSUME Distinct(s) PROVE Distinct(Append(u, x))
      <4>1. \A k \in 1..(m - 1) : s[k] # x
        BY <2>5, <3>4 DEF Distinct
      <4>2. Distinct(u) /\ ~Holds(u, x)
        BY <2>6, <3>4, <4>1
      <4> QED
        BY <2>7, <4>2, AppendEdit
    <3>5. Ok(Append(u, x), m)
      BY <2>6, <2>8, <2>10, <3>3, <3>4
    <3> QED
      BY <2>3, <3>1, <3>5
  <2> QED
    BY <2>9, <2>10
<1>3. Len(s) \in 0..Len(s) /\ Ok(f[Len(s)], Len(s))
  <2>1. Len(s) \in 0..Len(s)
    OBVIOUS
  <2> HIDE DEF Ok
  <2> QED
    BY <1>2, <2>1
<1>4. f[Len(s)] \in Seq(R)
  BY <1>1, <1>3
<1> QED
  BY <1>1, <1>3, <1>4 DEF Holds

\* A set of natural numbers up to a bound has a greatest element.
LEMMA GreatestElement ==
  ASSUME NEW n \in Nat, NEW T, T \subseteq 0..n, T # {}
  PROVE  \E x \in T : \A y \in T : x >= y
<1> DEFINE U == {n - x : x \in T}
<1>1. U \subseteq Nat /\ U # {}
  <2>1. \A x \in T : n - x \in Nat
    OBVIOUS
  <2> QED
    BY <2>1
<1>2. PICK u \in U : \A v \in U : u <= v
  BY <1>1, LeastElement
<1>3. PICK x \in T : u = n - x
  OBVIOUS
<1>4. ASSUME NEW y \in T PROVE x >= y
  <2>1. n - y \in U
    OBVIOUS
  <2>2. n - x <= n - y
    BY <1>2, <1>3, <2>1
  <2> HIDE DEF U
  <2> QED
    BY <2>2
<1> QED
  BY <1>4

\* Putting an element into a sequence, and taking one out.
LEMMA InsertAtIs ==
  ASSUME NEW R, NEW s \in Seq(R), NEW x \in R, NEW p \in 1..(Len(s) + 1)
  PROVE  /\ InsertAt(s, p, x) \in Seq(R) /\ Len(InsertAt(s, p, x)) = Len(s) + 1
         /\ \A i \in 1..(Len(s) + 1) :
              InsertAt(s, p, x)[i] = IF i < p THEN s[i] ELSE IF i = p THEN x ELSE s[i - 1]
<1> DEFINE a == SubSeq(s, 1, p - 1)
           b == SubSeq(s, p, Len(s))
           c == a \o <<x>>
           t == c \o b
<1>1. Len(s) \in Nat /\ p \in Nat
  OBVIOUS
<1>2. a \in Seq(R) /\ Len(a) = p - 1 /\ \A i \in 1..(p - 1) : a[i] = s[i]
  BY SMT
<1>3. b \in Seq(R) /\ Len(b) = Len(s) - p + 1 /\ \A i \in 1..(Len(s) - p + 1) : b[i] = s[p + i - 1]
  BY SMT
<1>4. InsertAt(s, p, x) = t
  BY DEF InsertAt
<1>5. <<x>> \in Seq(R) /\ Len(<<x>>) = 1 /\ <<x>>[1] = x
  OBVIOUS
<1> HIDE DEF a, b
<1>6. /\ c \in Seq(R) /\ Len(c) = p /\ c[p] = x
      /\ \A i \in 1..(p - 1) : c[i] = s[i]
  BY <1>1, <1>2, <1>5, ConcatProperties
<1> HIDE DEF c
<1>7. /\ t \in Seq(R) /\ Len(t) = Len(s) + 1
      /\ \A i \in 1..p : t[i] = c[i]
      /\ \A i \in 1..(Len(s) - p + 1) : t[p + i] = b[i]
  <2>1. t \in Seq(R) /\ Len(t) = Len(c) + Len(b)
    BY <1>3, <1>6, ConcatProperties
  <2>2. \A i \in 1..(Len(c) + Len(b)) : t[i] = IF i <= Len(c) THEN c[i] ELSE b[i - Len(c)]
    BY <1>3, <1>6, ConcatProperties
  <2> HIDE DEF t
  <2>3. \A i \in 1..p : t[i] = c[i]
    BY <1>1, <1>3, <1>6, <2>2
  <2>4. ASSUME NEW i \in 1..(Len(s) - p + 1) PROVE t[p + i] = b[i]
    <3>1. p + i \in 1..(Len(c) + Len(b)) /\ ~(p + i <= Len(c)) /\ p + i - Len(c) = i
      BY <1>1, <1>3, <1>6
    <3> QED
      BY <2>2, <3>1
  <2> QED
    BY <1>1, <1>3, <1>6, <2>1, <2>3, <2>4
<1> HIDE DEF t
<1>8. ASSUME NEW i \in 1..(Len(s) + 1)
      PROVE  t[i] = IF i < p THEN s[i] ELSE IF i = p THEN x ELSE s[i - 1]
  <2>1. CASE i <= p
    BY <1>1, <1>6, <1>7, <2>1
  <2>2. CASE i > p
    <3>1. i - p \in 1..(Len(s) - p + 1) /\ p + (i - p) = i /\ p + (i - p) - 1 = i - 1
      BY <1>1, <2>2
    <3>2. t[p + (i - p)] = b[i - p] /\ b[i - p] = s[p + (i - p) - 1]
      BY <1>3, <1>7, <3>1
    <3> QED
      BY <1>1, <2>2, <3>1, <3>2
  <2> QED
    BY <1>1, <2>1, <2>2
<1> QED
  BY <1>4, <1>7, <1>8

LEMMA RemoveAtIs ==
  ASSUME NEW R, NEW s \in Seq(R), NEW p \in 1..Len(s)
  PROVE  /\ RemoveAt(s, p) \in Seq(R) /\ Len(RemoveAt(s, p)) = Len(s) - 1
         /\ \A i \in 1..(Len(s) - 1) :
              RemoveAt(s, p)[i] = IF i < p THEN s[i] ELSE s[i + 1]
<1> DEFINE a == SubSeq(s, 1, p - 1)
           b == SubSeq(s, p + 1, Len(s))
           t == a \o b
<1>1. Len(s) \in Nat /\ p \in Nat
  OBVIOUS
<1>2. a \in Seq(R) /\ Len(a) = p - 1 /\ \A i \in 1..(p - 1) : a[i] = s[i]
  BY SMT
<1>3. b \in Seq(R) /\ Len(b) = Len(s) - p /\ \A i \in 1..(Len(s) - p) : b[i] = s[p + i]
  BY SMT
<1>4. RemoveAt(s, p) = t
  BY DEF RemoveAt
<1> HIDE DEF a, b
<1>5. t \in Seq(R) /\ Len(t) = Len(a) + Len(b)
  BY <1>2, <1>3, ConcatProperties
<1>6. \A i \in 1..(Len(a) + Len(b)) : t[i] = IF i <= Len(a) THEN a[i] ELSE b[i - Len(a)]
  BY <1>2, <1>3, ConcatProperties
<1> HIDE DEF t
<1>7. ASSUME NEW i \in 1..(Len(s) - 1) PROVE t[i] = IF i < p THEN s[i] ELSE s[i + 1]
  <2>1. CASE i < p
    <3>1. i <= Len(a) /\ i \in 1..(Len(a) + Len(b)) /\ i \in 1..(p - 1)
      BY <1>1, <1>2, <1>3, <2>1
    <3>2. t[i] = a[i] /\ a[i] = s[i]
      BY <1>2, <1>6, <3>1
    <3> QED
      BY <2>1, <3>2
  <2>2. CASE i >= p
    <3>0. Len(a) = p - 1 /\ Len(b) = Len(s) - p
      BY <1>2, <1>3
    <3>1. i - (p - 1) \in 1..(Len(s) - p) /\ p + (i - (p - 1)) = i + 1 /\ ~(i <= Len(a)) /\ i \in 1..(Len(a) + Len(b))
      BY <1>1, <2>2, <3>0
    <3>2. t[i] = b[i - Len(a)]
      BY <1>6, <3>1
    <3>3. b[i - (p - 1)] = s[p + (i - (p - 1))]
      BY <1>3, <3>1
    <3> QED
      BY <1>1, <1>2, <2>2, <3>1, <3>2, <3>3
  <2> QED
    BY <1>1, <2>1, <2>2
<1> QED
  BY <1>1, <1>2, <1>3, <1>4, <1>5, <1>7

-----------------------------------------------------------------------------
(* The sidebar                                                             *)

TabIds == ToSet(Tabs)
SiteTabs == ToSet(Defaults)
AllTabs == TabIds \cup SiteTabs \cup {Own}

\* The operators of the two modules on sequences are those of this one.
LEMMA SameOperators ==
  /\ \A s, g : Configuration!Without(s, g) = Without(s, g) /\ Chat!Without(s, g) = Without(s, g)
  /\ \A s, p, x : Configuration!InsertAt(s, p, x) = InsertAt(s, p, x)
  /\ \A s, p : Configuration!RemoveAt(s, p) = RemoveAt(s, p)
  /\ \A s, x : Configuration!Contains(s, x) <=> Holds(s, x)
  /\ \A s : Configuration!ToSet(s) = ToSet(s) /\ Chat!Range(s) = ToSet(s)
  /\ Configuration!TabIds = TabIds
<1>1. \A s, g : Configuration!Without(s, g) = Without(s, g)
  BY DEF Configuration!Without, Without
<1>2. \A s, g : Chat!Without(s, g) = Without(s, g)
  BY DEF Chat!Without, Without
<1>3. \A s, p, x : Configuration!InsertAt(s, p, x) = InsertAt(s, p, x)
  BY DEF Configuration!InsertAt, InsertAt
<1>4. \A s, p : Configuration!RemoveAt(s, p) = RemoveAt(s, p)
  BY DEF Configuration!RemoveAt, RemoveAt
<1>5. \A s, x : Configuration!Contains(s, x) <=> Holds(s, x)
  BY DEF Configuration!Contains, Holds
<1>6. \A s : Configuration!ToSet(s) = ToSet(s) /\ Chat!Range(s) = ToSet(s)
  BY DEF Configuration!ToSet, ToSet, Chat!Range
<1>7. Configuration!TabIds = TabIds
  BY <1>6 DEF Configuration!TabIds, TabIds
<1> QED
  BY <1>1, <1>2, <1>3, <1>4, <1>5, <1>6, <1>7

\* A set is what a sequence of it holds.
LEMMA HeldIs ==
  ASSUME NEW R, NEW s \in Seq(R)
  PROVE  /\ DOMAIN s = 1..Len(s) /\ Len(s) \in Nat
         /\ \A x : Holds(s, x) <=> x \in ToSet(s)
BY DEF Holds, ToSet

\* Tabs of the site and of the user are not those of applications.
LEMMA TabFacts ==
  /\ SiteTabs # {} /\ TabIds \cap SiteTabs = {}
  /\ Own \notin TabIds /\ Own \notin SiteTabs
<1>1. /\ Defaults \in Seq(SiteTabs) /\ Defaults # <<>> /\ TabIds \cap SiteTabs = {}
      /\ Own \notin TabIds \cup SiteTabs
  BY ConfigurationAssumption DEF TabIds, SiteTabs
<1>2. Len(Defaults) \in Nat /\ Len(Defaults) # 0
  BY <1>1, EmptySeq, LenProperties
<1>3. 1 \in DOMAIN Defaults
  BY <1>1, <1>2, LenProperties
<1> QED
  BY <1>1, <1>3 DEF SiteTabs, ToSet

\* IndexOf finds the first place of a tab.
LEMMA IndexOfIs ==
  ASSUME NEW R, NEW s \in Seq(R), NEW t
  PROVE  /\ Holds(s, t) => /\ Configuration!IndexOf(s, t) \in 1..Len(s)
                           /\ s[Configuration!IndexOf(s, t)] = t
                           /\ \A i \in 1..Len(s) : s[i] = t => Configuration!IndexOf(s, t) <= i
         /\ ~Holds(s, t) => Configuration!IndexOf(s, t) = 0
<1> DEFINE places == {i \in DOMAIN s : s[i] = t}
<1>1. DOMAIN s = 1..Len(s) /\ Len(s) \in Nat
  BY HeldIs
<1>2. Configuration!IndexOf(s, t) = IF places = {} THEN 0 ELSE Configuration!Min(places)
  BY DEF Configuration!IndexOf
<1>3. CASE ~Holds(s, t)
  <2>1. places = {}
    BY <1>1, <1>3 DEF Holds
  <2> QED
    BY <1>2, <1>3, <2>1
<1>4. CASE Holds(s, t)
  <2>1. places # {}
    BY <1>1, <1>4 DEF Holds
  <2>2. places \subseteq Nat
    BY <1>1
  <2>3. \E x \in places : \A y \in places : x <= y
    BY <2>1, <2>2, LeastElement
  <2> HIDE DEF places
  <2>4. Configuration!Min(places) \in places /\ \A y \in places : Configuration!Min(places) <= y
    BY <2>3 DEF Configuration!Min
  <2>5. Configuration!IndexOf(s, t) = Configuration!Min(places)
    BY <1>2, <2>1
  <2>6. Configuration!IndexOf(s, t) \in places /\ \A y \in places : Configuration!IndexOf(s, t) <= y
    BY <2>4, <2>5
  <2> QED
    BY <1>1, <1>4, <2>6 DEF places
<1> QED
  BY <1>3, <1>4

\* A sidebar: a tab of it is selected, and it has the tabs of the site.
SidebarOk(bar) ==
  /\ bar = [tabs |-> bar.tabs, mode |-> bar.mode]
  /\ bar.tabs \in Seq(AllTabs)
  /\ Holds(bar.tabs, bar.mode)
  /\ \A t \in SiteTabs : Holds(bar.tabs, t)

\* Inserting a tab anywhere keeps those that are there.
LEMMA InsertKeeps ==
  ASSUME NEW R, NEW s \in Seq(R), NEW x \in R, NEW p \in 1..(Len(s) + 1)
  PROVE  \A y : Holds(InsertAt(s, p, x), y) <=> Holds(s, y) \/ y = x
<1> DEFINE t == InsertAt(s, p, x)
<1>1. Len(s) \in Nat /\ p \in Nat
  OBVIOUS
<1>2. Len(t) = Len(s) + 1 /\ \A i \in 1..(Len(s) + 1) :
                                t[i] = IF i < p THEN s[i] ELSE IF i = p THEN x ELSE s[i - 1]
  BY InsertAtIs
<1> HIDE DEF t
<1>3. ASSUME NEW y, Holds(t, y) PROVE Holds(s, y) \/ y = x
  <2>1. PICK i \in 1..(Len(s) + 1) : t[i] = y
    BY <1>2, <1>3 DEF Holds
  <2>2. CASE i < p
    <3>1. i \in 1..Len(s) /\ s[i] = y
      BY <1>1, <1>2, <2>1, <2>2
    <3> QED
      BY <3>1 DEF Holds
  <2>3. CASE i = p
    BY <1>2, <2>1, <2>3
  <2>4. CASE i > p
    <3>1. i - 1 \in 1..Len(s) /\ s[i - 1] = y
      BY <1>1, <1>2, <2>1, <2>4
    <3> QED
      BY <3>1 DEF Holds
  <2> QED
    BY <1>1, <2>2, <2>3, <2>4
<1>4. Holds(t, x)
  <2>1. p \in 1..(Len(s) + 1) /\ t[p] = x
    BY <1>1, <1>2
  <2> QED
    BY <1>2, <2>1 DEF Holds
<1>5. ASSUME NEW y, Holds(s, y) PROVE Holds(t, y)
  <2>1. PICK i \in 1..Len(s) : s[i] = y
    BY <1>5 DEF Holds
  <2>2. CASE i < p
    <3>1. i \in 1..(Len(s) + 1) /\ t[i] = y
      BY <1>1, <1>2, <2>1, <2>2
    <3> QED
      BY <1>2, <3>1 DEF Holds
  <2>3. CASE i >= p
    <3>1. i + 1 \in 1..(Len(s) + 1) /\ ~(i + 1 < p) /\ i + 1 # p /\ (i + 1) - 1 = i
      BY <1>1, <2>1, <2>3
    <3>2. t[i + 1] = s[i]
      BY <1>2, <3>1
    <3> QED
      BY <1>2, <2>1, <3>1, <3>2 DEF Holds
  <2> QED
    BY <1>1, <2>2, <2>3
<1> QED
  BY <1>3, <1>4, <1>5 DEF t

\* Taking one out keeps the other tabs.
LEMMA RemoveKeeps ==
  ASSUME NEW R, NEW s \in Seq(R), NEW p \in 1..Len(s)
  PROVE  \A y : Holds(s, y) /\ y # s[p] => Holds(RemoveAt(s, p), y)
<1> DEFINE t == RemoveAt(s, p)
<1>1. Len(s) \in Nat /\ p \in Nat
  OBVIOUS
<1>2. Len(t) = Len(s) - 1 /\ \A i \in 1..(Len(s) - 1) : t[i] = IF i < p THEN s[i] ELSE s[i + 1]
  BY RemoveAtIs
<1> HIDE DEF t
<1>3. ASSUME NEW y, Holds(s, y), y # s[p] PROVE Holds(t, y)
  <2>1. PICK i \in 1..Len(s) : s[i] = y
    BY <1>3 DEF Holds
  <2>2. CASE i < p
    <3>1. i \in 1..(Len(s) - 1) /\ t[i] = y
      BY <1>1, <1>2, <2>1, <2>2
    <3> QED
      BY <1>2, <3>1 DEF Holds
  <2>3. CASE i > p
    <3>1. i - 1 \in 1..(Len(s) - 1) /\ ~(i - 1 < p) /\ (i - 1) + 1 = i
      BY <1>1, <2>1, <2>3
    <3>2. t[i - 1] = s[i]
      BY <1>2, <3>1
    <3> QED
      BY <1>2, <2>1, <3>1, <3>2 DEF Holds
  <2> QED
    BY <1>1, <1>3, <2>1, <2>2, <2>3
<1> QED
  BY <1>3 DEF t

\* Opening a tab.
LEMMA OpenedOk ==
  ASSUME NEW bar, SidebarOk(bar), NEW t \in TabIds
  PROVE  SidebarOk(Configuration!Opened(bar, t))
<1> DEFINE ts == bar.tabs
           at == Configuration!IndexOf(ts, BeforeTab[t])
           us == IF at > 0 THEN InsertAt(ts, at, t) ELSE Append(ts, t)
<1>1. ts \in Seq(AllTabs) /\ t \in AllTabs /\ bar = [tabs |-> ts, mode |-> bar.mode]
  BY DEF SidebarOk, AllTabs
<1>2. Configuration!Opened(bar, t) = [tabs |-> us, mode |-> bar.mode]
  <2>1. Configuration!Opened(bar, t) = [bar EXCEPT !.tabs = us]
    BY SameOperators DEF Configuration!Opened
  <2> HIDE DEF us
  <2> QED
    BY <1>1, <2>1
<1>3. us \in Seq(AllTabs) /\ \A y : Holds(ts, y) => Holds(us, y)
  <2>1. at = 0 \/ at \in 1..Len(ts)
    BY <1>1, IndexOfIs
  <2> HIDE DEF ts, at
  <2>2. Len(ts) \in Nat
    BY <1>1
  <2>3. CASE at = 0
    <3>1. us = Append(ts, t)
      BY <2>3
    <3>2. Append(ts, t) \in Seq(AllTabs) /\ Len(Append(ts, t)) = Len(ts) + 1
          /\ \A i \in 1..Len(ts) : Append(ts, t)[i] = ts[i]
      BY <1>1, AppendProperties
    <3>3. 1..Len(ts) \subseteq 1..(Len(ts) + 1)
      BY <2>2
    <3>4. \A y : Holds(ts, y) => Holds(Append(ts, t), y)
      BY <3>2, <3>3 DEF Holds
    <3> QED
      BY <3>1, <3>2, <3>4
  <2>4. CASE at \in 1..Len(ts)
    <3>1. us = InsertAt(ts, at, t) /\ at \in 1..(Len(ts) + 1)
      BY <2>2, <2>4
    <3>2. InsertAt(ts, at, t) \in Seq(AllTabs)
      BY <1>1, <3>1, InsertAtIs
    <3>3. \A y : Holds(InsertAt(ts, at, t), y) <=> Holds(ts, y) \/ y = t
      BY <1>1, <3>1, InsertKeeps
    <3> QED
      BY <3>1, <3>2, <3>3
  <2> QED
    BY <2>1, <2>3, <2>4
<1> HIDE DEF us, at
<1>4. Holds(ts, bar.mode) /\ \A y \in SiteTabs : Holds(ts, y)
  BY DEF SidebarOk
<1> HIDE DEF ts
<1> DEFINE new == [tabs |-> us, mode |-> bar.mode]
<1>5. new.tabs = us /\ new.mode = bar.mode /\ new = [tabs |-> new.tabs, mode |-> new.mode]
  OBVIOUS
<1> HIDE DEF new
<1>6. SidebarOk(new)
  BY <1>3, <1>4, <1>5 DEF SidebarOk
<1> QED
  BY <1>2, <1>6 DEF new

\* Closing a tab that is not of the site.
LEMMA ClosedOk ==
  ASSUME NEW bar, SidebarOk(bar), NEW t, t \notin SiteTabs
  PROVE  SidebarOk(Configuration!Closed(bar, t))
<1> DEFINE ts == bar.tabs
           at == Configuration!IndexOf(ts, t)
           left == RemoveAt(ts, at)
           m == IF bar.mode # t THEN bar.mode ELSE left[IF at > 1 THEN at - 1 ELSE 1]
<1>1. /\ ts \in Seq(AllTabs) /\ Holds(ts, bar.mode)
      /\ \A y \in SiteTabs : Holds(ts, y)
  BY DEF SidebarOk
<1>2. Configuration!Closed(bar, t) = IF at = 0 THEN bar ELSE [tabs |-> left, mode |-> m]
  BY SameOperators DEF Configuration!Closed
<1>3. CASE at = 0
  BY <1>2, <1>3
<1>4. CASE at # 0
  <2>1. at \in 1..Len(ts) /\ ts[at] = t
    BY <1>1, <1>4, IndexOfIs
  <2>2. left \in Seq(AllTabs) /\ Len(left) = Len(ts) - 1 /\ Len(ts) \in Nat
    <3> HIDE DEF at, ts
    <3>1. RemoveAt(ts, at) \in Seq(AllTabs) /\ Len(RemoveAt(ts, at)) = Len(ts) - 1
      BY <1>1, <2>1, RemoveAtIs
    <3>2. Len(ts) \in Nat
      BY <1>1
    <3> QED
      BY <3>1, <3>2
  <2>3. \A y : Holds(ts, y) /\ y # t => Holds(left, y)
    BY <1>1, <2>1, RemoveKeeps
  <2>4. \A y \in SiteTabs : Holds(left, y)
    BY <1>1, <2>3
  <2> HIDE DEF left, at, ts
  <2>5. Holds(left, m)
    <3>1. CASE bar.mode # t
      BY <1>1, <2>3, <3>1
    <3>2. CASE bar.mode = t
      <4>1. PICK y \in SiteTabs : Holds(left, y)
        BY <2>4, TabFacts
      <4>2. Len(left) >= 1
        BY <2>2, <4>1 DEF Holds
      <4> DEFINE p == IF at > 1 THEN at - 1 ELSE 1
      <4>3. p \in 1..Len(left)
        BY <2>1, <2>2, <4>2
      <4>4. m = left[p]
        BY <3>2
      <4> QED
        BY <4>3, <4>4 DEF Holds
    <3> QED
      BY <3>1, <3>2
  <2> HIDE DEF m
  <2> DEFINE new == [tabs |-> left, mode |-> m]
  <2>6. new.tabs = left /\ new.mode = m /\ new = [tabs |-> new.tabs, mode |-> new.mode]
    OBVIOUS
  <2> HIDE DEF new
  <2>7. SidebarOk(new)
    BY <2>2, <2>4, <2>5, <2>6 DEF SidebarOk
  <2> QED
    BY <1>2, <1>4, <2>7 DEF new
<1> QED
  BY <1>3, <1>4

\* Dropping the tabs of the previous stream.
LEMMA ClearedOk ==
  ASSUME NEW bar, SidebarOk(bar)
  PROVE  SidebarOk(Configuration!Cleared(bar))
<1> DEFINE ts == bar.tabs
           kept == Without(ts, TabIds)
           at == Configuration!IndexOf(ts, bar.mode)
           near == {i \in 1..at : ts[i] \notin TabIds}
           m == IF near # {} THEN ts[Configuration!Max(near)] ELSE kept[1]
<1>1. /\ ts \in Seq(AllTabs) /\ Holds(ts, bar.mode)
      /\ \A y \in SiteTabs : Holds(ts, y)
  BY DEF SidebarOk
<1>2. Configuration!Cleared(bar) = [tabs |-> kept, mode |-> m]
  BY SameOperators DEF Configuration!Cleared
<1>3. kept \in Seq(AllTabs) /\ \A y : Holds(kept, y) <=> Holds(ts, y) /\ y \notin TabIds
  BY <1>1, WithoutHolds
<1>4. \A y \in SiteTabs : Holds(kept, y)
  BY <1>1, <1>3, TabFacts
<1>5. at \in 1..Len(ts) /\ Len(ts) \in Nat
  BY <1>1, IndexOfIs
<1> HIDE DEF kept, ts, at
<1>6. Holds(kept, m)
  <2>1. CASE near # {}
    <3>1. near \subseteq 0..Len(ts)
      BY <1>5
    <3>2. \E x \in near : \A y \in near : x >= y
      BY <1>5, <2>1, <3>1, GreatestElement
    <3> HIDE DEF near
    <3>3. Configuration!Max(near) \in near
      BY <3>2 DEF Configuration!Max
    <3>4. m = ts[Configuration!Max(near)]
      BY <2>1
    <3>5. Configuration!Max(near) \in 1..Len(ts) /\ m \notin TabIds
      BY <1>5, <3>3, <3>4 DEF near
    <3>6. Holds(ts, m)
      BY <3>4, <3>5 DEF Holds
    <3> QED
      BY <1>3, <3>5, <3>6
  <2>2. CASE near = {}
    <3>1. PICK y \in SiteTabs : Holds(kept, y)
      BY <1>4, TabFacts
    <3>2. 1 \in 1..Len(kept) /\ m = kept[1]
      <4>1. Len(kept) \in Nat
        BY <1>3
      <4>2. Len(kept) # 0
        BY <3>1 DEF Holds
      <4> QED
        BY <2>2, <4>1, <4>2
    <3> QED
      BY <3>2 DEF Holds
  <2> QED
    BY <2>1, <2>2
<1> HIDE DEF m
<1> DEFINE new == [tabs |-> kept, mode |-> m]
<1>7. new.tabs = kept /\ new.mode = m /\ new = [tabs |-> new.tabs, mode |-> new.mode]
  OBVIOUS
<1> HIDE DEF new
<1>8. SidebarOk(new)
  BY <1>3, <1>4, <1>6, <1>7 DEF SidebarOk
<1> QED
  BY <1>2, <1>8 DEF new

\* What one change does.
AfterChange(bar, c) ==
  IF c.kind = "open" THEN Configuration!Opened(bar, c.tab) ELSE Configuration!Closed(bar, c.tab)

Bars == {bar \in [tabs : Seq(AllTabs), mode : AllTabs] : SidebarOk(bar)}

LEMMA BarsAre == \A bar : bar \in Bars <=> SidebarOk(bar)
<1>1. ASSUME NEW bar, SidebarOk(bar) PROVE bar \in Bars
  <2>1. bar.tabs \in Seq(AllTabs) /\ Holds(bar.tabs, bar.mode) /\ bar = [tabs |-> bar.tabs, mode |-> bar.mode]
    BY <1>1 DEF SidebarOk
  <2>2. \A i \in 1..Len(bar.tabs) : bar.tabs[i] \in AllTabs
    BY <2>1
  <2>3. bar.mode \in AllTabs
    BY <2>1, <2>2 DEF Holds
  <2> HIDE DEF AllTabs
  <2>4. bar \in [tabs : Seq(AllTabs), mode : AllTabs]
    BY <2>1, <2>3
  <2> QED
    BY <1>1, <2>4 DEF Bars
<1> QED
  BY <1>1 DEF Bars

LEMMA AfterChangeOk ==
  ASSUME NEW bar \in Bars, NEW c \in Configuration!Changes
  PROVE  AfterChange(bar, c) \in Bars
<1>1. c.tab \in TabIds /\ c.tab \notin SiteTabs
  BY SameOperators, TabFacts DEF Configuration!Changes
<1>2. SidebarOk(bar)
  BY BarsAre
<1>3. SidebarOk(Configuration!Opened(bar, c.tab)) /\ SidebarOk(Configuration!Closed(bar, c.tab))
  BY <1>1, <1>2, OpenedOk, ClosedOk
<1> QED
  BY <1>3, BarsAre DEF AfterChange

\* The turns of processConfigurationChanges.
ProcessingTurns(f, bar, changes) ==
  /\ f \in [0..Len(changes) -> Bars]
  /\ Configuration!Processed(bar, changes) = f[Len(changes)] /\ f[0] = bar
  /\ \A i \in 1..Len(changes) : f[i] = AfterChange(f[i - 1], changes[i])

LEMMA ProcessedTurns ==
  ASSUME NEW bar \in Bars, NEW changes \in Seq(Configuration!Changes)
  PROVE  \E f : ProcessingTurns(f, bar, changes)
<1> DEFINE n == Len(changes)
           step == [i \in 1..n |-> [u \in Bars |-> AfterChange(u, changes[i])]]
           IsLoop(f) == f = [i \in 0..n |-> IF i = 0 THEN bar ELSE AfterChange(f[i - 1], changes[i])]
<1>1. n \in Nat /\ \A i \in 1..n : changes[i] \in Configuration!Changes
  OBVIOUS
<1>2. step \in [1..n -> [Bars -> Bars]]
  <2>1. ASSUME NEW i \in 1..n, NEW u \in Bars PROVE AfterChange(u, changes[i]) \in Bars
    BY <1>1, AfterChangeOk
  <2> QED
    BY <2>1
<1>3. PICK f : LoopTurns(f, Bars, bar, n, step)
  <2> HIDE DEF step, n
  <2> QED
    BY <1>1, <1>2, TurnsOfALoop
<1>4. /\ f \in [0..n -> Bars] /\ f[0] = bar
      /\ \A i \in 1..n : f[i] = AfterChange(f[i - 1], changes[i])
  <2>1. f \in [0..n -> Bars] /\ f[0] = bar /\ \A i \in 1..n : f[i] = step[i][f[i - 1]]
    BY <1>3 DEF LoopTurns
  <2>2. ASSUME NEW i \in 1..n PROVE f[i] = AfterChange(f[i - 1], changes[i])
    <3>1. i - 1 \in 0..n
      BY <1>1
    <3>2. f[i - 1] \in Bars
      BY <2>1, <3>1
    <3> QED
      BY <2>1, <3>2
  <2> QED
    BY <2>1, <2>2
<1>5. IsLoop(f)
  <2>1. ASSUME NEW i \in 0..n
        PROVE  f[i] = IF i = 0 THEN bar ELSE AfterChange(f[i - 1], changes[i])
    <3>1. i # 0 => i \in 1..n
      BY <1>1
    <3> QED
      BY <1>4, <3>1
  <2> HIDE DEF n
  <2> QED
    BY <1>4, <2>1
<1> DEFINE g == CHOOSE h : IsLoop(h)
<1>6. IsLoop(g) /\ Configuration!Processed(bar, changes) = g[n]
  <2>1. Configuration!Processed(bar, changes) = g[n]
    BY DEF Configuration!Processed, AfterChange
  <2>2. IsLoop(g)
    BY <1>5
  <2> QED
    BY <2>1, <2>2
<1> HIDE DEF g
<1> DEFINE T == {m \in 0..n : g[m] # f[m]}
<1>7. T = {}
  <2> SUFFICES ASSUME T # {} PROVE FALSE
    OBVIOUS
  <2>1. T \subseteq Nat
    BY <1>1
  <2>2. PICK m \in T : \A y \in T : m <= y
    BY <2>1, LeastElement
  <2>3. m \in 0..n /\ g[m] # f[m]
    OBVIOUS
  <2>4. m # 0
    BY <1>1, <1>4, <1>6, <2>3
  <2>5. m \in 1..n /\ m - 1 \in 0..n
    BY <1>1, <2>3, <2>4
  <2>6. g[m - 1] = f[m - 1]
    BY <1>1, <2>2, <2>5
  <2> QED
    BY <1>4, <1>6, <2>3, <2>4, <2>5, <2>6
<1>8. g[n] = f[n]
  BY <1>1, <1>7
<1> QED
  BY <1>4, <1>6, <1>8 DEF ProcessingTurns

LEMMA ProcessedOk ==
  ASSUME NEW bar, SidebarOk(bar), NEW changes \in Seq(Configuration!Changes)
  PROVE  SidebarOk(Configuration!Processed(bar, changes))
<1>1. bar \in Bars
  BY BarsAre
<1>2. PICK f : ProcessingTurns(f, bar, changes)
  BY <1>1, ProcessedTurns
<1>3. Len(changes) \in 0..Len(changes)
  OBVIOUS
<1>4. Configuration!Processed(bar, changes) \in Bars
  BY <1>2, <1>3 DEF ProcessingTurns
<1> QED
  BY <1>4, BarsAre

-----------------------------------------------------------------------------
(* The types of the configuration                                          *)

\* The server and the forwarding.
ServerTypes ==
  /\ stack \in Seq(Configuration!StackEntries)
  /\ current \in [Applications -> TabIds \cup {NoTab}]
  /\ script \in [Applications -> [busy : BOOLEAN, tab : TabIds \cup {NoTab}]]
  /\ todo \in [Configuration!Threads -> Seq(Configuration!Changes)]
  /\ made \in 0..Len(Tabs) /\ pages \in 0..MaxPages

WayTypes ==
  /\ latest \in Seq(Configuration!Changes) /\ Len(latest) <= 1
  /\ link \in {"none", "subscribed", "streaming"}
  /\ box \in Seq(Seq(Configuration!Changes)) /\ fresh \in BOOLEAN
  /\ overwritten \subseteq Configuration!Changes /\ crossed \subseteq TabIds

SidebarTypes == SidebarOk(Configuration!Sidebar)

ConfigurationInv == ServerTypes /\ WayTypes /\ SidebarTypes

LEMMA InvGivesTypes == ASSUME ConfigurationInv PROVE Configuration!ConfigurationTypeOK
<1>1. Configuration!Sidebar = [tabs |-> tabs, mode |-> mode]
  BY DEF Configuration!Sidebar
<1>2. Configuration!Sidebar \in Bars
  BY BarsAre DEF ConfigurationInv, SidebarTypes
<1> HIDE DEF AllTabs
<1>3. tabs \in Seq(AllTabs) /\ mode \in AllTabs
  BY <1>1, <1>2 DEF Bars
<1>4. Configuration!ToSet(Defaults) = SiteTabs /\ Configuration!TabIds = TabIds
  BY SameOperators DEF SiteTabs
<1>5. TabIds \cup SiteTabs \cup {Own} = AllTabs
  BY DEF AllTabs
<1>6. Configuration!TabIds \cup Configuration!ToSet(Defaults) \cup {Own} = AllTabs
  BY <1>4, <1>5
<1> QED
  BY <1>3, <1>4, <1>6 DEF ConfigurationInv, ServerTypes, WayTypes, Configuration!ConfigurationTypeOK

\* The tabs of changes are tabs of applications.
LEMMA TabsInTypes ==
  ASSUME NEW seqs, \A s \in seqs : s \in Seq(Configuration!Changes)
  PROVE  Configuration!TabsIn(seqs) \subseteq TabIds
<1> SUFFICES ASSUME NEW t \in Configuration!TabsIn(seqs) PROVE t \in TabIds
  OBVIOUS
<1>1. PICK s \in seqs : t \in {s[i].tab : i \in 1..Len(s)}
  BY DEF Configuration!TabsIn
<1>2. PICK i \in 1..Len(s) : t = s[i].tab
  BY <1>1
<1>3. s[i] \in Configuration!Changes
  BY <1>1, <1>2
<1> QED
  BY <1>2, <1>3, SameOperators DEF Configuration!Changes

\* The entries of an application, and the stack without them.
LEMMA SetByTypes ==
  ASSUME ServerTypes, NEW a \in Applications
  PROVE  /\ Configuration!SetBy(a) \in Seq(Configuration!StackEntries)
         /\ Configuration!WithoutApp(a) \in Seq(Configuration!StackEntries)
         /\ Configuration!Replaced(a) \in Seq(Configuration!Changes)
<1>1. stack \in Seq(Configuration!StackEntries)
  BY DEF ServerTypes
<1>2. /\ Configuration!SetBy(a) = Without(stack, ToSet(stack) \ Configuration!EntriesOf(a))
      /\ Configuration!WithoutApp(a) = Without(stack, Configuration!EntriesOf(a))
  BY SameOperators DEF Configuration!SetBy, Configuration!WithoutApp
<1>3. Configuration!SetBy(a) \in Seq(Configuration!StackEntries)
      /\ Configuration!WithoutApp(a) \in Seq(Configuration!StackEntries)
  BY <1>1, <1>2, WithoutHolds
<1> DEFINE s == Configuration!SetBy(a)
           C == Configuration!Changes
<1>4. Configuration!Replaced(a) = [i \in 1..Len(s) |-> Configuration!Close(s[i].tab)]
  BY DEF Configuration!Replaced
<1>5. \A i \in 1..Len(s) : s[i] \in Configuration!StackEntries
  BY <1>3
<1>6. \A i \in 1..Len(s) : s[i].tab \in Configuration!TabIds
  BY <1>5 DEF Configuration!StackEntries
<1>7. \A t \in Configuration!TabIds : Configuration!Close(t) \in C /\ Configuration!Open(t) \in C
  BY DEF Configuration!Close, Configuration!Open, Configuration!Changes
<1>8. Len(s) \in Nat
  BY <1>3
<1> HIDE DEF s, C
<1>9. [i \in 1..Len(s) |-> Configuration!Close(s[i].tab)] \in Seq(C)
  BY <1>6, <1>7, <1>8
<1> QED
  BY <1>3, <1>4, <1>9 DEF C

\* A thread that changes the stack.
LEMMA ChangedTypes ==
  ASSUME ServerTypes, crossed \subseteq TabIds, NEW a \in Applications,
         NEW thread \in {<<a, "script">>, <<a, "pages">>},
         NEW changes \in Seq(Configuration!Changes), Configuration!Changed(a, thread, changes)
  PROVE  /\ todo' \in [Configuration!Threads -> Seq(Configuration!Changes)]
         /\ crossed' \subseteq TabIds
<1> DEFINE C == Configuration!Changes
           Th == Configuration!Threads
           others == {todo[th] : th \in {<<a, "script">>, <<a, "pages">>} \ {thread}}
<1>1. <<a, "script">> \in Th /\ <<a, "pages">> \in Th
  BY DEF Configuration!Threads
<1>2. todo \in [Th -> Seq(C)] /\ thread \in Th
  BY <1>1 DEF ServerTypes
<1>3. todo' = [todo EXCEPT ![thread] = changes]
  BY DEF Configuration!Changed
<1>4. crossed' = crossed \union
           (IF Configuration!TabsIn(others) = {} THEN {} ELSE Configuration!TabsIn(others \union {changes}))
  BY DEF Configuration!Changed
<1> HIDE DEF Th, C
<1>5. \A s \in others \union {changes} : s \in Seq(C)
  BY <1>1, <1>2 DEF C
<1> HIDE DEF others
<1>6. Configuration!TabsIn(others \union {changes}) \subseteq TabIds
  BY <1>5, TabsInTypes DEF C
<1>7. todo' \in [Th -> Seq(C)]
  BY <1>2, <1>3 DEF C
<1> QED
  BY <1>4, <1>6, <1>7 DEF C, Th

LEMMA PushTypes ==
  ASSUME ServerTypes, crossed \subseteq TabIds, NEW a \in Applications,
         NEW thread \in {<<a, "script">>, <<a, "pages">>}, NEW t \in TabIds,
         Configuration!Push(a, t, thread)
  PROVE  /\ stack' \in Seq(Configuration!StackEntries)
         /\ todo' \in [Configuration!Threads -> Seq(Configuration!Changes)]
         /\ crossed' \subseteq TabIds
<1>1. /\ stack' = <<[app |-> a, tab |-> t]>> \o Configuration!WithoutApp(a)
      /\ Configuration!Changed(a, thread, Append(Configuration!Replaced(a), Configuration!Open(t)))
  BY DEF Configuration!Push
<1>2. Configuration!Open(t) \in Configuration!Changes /\ [app |-> a, tab |-> t] \in Configuration!StackEntries
  BY SameOperators DEF Configuration!Open, Configuration!Changes, Configuration!StackEntries
<1>3. Append(Configuration!Replaced(a), Configuration!Open(t)) \in Seq(Configuration!Changes)
  BY <1>2, SetByTypes
<1>4. stack' \in Seq(Configuration!StackEntries)
  <2> DEFINE E == Configuration!StackEntries
             e == [app |-> a, tab |-> t]
             w == Configuration!WithoutApp(a)
  <2>1. w \in Seq(E)
    BY SetByTypes
  <2>2. e \in E /\ stack' = <<e>> \o w
    BY <1>1, <1>2
  <2> HIDE DEF E, e, w
  <2>3. <<e>> \in Seq(E)
    BY <2>2
  <2>4. <<e>> \o w \in Seq(E)
    BY <2>1, <2>3, ConcatProperties
  <2> QED
    BY <2>2, <2>4 DEF E
<1> QED
  BY <1>1, <1>3, <1>4, ChangedTypes

LEMMA UndoTypes ==
  ASSUME ServerTypes, crossed \subseteq TabIds, NEW a \in Applications,
         NEW thread \in {<<a, "script">>, <<a, "pages">>}, Configuration!Undo(a, thread)
  PROVE  /\ stack' \in Seq(Configuration!StackEntries)
         /\ todo' \in [Configuration!Threads -> Seq(Configuration!Changes)]
         /\ crossed' \subseteq TabIds
<1>1. stack' = Configuration!WithoutApp(a) /\ Configuration!Changed(a, thread, Configuration!Replaced(a))
  BY DEF Configuration!Undo
<1> QED
  BY <1>1, SetByTypes, ChangedTypes

\* Steps that leave the stream and the sidebar alone.
LEMMA RestKeepsTypes ==
  ASSUME WayTypes, SidebarTypes, ServerTypes', crossed' \subseteq TabIds,
         UNCHANGED <<latest, link, box, fresh, overwritten, tabs, mode>>
  PROVE  ConfigurationInv'
<1>1. WayTypes'
  BY DEF WayTypes
<1>2. Configuration!Sidebar' = Configuration!Sidebar
  BY DEF Configuration!Sidebar
<1>3. SidebarTypes'
  <2> DEFINE bar == Configuration!Sidebar
  <2>1. SidebarOk(bar) /\ bar' = bar
    BY <1>2 DEF SidebarTypes
  <2> QED
    BY <2>1 DEF SidebarTypes, SidebarOk
<1> QED
  BY <1>1, <1>3 DEF ConfigurationInv

\* What scripts and pages do.
LEMMA ApplicationStep ==
  ASSUME ConfigurationInv, NEW a \in Applications,
         \/ Configuration!SetTab(a) \/ Configuration!UnsetTab(a) \/ Configuration!TabAssigned(a)
         \/ Configuration!PagePublished(a) \/ Configuration!PageUnpublished(a)
  PROVE  ConfigurationInv'
<1>1. ServerTypes /\ crossed \subseteq TabIds /\ WayTypes /\ SidebarTypes
  BY DEF ConfigurationInv, WayTypes
<1>2. /\ stack \in Seq(Configuration!StackEntries)
      /\ current \in [Applications -> TabIds \cup {NoTab}]
      /\ script \in [Applications -> [busy : BOOLEAN, tab : TabIds \cup {NoTab}]]
      /\ todo \in [Configuration!Threads -> Seq(Configuration!Changes)]
      /\ made \in 0..Len(Tabs) /\ pages \in 0..MaxPages
  BY <1>1 DEF ServerTypes
<1>3. UNCHANGED <<latest, link, box, fresh, overwritten, tabs, mode>>
  BY DEF Configuration!SetTab, Configuration!UnsetTab, Configuration!TabAssigned,
         Configuration!PagePublished, Configuration!PageUnpublished,
         Configuration!forwardVars, Configuration!clientVars
<1>4. CASE Configuration!SetTab(a)
  <2> DEFINE t == Tabs[made + 1]
  <2>1. /\ made < Len(Tabs) /\ made' = made + 1 /\ Configuration!Push(a, t, <<a, "script">>)
        /\ script' = [script EXCEPT ![a] = [busy |-> TRUE, tab |-> t]]
        /\ UNCHANGED <<current, pages>>
    BY <1>4 DEF Configuration!SetTab
  <2>2. t \in TabIds /\ made + 1 \in 0..Len(Tabs)
    <3>1. Tabs \in Seq(TabIds)
      BY ConfigurationAssumption DEF TabIds
    <3>2. made + 1 \in 1..Len(Tabs)
      BY <1>2, <2>1, <3>1
    <3> QED
      BY <3>1, <3>2
  <2> HIDE DEF t
  <2>3. /\ stack' \in Seq(Configuration!StackEntries)
        /\ todo' \in [Configuration!Threads -> Seq(Configuration!Changes)]
        /\ crossed' \subseteq TabIds
    BY <1>1, <2>1, <2>2, PushTypes
  <2>4. script' \in [Applications -> [busy : BOOLEAN, tab : TabIds \cup {NoTab}]]
    BY <1>2, <2>1, <2>2
  <2>5. ServerTypes'
    BY <1>2, <2>1, <2>2, <2>3, <2>4 DEF ServerTypes
  <2> QED
    BY <1>1, <1>3, <2>3, <2>5, RestKeepsTypes
<1>5. CASE Configuration!UnsetTab(a)
  <2>1. /\ Configuration!Undo(a, <<a, "script">>)
        /\ script' = [script EXCEPT ![a] = [busy |-> TRUE, tab |-> NoTab]]
        /\ UNCHANGED <<current, made, pages>>
    BY <1>5 DEF Configuration!UnsetTab
  <2>2. /\ stack' \in Seq(Configuration!StackEntries)
        /\ todo' \in [Configuration!Threads -> Seq(Configuration!Changes)]
        /\ crossed' \subseteq TabIds
    BY <1>1, <2>1, UndoTypes
  <2>3. script' \in [Applications -> [busy : BOOLEAN, tab : TabIds \cup {NoTab}]]
    BY <1>2, <2>1
  <2>4. ServerTypes'
    BY <1>2, <2>1, <2>2, <2>3 DEF ServerTypes
  <2> QED
    BY <1>1, <1>3, <2>2, <2>4, RestKeepsTypes
<1>6. CASE Configuration!TabAssigned(a)
  <2>1. /\ current' = [current EXCEPT ![a] = script[a].tab]
        /\ script' = [script EXCEPT ![a] = Configuration!Idle]
        /\ UNCHANGED <<stack, todo, made, pages, crossed>>
    BY <1>6 DEF Configuration!TabAssigned
  <2>2. /\ current' \in [Applications -> TabIds \cup {NoTab}]
        /\ script' \in [Applications -> [busy : BOOLEAN, tab : TabIds \cup {NoTab}]]
    BY <1>2, <2>1 DEF Configuration!Idle
  <2>3. ServerTypes'
    BY <1>2, <2>1, <2>2 DEF ServerTypes
  <2> QED
    BY <1>1, <1>3, <2>1, <2>3, RestKeepsTypes
<1>7. CASE Configuration!PagePublished(a)
  <2>1. /\ pages < MaxPages /\ pages' = pages + 1
        /\ current[a] # NoTab /\ Configuration!Push(a, current[a], <<a, "pages">>)
        /\ UNCHANGED <<current, script, made>>
    BY <1>7 DEF Configuration!PagePublished
  <2>2. current[a] \in TabIds /\ pages' \in 0..MaxPages
    BY <1>2, <2>1, ConfigurationAssumption
  <2>3. /\ stack' \in Seq(Configuration!StackEntries)
        /\ todo' \in [Configuration!Threads -> Seq(Configuration!Changes)]
        /\ crossed' \subseteq TabIds
    BY <1>1, <2>1, <2>2, PushTypes
  <2>4. ServerTypes'
    BY <1>2, <2>1, <2>2, <2>3 DEF ServerTypes
  <2> QED
    BY <1>1, <1>3, <2>3, <2>4, RestKeepsTypes
<1>8. CASE Configuration!PageUnpublished(a)
  <2>1. /\ pages < MaxPages /\ pages' = pages + 1 /\ Configuration!Undo(a, <<a, "pages">>)
        /\ UNCHANGED <<current, script, made>>
    BY <1>8 DEF Configuration!PageUnpublished
  <2>2. pages' \in 0..MaxPages
    BY <1>2, <2>1, ConfigurationAssumption
  <2>3. /\ stack' \in Seq(Configuration!StackEntries)
        /\ todo' \in [Configuration!Threads -> Seq(Configuration!Changes)]
        /\ crossed' \subseteq TabIds
    BY <1>1, <2>1, UndoTypes
  <2>4. ServerTypes'
    BY <1>2, <2>1, <2>2, <2>3 DEF ServerTypes
  <2> QED
    BY <1>1, <1>3, <2>3, <2>4, RestKeepsTypes
<1> QED
  BY <1>4, <1>5, <1>6, <1>7, <1>8

\* The server, when only what it is about to notify changes.
LEMMA TodoKeepsTypes ==
  ASSUME ServerTypes, UNCHANGED <<stack, current, script, made, pages>>,
         todo' \in [Configuration!Threads -> Seq(Configuration!Changes)]
  PROVE  ServerTypes'
BY DEF ServerTypes

LEMMA NotifyStep ==
  ASSUME ConfigurationInv, NEW th \in Configuration!Threads, Configuration!Notify(th)
  PROVE  ConfigurationInv'
<1> DEFINE C == Configuration!Changes
           s == todo[th]
<1>1. /\ s # <<>> /\ latest' = <<Head(s)>>
      /\ overwritten' = overwritten \union Configuration!ToSet(latest)
      /\ todo' = [todo EXCEPT ![th] = Tail(@)]
      /\ UNCHANGED <<stack, current, script, made, pages, link, box, fresh, tabs, mode, crossed>>
  BY DEF Configuration!Notify, Configuration!clientVars
<1>2. ServerTypes /\ WayTypes /\ SidebarTypes
  BY DEF ConfigurationInv
<1>3. todo \in [Configuration!Threads -> Seq(C)] /\ s \in Seq(C) /\ latest \in Seq(C)
  BY <1>2 DEF ServerTypes, WayTypes
<1> HIDE DEF C, s
<1>4. Head(s) \in C /\ Tail(s) \in Seq(C)
  BY <1>1, <1>3
<1>5. todo' \in [Configuration!Threads -> Seq(C)]
  BY <1>1, <1>3, <1>4 DEF s
<1>6. ServerTypes'
  BY <1>1, <1>2, <1>5, TodoKeepsTypes DEF C
<1>7. latest' \in Seq(C) /\ Len(latest') <= 1
  BY <1>1, <1>4
<1>8. overwritten' \subseteq C
  <2>1. overwritten \subseteq C
    BY <1>2 DEF WayTypes, C
  <2>2. Configuration!ToSet(latest) \subseteq C
    BY <1>3 DEF Configuration!ToSet
  <2> QED
    BY <1>1, <2>1, <2>2
<1>9. WayTypes'
  BY <1>1, <1>2, <1>7, <1>8 DEF WayTypes, C
<1>10. SidebarTypes'
  BY <1>1, <1>2 DEF SidebarTypes, SidebarOk, Configuration!Sidebar
<1> QED
  BY <1>6, <1>9, <1>10 DEF ConfigurationInv

\* The stream, when the sidebar and the server stay.
LEMMA StreamStep ==
  ASSUME ConfigurationInv,
         \/ Configuration!Forward \/ Configuration!Subscribe
         \/ Configuration!SendSnapshot \/ Configuration!Disconnect
  PROVE  ConfigurationInv'
<1> DEFINE C == Configuration!Changes
           Q == Seq(C)
<1>1. ServerTypes /\ WayTypes /\ SidebarTypes
  BY DEF ConfigurationInv
<1>2. UNCHANGED <<stack, current, script, todo, made, pages, tabs, mode>>
  BY DEF Configuration!Forward, Configuration!Subscribe, Configuration!SendSnapshot, Configuration!Disconnect,
         Configuration!serverVars
<1>3. ServerTypes'
  BY <1>1, <1>2 DEF ServerTypes
<1>4. SidebarTypes'
  BY <1>1, <1>2 DEF SidebarTypes, SidebarOk, Configuration!Sidebar
<1>5. /\ latest \in Q /\ Len(latest) <= 1
      /\ link \in {"none", "subscribed", "streaming"}
      /\ box \in Seq(Q) /\ fresh \in BOOLEAN
      /\ overwritten \subseteq C /\ crossed \subseteq TabIds
  BY <1>1 DEF WayTypes
<1>6. CASE Configuration!Forward
  <2>1. /\ box' = IF link = "none" THEN box ELSE Append(box, latest)
        /\ latest' = <<>> /\ UNCHANGED <<overwritten, link, fresh, crossed>>
    BY <1>6 DEF Configuration!Forward
  <2> HIDE DEF Q
  <2>2. box' \in Seq(Q)
    BY <1>5, <2>1
  <2>3. latest' \in Q /\ Len(latest') <= 1
    BY <2>1 DEF Q
  <2>4. WayTypes'
    BY <1>5, <2>1, <2>2, <2>3 DEF WayTypes, Q
  <2> QED
    BY <1>3, <1>4, <2>4 DEF ConfigurationInv
<1>7. CASE Configuration!Subscribe
  <2>1. link' = "subscribed" /\ fresh' = TRUE /\ UNCHANGED <<latest, overwritten, box, crossed>>
    BY <1>7 DEF Configuration!Subscribe, Configuration!forwardVars
  <2>2. WayTypes'
    BY <1>5, <2>1 DEF WayTypes
  <2> QED
    BY <1>3, <1>4, <2>2 DEF ConfigurationInv
<1>8. CASE Configuration!SendSnapshot
  <2> DEFINE snap == Configuration!Snapshot
             under == Configuration!UnderWay \union Configuration!ToSet(box)
  <2>1. /\ link' = "streaming" /\ box' = <<snap>> \o box
        /\ crossed' = Configuration!TabsIn(under)
        /\ overwritten' = IF Configuration!TabsIn(under) = {} THEN {} ELSE overwritten
        /\ UNCHANGED <<latest, fresh>>
    BY <1>8 DEF Configuration!SendSnapshot
  <2>2. snap \in Q
    <3>1. stack \in Seq(Configuration!StackEntries)
      BY <1>1 DEF ServerTypes
    <3>2. Len(stack) \in Nat /\ \A i \in 1..Len(stack) : stack[i].tab \in Configuration!TabIds
      <4>1. \A i \in 1..Len(stack) : stack[i] \in Configuration!StackEntries
        BY <3>1
      <4> QED
        BY <3>1, <4>1 DEF Configuration!StackEntries
    <3>3. \A i \in 1..Len(stack) : Configuration!Open(stack[i].tab) \in C
      BY <3>2 DEF Configuration!Open, Configuration!Changes
    <3> HIDE DEF C
    <3> QED
      BY <3>2, <3>3 DEF Configuration!Snapshot
  <2>3. \A s \in under : s \in Seq(Configuration!Changes)
    <3>1. \A th \in Configuration!Threads : todo[th] \in Q
      BY <1>1 DEF ServerTypes
    <3>2. \A s \in Configuration!ToSet(box) : s \in Q
      <4> HIDE DEF Q
      <4> QED
        BY <1>5 DEF Configuration!ToSet
    <3> QED
      BY <1>5, <3>1, <3>2 DEF Configuration!UnderWay
  <2> HIDE DEF under, snap
  <2>4. crossed' \subseteq TabIds
    BY <2>1, <2>3, TabsInTypes
  <2>5. box' \in Seq(Q)
    <3> HIDE DEF Q
    <3>1. <<snap>> \in Seq(Q)
      BY <2>2
    <3> QED
      BY <1>5, <2>1, <3>1, ConcatProperties
  <2>6. overwritten' \subseteq C
    BY <1>5, <2>1
  <2>7. WayTypes'
    BY <1>5, <2>1, <2>4, <2>5, <2>6 DEF WayTypes
  <2> QED
    BY <1>3, <1>4, <2>7 DEF ConfigurationInv
<1>9. CASE Configuration!Disconnect
  <2>1. link' = "none" /\ box' = <<>> /\ UNCHANGED <<latest, overwritten, fresh, crossed>>
    BY <1>9 DEF Configuration!Disconnect, Configuration!forwardVars
  <2>2. WayTypes'
    BY <1>5, <2>1 DEF WayTypes
  <2> QED
    BY <1>3, <1>4, <2>2 DEF ConfigurationInv
<1> QED
  BY <1>6, <1>7, <1>8, <1>9

\* The client, when the server stays.
LEMMA ShowKeeps ==
  ASSUME ConfigurationInv, NEW bar, SidebarOk(bar), Configuration!ShowSidebar(bar),
         UNCHANGED <<stack, current, script, todo, made, pages, latest, overwritten, link, crossed>>,
         box' \in Seq(Seq(Configuration!Changes)), fresh' \in BOOLEAN
  PROVE  ConfigurationInv'
<1>1. ServerTypes /\ WayTypes
  BY DEF ConfigurationInv
<1>2. ServerTypes'
  BY <1>1 DEF ServerTypes
<1>3. WayTypes'
  BY <1>1 DEF WayTypes
<1>4. Configuration!Sidebar' = bar
  <2>1. tabs' = bar.tabs /\ mode' = bar.mode
    BY DEF Configuration!ShowSidebar
  <2>2. Configuration!Sidebar' = [tabs |-> tabs', mode |-> mode']
    BY DEF Configuration!Sidebar
  <2>3. bar = [tabs |-> bar.tabs, mode |-> bar.mode]
    BY DEF SidebarOk
  <2> QED
    BY <2>1, <2>2, <2>3
<1>5. SidebarTypes'
  BY <1>4 DEF SidebarTypes, SidebarOk
<1> QED
  BY <1>2, <1>3, <1>5 DEF ConfigurationInv

LEMMA ClientStep ==
  ASSUME ConfigurationInv,
         \/ Configuration!Receive \/ Configuration!OpenOwn \/ Configuration!CloseOwn
         \/ \E t : Configuration!SelectTab(t)
  PROVE  ConfigurationInv'
<1> DEFINE bar == Configuration!Sidebar
<1>1. SidebarOk(bar) /\ box \in Seq(Seq(Configuration!Changes)) /\ fresh \in BOOLEAN
  BY DEF ConfigurationInv, SidebarTypes, WayTypes
<1>2. bar.tabs = tabs /\ bar.mode = mode /\ bar = [tabs |-> tabs, mode |-> mode]
  BY DEF Configuration!Sidebar
<1>3. UNCHANGED <<stack, current, script, todo, made, pages, latest, overwritten, link, crossed>>
  BY DEF Configuration!Receive, Configuration!OpenOwn, Configuration!CloseOwn, Configuration!SelectTab,
         Configuration!serverVars, Configuration!forwardVars
<1> HIDE DEF bar
<1>4. tabs \in Seq(AllTabs) /\ Holds(tabs, mode) /\ \A t \in SiteTabs : Holds(tabs, t)
  BY <1>1, <1>2 DEF SidebarOk
<1>5. CASE Configuration!Receive
  <2> DEFINE start == IF fresh THEN Configuration!Cleared(bar) ELSE bar
             new == Configuration!Processed(start, Head(box))
  <2>1. box # <<>> /\ box' = Tail(box) /\ fresh' = FALSE /\ Configuration!ShowSidebar(new)
    BY <1>5 DEF Configuration!Receive, bar
  <2>2. Head(box) \in Seq(Configuration!Changes) /\ box' \in Seq(Seq(Configuration!Changes))
    BY <1>1, <2>1
  <2>3. SidebarOk(start)
    BY <1>1, ClearedOk
  <2> HIDE DEF start
  <2>4. SidebarOk(new)
    BY <2>2, <2>3, ProcessedOk
  <2> QED
    BY <1>3, <2>1, <2>2, <2>4, ShowKeeps
<1>6. CASE Configuration!CloseOwn
  <2>1. Configuration!ShowSidebar(Configuration!Closed(bar, Own)) /\ UNCHANGED <<box, fresh>>
    BY <1>6 DEF Configuration!CloseOwn, bar
  <2>2. SidebarOk(Configuration!Closed(bar, Own))
    BY <1>1, TabFacts, ClosedOk
  <2> QED
    BY <1>1, <1>3, <2>1, <2>2, ShowKeeps
<1>7. CASE Configuration!OpenOwn
  <2> DEFINE at == Configuration!IndexOf(tabs, mode)
             us == InsertAt(tabs, at + 1, Own)
             new == [tabs |-> us, mode |-> Own]
  <2>1. tabs' = us /\ mode' = Own /\ UNCHANGED <<box, fresh>>
    BY <1>7, SameOperators DEF Configuration!OpenOwn
  <2>2. at \in 1..Len(tabs) /\ Len(tabs) \in Nat /\ Own \in AllTabs
    BY <1>4, IndexOfIs DEF AllTabs
  <2> HIDE DEF at
  <2>3. at + 1 \in 1..(Len(tabs) + 1)
    BY <2>2
  <2>4. us \in Seq(AllTabs)
    BY <1>4, <2>2, <2>3, InsertAtIs
  <2>5. \A y : Holds(us, y) <=> Holds(tabs, y) \/ y = Own
    BY <1>4, <2>2, <2>3, InsertKeeps
  <2> HIDE DEF us
  <2>6. new.tabs = us /\ new.mode = Own /\ new = [tabs |-> new.tabs, mode |-> new.mode]
    OBVIOUS
  <2> HIDE DEF new
  <2>7. SidebarOk(new)
    BY <1>4, <2>4, <2>5, <2>6 DEF SidebarOk
  <2>8. Configuration!ShowSidebar(new)
    BY <2>1, <2>6 DEF Configuration!ShowSidebar
  <2> QED
    BY <1>1, <1>3, <2>1, <2>7, <2>8, ShowKeeps
<1>8. ASSUME NEW t, Configuration!SelectTab(t) PROVE ConfigurationInv'
  <2> DEFINE new == [tabs |-> tabs, mode |-> t]
  <2>1. t \in ToSet(tabs) /\ mode' = t /\ UNCHANGED <<box, fresh, tabs>>
    BY <1>8, SameOperators DEF Configuration!SelectTab
  <2>2. Holds(tabs, t)
    BY <1>4, <2>1, HeldIs
  <2>3. new.tabs = tabs /\ new.mode = t /\ new = [tabs |-> new.tabs, mode |-> new.mode]
    OBVIOUS
  <2> HIDE DEF new
  <2>4. SidebarOk(new)
    BY <1>4, <2>2, <2>3 DEF SidebarOk
  <2>5. Configuration!ShowSidebar(new)
    BY <2>1, <2>3 DEF Configuration!ShowSidebar
  <2> QED
    BY <1>1, <1>3, <2>1, <2>4, <2>5, ShowKeeps
<1> QED
  BY <1>5, <1>6, <1>7, <1>8

LEMMA ConfigurationStays == ASSUME ConfigurationInv, UNCHANGED configurationVars PROVE ConfigurationInv'
<1>1. /\ UNCHANGED <<stack, current, script, todo, made, pages, latest, link, box, fresh>>
      /\ UNCHANGED <<tabs, mode, overwritten, crossed>>
  BY DEF configurationVars
<1>2. ServerTypes' /\ WayTypes'
  BY <1>1 DEF ConfigurationInv, ServerTypes, WayTypes
<1>3. SidebarTypes'
  BY <1>1 DEF ConfigurationInv, SidebarTypes, SidebarOk, Configuration!Sidebar
<1> QED
  BY <1>2, <1>3 DEF ConfigurationInv

LEMMA ConfigurationStarts == ASSUME Configuration!ConfigurationInit PROVE ConfigurationInv
<1>1. ServerTypes
  <2>1. Len(Tabs) \in Nat /\ MaxPages \in Nat
    <3>1. Tabs \in Seq(TabIds)
      BY ConfigurationAssumption DEF TabIds
    <3> QED
      BY <3>1, ConfigurationAssumption
  <2>2. 0 \in 0..Len(Tabs) /\ 0 \in 0..MaxPages
    BY <2>1
  <2>3. [th \in Configuration!Threads |-> <<>>] \in [Configuration!Threads -> Seq(Configuration!Changes)]
    OBVIOUS
  <2>4. [a \in Applications |-> Configuration!Idle] \in [Applications -> [busy : BOOLEAN, tab : TabIds \cup {NoTab}]]
    BY DEF Configuration!Idle
  <2> QED
    BY <2>2, <2>3, <2>4 DEF Configuration!ConfigurationInit, ServerTypes
<1>2. WayTypes
  BY DEF Configuration!ConfigurationInit, WayTypes
<1>3. tabs = Defaults /\ mode \in SiteTabs
  BY SameOperators DEF Configuration!ConfigurationInit, SiteTabs
<1> DEFINE new == [tabs |-> tabs, mode |-> mode]
<1>4. Configuration!Sidebar = new /\ new.tabs = tabs /\ new.mode = mode
      /\ new = [tabs |-> new.tabs, mode |-> new.mode]
  BY DEF Configuration!Sidebar
<1> HIDE DEF new
<1>5. Defaults \in Seq(SiteTabs)
  BY ConfigurationAssumption DEF SiteTabs
<1>6. Defaults \in Seq(AllTabs)
  <2>1. SiteTabs \subseteq AllTabs
    BY DEF AllTabs
  <2> HIDE DEF AllTabs
  <2>2. Len(Defaults) \in Nat /\ Defaults = [i \in 1..Len(Defaults) |-> Defaults[i]]
        /\ \A i \in 1..Len(Defaults) : Defaults[i] \in SiteTabs
    BY <1>5
  <2> QED
    BY <2>1, <2>2, <1>5, SeqMonotonic
<1>7. \A t : Holds(Defaults, t) <=> t \in SiteTabs
  BY <1>5, HeldIs DEF SiteTabs
<1>8. SidebarOk(new)
  BY <1>3, <1>4, <1>6, <1>7 DEF SidebarOk
<1> QED
  BY <1>1, <1>2, <1>4, <1>8 DEF ConfigurationInv, SidebarTypes

LEMMA ConfigurationMoves == ASSUME ConfigurationInv, Configuration!ConfigurationNext PROVE ConfigurationInv'
BY ApplicationStep, NotifyStep, StreamStep, ClientStep DEF Configuration!ConfigurationNext

\* A step of the whole is a step of the configuration or leaves it alone.
LEMMA PartsMove ==
  ASSUME [MCNext]_<<restartVars, chatVars, configurationVars, about>>
  PROVE  /\ Configuration!ConfigurationNext \/ UNCHANGED configurationVars
         /\ Chat!ChatNext \/ UNCHANGED chatVars
BY DEF MCNext

THEOREM ConfigurationInductive == MCSpec => []ConfigurationInv
<1>1. MCInit => ConfigurationInv
  BY ConfigurationStarts DEF MCInit
<1>2. ASSUME ConfigurationInv, [MCNext]_<<restartVars, chatVars, configurationVars, about>>
      PROVE  ConfigurationInv'
  BY <1>2, PartsMove, ConfigurationMoves, ConfigurationStays
<1> QED
  BY <1>1, <1>2, PTL DEF MCSpec

\* The selected tab is one of the tabs, whatever the server closes while the
\* user selects, opens and closes tabs, for any tabs of any applications
\* (tabStores.ts, configurationStores.ts).
THEOREM SelectionShown == MCSpec => []SelectedIsShown
<1>1. ASSUME ConfigurationInv PROVE SelectedIsShown
  <2>1. SidebarOk(Configuration!Sidebar)
    BY <1>1 DEF ConfigurationInv, SidebarTypes
  <2>2. Configuration!Sidebar.tabs = tabs /\ Configuration!Sidebar.mode = mode
    BY DEF Configuration!Sidebar
  <2>3. Holds(tabs, mode)
    BY <2>1, <2>2 DEF SidebarOk
  <2> QED
    BY <2>3, SameOperators DEF SelectedIsShown, Configuration!SelectedIsShown
<1> QED
  BY <1>1, ConfigurationInductive, PTL

-----------------------------------------------------------------------------
(* The changes of a tab on their way                                       *)

\* Whether a tab is in a sequence, as a number, and that it is there once.
Level(ts, t) == IF Holds(ts, t) THEN 1 ELSE 0
Once(ts, t) == \A i, j \in 1..Len(ts) : ts[i] = t /\ ts[j] = t => i = j

LEMMA InsertOnce ==
  ASSUME NEW R, NEW s \in Seq(R), NEW x \in R, NEW p \in 1..(Len(s) + 1),
         NEW t, Once(s, t), x = t => ~Holds(s, t)
  PROVE  Once(InsertAt(s, p, x), t)
<1> DEFINE u == InsertAt(s, p, x)
           from(i) == IF i < p THEN i ELSE i - 1
<1>1. Len(s) \in Nat /\ p \in Nat
  OBVIOUS
<1>2. Len(u) = Len(s) + 1 /\ \A i \in 1..(Len(s) + 1) :
                                u[i] = IF i < p THEN s[i] ELSE IF i = p THEN x ELSE s[i - 1]
  BY InsertAtIs
<1> HIDE DEF u
<1>3. ASSUME NEW i \in 1..Len(u), i # p
      PROVE  from(i) \in 1..Len(s) /\ u[i] = s[from(i)]
  BY <1>1, <1>2, <1>3
<1>4. SUFFICES ASSUME NEW i \in 1..Len(u), NEW j \in 1..Len(u), u[i] = t, u[j] = t PROVE i = j
  BY DEF Once, u
<1>5. CASE x = t
  <2>1. \A k \in 1..Len(u) : k # p => u[k] # t
    BY <1>3, <1>5 DEF Holds
  <2> QED
    BY <1>4, <2>1
<1>6. CASE x # t
  <2>1. u[p] = x /\ p \in 1..Len(u)
    BY <1>1, <1>2
  <2>2. i # p /\ j # p
    BY <1>4, <1>6, <2>1
  <2>3. from(i) \in 1..Len(s) /\ from(j) \in 1..Len(s) /\ s[from(i)] = t /\ s[from(j)] = t
    BY <1>3, <1>4, <2>2
  <2>4. from(i) = from(j)
    BY <2>3 DEF Once
  <2> QED
    BY <1>1, <1>2, <2>2, <2>4
<1> QED
  BY <1>5, <1>6

LEMMA AppendOnce ==
  ASSUME NEW R, NEW s \in Seq(R), NEW x \in R, NEW t, Once(s, t), x = t => ~Holds(s, t)
  PROVE  /\ Once(Append(s, x), t)
         /\ \A y : Holds(Append(s, x), y) <=> Holds(s, y) \/ y = x
<1> DEFINE u == Append(s, x)
<1>1. /\ Len(s) \in Nat /\ Len(u) = Len(s) + 1 /\ u[Len(s) + 1] = x
      /\ \A i \in 1..Len(s) : u[i] = s[i]
  BY AppendProperties
<1> HIDE DEF u
<1>2. Once(u, t)
  BY <1>1 DEF Once, Holds
<1>3. \A y : Holds(u, y) <=> Holds(s, y) \/ y = x
  BY <1>1, SMT DEF Holds
<1> QED
  BY <1>2, <1>3 DEF u

LEMMA RemoveOnce ==
  ASSUME NEW R, NEW s \in Seq(R), NEW p \in 1..Len(s), NEW t, Once(s, t)
  PROVE  /\ Once(RemoveAt(s, p), t)
         /\ s[p] = t => ~Holds(RemoveAt(s, p), t)
         /\ Holds(RemoveAt(s, p), t) => Holds(s, t)
<1> DEFINE u == RemoveAt(s, p)
           from(i) == IF i < p THEN i ELSE i + 1
<1>1. Len(s) \in Nat /\ p \in Nat
  OBVIOUS
<1>2. Len(u) = Len(s) - 1 /\ \A i \in 1..(Len(s) - 1) : u[i] = IF i < p THEN s[i] ELSE s[i + 1]
  BY RemoveAtIs
<1> HIDE DEF u
<1>3. ASSUME NEW i \in 1..Len(u)
      PROVE  from(i) \in 1..Len(s) /\ from(i) # p /\ u[i] = s[from(i)]
  BY <1>1, <1>2
<1>4. Once(u, t)
  <2>1. ASSUME NEW i \in 1..Len(u), NEW j \in 1..Len(u), u[i] = t, u[j] = t PROVE i = j
    <3>1. from(i) = from(j)
      BY <1>3, <2>1 DEF Once
    <3> QED
      BY <1>1, <1>2, <3>1
  <2> QED
    BY <2>1 DEF Once
<1>5. Holds(u, t) => Holds(s, t)
  BY <1>3 DEF Holds
<1>6. s[p] = t => ~Holds(u, t)
  BY <1>1, <1>3 DEF Holds, Once
<1> QED
  BY <1>4, <1>5, <1>6 DEF u

\* What a change does to one tab.
LEMMA ChangeShows ==
  ASSUME NEW bar \in Bars, NEW c \in Configuration!Changes, NEW t \in TabIds, Once(bar.tabs, t),
         c = Configuration!Open(t) => ~Holds(bar.tabs, t)
  PROVE  /\ Once(AfterChange(bar, c).tabs, t)
         /\ c.tab # t => (Holds(AfterChange(bar, c).tabs, t) <=> Holds(bar.tabs, t))
         /\ c = Configuration!Open(t) => Holds(AfterChange(bar, c).tabs, t)
         /\ c = Configuration!Close(t) => ~Holds(AfterChange(bar, c).tabs, t)
<1> DEFINE ts == bar.tabs
           u == c.tab
           at == Configuration!IndexOf(ts, BeforeTab[u])
           us == IF at > 0 THEN InsertAt(ts, at, u) ELSE Append(ts, u)
           pl == Configuration!IndexOf(ts, u)
           ls == RemoveAt(ts, pl)
<1>1. ts \in Seq(AllTabs) /\ u \in AllTabs /\ bar = [tabs |-> ts, mode |-> bar.mode]
      /\ c.kind \in {"open", "close"} /\ u \in TabIds
      /\ c = [kind |-> c.kind, tab |-> u]
  BY SameOperators, BarsAre DEF SidebarOk, AllTabs, Configuration!Changes
<1>2. c.kind = "open" => AfterChange(bar, c).tabs = us
  <2>1. Configuration!Opened(bar, u) = [bar EXCEPT !.tabs = us]
    BY SameOperators DEF Configuration!Opened
  <2> HIDE DEF us
  <2> QED
    BY <1>1, <2>1 DEF AfterChange
<1>3. c.kind = "close" => AfterChange(bar, c).tabs = IF pl = 0 THEN ts ELSE ls
  <2>1. Configuration!Closed(bar, u).tabs = IF pl = 0 THEN ts ELSE ls
    BY SameOperators DEF Configuration!Closed
  <2> QED
    BY <2>1 DEF AfterChange
<1>4. /\ c = Configuration!Open(t) <=> c.kind = "open" /\ u = t
      /\ c = Configuration!Close(t) <=> c.kind = "close" /\ u = t
  BY <1>1 DEF Configuration!Open, Configuration!Close
<1>5. at = 0 \/ at \in 1..Len(ts)
  BY <1>1, IndexOfIs
<1>6. /\ Holds(ts, u) => pl \in 1..Len(ts) /\ ts[pl] = u
      /\ ~Holds(ts, u) => pl = 0
  BY <1>1, IndexOfIs
<1>7. Len(ts) \in Nat
  BY <1>1
<1>8. Once(ts, t)
  OBVIOUS
<1>9. u = t /\ c.kind = "open" => ~Holds(ts, t)
  BY <1>4
<1> HIDE DEF ts, at, pl, u
<1>10. ASSUME c.kind = "open" PROVE Once(us, t) /\ \A y : Holds(us, y) <=> Holds(ts, y) \/ y = u
  <2>1. CASE at = 0
    BY <1>1, <1>8, <1>9, <1>10, <2>1, AppendOnce
  <2>2. CASE at \in 1..Len(ts)
    <3>1. us = InsertAt(ts, at, u) /\ at \in 1..(Len(ts) + 1)
      BY <1>7, <2>2
    <3>2. Once(InsertAt(ts, at, u), t)
      BY <1>1, <1>8, <1>9, <1>10, <3>1, InsertOnce
    <3>3. \A y : Holds(InsertAt(ts, at, u), y) <=> Holds(ts, y) \/ y = u
      BY <1>1, <3>1, InsertKeeps
    <3> QED
      BY <3>1, <3>2, <3>3
  <2> QED
    BY <1>5, <2>1, <2>2
<1>11. CASE c.kind = "open"
  BY <1>2, <1>4, <1>10, <1>11 DEF ts, u
<1>12. ASSUME Holds(ts, u)
       PROVE  /\ Once(ls, t) /\ (u = t => ~Holds(ls, t))
              /\ u # t => (Holds(ls, t) <=> Holds(ts, t))
  <2>1. pl \in 1..Len(ts) /\ ts[pl] = u
    BY <1>6, <1>12
  <2>2. /\ Once(ls, t) /\ (ts[pl] = t => ~Holds(ls, t))
        /\ Holds(ls, t) => Holds(ts, t)
    BY <1>1, <1>8, <2>1, RemoveOnce
  <2>3. \A y : Holds(ts, y) /\ y # ts[pl] => Holds(ls, y)
    BY <1>1, <2>1, RemoveKeeps
  <2> QED
    BY <2>1, <2>2, <2>3
<1>13. CASE c.kind = "close"
  <2>1. CASE Holds(ts, u)
    <3>1. pl # 0
      BY <1>6, <1>7, <2>1
    <3> QED
      BY <1>3, <1>4, <1>12, <1>13, <2>1, <3>1 DEF ts, u
  <2>2. CASE ~Holds(ts, u)
    BY <1>3, <1>4, <1>6, <1>8, <1>13, <2>2 DEF ts
  <2> QED
    BY <2>1, <2>2
<1> QED
  BY <1>1, <1>11, <1>13

\* A message takes a tab from one level to another, by one change of it at most.
Mentions(s, t) == \E i \in 1..Len(s) : s[i].tab = t
Flips(t, x, m, y) ==
  /\ Once([i \in 1..Len(m) |-> m[i].tab], t)
  /\ ~Mentions(m, t) => x = y
  /\ Holds(m, Configuration!Open(t)) => x = 0 /\ y = 1
  /\ Holds(m, Configuration!Close(t)) => x = 1 /\ y = 0

\* A change of a tab opens it or closes it.
LEMMA ChangesAre ==
  ASSUME NEW c \in Configuration!Changes
  PROVE  /\ c.tab \in TabIds /\ c.kind \in {"open", "close"}
         /\ \A t : c = Configuration!Open(t) <=> c.kind = "open" /\ c.tab = t
         /\ \A t : c = Configuration!Close(t) <=> c.kind = "close" /\ c.tab = t
<1>1. c.tab \in TabIds /\ c.kind \in {"open", "close"} /\ c = [kind |-> c.kind, tab |-> c.tab]
  BY SameOperators DEF Configuration!Changes
<1> QED
  BY <1>1 DEF Configuration!Open, Configuration!Close

LEMMA MentionsAre ==
  ASSUME NEW s \in Seq(Configuration!Changes), NEW t
  PROVE  Mentions(s, t) <=> Holds(s, Configuration!Open(t)) \/ Holds(s, Configuration!Close(t))
<1>1. \A i \in 1..Len(s) : s[i] \in Configuration!Changes
  OBVIOUS
<1>2. \A i \in 1..Len(s) : s[i].tab = t <=> s[i] = Configuration!Open(t) \/ s[i] = Configuration!Close(t)
  BY <1>1, ChangesAre
<1> QED
  BY <1>2 DEF Mentions, Holds

LEMMA ProcessedShows ==
  ASSUME NEW bar \in Bars, NEW m \in Seq(Configuration!Changes), NEW t \in TabIds,
         Once(bar.tabs, t), NEW y, Flips(t, Level(bar.tabs, t), m, y)
  PROVE  /\ Once(Configuration!Processed(bar, m).tabs, t)
         /\ Level(Configuration!Processed(bar, m).tabs, t) = y
<1> DEFINE x == Level(bar.tabs, t)
           Ok(b, i) == /\ Once(b.tabs, t)
                       /\ Level(b.tabs, t) = IF \E k \in 1..i : m[k].tab = t THEN y ELSE x
<1>1. PICK f : ProcessingTurns(f, bar, m)
  BY ProcessedTurns
<1>2. /\ f \in [0..Len(m) -> Bars]
      /\ Configuration!Processed(bar, m) = f[Len(m)] /\ f[0] = bar
      /\ \A i \in 1..Len(m) : f[i] = AfterChange(f[i - 1], m[i])
  BY <1>1 DEF ProcessingTurns
<1>3. Len(m) \in Nat /\ \A i \in 1..Len(m) : m[i] \in Configuration!Changes
  OBVIOUS
<1>4. /\ \A i, j \in 1..Len(m) : m[i].tab = t /\ m[j].tab = t => i = j
      /\ ~Mentions(m, t) => x = y
      /\ \A i \in 1..Len(m) : m[i] = Configuration!Open(t) => x = 0 /\ y = 1
      /\ \A i \in 1..Len(m) : m[i] = Configuration!Close(t) => x = 1 /\ y = 0
  <2> DEFINE ids == [i \in 1..Len(m) |-> m[i].tab]
  <2>1. Once(ids, t) /\ Len(ids) = Len(m) /\ \A i \in 1..Len(m) : ids[i] = m[i].tab
    <3> HIDE DEF x
    <3>1. Len(ids) = Len(m)
      BY <1>3
    <3> QED
      BY <3>1 DEF Flips, x
  <2>2. \A i, j \in 1..Len(m) : m[i].tab = t /\ m[j].tab = t => i = j
    BY <2>1 DEF Once
  <2> QED
    BY <2>2 DEF Flips, Holds
<1> DEFINE T == {i \in 0..Len(m) : ~Ok(f[i], i)}
<1>5. T = {}
  <2> SUFFICES ASSUME T # {} PROVE FALSE
    OBVIOUS
  <2>1. T \subseteq Nat
    BY <1>3
  <2>2. PICK n \in T : \A k \in T : n <= k
    BY <2>1, LeastElement
  <2>3. n \in 0..Len(m) /\ ~Ok(f[n], n)
    OBVIOUS
  <2>4. n # 0
    BY <1>2, <2>3
  <2>5. n \in 1..Len(m) /\ n - 1 \in 0..Len(m)
    BY <1>3, <2>3, <2>4
  <2>6. Ok(f[n - 1], n - 1)
    <3>1. ~(n <= n - 1)
      BY <2>5
    <3>2. n - 1 \notin T
      BY <2>2, <3>1
    <3> HIDE DEF Ok
    <3> QED
      BY <2>5, <3>2
  <2> DEFINE b == f[n - 1]
             c == m[n]
  <2>7. b \in Bars /\ c \in Configuration!Changes /\ f[n] = AfterChange(b, c)
    BY <1>2, <1>3, <2>5
  <2>8. (\E k \in 1..n : m[k].tab = t) <=> (\E k \in 1..(n - 1) : m[k].tab = t) \/ c.tab = t
    BY <2>5
  <2>9. c.tab = t => ~ \E k \in 1..(n - 1) : m[k].tab = t
    <3> SUFFICES ASSUME NEW k \in 1..(n - 1), m[k].tab = t, m[n].tab = t PROVE FALSE
      OBVIOUS
    <3>1. k \in 1..Len(m) /\ n \in 1..Len(m) /\ k # n
      BY <1>3, <2>5
    <3> QED
      BY <1>4, <3>1
  <2>10. /\ c = Configuration!Open(t) => x = 0 /\ y = 1
         /\ c = Configuration!Close(t) => x = 1 /\ y = 0
    BY <1>4, <2>5
  <2>11. Once(b.tabs, t) /\ Level(b.tabs, t) = IF \E k \in 1..(n - 1) : m[k].tab = t THEN y ELSE x
    BY <2>6
  <2> HIDE DEF b, c, x
  <2>12. c.tab = t <=> c = Configuration!Open(t) \/ c = Configuration!Close(t)
    BY <2>7, ChangesAre
  <2>13. c = Configuration!Open(t) => ~Holds(b.tabs, t)
    BY <2>9, <2>10, <2>11, <2>12 DEF Level
  <2>14. /\ Once(f[n].tabs, t)
         /\ c.tab # t => (Holds(f[n].tabs, t) <=> Holds(b.tabs, t))
         /\ c = Configuration!Open(t) => Holds(f[n].tabs, t)
         /\ c = Configuration!Close(t) => ~Holds(f[n].tabs, t)
    BY <2>7, <2>11, <2>13, ChangeShows
  <2>15. Level(f[n].tabs, t) = IF \E k \in 1..n : m[k].tab = t THEN y ELSE x
    <3>1. CASE c.tab # t
      BY <2>8, <2>11, <2>14, <3>1 DEF Level
    <3>2. CASE c = Configuration!Open(t)
      BY <2>8, <2>10, <2>12, <2>14, <3>2 DEF Level
    <3>3. CASE c = Configuration!Close(t)
      BY <2>8, <2>10, <2>12, <2>14, <3>3 DEF Level
    <3> QED
      BY <2>12, <3>1, <3>2, <3>3
  <2> QED
    BY <2>3, <2>14, <2>15
<1>6. Len(m) \in 0..Len(m) /\ Ok(f[Len(m)], Len(m))
  <2>1. Len(m) \in 0..Len(m)
    BY <1>3
  <2> HIDE DEF Ok
  <2> QED
    BY <1>5, <2>1
<1> HIDE DEF x
<1>7. Level(f[Len(m)].tabs, t) = y
  BY <1>4, <1>6 DEF Mentions
<1> QED
  BY <1>2, <1>6, <1>7

\* Dropping the tabs of the previous stream, and the tab of the user.
LEMMA ClearedShows ==
  ASSUME NEW bar \in Bars, NEW t \in TabIds
  PROVE  Once(Configuration!Cleared(bar).tabs, t) /\ Level(Configuration!Cleared(bar).tabs, t) = 0
<1>1. Configuration!Cleared(bar).tabs = Without(bar.tabs, TabIds)
  BY SameOperators DEF Configuration!Cleared
<1>2. bar.tabs \in Seq(AllTabs)
  BY BarsAre DEF SidebarOk
<1>3. ~Holds(Without(bar.tabs, TabIds), t)
  BY <1>2, WithoutHolds
<1> QED
  BY <1>1, <1>3 DEF Once, Level, Holds

\* The entries of an application on a stack, one at most.
SetFor(s, a, t) == \E i \in 1..Len(s) : s[i].app = a /\ s[i].tab = t
OneEntryEach(s) == \A i, j \in 1..Len(s) : s[i].app = s[j].app => i = j

LEMMA EntriesAre ==
  ASSUME ServerTypes, OneEntryEach(stack), NEW a \in Applications
  PROVE  /\ OneEntryEach(Configuration!WithoutApp(a))
         /\ \A i \in 1..Len(Configuration!WithoutApp(a)) : Configuration!WithoutApp(a)[i].app # a
         /\ \A b, t : b # a =>
              (SetFor(Configuration!WithoutApp(a), b, t) <=> SetFor(stack, b, t))
         /\ Len(Configuration!Replaced(a)) <= 1
         /\ \A t : \A i \in 1..Len(Configuration!Replaced(a)) :
              Configuration!Replaced(a)[i] = Configuration!Close(t) => SetFor(stack, a, t)
         /\ \A t : SetFor(stack, a, t) => Holds(Configuration!Replaced(a), Configuration!Close(t))
         /\ \A i \in 1..Len(Configuration!Replaced(a)) : Configuration!Replaced(a)[i].kind = "close"
<1> DEFINE E == Configuration!StackEntries
           w == Configuration!WithoutApp(a)
           o == Configuration!SetBy(a)
           r == Configuration!Replaced(a)
           mine == Configuration!EntriesOf(a)
<1>1. stack \in Seq(E) /\ Len(stack) \in Nat
  BY DEF ServerTypes
<1>2. mine = {e \in ToSet(stack) : e.app = a}
  BY SameOperators DEF Configuration!EntriesOf
<1>3. w = Without(stack, mine) /\ o = Without(stack, ToSet(stack) \ mine)
  BY SameOperators DEF Configuration!SetBy, Configuration!WithoutApp
<1>4. r = [i \in 1..Len(o) |-> Configuration!Close(o[i].tab)]
  BY DEF Configuration!Replaced
<1>5. Distinct(stack)
  BY DEF OneEntryEach, Distinct
<1>6. \A e : Holds(stack, e) <=> e \in ToSet(stack)
  BY <1>1, HeldIs
<1> HIDE DEF mine, E
<1>7. /\ w \in Seq(E) /\ Distinct(w)
      /\ \A e : Holds(w, e) <=> Holds(stack, e) /\ e \notin mine
  BY <1>1, <1>3, <1>5, WithoutHolds
<1>8. /\ o \in Seq(E) /\ Distinct(o)
      /\ \A e : Holds(o, e) <=> Holds(stack, e) /\ e \notin (ToSet(stack) \ mine)
  <2> DEFINE gone == ToSet(stack) \ mine
  <2> HIDE DEF gone
  <2>1. o = Without(stack, gone)
    BY <1>3 DEF gone
  <2>2. /\ o \in Seq(E) /\ Distinct(o)
        /\ \A e : Holds(o, e) <=> Holds(stack, e) /\ e \notin gone
    BY <1>1, <1>5, <2>1, WithoutHolds
  <2> QED
    BY <2>2 DEF gone
<1> HIDE DEF w, o, r
<1>9. /\ \A e : Holds(w, e) <=> Holds(stack, e) /\ e.app # a
      /\ \A e : Holds(o, e) <=> Holds(stack, e) /\ e.app = a
  BY <1>2, <1>6, <1>7, <1>8
<1>10. /\ Len(w) \in Nat /\ \A i \in 1..Len(w) : Holds(w, w[i])
       /\ Len(o) \in Nat /\ \A i \in 1..Len(o) : Holds(o, o[i])
  BY <1>7, <1>8 DEF Holds
<1>11. \A e, d : Holds(stack, e) /\ Holds(stack, d) /\ e.app = d.app => e = d
  BY DEF Holds, OneEntryEach
<1>12. OneEntryEach(w)
  <2>1. ASSUME NEW i \in 1..Len(w), NEW j \in 1..Len(w), w[i].app = w[j].app PROVE i = j
    <3>1. w[i] = w[j]
      BY <1>9, <1>10, <1>11, <2>1
    <3> QED
      BY <1>7, <3>1 DEF Distinct
  <2> QED
    BY <2>1 DEF OneEntryEach
<1>13. \A i \in 1..Len(w) : w[i].app # a
  BY <1>9, <1>10
<1>14. ASSUME NEW b, NEW t, b # a PROVE SetFor(w, b, t) <=> SetFor(stack, b, t)
  <2>1. \A s : SetFor(s, b, t) <=> \E e : Holds(s, e) /\ e.app = b /\ e.tab = t
    BY DEF SetFor, Holds
  <2> QED
    BY <1>9, <1>14, <2>1
<1>15. Len(o) <= 1
  <2>1. ASSUME Len(o) > 1 PROVE FALSE
    <3>1. 1 \in 1..Len(o) /\ 2 \in 1..Len(o)
      BY <1>10, <2>1
    <3>2. o[1] = o[2]
      BY <1>9, <1>10, <1>11, <3>1
    <3>3. 1 = 2
      BY <1>8, <3>1, <3>2 DEF Distinct
    <3> QED
      BY <3>3
  <2> QED
    BY <1>10, <2>1
<1>16. Len(r) = Len(o) /\ \A i \in 1..Len(o) : r[i] = Configuration!Close(o[i].tab)
  BY <1>4, <1>10
<1>17. \A u : Configuration!Close(u).tab = u /\ Configuration!Close(u).kind = "close"
  BY DEF Configuration!Close
<1>18. ASSUME NEW t, NEW i \in 1..Len(r), r[i] = Configuration!Close(t) PROVE SetFor(stack, a, t)
  <2>1. o[i].tab = t
    BY <1>16, <1>18, <1>17
  <2>2. Holds(stack, o[i]) /\ o[i].app = a
    BY <1>9, <1>10, <1>16, <1>18
  <2> QED
    BY <2>1, <2>2 DEF SetFor, Holds
<1>19. ASSUME NEW t, SetFor(stack, a, t) PROVE Holds(r, Configuration!Close(t))
  <2>1. PICK k \in 1..Len(stack) : stack[k].app = a /\ stack[k].tab = t
    BY <1>19 DEF SetFor
  <2>2. Holds(o, stack[k])
    BY <1>9, <2>1 DEF Holds
  <2> QED
    BY <1>16, <2>1, <2>2 DEF Holds
<1>20. \A i \in 1..Len(r) : r[i].kind = "close"
  BY <1>16, <1>17
<1> QED
  BY <1>12, <1>13, <1>14, <1>15, <1>16, <1>18, <1>19, <1>20 DEF w, r

\* What is left to notify: the tab that is replaced, then the one that is set.
Replacement(s) ==
  /\ Len(s) <= 2
  /\ \A i \in 1..Len(s) : s[i].kind = "open" => i = Len(s)
  /\ \A i \in 1..Len(s) : s[i].kind = "close" => i = 1

\* A thread replaces the tab of an application, in the stack.
Replaces(a, c) ==
  /\ stack' \in Seq(Configuration!StackEntries) /\ OneEntryEach(stack')
  /\ c \in Seq(Configuration!Changes) /\ Replacement(c)
  /\ \A t : Holds(c, Configuration!Close(t)) <=> SetFor(stack, a, t)
  /\ \A t : Holds(c, Configuration!Open(t)) <=> SetFor(stack', a, t)
  /\ \A b, t : b # a => (SetFor(stack', b, t) <=> SetFor(stack, b, t))

LEMMA UndoReplaces ==
  ASSUME ServerTypes, crossed \subseteq TabIds, OneEntryEach(stack), NEW a \in Applications,
         NEW thread \in {<<a, "script">>, <<a, "pages">>}, Configuration!Undo(a, thread)
  PROVE  /\ Configuration!Changed(a, thread, Configuration!Replaced(a))
         /\ Replaces(a, Configuration!Replaced(a))
         /\ \A t : ~SetFor(stack', a, t)
<1> DEFINE r == Configuration!Replaced(a)
<1>1. stack' = Configuration!WithoutApp(a) /\ Configuration!Changed(a, thread, r)
  BY DEF Configuration!Undo
<1>2. r \in Seq(Configuration!Changes) /\ stack' \in Seq(Configuration!StackEntries)
  BY <1>1, SetByTypes
<1>3. /\ OneEntryEach(stack')
      /\ \A i \in 1..Len(stack') : stack'[i].app # a
      /\ \A b, t : b # a => (SetFor(stack', b, t) <=> SetFor(stack, b, t))
      /\ Len(r) <= 1
      /\ \A t : \A i \in 1..Len(r) : r[i] = Configuration!Close(t) => SetFor(stack, a, t)
      /\ \A t : SetFor(stack, a, t) => Holds(r, Configuration!Close(t))
      /\ \A i \in 1..Len(r) : r[i].kind = "close"
  BY <1>1, EntriesAre
<1> HIDE DEF r
<1>4. Replacement(r)
  <2>1. Len(r) \in Nat
    BY <1>2
  <2>2. \A i \in 1..Len(r) : i = 1 /\ r[i].kind # "open"
    BY <1>3, <2>1
  <2>3. Len(r) <= 2
    BY <1>3, <2>1
  <2> QED
    BY <2>2, <2>3 DEF Replacement
<1>5. \A t : ~SetFor(stack', a, t)
  BY <1>3 DEF SetFor
<1>6. \A t : ~Holds(r, Configuration!Open(t))
  BY <1>3 DEF Holds, Configuration!Open
<1>7. \A t : Holds(r, Configuration!Close(t)) <=> SetFor(stack, a, t)
  BY <1>3 DEF Holds
<1> QED
  BY <1>1, <1>2, <1>3, <1>4, <1>5, <1>6, <1>7 DEF Replaces, r

LEMMA PushReplaces ==
  ASSUME ServerTypes, crossed \subseteq TabIds, OneEntryEach(stack), NEW a \in Applications,
         NEW thread \in {<<a, "script">>, <<a, "pages">>}, NEW t \in TabIds,
         Configuration!Push(a, t, thread)
  PROVE  /\ Configuration!Changed(a, thread, Append(Configuration!Replaced(a), Configuration!Open(t)))
         /\ Replaces(a, Append(Configuration!Replaced(a), Configuration!Open(t)))
         /\ \A u : SetFor(stack', a, u) <=> u = t
<1> DEFINE r == Configuration!Replaced(a)
           new == Configuration!Open(t)
           w == Configuration!WithoutApp(a)
           e == [app |-> a, tab |-> t]
           c == Append(r, new)
<1>1. stack' = <<e>> \o w /\ Configuration!Changed(a, thread, c)
  BY DEF Configuration!Push
<1>2. r \in Seq(Configuration!Changes) /\ w \in Seq(Configuration!StackEntries)
  BY SetByTypes
<1>3. stack' \in Seq(Configuration!StackEntries)
  BY PushTypes
<1>4. /\ OneEntryEach(w) /\ \A i \in 1..Len(w) : w[i].app # a
      /\ \A b, u : b # a => (SetFor(w, b, u) <=> SetFor(stack, b, u))
      /\ Len(r) <= 1
      /\ \A u : \A i \in 1..Len(r) : r[i] = Configuration!Close(u) => SetFor(stack, a, u)
      /\ \A u : SetFor(stack, a, u) => Holds(r, Configuration!Close(u))
      /\ \A i \in 1..Len(r) : r[i].kind = "close"
  BY EntriesAre
<1>5. new \in Configuration!Changes /\ new.kind = "open"
      /\ (\A u : new # Configuration!Close(u)) /\ \A u : new = Configuration!Open(u) <=> u = t
  BY SameOperators DEF Configuration!Open, Configuration!Close, Configuration!Changes
<1>6. e.app = a /\ e.tab = t /\ e \in Configuration!StackEntries
  BY SameOperators DEF Configuration!StackEntries
<1> HIDE DEF r, new, w, e
<1>7. /\ c \in Seq(Configuration!Changes) /\ Len(r) \in Nat /\ Len(c) = Len(r) + 1 /\ c[Len(r) + 1] = new
      /\ \A i \in 1..Len(r) : c[i] = r[i]
  BY <1>2, <1>5, AppendProperties
<1> HIDE DEF c
<1>8. Replacement(c)
  BY <1>4, <1>5, <1>7 DEF Replacement
<1>9. \A x : Holds(c, x) <=> Holds(r, x) \/ x = new
  BY <1>7, SMT DEF Holds
<1>10. /\ Len(w) \in Nat /\ Len(stack') = Len(w) + 1 /\ stack'[1] = e
       /\ \A i \in 1..Len(w) : stack'[i + 1] = w[i]
  <2> DEFINE E == Configuration!StackEntries
             h == <<e>>
  <2>1. h \in Seq(E) /\ Len(h) = 1 /\ h[1] = e
    BY <1>6
  <2>2. w \in Seq(E) /\ Len(w) \in Nat /\ stack' = h \o w
    BY <1>1, <1>2
  <2> HIDE DEF E, h
  <2>3. Len(h \o w) = Len(h) + Len(w)
        /\ \A i \in 1..(Len(h) + Len(w)) : (h \o w)[i] = IF i <= Len(h) THEN h[i] ELSE w[i - Len(h)]
    BY <2>1, <2>2, ConcatProperties
  <2>4. ASSUME NEW i \in 1..Len(w) PROVE (h \o w)[i + 1] = w[i]
    <3>1. i + 1 \in 1..(Len(h) + Len(w)) /\ ~(i + 1 <= Len(h)) /\ i + 1 - Len(h) = i
      BY <2>1, <2>2
    <3> QED
      BY <2>3, <3>1
  <2>5. (h \o w)[1] = e
    BY <2>1, <2>2, <2>3
  <2> QED
    BY <2>1, <2>2, <2>3, <2>4, <2>5
<1>11. \A i \in 1..Len(stack') : i = 1 \/ (i - 1 \in 1..Len(w) /\ stack'[i] = w[i - 1])
  <2>1. ASSUME NEW i \in 1..Len(stack'), i # 1 PROVE i - 1 \in 1..Len(w) /\ stack'[i] = w[i - 1]
    <3>1. i - 1 \in 1..Len(w) /\ (i - 1) + 1 = i
      BY <1>10, <2>1
    <3>2. stack'[(i - 1) + 1] = w[i - 1]
      BY <1>10, <3>1
    <3> QED
      BY <3>1, <3>2
  <2> QED
    BY <2>1
<1>12. OneEntryEach(stack')
  <2>1. ASSUME NEW i \in 1..Len(stack'), NEW j \in 1..Len(stack'), stack'[i].app = stack'[j].app
        PROVE  i = j
    <3>1. CASE i = 1
      BY <1>4, <1>6, <1>10, <1>11, <2>1, <3>1
    <3>2. CASE j = 1
      BY <1>4, <1>6, <1>10, <1>11, <2>1, <3>2
    <3>3. CASE i # 1 /\ j # 1
      <4>1. /\ i - 1 \in 1..Len(w) /\ stack'[i] = w[i - 1]
            /\ j - 1 \in 1..Len(w) /\ stack'[j] = w[j - 1]
        BY <1>11, <3>3
      <4>2. i - 1 = j - 1
        BY <1>4, <2>1, <4>1 DEF OneEntryEach
      <4> QED
        BY <1>10, <4>2
    <3> QED
      BY <3>1, <3>2, <3>3
  <2> QED
    BY <2>1 DEF OneEntryEach
<1>13. \A u : SetFor(stack', a, u) <=> u = t
  <2>1. 1 \in 1..Len(stack')
    BY <1>10
  <2>2. ASSUME NEW i \in 1..Len(stack'), stack'[i].app = a PROVE i = 1
    BY <1>4, <1>11, <2>2
  <2> QED
    BY <1>6, <1>10, <2>1, <2>2 DEF SetFor
<1>14. ASSUME NEW b, NEW u, b # a PROVE SetFor(stack', b, u) <=> SetFor(stack, b, u)
  <2>1. ASSUME SetFor(stack', b, u) PROVE SetFor(w, b, u)
    <3>1. PICK i \in 1..Len(stack') : stack'[i].app = b /\ stack'[i].tab = u
      BY <2>1 DEF SetFor
    <3>2. i # 1
      BY <1>6, <1>10, <1>14, <3>1
    <3> QED
      BY <1>11, <3>1, <3>2 DEF SetFor
  <2>2. ASSUME SetFor(w, b, u) PROVE SetFor(stack', b, u)
    <3>1. PICK i \in 1..Len(w) : w[i].app = b /\ w[i].tab = u
      BY <2>2 DEF SetFor
    <3>2. i + 1 \in 1..Len(stack') /\ stack'[i + 1] = w[i]
      BY <1>10
    <3> QED
      BY <3>1, <3>2 DEF SetFor
  <2> QED
    BY <1>4, <1>14, <2>1, <2>2
<1>15. \A u : Holds(c, Configuration!Open(u)) <=> SetFor(stack', a, u)
  <2>1. \A u : ~Holds(r, Configuration!Open(u))
    BY <1>4 DEF Holds, Configuration!Open
  <2> QED
    BY <1>5, <1>9, <1>13, <2>1
<1>16. \A u : Holds(c, Configuration!Close(u)) <=> SetFor(stack, a, u)
  <2>1. \A u : Holds(r, Configuration!Close(u)) <=> SetFor(stack, a, u)
    BY <1>4 DEF Holds
  <2> QED
    BY <1>5, <1>9, <2>1
<1> QED
  BY <1>1, <1>3, <1>7, <1>8, <1>12, <1>13, <1>14, <1>15, <1>16 DEF Replaces, c, r, new

\* What an application has in hand: nothing of another application, and only
\* tabs that are made.
InHand(a, t) ==
  \/ current[a] = t \/ script[a].tab = t \/ SetFor(stack, a, t)
  \/ Mentions(todo[<<a, "script">>], t) \/ Mentions(todo[<<a, "pages">>], t)

Owned ==
  /\ \A a \in Applications : \A t \in TabIds :
       InHand(a, t) => \E i \in 1..made : Tabs[i] = t
  /\ \A a, b \in Applications : \A t \in TabIds : InHand(a, t) /\ InHand(b, t) => a = b

\* Where the threads are: a tab that did not cross another has its changes left
\* to one thread of its application.
OneThread ==
  \A a \in Applications : \A t \in TabIds \ crossed :
    /\ Mentions(todo[<<a, "script">>], t) => todo[<<a, "pages">>] = <<>>
    /\ Mentions(todo[<<a, "pages">>], t) => todo[<<a, "script">>] = <<>>

Replacing ==
  /\ \A th \in Configuration!Threads : Replacement(todo[th])
  /\ \A a \in Applications : ~script[a].busy => todo[<<a, "script">>] = <<>>

SettingInv == OneEntryEach(stack) /\ Owned /\ OneThread /\ Replacing

\* The level of a tab once what is on its way is received, and once everything
\* is notified.
Way(t, w, y) ==
  /\ w \in [0..Len(box) -> {0, 1}] /\ y \in {0, 1}
  /\ ~fresh => Once(tabs, t)
  /\ w[0] = IF fresh THEN 0 ELSE Level(tabs, t)
  /\ \A i \in 1..Len(box) : Flips(t, w[i - 1], box[i], w[i])
  /\ Flips(t, w[Len(box)], latest, y)

SetNow(t) == IF \E a \in Applications : SetFor(stack, a, t) THEN 1 ELSE 0

Ends(t, y) ==
  /\ (\A th \in Configuration!Threads : ~Mentions(todo[th], t)) => y = SetNow(t)
  /\ \A th \in Configuration!Threads : Mentions(todo[th], t) =>
       /\ y = IF Holds(todo[th], Configuration!Close(t)) THEN 1 ELSE 0
       /\ SetNow(t) = IF Holds(todo[th], Configuration!Open(t)) THEN 1 ELSE 0

Told(t) == Configuration!Open(t) \notin overwritten /\ Configuration!Close(t) \notin overwritten

Followed ==
  link = "streaming" =>
    \A t \in TabIds \ crossed : Told(t) => \E w, y : Way(t, w, y) /\ Ends(t, y)

StreamStarts ==
  /\ link = "subscribed" => fresh
  /\ link = "streaming" /\ fresh => box # <<>>

FollowingInv == SettingInv /\ StreamStarts /\ Followed

LEMMA ThreadsAre ==
  /\ \A a \in Applications : <<a, "script">> \in Configuration!Threads /\ <<a, "pages">> \in Configuration!Threads
  /\ \A th \in Configuration!Threads : \E a \in Applications : th = <<a, "script">> \/ th = <<a, "pages">>
BY DEF Configuration!Threads

LEMMA EmptyMentions == \A t : ~Mentions(<<>>, t) /\ \A x : ~Holds(<<>>, x)
BY DEF Mentions, Holds

\* A thread replaces the tab of an application: nobody else has it in hand.
LEMMA ReplacesLeads ==
  ASSUME ServerTypes, SettingInv, NEW a \in Applications,
         NEW th \in {<<a, "script">>, <<a, "pages">>}, todo[th] = <<>>,
         NEW c, Configuration!Changed(a, th, c), Replaces(a, c),
         \A t \in TabIds : \A b \in Applications : SetFor(stack', a, t) /\ InHand(b, t) => b = a
  PROVE  /\ OneThread'
         /\ \A k \in Configuration!Threads : Replacement(todo'[k])
         /\ \A t \in TabIds \ crossed' : \A y : Ends(t, y) => Ends(t, y)'
<1> DEFINE Th == Configuration!Threads
           C == Configuration!Changes
           o == IF th = <<a, "script">> THEN <<a, "pages">> ELSE <<a, "script">>
           others == {todo[k] : k \in {<<a, "script">>, <<a, "pages">>} \ {th}}
<1>1. /\ todo \in [Th -> Seq(C)] /\ th \in Th /\ o \in Th /\ o # th
      /\ {<<a, "script">>, <<a, "pages">>} \ {th} = {o}
      /\ {<<a, "script">>, <<a, "pages">>} = {o, th}
  <2>1. todo \in [Th -> Seq(C)] /\ <<a, "script">> \in Th /\ <<a, "pages">> \in Th
    BY ThreadsAre DEF ServerTypes
  <2>2. <<a, "script">> # <<a, "pages">>
    OBVIOUS
  <2> DEFINE p == <<a, "script">>
             q == <<a, "pages">>
  <2> HIDE DEF p, q, Th
  <2>3. th \in {p, q} /\ p # q /\ o = IF th = p THEN q ELSE p
    BY <2>2 DEF p, q
  <2>4. p \in Th /\ q \in Th
    BY <2>1 DEF p, q
  <2> HIDE DEF o
  <2>5. th \in Th /\ o \in Th /\ o # th /\ {p, q} \ {th} = {o} /\ {p, q} = {o, th}
    BY <2>3, <2>4
  <2> QED
    BY <2>1, <2>5 DEF p, q
<1>2. /\ todo' = [todo EXCEPT ![th] = c]
      /\ crossed' = crossed \union
           (IF Configuration!TabsIn({todo[o]}) = {} THEN {} ELSE Configuration!TabsIn({todo[o]} \union {c}))
  <2>1. /\ todo' = [todo EXCEPT ![th] = c]
        /\ crossed' = crossed \union
             (IF Configuration!TabsIn(others) = {} THEN {} ELSE Configuration!TabsIn(others \union {c}))
    BY DEF Configuration!Changed
  <2>2. others = {todo[o]}
    BY <1>1
  <2> HIDE DEF others
  <2> QED
    BY <2>1, <2>2
<1>3. c \in Seq(C) /\ Replacement(c)
      /\ (\A t : Holds(c, Configuration!Close(t)) <=> SetFor(stack, a, t))
      /\ (\A t : Holds(c, Configuration!Open(t)) <=> SetFor(stack', a, t))
      /\ \A b, t : b # a => (SetFor(stack', b, t) <=> SetFor(stack, b, t))
  BY DEF Replaces
<1>4. \A k \in Th : k = o \/ k = th \/ \E b \in Applications : b # a /\ k \in {<<b, "script">>, <<b, "pages">>}
  BY <1>1, ThreadsAre
<1>5. /\ \A b \in Applications : \A k \in {<<b, "script">>, <<b, "pages">>} : \A t : Mentions(todo[k], t) => InHand(b, t)
      /\ \A b \in Applications : \A t : SetFor(stack, b, t) => InHand(b, t)
  BY DEF InHand
<1> HIDE DEF Th, o, C
<1>6. todo'[th] = c /\ \A k \in Th : k # th => todo'[k] = todo[k]
  BY <1>1, <1>2
<1>7. \A s, t : Mentions(s, t) => t \in Configuration!TabsIn({s})
  BY DEF Mentions, Configuration!TabsIn
<1>8. \A s, t : Mentions(s, t) <=> t \in {s[i].tab : i \in 1..Len(s)}
  BY DEF Mentions
<1>9. \A s, r, t : t \in Configuration!TabsIn({s} \union {r}) <=> Mentions(s, t) \/ Mentions(r, t)
  BY <1>8 DEF Configuration!TabsIn
\* Both threads have something to notify only about tabs that cross.
<1>10. ASSUME NEW t \in TabIds \ crossed', Mentions(c, t) \/ Mentions(todo[o], t)
       PROVE  todo[o] = <<>> /\ Mentions(c, t)
  <2>1. Configuration!TabsIn({todo[o]}) = {}
    BY <1>2, <1>9, <1>10
  <2>2. \A u : ~Mentions(todo[o], u)
    BY <1>7, <2>1
  <2>3. todo[o] \in Seq(C)
    BY <1>1
  <2>4. todo[o] = <<>>
    <3>1. SUFFICES ASSUME todo[o] # <<>> PROVE FALSE
      OBVIOUS
    <3>2. 1 \in 1..Len(todo[o])
      BY <2>3, <3>1
    <3>3. Mentions(todo[o], todo[o][1].tab)
      BY <3>2 DEF Mentions
    <3> QED
      BY <2>2, <3>3
  <2> QED
    BY <1>10, <2>2, <2>4
<1>11. \A k \in Th : Replacement(todo'[k])
  BY <1>3, <1>6 DEF SettingInv, Replacing, Th
<1>12. OneThread'
  <2>1. SUFFICES ASSUME NEW b \in Applications, NEW t \in TabIds \ crossed'
                 PROVE  /\ Mentions(todo'[<<b, "script">>], t) => todo'[<<b, "pages">>] = <<>>
                        /\ Mentions(todo'[<<b, "pages">>], t) => todo'[<<b, "script">>] = <<>>
    BY DEF OneThread
  <2>2. CASE b = a
    <3>1. Mentions(c, t) => todo'[o] = <<>>
      BY <1>1, <1>6, <1>10
    <3>2. ~Mentions(todo'[o], t)
      BY <1>1, <1>6, <1>10, EmptyMentions
    <3> QED
      BY <1>1, <1>6, <2>2, <3>1, <3>2
  <2>3. CASE b # a
    <3>1. <<b, "script">> \in Th /\ <<b, "pages">> \in Th /\ <<b, "script">> # th /\ <<b, "pages">> # th
      BY <2>3, ThreadsAre DEF Th
    <3>2. t \in TabIds \ crossed
      BY <1>2
    <3> QED
      BY <1>6, <3>1, <3>2 DEF SettingInv, OneThread
  <2> QED
    BY <2>2, <2>3
<1>13. ASSUME NEW t \in TabIds \ crossed', NEW y, Ends(t, y) PROVE Ends(t, y)'
  <2>1. /\ (\A k \in Th : ~Mentions(todo[k], t)) => y = SetNow(t)
        /\ \A k \in Th : Mentions(todo[k], t) =>
             /\ y = IF Holds(todo[k], Configuration!Close(t)) THEN 1 ELSE 0
             /\ SetNow(t) = IF Holds(todo[k], Configuration!Open(t)) THEN 1 ELSE 0
    BY <1>13 DEF Ends, Th
  <2>2. Mentions(c, t) <=> SetFor(stack, a, t) \/ SetFor(stack', a, t)
    BY <1>3, MentionsAre DEF C
  <2>3. ~Mentions(todo[th], t)
    BY EmptyMentions
  <2>4. CASE ~Mentions(c, t)
    <3>1. SetNow(t)' = SetNow(t)
      BY <1>3, <2>2, <2>4 DEF SetNow
    <3>2. \A k \in Th : Mentions(todo'[k], t) => k # th
      BY <1>6, <2>4
    <3>3. (\A k \in Th : ~Mentions(todo'[k], t)) => \A k \in Th : ~Mentions(todo[k], t)
      BY <1>6, <2>3
    <3>4. (\A k \in Th : ~Mentions(todo'[k], t)) => y = SetNow(t)'
      BY <2>1, <3>1, <3>3
    <3>5. \A k \in Th : Mentions(todo'[k], t) =>
             /\ y = IF Holds(todo'[k], Configuration!Close(t)) THEN 1 ELSE 0
             /\ SetNow(t)' = IF Holds(todo'[k], Configuration!Open(t)) THEN 1 ELSE 0
      BY <1>6, <2>1, <3>1, <3>2
    <3> QED
      BY <3>4, <3>5 DEF Ends, Th
  <2>5. CASE Mentions(c, t)
    <3>1. \A b \in Applications : InHand(b, t) => b = a
      BY <1>5, <2>2, <2>5 DEF SettingInv, Owned
    <3>2. \A b \in Applications : b # a => ~SetFor(stack, b, t) /\ ~SetFor(stack', b, t)
      BY <1>3, <1>5, <3>1
    <3>3. \A k \in Th : ~Mentions(todo[k], t)
      <4>1. ~Mentions(todo[o], t)
        BY <1>10, <2>5, EmptyMentions
      <4>2. ASSUME NEW b \in Applications, b # a, NEW k \in {<<b, "script">>, <<b, "pages">>}
            PROVE  ~Mentions(todo[k], t)
        BY <1>5, <3>1, <4>2
      <4> QED
        BY <1>4, <2>3, <4>1, <4>2
    <3>4. y = IF SetFor(stack, a, t) THEN 1 ELSE 0
      BY <2>1, <3>2, <3>3 DEF SetNow
    <3>5. SetNow(t)' = IF SetFor(stack', a, t) THEN 1 ELSE 0
      BY <3>2 DEF SetNow
    <3>6. \A k \in Th : Mentions(todo'[k], t) => k = th
      BY <1>6, <3>3
    <3>7. /\ y = IF Holds(todo'[th], Configuration!Close(t)) THEN 1 ELSE 0
          /\ SetNow(t)' = IF Holds(todo'[th], Configuration!Open(t)) THEN 1 ELSE 0
      BY <1>3, <1>6, <3>4, <3>5
    <3>8. Mentions(todo'[th], t) /\ th \in Th
      BY <1>1, <1>6, <2>5
    <3> QED
      BY <3>6, <3>7, <3>8 DEF Ends, Th
  <2> QED
    BY <2>4, <2>5
<1> QED
  BY <1>11, <1>12, <1>13 DEF Th

\* What is in hand after an application replaced its tab by u.
LEMMA ReplacesOwned ==
  ASSUME ServerTypes, ServerTypes', Owned, NEW a \in Applications,
         NEW th \in {<<a, "script">>, <<a, "pages">>},
         NEW c, Configuration!Changed(a, th, c), Replaces(a, c), NEW u,
         \A t : SetFor(stack', a, t) => t = u,
         UNCHANGED current, \A b \in Applications : b # a => script'[b] = script[b],
         \A t \in TabIds : script'[a].tab = t => t = u \/ script[a].tab = t,
         made <= made',
         u \in TabIds => InHand(a, u) \/ ((\E i \in 1..made' : Tabs[i] = u) /\ \A b \in Applications : ~InHand(b, u))
  PROVE  /\ Owned'
         /\ \A t \in TabIds : \A b \in Applications : SetFor(stack', a, t) /\ InHand(b, t) => b = a
<1> DEFINE Th == Configuration!Threads
<1>1. /\ todo' = [todo EXCEPT ![th] = c] /\ th \in Th
      /\ todo \in [Th -> Seq(Configuration!Changes)]
  BY ThreadsAre DEF Configuration!Changed, ServerTypes
<1>2. todo'[th] = c /\ \A k \in Th : k # th => todo'[k] = todo[k]
  BY <1>1
<1>3. \A t : Mentions(c, t) <=> SetFor(stack, a, t) \/ SetFor(stack', a, t)
  BY MentionsAre DEF Replaces
<1>4. \A b, t : b # a => (SetFor(stack', b, t) <=> SetFor(stack, b, t))
  BY DEF Replaces
<1>5. ASSUME NEW b \in Applications, b # a, NEW t, InHand(b, t)' PROVE InHand(b, t)
  <2>1. <<b, "script">> \in Th /\ <<b, "pages">> \in Th /\ <<b, "script">> # th /\ <<b, "pages">> # th
    BY <1>5, ThreadsAre
  <2>2. todo'[<<b, "script">>] = todo[<<b, "script">>] /\ todo'[<<b, "pages">>] = todo[<<b, "pages">>]
    BY <1>2, <2>1
  <2>3. script'[b] = script[b] /\ current' = current
    BY <1>5
  <2> QED
    BY <1>4, <1>5, <2>2, <2>3 DEF InHand
<1>6. ASSUME NEW t \in TabIds, InHand(a, t)' PROVE InHand(a, t) \/ t = u
  <2>1. <<a, "script">> \in Th /\ <<a, "pages">> \in Th
    BY ThreadsAre
  <2>2. \A k \in {<<a, "script">>, <<a, "pages">>} : Mentions(todo'[k], t) => Mentions(todo[k], t) \/ Mentions(c, t)
    BY <1>2, <2>1
  <2>3. \/ current[a] = t \/ script'[a].tab = t \/ SetFor(stack', a, t)
        \/ Mentions(todo'[<<a, "script">>], t) \/ Mentions(todo'[<<a, "pages">>], t)
    BY <1>6 DEF InHand
  <2> QED
    BY <1>3, <2>2, <2>3 DEF InHand
<1>7. made \in Nat /\ made' \in Nat
  BY DEF ServerTypes
<1>8. \A i \in 1..made : i \in 1..made'
  BY <1>7
<1>9. /\ \A b \in Applications : \A t \in TabIds : InHand(b, t) => \E i \in 1..made : Tabs[i] = t
      /\ \A b, d \in Applications : \A t \in TabIds : InHand(b, t) /\ InHand(d, t) => b = d
  BY DEF Owned
<1> HIDE DEF Th
<1>10. \A b \in Applications : \A t \in TabIds : InHand(b, t) => \E i \in 1..made' : Tabs[i] = t
  BY <1>8, <1>9
<1>11. ASSUME NEW b \in Applications, NEW t \in TabIds, InHand(b, t)'
       PROVE  \E i \in 1..made' : Tabs[i] = t
  BY <1>5, <1>6, <1>10, <1>11
<1>12. ASSUME NEW b \in Applications, NEW t \in TabIds, InHand(b, t)', b # a PROVE ~InHand(a, t)'
  <2>1. InHand(b, t)
    BY <1>5, <1>12
  <2>2. ~InHand(a, t) /\ t # u
    BY <1>9, <1>12, <2>1
  <2> QED
    BY <1>6, <2>2
<1>13. ASSUME NEW b \in Applications, NEW d \in Applications, NEW t \in TabIds, InHand(b, t)', InHand(d, t)'
       PROVE  b = d
  <2>1. CASE b = a \/ d = a
    BY <1>12, <1>13, <2>1
  <2>2. CASE b # a /\ d # a
    BY <1>5, <1>9, <1>13, <2>2
  <2> QED
    BY <2>1, <2>2
<1>14. Owned'
  BY <1>11, <1>13 DEF Owned
<1>15. ASSUME NEW t \in TabIds, NEW b \in Applications, SetFor(stack', a, t), InHand(b, t) PROVE b = a
  <2>1. t = u
    BY <1>15
  <2> QED
    BY <1>9, <1>15, <2>1
<1> QED
  BY <1>14, <1>15

\* What was followed still is, when the client and its stream stay.
LEMMA FollowedKept ==
  ASSUME Followed, UNCHANGED <<latest, link, box, fresh, overwritten, tabs>>, crossed \subseteq crossed',
         \A t \in TabIds \ crossed' : \A y : Ends(t, y) => Ends(t, y)'
  PROVE  Followed'
<1>1. SUFFICES ASSUME link' = "streaming", NEW t \in TabIds \ crossed', Told(t)'
               PROVE  \E w, y : Way(t, w, y)' /\ Ends(t, y)'
  BY DEF Followed
<1>2. link = "streaming" /\ t \in TabIds \ crossed /\ Told(t)
  BY <1>1 DEF Told
<1>3. PICK w, y : Way(t, w, y) /\ Ends(t, y)
  BY <1>2 DEF Followed
<1>4. Way(t, w, y)'
  BY <1>3 DEF Way
<1> QED
  BY <1>3, <1>4

\* A script or a page replaces the tab of its application by u.
LEMMA ReplacesFollows ==
  ASSUME ConfigurationInv, ConfigurationInv', FollowingInv, NEW a \in Applications,
         NEW th \in {<<a, "script">>, <<a, "pages">>}, todo[th] = <<>>,
         NEW c, Configuration!Changed(a, th, c), Replaces(a, c), NEW u,
         \A t : SetFor(stack', a, t) => t = u,
         UNCHANGED <<current, latest, link, box, fresh, overwritten, tabs>>,
         \A b \in Applications : b # a => script'[b] = script[b],
         script'[a] = script[a] \/ (script'[a].busy /\ script'[a].tab \in {u, NoTab}),
         th = <<a, "pages">> => script' = script,
         th = <<a, "script">> => script'[a].busy,
         made <= made',
         u \in TabIds => InHand(a, u) \/ ((\E i \in 1..made' : Tabs[i] = u) /\ \A b \in Applications : ~InHand(b, u))
  PROVE  FollowingInv'
<1>1. /\ ServerTypes /\ ServerTypes' /\ SettingInv /\ StreamStarts /\ Followed
      /\ OneEntryEach(stack) /\ Owned /\ OneThread /\ Replacing
  BY DEF ConfigurationInv, FollowingInv, SettingInv
<1>2. \A t \in TabIds : script'[a].tab = t => t = u \/ script[a].tab = t
  BY ConfigurationAssumption DEF TabIds
<1>3. /\ Owned'
      /\ \A t \in TabIds : \A b \in Applications : SetFor(stack', a, t) /\ InHand(b, t) => b = a
  BY <1>1, <1>2, ReplacesOwned
<1>4. /\ OneThread'
      /\ \A k \in Configuration!Threads : Replacement(todo'[k])
      /\ \A t \in TabIds \ crossed' : \A y : Ends(t, y) => Ends(t, y)'
  BY <1>1, <1>3, ReplacesLeads
<1>5. crossed \subseteq crossed' /\ OneEntryEach(stack')
  BY DEF Configuration!Changed, Replaces
<1>6. Followed'
  BY <1>1, <1>4, <1>5, FollowedKept
<1>7. ASSUME NEW b \in Applications, ~script'[b].busy PROVE todo'[<<b, "script">>] = <<>>
  <2>1. <<b, "script">> # th /\ script'[b] = script[b]
    <3>1. CASE b = a
      BY <1>7, <3>1
    <3>2. CASE b # a
      BY <3>2
    <3> QED
      BY <3>1, <3>2
  <2>2. todo'[<<b, "script">>] = todo[<<b, "script">>]
    BY <1>1, <2>1, ThreadsAre DEF Configuration!Changed, ServerTypes
  <2> QED
    BY <1>1, <1>7, <2>1, <2>2 DEF Replacing
<1>8. Replacing'
  <2>1. Configuration!Threads' = Configuration!Threads
    BY DEF Configuration!Threads
  <2> QED
    BY <1>4, <1>7, <2>1 DEF Replacing
<1>9. StreamStarts'
  BY <1>1 DEF StreamStarts
<1> QED
  BY <1>3, <1>4, <1>5, <1>6, <1>8, <1>9 DEF FollowingInv, SettingInv

\* Nothing more is in hand.
LEMMA OwnedKept ==
  ASSUME Owned, made' = made,
         \A a \in Applications : \A t \in TabIds : InHand(a, t)' => InHand(a, t)
  PROVE  Owned'
BY DEF Owned

LEMMA ApplicationFollows ==
  ASSUME ConfigurationInv, ConfigurationInv', FollowingInv, NEW a \in Applications,
         \/ Configuration!SetTab(a) \/ Configuration!UnsetTab(a) \/ Configuration!TabAssigned(a)
         \/ Configuration!PagePublished(a) \/ Configuration!PageUnpublished(a)
  PROVE  FollowingInv'
<1>1. /\ ServerTypes /\ ServerTypes' /\ crossed \subseteq TabIds
      /\ SettingInv /\ StreamStarts /\ Followed
      /\ OneEntryEach(stack) /\ Owned /\ OneThread /\ Replacing
  BY DEF ConfigurationInv, FollowingInv, SettingInv, WayTypes
<1>2. /\ current \in [Applications -> TabIds \cup {NoTab}]
      /\ script \in [Applications -> [busy : BOOLEAN, tab : TabIds \cup {NoTab}]]
      /\ todo \in [Configuration!Threads -> Seq(Configuration!Changes)]
      /\ made \in 0..Len(Tabs)
  BY <1>1 DEF ServerTypes
<1>3. UNCHANGED <<latest, link, box, fresh, overwritten, tabs>>
  BY DEF Configuration!SetTab, Configuration!UnsetTab, Configuration!TabAssigned,
         Configuration!PagePublished, Configuration!PageUnpublished,
         Configuration!forwardVars, Configuration!clientVars
<1>4. NoTab \notin TabIds
  BY ConfigurationAssumption DEF TabIds
<1>5. CASE Configuration!SetTab(a)
  <2> DEFINE u == Tabs[made + 1]
             th == <<a, "script">>
  <2>1. /\ ~script[a].busy /\ made < Len(Tabs) /\ made' = made + 1 /\ Configuration!Push(a, u, th)
        /\ script' = [script EXCEPT ![a] = [busy |-> TRUE, tab |-> u]]
        /\ UNCHANGED current
    BY <1>5 DEF Configuration!SetTab
  <2>2. Tabs \in Seq(TabIds) /\ Distinct(Tabs) /\ Len(Tabs) \in Nat
    <3>1. Tabs \in Seq(TabIds) /\ Distinct(Tabs)
      BY ConfigurationAssumption DEF TabIds
    <3> QED
      BY <3>1
  <2>3. made + 1 \in 1..Len(Tabs) /\ made + 1 \in 1..made' /\ made <= made'
    BY <1>2, <2>1, <2>2
  <2>4. u \in TabIds /\ \A i \in 1..made : Tabs[i] # u
    <3>1. \A i \in 1..made : i \in 1..Len(Tabs) /\ i # made + 1
      BY <1>2, <2>2
    <3> QED
      BY <2>2, <2>3, <3>1 DEF Distinct
  <2>5. \A b \in Applications : ~InHand(b, u)
    BY <1>1, <2>4 DEF Owned
  <2>6. \E i \in 1..made' : Tabs[i] = u
    BY <2>3
  <2> HIDE DEF u
  <2>7. /\ todo[th] = <<>> /\ script'[a] = [busy |-> TRUE, tab |-> u]
        /\ \A b \in Applications : b # a => script'[b] = script[b]
    BY <1>1, <1>2, <2>1 DEF Replacing
  <2>8. script'[a].busy /\ script'[a].tab = u
    BY <2>7
  <2> DEFINE c == Append(Configuration!Replaced(a), Configuration!Open(u))
  <2>9. /\ Configuration!Changed(a, th, c) /\ Replaces(a, c)
        /\ \A t : SetFor(stack', a, t) <=> t = u
    BY <1>1, <2>1, <2>4, PushReplaces
  <2>10. th \in {<<a, "script">>, <<a, "pages">>} /\ th # <<a, "pages">>
    OBVIOUS
  <2> HIDE DEF c, th
  <2>11. /\ \A t : SetFor(stack', a, t) => t = u
         /\ script'[a] = script[a] \/ (script'[a].busy /\ script'[a].tab \in {u, NoTab})
         /\ th = <<a, "pages">> => script' = script
         /\ th = <<a, "script">> => script'[a].busy
         /\ u \in TabIds => InHand(a, u) \/ ((\E i \in 1..made' : Tabs[i] = u) /\ \A b \in Applications : ~InHand(b, u))
    BY <2>5, <2>6, <2>8, <2>9, <2>10
  <2>12. UNCHANGED <<current, latest, link, box, fresh, overwritten, tabs>>
    BY <1>3, <2>1
  <2> QED
    BY <2>3, <2>7, <2>9, <2>10, <2>11, <2>12, ReplacesFollows
<1>6. CASE Configuration!UnsetTab(a)
  <2> DEFINE th == <<a, "script">>
             c == Configuration!Replaced(a)
  <2>1. /\ ~script[a].busy /\ Configuration!Undo(a, th)
        /\ script' = [script EXCEPT ![a] = [busy |-> TRUE, tab |-> NoTab]]
        /\ UNCHANGED <<current, made>>
    BY <1>6 DEF Configuration!UnsetTab
  <2>2. /\ todo[th] = <<>> /\ script'[a] = [busy |-> TRUE, tab |-> NoTab]
        /\ \A b \in Applications : b # a => script'[b] = script[b]
    BY <1>1, <1>2, <2>1 DEF Replacing
  <2>3. script'[a].busy /\ script'[a].tab = NoTab /\ made <= made'
    BY <1>2, <2>1, <2>2
  <2>4. Configuration!Changed(a, th, c) /\ Replaces(a, c) /\ \A t : ~SetFor(stack', a, t)
    BY <1>1, <2>1, UndoReplaces
  <2>5. th \in {<<a, "script">>, <<a, "pages">>} /\ th # <<a, "pages">>
    OBVIOUS
  <2> HIDE DEF c, th
  <2> QED
    BY <1>3, <1>4, <2>1, <2>2, <2>3, <2>4, <2>5, ReplacesFollows
<1>7. CASE Configuration!PagePublished(a)
  <2> DEFINE u == current[a]
             th == <<a, "pages">>
             c == Append(Configuration!Replaced(a), Configuration!Open(u))
  <2>1. /\ todo[th] = <<>> /\ u # NoTab /\ Configuration!Push(a, u, th)
        /\ UNCHANGED <<current, script, made>>
    BY <1>7 DEF Configuration!PagePublished
  <2>2. u \in TabIds /\ InHand(a, u) /\ made <= made'
    BY <1>2, <2>1 DEF InHand
  <2>3. /\ Configuration!Changed(a, th, c) /\ Replaces(a, c)
        /\ \A t : SetFor(stack', a, t) <=> t = u
    <3> HIDE DEF u
    <3> QED
      BY <1>1, <2>1, <2>2, PushReplaces
  <2>4. th \in {<<a, "script">>, <<a, "pages">>} /\ th # <<a, "script">>
    OBVIOUS
  <2>5. script'[a] = script[a] /\ \A b \in Applications : script'[b] = script[b]
    BY <2>1
  <2> HIDE DEF c, th, u
  <2>6. /\ \A t : SetFor(stack', a, t) => t = u
        /\ script'[a] = script[a] \/ (script'[a].busy /\ script'[a].tab \in {u, NoTab})
        /\ th = <<a, "pages">> => script' = script
        /\ th = <<a, "script">> => script'[a].busy
        /\ u \in TabIds => InHand(a, u) \/ ((\E i \in 1..made' : Tabs[i] = u) /\ \A b \in Applications : ~InHand(b, u))
    <3>1. \A t : SetFor(stack', a, t) => t = u
      BY <2>3
    <3>2. th # <<a, "script">> /\ script' = script /\ script'[a] = script[a]
      BY <2>1, <2>4
    <3>3. InHand(a, u)
      BY <2>2
    <3>4. u \in TabIds => InHand(a, u) \/ ((\E i \in 1..made' : Tabs[i] = u) /\ \A b \in Applications : ~InHand(b, u))
      BY <3>3
    <3>5. /\ script'[a] = script[a] \/ (script'[a].busy /\ script'[a].tab \in {u, NoTab})
          /\ th = <<a, "pages">> => script' = script
      BY <3>2
    <3>6. th = <<a, "script">> => script'[a].busy
      BY <3>2
    <3> QED
      BY <3>1, <3>4, <3>5, <3>6
  <2>7. UNCHANGED <<current, latest, link, box, fresh, overwritten, tabs>>
    BY <1>3, <2>1
  <2> QED
    BY <2>1, <2>2, <2>3, <2>4, <2>5, <2>6, <2>7, ReplacesFollows
<1>8. CASE Configuration!PageUnpublished(a)
  <2> DEFINE th == <<a, "pages">>
             c == Configuration!Replaced(a)
  <2>1. /\ todo[th] = <<>> /\ Configuration!Undo(a, th)
        /\ UNCHANGED <<current, script, made>>
    BY <1>8 DEF Configuration!PageUnpublished
  <2>2. Configuration!Changed(a, th, c) /\ Replaces(a, c) /\ \A t : ~SetFor(stack', a, t)
    BY <1>1, <2>1, UndoReplaces
  <2>3. th \in {<<a, "script">>, <<a, "pages">>} /\ th # <<a, "script">>
    OBVIOUS
  <2>4. made <= made' /\ script'[a] = script[a] /\ \A b \in Applications : script'[b] = script[b]
    BY <1>2, <2>1
  <2> HIDE DEF c, th
  <2> QED
    BY <1>3, <1>4, <2>1, <2>2, <2>3, <2>4, ReplacesFollows
<1>9. CASE Configuration!TabAssigned(a)
  <2>1. /\ script[a].busy /\ todo[<<a, "script">>] = <<>>
        /\ current' = [current EXCEPT ![a] = script[a].tab]
        /\ script' = [script EXCEPT ![a] = Configuration!Idle]
        /\ UNCHANGED <<stack, todo, made, crossed>>
    BY <1>9 DEF Configuration!TabAssigned
  <2>2. /\ current'[a] = script[a].tab /\ script'[a].tab = NoTab
        /\ \A b \in Applications : b # a => current'[b] = current[b] /\ script'[b] = script[b]
    BY <1>2, <2>1 DEF Configuration!Idle
  <2>3. ASSUME NEW b \in Applications, NEW t \in TabIds, InHand(b, t)' PROVE InHand(b, t)
    BY <1>4, <2>1, <2>2, <2>3 DEF InHand
  <2>4. Owned'
    BY <1>1, <2>1, <2>3, OwnedKept
  <2>5. \A t : \A y : Ends(t, y) => Ends(t, y)'
    BY <2>1 DEF Ends, SetNow
  <2>6. Followed'
    BY <1>1, <1>3, <2>1, <2>5, FollowedKept
  <2>7. OneEntryEach(stack') /\ OneThread' /\ StreamStarts'
    BY <1>1, <1>3, <2>1 DEF OneThread, StreamStarts
  <2>8. Replacing'
    <3>1. \A b \in Applications : ~script'[b].busy => todo[<<b, "script">>] = <<>>
      BY <1>1, <2>1, <2>2 DEF Replacing
    <3> QED
      BY <1>1, <2>1, <3>1 DEF Replacing
  <2> QED
    BY <2>4, <2>6, <2>7, <2>8 DEF FollowingInv, SettingInv
<1> QED
  BY <1>5, <1>6, <1>7, <1>8, <1>9

LEMMA TailIs ==
  ASSUME NEW s \in Seq(Configuration!Changes), s # <<>>
  PROVE  /\ Head(s) \in Configuration!Changes /\ Tail(s) \in Seq(Configuration!Changes)
         /\ Head(s) = s[1] /\ Len(s) \in Nat /\ 1 \in 1..Len(s)
         /\ Len(Tail(s)) = Len(s) - 1
         /\ \A i \in 1..(Len(s) - 1) : i + 1 \in 1..Len(s) /\ Tail(s)[i] = s[i + 1]
         /\ \A x : Holds(s, x) <=> x = Head(s) \/ Holds(Tail(s), x)
         /\ \A t : Mentions(s, t) <=> Head(s).tab = t \/ Mentions(Tail(s), t)
<1> DEFINE C == Configuration!Changes
           u == Tail(s)
<1> HIDE DEF C
<1>1. s \in Seq(C) /\ Len(s) \in Nat /\ Len(s) # 0
  BY DEF C
<1>2. /\ Head(s) \in C /\ u \in Seq(C) /\ Head(s) = s[1] /\ 1 \in 1..Len(s) /\ Len(u) = Len(s) - 1
      /\ \A i \in 1..(Len(s) - 1) : i + 1 \in 1..Len(s) /\ u[i] = s[i + 1]
  BY <1>1
<1> HIDE DEF u
<1>3. \A i \in 1..Len(s) : i = 1 \/ (i - 1 \in 1..Len(u) /\ s[i] = u[i - 1])
  <2>1. ASSUME NEW i \in 1..Len(s), i # 1 PROVE i - 1 \in 1..Len(u) /\ s[i] = u[i - 1]
    <3>1. i - 1 \in 1..(Len(s) - 1) /\ (i - 1) + 1 = i
      BY <1>1, <2>1
    <3> QED
      BY <1>2, <3>1
  <2> QED
    BY <2>1
<1>4. \A x : Holds(s, x) <=> x = s[1] \/ Holds(u, x)
  <2>1. \A x : Holds(u, x) => Holds(s, x)
    BY <1>2 DEF Holds
  <2>2. \A x : Holds(s, x) => x = s[1] \/ Holds(u, x)
    BY <1>3 DEF Holds
  <2>3. Holds(s, s[1])
    BY <1>2 DEF Holds
  <2> QED
    BY <2>1, <2>2, <2>3
<1>5. \A r, t : Mentions(r, t) <=> \E x : Holds(r, x) /\ x.tab = t
  BY DEF Mentions, Holds
<1>6. \A t : Mentions(s, t) <=> s[1].tab = t \/ Mentions(u, t)
  BY <1>4, <1>5
<1> QED
  BY <1>1, <1>2, <1>4, <1>6 DEF C, u

\* A message of one change.
LEMMA SingleFlips ==
  ASSUME NEW c \in Configuration!Changes, NEW t, NEW x, NEW y,
         c.tab # t => x = y,
         c = Configuration!Open(t) => x = 0 /\ y = 1,
         c = Configuration!Close(t) => x = 1 /\ y = 0
  PROVE  Flips(t, x, <<c>>, y)
<1> DEFINE m == <<c>>
           ids == [i \in 1..Len(m) |-> m[i].tab]
<1>1. Len(m) = 1 /\ m[1] = c
  OBVIOUS
<1> HIDE DEF m
<1>2. Once(ids, t)
  <2>1. Len(ids) = 1
    BY <1>1
  <2> QED
    BY <2>1 DEF Once
<1>3. /\ ~Mentions(m, t) => x = y
      /\ Holds(m, Configuration!Open(t)) => x = 0 /\ y = 1
      /\ Holds(m, Configuration!Close(t)) => x = 1 /\ y = 0
  BY <1>1 DEF Mentions, Holds
<1>4. Flips(t, x, m, y)
  <2> HIDE DEF ids
  <2> QED
    BY <1>2, <1>3 DEF Flips, ids
<1> QED
  BY <1>4 DEF m

\* A message without a change of the tab.
LEMMA NothingFlips ==
  ASSUME NEW m \in Seq(Configuration!Changes), NEW t, ~Mentions(m, t), NEW x
  PROVE  Flips(t, x, m, x)
<1> DEFINE ids == [i \in 1..Len(m) |-> m[i].tab]
<1>1. Len(m) \in Nat /\ Len(ids) = Len(m)
  OBVIOUS
<1>2. Once(ids, t)
  BY <1>1 DEF Once, Mentions
<1>3. ~Holds(m, Configuration!Open(t)) /\ ~Holds(m, Configuration!Close(t))
  BY MentionsAre
<1> HIDE DEF ids
<1> QED
  BY <1>2, <1>3 DEF Flips, ids

\* One thread only has a change of the tab left to notify.
LEMMA OnlyThread ==
  ASSUME SettingInv, NEW t \in TabIds \ crossed,
         NEW th \in Configuration!Threads, NEW k \in Configuration!Threads,
         Mentions(todo[th], t), Mentions(todo[k], t)
  PROVE  k = th
<1>1. PICK a \in Applications : th = <<a, "script">> \/ th = <<a, "pages">>
  BY ThreadsAre
<1>2. PICK b \in Applications : k = <<b, "script">> \/ k = <<b, "pages">>
  BY ThreadsAre
<1>3. InHand(a, t) /\ InHand(b, t)
  BY <1>1, <1>2 DEF InHand
<1>4. a = b
  BY <1>3 DEF SettingInv, Owned
<1>5. ~(Mentions(todo[<<a, "script">>], t) /\ Mentions(todo[<<a, "pages">>], t))
  BY EmptyMentions DEF SettingInv, OneThread
<1> QED
  BY <1>1, <1>2, <1>4, <1>5

\* A notification moves the first change left to a thread into the channel.
LEMMA NotifyEnds ==
  ASSUME SettingInv, NEW t \in TabIds \ crossed, NEW th \in Configuration!Threads,
         NEW s \in Seq(Configuration!Changes), s = todo[th], s # <<>>,
         todo' = [todo EXCEPT ![th] = Tail(s)], DOMAIN todo = Configuration!Threads,
         UNCHANGED stack, NEW y \in {0, 1}, Ends(t, y)
  PROVE  \E z \in {0, 1} : Flips(t, y, <<Head(s)>>, z) /\ Ends(t, z)'
<1> DEFINE Th == Configuration!Threads
           c == Head(s)
           u == Tail(s)
<1>1. /\ c \in Configuration!Changes /\ u \in Seq(Configuration!Changes)
      /\ c = s[1] /\ Len(s) \in Nat /\ 1 \in 1..Len(s) /\ Len(u) = Len(s) - 1
      /\ \A i \in 1..(Len(s) - 1) : i + 1 \in 1..Len(s) /\ u[i] = s[i + 1]
      /\ \A x : Holds(s, x) <=> x = c \/ Holds(u, x)
      /\ \A v : Mentions(s, v) <=> c.tab = v \/ Mentions(u, v)
  BY TailIs
<1>2. todo'[th] = u /\ \A k \in Th : k # th => todo'[k] = todo[k]
  OBVIOUS
<1>3. /\ Len(s) <= 2
      /\ \A i \in 1..Len(s) : s[i].kind = "open" => i = Len(s)
      /\ \A i \in 1..Len(s) : s[i].kind = "close" => i = 1
  BY DEF SettingInv, Replacing, Replacement
<1>4. SetNow(t)' = SetNow(t)
  BY DEF SetNow
<1>5. /\ (\A k \in Th : ~Mentions(todo[k], t)) => y = SetNow(t)
      /\ \A k \in Th : Mentions(todo[k], t) =>
           /\ y = IF Holds(todo[k], Configuration!Close(t)) THEN 1 ELSE 0
           /\ SetNow(t) = IF Holds(todo[k], Configuration!Open(t)) THEN 1 ELSE 0
  BY DEF Ends
<1>6. Mentions(s, t) => \A k \in Th : k # th => ~Mentions(todo[k], t)
  BY OnlyThread
<1>7. \A z : Ends(t, z)' <=>
        /\ (\A k \in Th : ~Mentions(todo'[k], t)) => z = SetNow(t)
        /\ \A k \in Th : Mentions(todo'[k], t) =>
             /\ z = IF Holds(todo'[k], Configuration!Close(t)) THEN 1 ELSE 0
             /\ SetNow(t) = IF Holds(todo'[k], Configuration!Open(t)) THEN 1 ELSE 0
  BY <1>4 DEF Ends
<1>8. /\ c.tab \in TabIds /\ c.kind \in {"open", "close"}
      /\ \A v : c = Configuration!Open(v) <=> c.kind = "open" /\ c.tab = v
      /\ \A v : c = Configuration!Close(v) <=> c.kind = "close" /\ c.tab = v
  BY <1>1, ChangesAre
<1>9. ~Holds(u, Configuration!Close(t))
  <2>1. ASSUME NEW i \in 1..Len(u), u[i] = Configuration!Close(t) PROVE FALSE
    <3>1. i + 1 \in 1..Len(s) /\ s[i + 1] = Configuration!Close(t)
      BY <1>1, <2>1
    <3>2. i + 1 = 1
      BY <1>3, <3>1 DEF Configuration!Close
    <3> QED
      BY <3>2
  <2> QED
    BY <2>1 DEF Holds
<1>10. th \in Th /\ todo[th] = s
  OBVIOUS
<1> HIDE DEF c, u, Th
<1>11. CASE c.tab # t
  <2>1. /\ Mentions(u, t) <=> Mentions(s, t)
        /\ Holds(u, Configuration!Open(t)) <=> Holds(s, Configuration!Open(t))
        /\ Holds(u, Configuration!Close(t)) <=> Holds(s, Configuration!Close(t))
    BY <1>1, <1>8, <1>11
  <2>2. \A k \in Th : /\ Mentions(todo'[k], t) <=> Mentions(todo[k], t)
                      /\ Holds(todo'[k], Configuration!Open(t)) <=> Holds(todo[k], Configuration!Open(t))
                      /\ Holds(todo'[k], Configuration!Close(t)) <=> Holds(todo[k], Configuration!Close(t))
    BY <1>2, <1>10, <2>1
  <2>3. Ends(t, y)'
    BY <1>5, <1>7, <2>2
  <2>4. Flips(t, y, <<c>>, y)
    BY <1>1, <1>8, <1>11, SingleFlips
  <2> QED
    BY <2>3, <2>4 DEF c
<1>12. CASE c.tab = t
  <2>1. /\ Mentions(s, t) /\ \A k \in Th : k # th => ~Mentions(todo'[k], t)
        /\ y = IF Holds(s, Configuration!Close(t)) THEN 1 ELSE 0
        /\ SetNow(t) = IF Holds(s, Configuration!Open(t)) THEN 1 ELSE 0
    BY <1>1, <1>2, <1>5, <1>6, <1>10, <1>12
  <2>2. Mentions(u, t) <=> Holds(u, Configuration!Open(t))
    BY <1>1, <1>9, MentionsAre
  <2>3. CASE c = Configuration!Close(t)
    <3>1. y = 1 /\ (Holds(s, Configuration!Open(t)) <=> Holds(u, Configuration!Open(t)))
      BY <1>1, <1>8, <2>1, <2>3
    <3>2. Ends(t, 0)'
      <4>1. \A k \in Th : Mentions(todo'[k], t) => k = th
        BY <2>1
      <4>2. todo'[th] = u /\ th \in Th
        BY <1>2, <1>10
      <4>3. CASE Mentions(u, t)
        <5>1. SetNow(t) = 1 /\ Holds(u, Configuration!Open(t))
          BY <2>1, <2>2, <3>1, <4>3
        <5> QED
          BY <1>7, <1>9, <4>1, <4>2, <4>3, <5>1
      <4>4. CASE ~Mentions(u, t)
        <5>1. SetNow(t) = 0
          BY <2>1, <2>2, <3>1, <4>4
        <5>2. \A k \in Th : ~Mentions(todo'[k], t)
          BY <4>1, <4>2, <4>4
        <5> QED
          BY <1>7, <5>1, <5>2
      <4> QED
        BY <4>3, <4>4
    <3>3. Flips(t, y, <<c>>, 0)
      BY <1>1, <1>8, <1>12, <2>3, <3>1, SingleFlips
    <3> QED
      BY <3>2, <3>3 DEF c
  <2>4. CASE c = Configuration!Open(t)
    <3>1. Len(s) = 1
      BY <1>1, <1>3, <1>8, <2>4
    <3>2. ~Holds(u, Configuration!Open(t)) /\ ~Holds(u, Configuration!Close(t))
      BY <1>1, <3>1 DEF Holds
    <3>3. y = 0 /\ SetNow(t) = 1
      BY <1>1, <1>8, <2>1, <2>4, <3>2
    <3>4. \A k \in Th : ~Mentions(todo'[k], t)
      BY <1>2, <2>1, <2>2, <3>2
    <3>5. Ends(t, 1)'
      BY <1>7, <3>3, <3>4
    <3>6. Flips(t, y, <<c>>, 1)
      BY <1>1, <1>8, <1>12, <2>4, <3>3, SingleFlips
    <3> QED
      BY <3>5, <3>6 DEF c
  <2> QED
    BY <1>8, <1>12, <2>3, <2>4
<1> QED
  BY <1>11, <1>12

LEMMA NotifyFollows ==
  ASSUME ConfigurationInv, FollowingInv, NEW th \in Configuration!Threads, Configuration!Notify(th)
  PROVE  FollowingInv'
<1> DEFINE C == Configuration!Changes
           s == todo[th]
           u == Tail(s)
<1>1. /\ s # <<>> /\ latest' = <<Head(s)>>
      /\ overwritten' = overwritten \union Configuration!ToSet(latest)
      /\ todo' = [todo EXCEPT ![th] = u]
      /\ UNCHANGED <<stack, current, script, made, link, box, fresh, tabs, crossed>>
  BY DEF Configuration!Notify, Configuration!clientVars
<1>2. /\ SettingInv /\ OneEntryEach(stack) /\ Owned /\ OneThread /\ Replacing /\ StreamStarts /\ Followed
      /\ ServerTypes /\ WayTypes
  BY DEF ConfigurationInv, FollowingInv, SettingInv
<1>3. todo \in [Configuration!Threads -> Seq(C)] /\ s \in Seq(C) /\ latest \in Seq(C) /\ box \in Seq(Seq(C))
  BY <1>2 DEF ServerTypes, WayTypes
<1>4. /\ Len(s) \in Nat /\ Len(u) = Len(s) - 1
      /\ \A i \in 1..(Len(s) - 1) : i + 1 \in 1..Len(s) /\ u[i] = s[i + 1]
      /\ \A t : Mentions(u, t) => Mentions(s, t)
  BY <1>1, <1>3, TailIs
<1>5. todo'[th] = u /\ \A k \in Configuration!Threads : k # th => todo'[k] = todo[k]
  BY <1>1, <1>3
<1>6. \A k \in Configuration!Threads : \A t : Mentions(todo'[k], t) => Mentions(todo[k], t)
  BY <1>4, <1>5
<1>7. \A k \in Configuration!Threads : todo[k] = <<>> => k # th /\ todo'[k] = <<>>
  BY <1>1, <1>5
<1>8. Owned'
  <2>1. ASSUME NEW a \in Applications, NEW t \in TabIds, InHand(a, t)' PROVE InHand(a, t)
    BY <1>1, <1>6, <2>1, ThreadsAre DEF InHand
  <2> QED
    BY <1>1, <1>2, <2>1, OwnedKept
<1>9. OneThread'
  <2>1. SUFFICES ASSUME NEW a \in Applications, NEW t \in TabIds \ crossed
                 PROVE  /\ Mentions(todo'[<<a, "script">>], t) => todo'[<<a, "pages">>] = <<>>
                        /\ Mentions(todo'[<<a, "pages">>], t) => todo'[<<a, "script">>] = <<>>
    BY <1>1 DEF OneThread
  <2>2. <<a, "script">> \in Configuration!Threads /\ <<a, "pages">> \in Configuration!Threads
    BY ThreadsAre
  <2> QED
    BY <1>2, <1>6, <1>7, <2>2 DEF OneThread
<1>10. Replacing'
  <2>1. Replacement(u)
    <3>1. /\ Len(s) <= 2
          /\ \A i \in 1..Len(s) : s[i].kind = "open" => i = Len(s)
          /\ \A i \in 1..Len(s) : s[i].kind = "close" => i = 1
      BY <1>2 DEF Replacing, Replacement
    <3> HIDE DEF u, s
    <3> QED
      BY <1>4, <3>1 DEF Replacement
  <2>2. \A k \in Configuration!Threads : Replacement(todo'[k])
    BY <1>2, <1>5, <2>1 DEF Replacing
  <2>3. \A a \in Applications : ~script[a].busy => todo'[<<a, "script">>] = <<>>
    BY <1>2, <1>7, ThreadsAre DEF Replacing
  <2>4. Configuration!Threads' = Configuration!Threads
    BY DEF Configuration!Threads
  <2> QED
    BY <1>1, <2>2, <2>3, <2>4 DEF Replacing
<1>11. Followed'
  <2>1. SUFFICES ASSUME link = "streaming", NEW t \in TabIds \ crossed, Told(t)'
                 PROVE  \E w, y : Way(t, w, y)' /\ Ends(t, y)'
    BY <1>1 DEF Followed
  <2>2. Told(t) /\ ~Mentions(latest, t)
    <3>1. /\ Configuration!Open(t) \notin overwritten' /\ Configuration!Close(t) \notin overwritten'
      BY <2>1 DEF Told
    <3>2. \A x : Holds(latest, x) => x \in Configuration!ToSet(latest)
      BY <1>3, HeldIs, SameOperators
    <3>3. ~Holds(latest, Configuration!Open(t)) /\ ~Holds(latest, Configuration!Close(t))
      BY <1>1, <3>1, <3>2
    <3> QED
      BY <1>1, <1>3, <3>1, <3>3, MentionsAre DEF Told
  <2>3. PICK w, y : Way(t, w, y) /\ Ends(t, y)
    BY <1>2, <2>1, <2>2 DEF Followed
  <2>4. /\ y \in {0, 1} /\ w \in [0..Len(box) -> {0, 1}]
        /\ ~fresh => Once(tabs, t)
        /\ w[0] = IF fresh THEN 0 ELSE Level(tabs, t)
        /\ \A i \in 1..Len(box) : Flips(t, w[i - 1], box[i], w[i])
        /\ w[Len(box)] = y
    BY <2>2, <2>3 DEF Way, Flips
  <2>5. PICK z \in {0, 1} : Flips(t, y, <<Head(s)>>, z) /\ Ends(t, z)'
    <3>1. DOMAIN todo = Configuration!Threads /\ UNCHANGED stack
      BY <1>1, <1>3
    <3> QED
      BY <1>1, <1>2, <1>3, <2>1, <2>3, <2>4, <3>1, NotifyEnds
  <2>6. Way(t, w, z)'
    BY <1>1, <2>4, <2>5 DEF Way
  <2> QED
    BY <2>5, <2>6
<1>12. StreamStarts' /\ OneEntryEach(stack')
  BY <1>1, <1>2 DEF StreamStarts
<1> QED
  BY <1>8, <1>9, <1>10, <1>11, <1>12 DEF FollowingInv, SettingInv

\* The server stays, and nothing that did not cross crosses, or nothing of it
\* is left to notify.
LEMMA SettingKept ==
  ASSUME SettingInv, UNCHANGED <<stack, current, script, todo, made>>,
         crossed \subseteq crossed' \/ \A t \in TabIds \ crossed' : \A th \in Configuration!Threads : ~Mentions(todo[th], t)
  PROVE  SettingInv'
<1>1. OneEntryEach(stack) /\ Owned /\ OneThread /\ Replacing
  BY DEF SettingInv
<1>2. Owned'
  BY <1>1 DEF Owned, InHand
<1>3. OneThread'
  BY <1>1, ThreadsAre DEF OneThread
<1>4. Replacing'
  <2>1. Configuration!Threads' = Configuration!Threads
    BY DEF Configuration!Threads
  <2> QED
    BY <1>1, <2>1 DEF Replacing
<1> QED
  BY <1>1, <1>2, <1>3, <1>4 DEF SettingInv

LEMMA EndsKept ==
  ASSUME NEW t, NEW y, Ends(t, y), UNCHANGED <<stack, todo>>
  PROVE  Ends(t, y)'
<1>1. Configuration!Threads' = Configuration!Threads
  BY DEF Configuration!Threads
<1>2. SetNow(t)' = SetNow(t)
  BY DEF SetNow
<1> QED
  BY <1>1, <1>2 DEF Ends

\* The message of the goroutine follows those on their way.
LEMMA ForwardFollows ==
  ASSUME ConfigurationInv, FollowingInv, Configuration!Forward
  PROVE  FollowingInv'
<1> DEFINE C == Configuration!Changes
           Q == Seq(C)
<1>1. /\ latest # <<>> /\ latest' = <<>>
      /\ box' = IF link = "none" THEN box ELSE Append(box, latest)
      /\ UNCHANGED <<stack, current, script, todo, made, overwritten, link, fresh, tabs, crossed>>
  BY DEF Configuration!Forward, Configuration!serverVars
<1>2. SettingInv /\ StreamStarts /\ Followed /\ WayTypes
  BY DEF ConfigurationInv, FollowingInv
<1>3. latest \in Q /\ box \in Seq(Q)
  BY <1>2 DEF WayTypes
<1>4. SettingInv'
  BY <1>1, <1>2, SettingKept
<1> HIDE DEF Q
<1>5. /\ Len(box) \in Nat /\ Len(Append(box, latest)) = Len(box) + 1
      /\ Append(box, latest)[Len(box) + 1] = latest
      /\ \A i \in 1..Len(box) : Append(box, latest)[i] = box[i]
  BY <1>3, AppendProperties
<1>6. StreamStarts'
  <2>1. link = "streaming" => box' # <<>>
    BY <1>1, <1>5
  <2> QED
    BY <1>1, <1>2, <2>1 DEF StreamStarts
<1>7. Followed'
  <2>1. SUFFICES ASSUME link = "streaming", NEW t \in TabIds \ crossed, Told(t)
                 PROVE  \E w, y : Way(t, w, y)' /\ Ends(t, y)'
    BY <1>1 DEF Followed, Told
  <2>2. PICK w, y : Way(t, w, y) /\ Ends(t, y)
    BY <1>2, <2>1 DEF Followed
  <2>3. /\ y \in {0, 1} /\ w \in [0..Len(box) -> {0, 1}]
        /\ ~fresh => Once(tabs, t)
        /\ w[0] = IF fresh THEN 0 ELSE Level(tabs, t)
        /\ \A i \in 1..Len(box) : Flips(t, w[i - 1], box[i], w[i])
        /\ Flips(t, w[Len(box)], latest, y)
    BY <2>2 DEF Way
  <2> DEFINE n == Len(box)
  <2>4. /\ Len(box') = n + 1 /\ box'[n + 1] = latest
        /\ \A i \in 1..n : box'[i] = box[i]
    BY <1>1, <1>5, <2>1
  <2>5. PICK v \in [0..(n + 1) -> {0, 1}] : v[n + 1] = y /\ \A i \in 0..n : v[i] = w[i]
    <3> DEFINE u == [i \in 0..(n + 1) |-> IF i = n + 1 THEN y ELSE w[i]]
    <3>1. u \in [0..(n + 1) -> {0, 1}] /\ u[n + 1] = y /\ \A i \in 0..n : u[i] = w[i]
      BY <1>5, <2>3
    <3> HIDE DEF u
    <3> QED
      BY <3>1
  <2>6. \A i \in 1..(n + 1) : Flips(t, v[i - 1], box'[i], v[i])
    <3>1. ASSUME NEW i \in 1..n PROVE Flips(t, v[i - 1], box'[i], v[i])
      <4>1. i - 1 \in 0..n /\ i \in 0..n
        BY <1>5
      <4> QED
        BY <2>3, <2>4, <2>5, <4>1
    <3>2. Flips(t, v[(n + 1) - 1], box'[n + 1], v[n + 1])
      <4>1. (n + 1) - 1 = n /\ n \in 0..n
        BY <1>5
      <4> QED
        BY <2>3, <2>4, <2>5, <4>1
    <3>3. \A i \in 1..(n + 1) : i \in 1..n \/ i = n + 1
      BY <1>5
    <3> QED
      BY <3>1, <3>2, <3>3
  <2>7. Flips(t, y, <<>>, y)
    <3>1. <<>> \in Seq(Configuration!Changes)
      OBVIOUS
    <3> QED
      BY <3>1, EmptyMentions, NothingFlips
  <2>8. v[0] = w[0]
    BY <1>5, <2>5
  <2>9. Way(t, v, y)'
    <3>1. /\ v \in [0..Len(box') -> {0, 1}] /\ y \in {0, 1}
          /\ \A i \in 1..Len(box') : Flips(t, v[i - 1], box'[i], v[i])
          /\ Flips(t, v[Len(box')], latest', y)
      BY <1>1, <2>3, <2>4, <2>5, <2>6, <2>7
    <3>2. /\ ~fresh' => Once(tabs', t)
          /\ v[0] = IF fresh' THEN 0 ELSE Level(tabs', t)
      BY <1>1, <2>3, <2>8
    <3> QED
      BY <3>1, <3>2 DEF Way
  <2>10. Ends(t, y)'
    BY <1>1, <2>2, EndsKept
  <2> QED
    BY <2>9, <2>10
<1> QED
  BY <1>4, <1>6, <1>7 DEF FollowingInv

\* A tab that is set is in one entry of the stack.
LEMMA SetOnce ==
  ASSUME ServerTypes, SettingInv, NEW t \in TabIds
  PROVE  /\ stack \in Seq(Configuration!StackEntries) /\ Len(stack) \in Nat
         /\ \A i \in 1..Len(stack) : stack[i].app \in Applications
         /\ \A i, j \in 1..Len(stack) : stack[i].tab = t /\ stack[j].tab = t => i = j
         /\ (\E a \in Applications : SetFor(stack, a, t)) <=> \E i \in 1..Len(stack) : stack[i].tab = t
<1>1. /\ stack \in Seq(Configuration!StackEntries) /\ Len(stack) \in Nat
      /\ \A i \in 1..Len(stack) : stack[i].app \in Applications
  <2>1. stack \in Seq(Configuration!StackEntries)
    BY DEF ServerTypes
  <2>2. \A i \in 1..Len(stack) : stack[i] \in Configuration!StackEntries
    BY <2>1
  <2> QED
    BY <2>1, <2>2 DEF Configuration!StackEntries
<1>2. ASSUME NEW i \in 1..Len(stack), NEW j \in 1..Len(stack), stack[i].tab = t, stack[j].tab = t
      PROVE  i = j
  <2>1. InHand(stack[i].app, t) /\ InHand(stack[j].app, t)
    BY <1>2 DEF InHand, SetFor
  <2>2. stack[i].app \in Applications /\ stack[j].app \in Applications
    BY <1>1
  <2>3. stack[i].app = stack[j].app
    BY <2>1, <2>2 DEF SettingInv, Owned
  <2> QED
    BY <2>3 DEF SettingInv, OneEntryEach
<1>3. (\E a \in Applications : SetFor(stack, a, t)) <=> \E i \in 1..Len(stack) : stack[i].tab = t
  BY <1>1 DEF SetFor
<1> QED
  BY <1>1, <1>2, <1>3

\* The snapshot opens every tab that is set.
LEMMA SnapshotFlips ==
  ASSUME ServerTypes, SettingInv, NEW t \in TabIds
  PROVE  Flips(t, 0, Configuration!Snapshot, SetNow(t))
<1> DEFINE m == Configuration!Snapshot
           ids == [i \in 1..Len(m) |-> m[i].tab]
<1>1. Len(stack) \in Nat
  BY SetOnce
<1>2. m = [i \in 1..Len(stack) |-> Configuration!Open(stack[i].tab)]
  BY DEF Configuration!Snapshot
<1>3. Len(m) = Len(stack) /\ \A i \in 1..Len(stack) : m[i] = Configuration!Open(stack[i].tab)
  BY <1>1, <1>2
<1> HIDE DEF m
<1>4. \A v : Configuration!Open(v).tab = v /\ Configuration!Open(v).kind = "open"
             /\ Configuration!Close(v).kind = "close"
  BY DEF Configuration!Open, Configuration!Close
<1>5. \A i \in 1..Len(stack) : m[i].tab = stack[i].tab /\ m[i].kind = "open"
  BY <1>3, <1>4
<1>6. \A i, j \in 1..Len(stack) : stack[i].tab = t /\ stack[j].tab = t => i = j
  BY SetOnce
<1>7. Once(ids, t)
  <2>1. Len(ids) = Len(stack) /\ \A i \in 1..Len(stack) : ids[i] = stack[i].tab
    BY <1>1, <1>3, <1>5
  <2> HIDE DEF ids
  <2> QED
    BY <1>6, <2>1 DEF Once
<1>8. (\E a \in Applications : SetFor(stack, a, t)) <=> Mentions(m, t)
  BY <1>3, <1>5, SetOnce DEF Mentions
<1>9. Holds(m, Configuration!Open(t)) => Mentions(m, t)
  BY <1>4 DEF Holds, Mentions
<1>10. ~Holds(m, Configuration!Close(t))
  <2>1. "open" # "close"
    OBVIOUS
  <2> QED
    BY <1>3, <1>4, <1>5, <2>1 DEF Holds
<1> HIDE DEF ids
<1>11. Flips(t, 0, m, SetNow(t))
  BY <1>7, <1>8, <1>9, <1>10 DEF Flips, SetNow, ids
<1> QED
  BY <1>11 DEF m

LEMMA SnapshotFollows ==
  ASSUME ConfigurationInv, FollowingInv, Configuration!SendSnapshot
  PROVE  FollowingInv'
<1> DEFINE C == Configuration!Changes
           Q == Seq(C)
           snap == Configuration!Snapshot
           under == Configuration!UnderWay \union Configuration!ToSet(box)
<1>1. /\ link = "subscribed" /\ link' = "streaming" /\ box' = <<snap>> \o box
      /\ crossed' = Configuration!TabsIn(under)
      /\ UNCHANGED <<stack, current, script, todo, made, latest, fresh, tabs>>
  BY DEF Configuration!SendSnapshot, Configuration!serverVars
<1>2. SettingInv /\ StreamStarts /\ WayTypes /\ ServerTypes
  BY DEF ConfigurationInv, FollowingInv
<1>3. /\ latest \in Q /\ box \in Seq(Q) /\ fresh
      /\ \A i \in 1..Len(box) : box[i] \in Q
  <2>1. latest \in Q /\ box \in Seq(Q) /\ fresh
    BY <1>1, <1>2 DEF WayTypes, StreamStarts
  <2> HIDE DEF Q
  <2> QED
    BY <2>1
<1>4. ASSUME NEW t, t \notin crossed'
      PROVE  /\ \A th \in Configuration!Threads : ~Mentions(todo[th], t)
             /\ ~Mentions(latest, t) /\ \A i \in 1..Len(box) : ~Mentions(box[i], t)
  <2>1. \A s \in under : ~Mentions(s, t)
    BY <1>1, <1>4 DEF Configuration!TabsIn, Mentions
  <2>2. latest \in under /\ \A th \in Configuration!Threads : todo[th] \in under
    BY DEF Configuration!UnderWay
  <2>3. \A i \in 1..Len(box) : box[i] \in under
    <3> HIDE DEF Q
    <3>1. \A i \in 1..Len(box) : Holds(box, box[i])
      BY DEF Holds
    <3>2. \A i \in 1..Len(box) : box[i] \in ToSet(box)
      BY <1>3, <3>1, HeldIs
    <3> QED
      BY <3>2, SameOperators
  <2> QED
    BY <2>1, <2>2, <2>3
<1> HIDE DEF under
<1>5. SettingInv'
  BY <1>1, <1>2, <1>4, SettingKept
<1>6. /\ Len(box) \in Nat /\ Len(box') = Len(box) + 1 /\ box'[1] = snap
      /\ \A i \in 1..Len(box) : box'[i + 1] = box[i]
  <2>1. snap \in Q
    <3>1. \A i \in 1..Len(stack) : stack[i].tab \in Configuration!TabIds
      <4>1. stack \in Seq(Configuration!StackEntries)
        BY <1>2 DEF ServerTypes
      <4>2. \A i \in 1..Len(stack) : stack[i] \in Configuration!StackEntries
        BY <4>1
      <4> QED
        BY <4>2 DEF Configuration!StackEntries
    <3>2. \A i \in 1..Len(stack) : Configuration!Open(stack[i].tab) \in C
      BY <3>1 DEF Configuration!Open, Configuration!Changes
    <3>3. Len(stack) \in Nat
      BY <1>2 DEF ServerTypes
    <3> HIDE DEF C
    <3> QED
      BY <3>2, <3>3 DEF Configuration!Snapshot
  <2> DEFINE h == <<snap>>
  <2> HIDE DEF Q, snap
  <2>2. h \in Seq(Q) /\ Len(h) = 1 /\ h[1] = snap /\ Len(box) \in Nat
    BY <1>3, <2>1
  <2> HIDE DEF h
  <2>3. Len(h \o box) = Len(h) + Len(box)
        /\ \A i \in 1..(Len(h) + Len(box)) : (h \o box)[i] = IF i <= Len(h) THEN h[i] ELSE box[i - Len(h)]
    BY <1>3, <2>2, ConcatProperties
  <2>4. ASSUME NEW i \in 1..Len(box) PROVE (h \o box)[i + 1] = box[i]
    <3>1. i + 1 \in 1..(Len(h) + Len(box)) /\ ~(i + 1 <= Len(h)) /\ i + 1 - Len(h) = i
      BY <2>2
    <3> QED
      BY <2>3, <3>1
  <2>5. (h \o box)[1] = snap
    BY <2>2, <2>3
  <2>6. box' = h \o box
    BY <1>1 DEF h
  <2> QED
    BY <2>2, <2>3, <2>4, <2>5, <2>6
<1> HIDE DEF snap
<1>7. StreamStarts'
  <2>1. box' # <<>>
    BY <1>6
  <2> QED
    BY <1>1, <2>1 DEF StreamStarts
<1>8. Followed'
  <2>1. SUFFICES ASSUME NEW t \in TabIds \ crossed' PROVE \E w, y : Way(t, w, y)' /\ Ends(t, y)'
    BY DEF Followed
  <2>2. PICK y \in {0, 1} : y = SetNow(t)
    BY DEF SetNow
  <2> DEFINE n == Len(box)
  <2>3. Flips(t, 0, snap, y)
    BY <1>2, <2>2, SnapshotFlips DEF snap
  <2>4. Ends(t, y)
    BY <1>4, <2>1, <2>2 DEF Ends
  <2>5. PICK v \in [0..(n + 1) -> {0, 1}] : v[0] = 0 /\ \A i \in 1..(n + 1) : v[i] = y
    <3> DEFINE u == [i \in 0..(n + 1) |-> IF i = 0 THEN 0 ELSE y]
    <3>1. u \in [0..(n + 1) -> {0, 1}] /\ u[0] = 0 /\ \A i \in 1..(n + 1) : u[i] = y
      BY <1>6, <2>2
    <3> HIDE DEF u
    <3> QED
      BY <3>1
  <2>6. \A i \in 1..(n + 1) : Flips(t, v[i - 1], box'[i], v[i])
    <3>1. Flips(t, v[1 - 1], box'[1], v[1])
      <4>1. 1 \in 1..(n + 1)
        BY <1>6
      <4> QED
        BY <1>6, <2>3, <2>5, <4>1
    <3>2. ASSUME NEW i \in 1..n PROVE Flips(t, v[(i + 1) - 1], box'[i + 1], v[i + 1])
      <4>1. i \in 1..(n + 1) /\ i + 1 \in 1..(n + 1) /\ (i + 1) - 1 = i
        BY <1>6
      <4>2. Flips(t, y, box[i], y)
        BY <1>3, <1>4, <2>1, NothingFlips
      <4> QED
        BY <1>6, <2>5, <4>1, <4>2
    <3>3. ASSUME NEW i \in 1..(n + 1), i # 1 PROVE Flips(t, v[i - 1], box'[i], v[i])
      <4>1. i - 1 \in 1..n /\ (i - 1) + 1 = i
        BY <1>6, <3>3
      <4>2. Flips(t, v[((i - 1) + 1) - 1], box'[(i - 1) + 1], v[(i - 1) + 1])
        BY <3>2, <4>1
      <4> QED
        BY <4>1, <4>2
    <3> QED
      BY <3>1, <3>3
  <2>7. Flips(t, y, latest, y)
    BY <1>3, <1>4, <2>1, NothingFlips
  <2>8. v[n + 1] = y
    BY <1>6, <2>5
  <2>9. Way(t, v, y)'
    <3>1. /\ v \in [0..Len(box') -> {0, 1}] /\ y \in {0, 1}
          /\ \A i \in 1..Len(box') : Flips(t, v[i - 1], box'[i], v[i])
          /\ Flips(t, v[Len(box')], latest', y)
      BY <1>1, <1>6, <2>5, <2>6, <2>7, <2>8
    <3>2. /\ ~fresh' => Once(tabs', t)
          /\ v[0] = IF fresh' THEN 0 ELSE Level(tabs', t)
      BY <1>1, <1>3, <2>5
    <3> QED
      BY <3>1, <3>2 DEF Way
  <2>10. Ends(t, y)'
    BY <1>1, <2>4, EndsKept
  <2> QED
    BY <2>9, <2>10
<1> QED
  BY <1>5, <1>7, <1>8 DEF FollowingInv

LEMMA ConnectionFollows ==
  ASSUME FollowingInv, Configuration!Subscribe \/ Configuration!Disconnect
  PROVE  FollowingInv'
<1>1. /\ UNCHANGED <<stack, current, script, todo, made, crossed>>
      /\ \/ link' = "subscribed" /\ fresh' = TRUE
         \/ link' = "none"
  BY DEF Configuration!Subscribe, Configuration!Disconnect, Configuration!serverVars
<1>2. SettingInv'
  BY <1>1, SettingKept DEF FollowingInv
<1>3. StreamStarts' /\ Followed'
  BY <1>1 DEF StreamStarts, Followed
<1> QED
  BY <1>2, <1>3 DEF FollowingInv

\* The client handles a message, from the level its tabs have.
LEMMA ReceiveFollows ==
  ASSUME ConfigurationInv, FollowingInv, Configuration!Receive
  PROVE  FollowingInv'
<1> DEFINE Q == Seq(Configuration!Changes)
           bar == Configuration!Sidebar
           start == IF fresh THEN Configuration!Cleared(bar) ELSE bar
           new == Configuration!Processed(start, Head(box))
<1>1. /\ link = "streaming" /\ box # <<>> /\ box' = Tail(box) /\ fresh' = FALSE
      /\ tabs' = new.tabs
      /\ UNCHANGED <<stack, current, script, todo, made, latest, overwritten, link, crossed>>
  BY DEF Configuration!Receive, Configuration!ShowSidebar, Configuration!serverVars, Configuration!forwardVars
<1>2. SettingInv /\ Followed /\ WayTypes /\ SidebarOk(bar) /\ bar.tabs = tabs
  BY DEF ConfigurationInv, FollowingInv, SidebarTypes, Configuration!Sidebar
<1>3. box \in Seq(Q)
  BY <1>2 DEF WayTypes
<1>4. /\ Len(box) \in Nat /\ Len(box) # 0 /\ Head(box) = box[1] /\ Head(box) \in Q
      /\ Len(box') = Len(box) - 1
      /\ \A i \in 1..(Len(box) - 1) : box'[i] = box[i + 1]
  <2> HIDE DEF Q
  <2> QED
    BY <1>1, <1>3
<1>5. bar \in Bars /\ start \in Bars
  BY <1>2, BarsAre, ClearedOk
<1> HIDE DEF bar
<1>6. SettingInv' /\ StreamStarts'
  BY <1>1, <1>2, SettingKept DEF StreamStarts
<1>7. Followed'
  <2>1. SUFFICES ASSUME NEW t \in TabIds \ crossed, Told(t) PROVE \E w, y : Way(t, w, y)' /\ Ends(t, y)'
    BY <1>1 DEF Followed, Told
  <2>2. PICK w, y : Way(t, w, y) /\ Ends(t, y)
    BY <1>1, <1>2, <2>1 DEF Followed
  <2>3. /\ y \in {0, 1} /\ w \in [0..Len(box) -> {0, 1}]
        /\ ~fresh => Once(tabs, t)
        /\ w[0] = IF fresh THEN 0 ELSE Level(tabs, t)
        /\ \A i \in 1..Len(box) : Flips(t, w[i - 1], box[i], w[i])
        /\ Flips(t, w[Len(box)], latest, y)
    BY <2>2 DEF Way
  <2>4. Once(start.tabs, t) /\ Level(start.tabs, t) = w[0]
    BY <1>2, <1>5, <2>3, ClearedShows
  <2>5. Flips(t, w[0], Head(box), w[1])
    <3>1. 1 \in 1..Len(box) /\ 1 - 1 = 0
      BY <1>4
    <3> QED
      BY <1>4, <2>3, <3>1
  <2> HIDE DEF start
  <2>6. Once(new.tabs, t) /\ Level(new.tabs, t) = w[1]
    <3>1. Flips(t, Level(start.tabs, t), Head(box), w[1])
      BY <2>4, <2>5
    <3>2. Head(box) \in Seq(Configuration!Changes) /\ start \in Bars /\ t \in TabIds
      BY <1>4, <1>5, <2>1
    <3> HIDE DEF new
    <3> QED
      BY <2>4, <3>1, <3>2, ProcessedShows DEF new
  <2> DEFINE n == Len(box) - 1
  <2>7. PICK v \in [0..n -> {0, 1}] : \A i \in 0..n : v[i] = w[i + 1]
    <3> DEFINE u == [i \in 0..n |-> w[i + 1]]
    <3>1. u \in [0..n -> {0, 1}] /\ \A i \in 0..n : u[i] = w[i + 1]
      BY <1>4, <2>3
    <3> HIDE DEF u
    <3> QED
      BY <3>1
  <2>8. \A i \in 1..n : Flips(t, v[i - 1], box'[i], v[i])
    <3>1. SUFFICES ASSUME NEW i \in 1..n PROVE Flips(t, v[i - 1], box'[i], v[i])
      OBVIOUS
    <3>2. i - 1 \in 0..n /\ i \in 0..n /\ (i - 1) + 1 = i /\ i + 1 \in 1..Len(box) /\ (i + 1) - 1 = i
      BY <1>4
    <3>3. Flips(t, w[(i + 1) - 1], box[i + 1], w[i + 1])
      BY <2>3, <3>2
    <3>4. v[i - 1] = w[(i - 1) + 1] /\ v[i] = w[i + 1] /\ box'[i] = box[i + 1]
      BY <1>4, <2>7, <3>2
    <3> QED
      BY <3>2, <3>3, <3>4
  <2>9. v[n] = w[Len(box)] /\ v[0] = w[1] /\ Len(box') = n
    <3>1. n \in 0..n /\ 0 \in 0..n /\ n + 1 = Len(box) /\ 0 + 1 = 1
      BY <1>4
    <3> QED
      BY <1>4, <2>7, <3>1
  <2>10. Way(t, v, y)'
    <3>1. /\ v \in [0..Len(box') -> {0, 1}] /\ y \in {0, 1}
          /\ \A i \in 1..Len(box') : Flips(t, v[i - 1], box'[i], v[i])
          /\ Flips(t, v[Len(box')], latest', y)
      BY <1>1, <2>3, <2>7, <2>8, <2>9
    <3>2. /\ ~fresh' => Once(tabs', t)
          /\ v[0] = IF fresh' THEN 0 ELSE Level(tabs', t)
      BY <1>1, <2>6, <2>9
    <3> QED
      BY <3>1, <3>2 DEF Way
  <2>11. Ends(t, y)'
    BY <1>1, <2>2, EndsKept
  <2> QED
    BY <2>10, <2>11
<1> QED
  BY <1>6, <1>7 DEF FollowingInv

\* What the user does leaves the tabs of applications as they are.
LEMMA UserFollows ==
  ASSUME ConfigurationInv, FollowingInv,
         Configuration!OpenOwn \/ Configuration!CloseOwn \/ \E t : Configuration!SelectTab(t)
  PROVE  FollowingInv'
<1> DEFINE bar == Configuration!Sidebar
<1>1. UNCHANGED <<stack, current, script, todo, made, latest, overwritten, link, crossed, box, fresh>>
  BY DEF Configuration!OpenOwn, Configuration!CloseOwn, Configuration!SelectTab,
         Configuration!serverVars, Configuration!forwardVars
<1>2. SettingInv /\ StreamStarts /\ Followed /\ SidebarOk(bar) /\ bar.tabs = tabs
  BY DEF ConfigurationInv, FollowingInv, SidebarTypes, Configuration!Sidebar
<1> HIDE DEF bar
<1>3. tabs \in Seq(AllTabs) /\ Own \in AllTabs /\ Holds(tabs, mode) /\ Len(tabs) \in Nat
  <2>1. tabs \in Seq(AllTabs) /\ Holds(tabs, mode)
    BY <1>2 DEF SidebarOk, bar, Configuration!Sidebar
  <2>2. Own \in AllTabs
    BY DEF AllTabs
  <2> HIDE DEF AllTabs
  <2> QED
    BY <2>1, <2>2
<1>4. ASSUME NEW t \in TabIds, Once(tabs, t)
      PROVE  Once(tabs', t) /\ Level(tabs', t) = Level(tabs, t)
  <2>1. t # Own
    BY TabFacts
  <2>2. CASE Configuration!OpenOwn
    <3> DEFINE at == Configuration!IndexOf(tabs, mode)
    <3>1. tabs' = InsertAt(tabs, at + 1, Own)
      BY <2>2, SameOperators DEF Configuration!OpenOwn
    <3>2. at \in 1..Len(tabs)
      BY <1>3, IndexOfIs
    <3> HIDE DEF at
    <3>3. at + 1 \in 1..(Len(tabs) + 1)
      BY <1>3, <3>2
    <3>4. Once(tabs', t)
      BY <1>3, <1>4, <2>1, <3>1, <3>3, InsertOnce
    <3>5. \A y : Holds(tabs', y) <=> Holds(tabs, y) \/ y = Own
      BY <1>3, <3>1, <3>3, InsertKeeps
    <3> QED
      BY <2>1, <3>4, <3>5 DEF Level
  <2>3. CASE Configuration!CloseOwn
    <3> DEFINE at == Configuration!IndexOf(tabs, Own)
    <3>1. Holds(tabs, Own) /\ tabs' = Configuration!Closed(bar, Own).tabs
      BY <2>3, SameOperators DEF Configuration!CloseOwn, Configuration!ShowSidebar, bar
    <3>2. at \in 1..Len(tabs) /\ tabs[at] = Own /\ at # 0
      BY <1>3, <3>1, IndexOfIs
    <3>3. tabs' = RemoveAt(tabs, at)
      BY <1>2, <3>1, <3>2, SameOperators DEF Configuration!Closed
    <3> HIDE DEF at
    <3>4. Once(tabs', t) /\ (Holds(tabs', t) => Holds(tabs, t))
      BY <1>3, <1>4, <3>2, <3>3, RemoveOnce
    <3>5. Holds(tabs, t) => Holds(tabs', t)
      BY <1>3, <2>1, <3>2, <3>3, RemoveKeeps
    <3> QED
      BY <3>4, <3>5 DEF Level
  <2>4. CASE \E u : Configuration!SelectTab(u)
    <3>1. tabs' = tabs
      BY <2>4 DEF Configuration!SelectTab
    <3> QED
      BY <1>4, <3>1
  <2> QED
    BY <2>2, <2>3, <2>4
<1>5. SettingInv' /\ StreamStarts'
  BY <1>1, <1>2, SettingKept DEF StreamStarts
<1>6. Followed'
  <2>1. SUFFICES ASSUME link = "streaming", NEW t \in TabIds \ crossed, Told(t)
                 PROVE  \E w, y : Way(t, w, y)' /\ Ends(t, y)'
    BY <1>1 DEF Followed, Told
  <2>2. PICK w, y : Way(t, w, y) /\ Ends(t, y)
    BY <1>2, <2>1 DEF Followed
  <2>3. Way(t, w, y)'
    BY <1>1, <1>4, <2>1, <2>2 DEF Way
  <2>4. Ends(t, y)'
    BY <1>1, <2>2, EndsKept
  <2> QED
    BY <2>3, <2>4
<1> QED
  BY <1>5, <1>6 DEF FollowingInv

LEMMA FollowingStays == ASSUME FollowingInv, UNCHANGED configurationVars PROVE FollowingInv'
<1>1. /\ UNCHANGED <<stack, current, script, todo, made, latest, link, box, fresh>>
      /\ UNCHANGED <<tabs, overwritten, crossed>>
  BY DEF configurationVars
<1>2. SettingInv' /\ StreamStarts'
  BY <1>1, SettingKept DEF FollowingInv, StreamStarts
<1>3. \A t \in TabIds \ crossed' : \A y : Ends(t, y) => Ends(t, y)'
  BY <1>1, EndsKept
<1>4. Followed'
  BY <1>1, <1>3, FollowedKept DEF FollowingInv
<1> QED
  BY <1>2, <1>4 DEF FollowingInv

LEMMA FollowingStarts == ASSUME Configuration!ConfigurationInit PROVE FollowingInv
<1>1. /\ stack = <<>> /\ current = [a \in Applications |-> NoTab]
      /\ script = [a \in Applications |-> Configuration!Idle]
      /\ todo = [th \in Configuration!Threads |-> <<>>]
      /\ link = "none"
  BY DEF Configuration!ConfigurationInit
<1>2. OneEntryEach(stack) /\ \A a, t : ~SetFor(stack, a, t)
  BY <1>1 DEF OneEntryEach, SetFor
<1>3. /\ \A th \in Configuration!Threads : todo[th] = <<>>
      /\ \A a \in Applications : todo[<<a, "script">>] = <<>> /\ todo[<<a, "pages">>] = <<>>
  BY <1>1, ThreadsAre
<1>4. ASSUME NEW a \in Applications, NEW t \in TabIds PROVE ~InHand(a, t)
  <2>1. t # NoTab
    BY ConfigurationAssumption DEF TabIds
  <2>2. current[a] = NoTab /\ script[a].tab = NoTab
    BY <1>1 DEF Configuration!Idle
  <2> QED
    BY <1>2, <1>3, <2>1, <2>2, EmptyMentions DEF InHand
<1>5. Owned /\ OneThread
  BY <1>3, <1>4 DEF Owned, OneThread
<1>6. Replacing
  <2>1. Replacement(<<>>)
    BY DEF Replacement
  <2> QED
    BY <1>3, <2>1 DEF Replacing
<1>7. StreamStarts /\ Followed
  BY <1>1 DEF StreamStarts, Followed
<1> QED
  BY <1>2, <1>5, <1>6, <1>7 DEF FollowingInv, SettingInv

LEMMA FollowingMoves ==
  ASSUME ConfigurationInv, ConfigurationInv', FollowingInv, Configuration!ConfigurationNext
  PROVE  FollowingInv'
BY ApplicationFollows, NotifyFollows, ForwardFollows, SnapshotFollows, ConnectionFollows,
   ReceiveFollows, UserFollows DEF Configuration!ConfigurationNext

\* For any tabs of any applications, the changes of a tab on their way lead, one
\* after the other, from what the client shows to what is set, unless one was
\* overwritten or crossed another (configuration.go, grpc_watch.go).
THEOREM FollowingInductive == MCSpec => []FollowingInv
<1>1. MCInit => FollowingInv
  BY FollowingStarts DEF MCInit
<1>2. ASSUME ConfigurationInv, ConfigurationInv', FollowingInv,
             [MCNext]_<<restartVars, chatVars, configurationVars, about>>
      PROVE  FollowingInv'
  BY <1>2, PartsMove, FollowingMoves, FollowingStays
<1> QED
  BY <1>1, <1>2, ConfigurationInductive, PTL DEF MCSpec

LEMMA SameCount == \A S : Configuration!Cardinality(S) = Cardinality(S)
BY Zenon DEF Configuration!Cardinality, Cardinality

\* What is in a sequence once or not at all has that many places there.
LEMMA LevelCounts ==
  ASSUME NEW R, NEW s \in Seq(R), NEW t, Once(s, t)
  PROVE  Cardinality({i \in DOMAIN s : s[i] = t}) = Level(s, t)
<1> DEFINE places == {i \in DOMAIN s : s[i] = t}
<1>1. DOMAIN s = 1..Len(s)
  BY HeldIs
<1>2. CASE ~Holds(s, t)
  <2>1. places = {}
    BY <1>1, <1>2 DEF Holds
  <2> HIDE DEF places
  <2> QED
    BY <1>2, <2>1, FS_EmptySet DEF Level, places
<1>3. CASE Holds(s, t)
  <2>1. PICK i \in 1..Len(s) : s[i] = t
    BY <1>3 DEF Holds
  <2>2. places = {i}
    BY <1>1, <2>1 DEF Once
  <2> HIDE DEF places
  <2>3. Cardinality(places) = 1
    BY <2>2, FS_Singleton
  <2> QED
    BY <1>3, <2>3 DEF Level, places
<1> QED
  BY <1>2, <1>3

\* A client that received everything on its way shows each tab that is set once,
\* and no other, except for those with a change that was overwritten or that
\* crossed another, for any number of applications, tabs, pages and messages on
\* their way (configuration.go, grpc_watch.go, configurationStores.ts).
THEOREM TabsAreShown == MCSpec => []ShownUnlessMissed
<1>1. ASSUME ConfigurationInv, FollowingInv PROVE ShownUnlessMissed
  <2>1. /\ SettingInv /\ StreamStarts /\ Followed /\ ServerTypes
        /\ OneEntryEach(stack) /\ Owned
    BY <1>1 DEF ConfigurationInv, FollowingInv, SettingInv
  <2>2. SUFFICES ASSUME Configuration!CaughtUpClient, NEW t \in TabIds \ crossed, Told(t)
                 PROVE  Configuration!Shown(t) = Configuration!SetAs(t)
    BY SameOperators DEF ShownUnlessMissed, Configuration!ShownUnlessMissed, Told
  <2>3. /\ link = "streaming" /\ box = <<>> /\ latest = <<>>
        /\ \A th \in Configuration!Threads : todo[th] = <<>>
    BY <2>2 DEF Configuration!CaughtUpClient
  <2>4. PICK w, y : Way(t, w, y) /\ Ends(t, y)
    BY <2>1, <2>2, <2>3 DEF Followed
  <2>5. ~fresh /\ Len(box) = 0
    BY <2>1, <2>3 DEF StreamStarts
  <2>6. Once(tabs, t) /\ w[0] = Level(tabs, t) /\ Flips(t, w[0], latest, y)
    BY <2>4, <2>5 DEF Way
  <2>7. \A th \in Configuration!Threads : ~Mentions(todo[th], t)
    BY <2>3, EmptyMentions
  <2>8. Level(tabs, t) = SetNow(t)
    BY <2>3, <2>4, <2>6, <2>7, EmptyMentions DEF Flips, Ends
  <2>9. Configuration!Shown(t) = Level(tabs, t)
    <3>1. tabs \in Seq(AllTabs)
      BY <1>1 DEF ConfigurationInv, SidebarTypes, SidebarOk, Configuration!Sidebar
    <3> HIDE DEF AllTabs
    <3> QED
      BY <2>6, <3>1, LevelCounts, SameCount DEF Configuration!Shown
  <2>10. Configuration!SetAs(t) = SetNow(t)
    <3> DEFINE ids == [i \in 1..Len(stack) |-> stack[i].tab]
    <3>1. /\ stack \in Seq(Configuration!StackEntries) /\ Len(stack) \in Nat
          /\ \A i, j \in 1..Len(stack) : stack[i].tab = t /\ stack[j].tab = t => i = j
          /\ (\E a \in Applications : SetFor(stack, a, t)) <=> \E i \in 1..Len(stack) : stack[i].tab = t
      BY <2>1, <2>2, SetOnce
    <3>2. /\ Len(ids) = Len(stack) /\ DOMAIN ids = 1..Len(stack) /\ DOMAIN stack = 1..Len(stack)
          /\ \A i \in 1..Len(stack) : ids[i] = stack[i].tab
      BY <3>1
    <3>3. ids \in Seq({stack[i].tab : i \in 1..Len(stack)})
      BY <3>1
    <3> HIDE DEF ids
    <3>4. Once(ids, t)
      BY <3>1, <3>2 DEF Once
    <3>5. Cardinality({i \in DOMAIN ids : ids[i] = t}) = Level(ids, t)
      BY <3>3, <3>4, LevelCounts
    <3>6. {i \in DOMAIN ids : ids[i] = t} = {i \in DOMAIN stack : stack[i].tab = t}
      BY <3>2
    <3>7. Level(ids, t) = SetNow(t)
      BY <3>1, <3>2 DEF Level, Holds, SetNow
    <3> QED
      BY <3>5, <3>6, <3>7, SameCount DEF Configuration!SetAs
  <2> QED
    BY <2>8, <2>9, <2>10
<1> QED
  BY <1>1, ConfigurationInductive, FollowingInductive, PTL

-----------------------------------------------------------------------------
(* Numbering by order                                                      *)

\* The elements of I with a smaller key.
Below(I, key, i) == {j \in I : key[j] < key[i]}

Keyed(I, key) ==
  /\ IsFiniteSet(I) /\ \A i \in I : key[i] \in Int
  /\ \A i, j \in I : key[i] = key[j] => i = j

LEMMA SameNumber == \A S : Chat!Cardinality(S) = Cardinality(S)
BY Zenon DEF Chat!Cardinality, Cardinality

LEMMA BelowGrows ==
  ASSUME NEW I, NEW key, Keyed(I, key), NEW i \in I, NEW j \in I
  PROVE  /\ Cardinality(Below(I, key, i)) \in 0..(Cardinality(I) - 1) /\ Cardinality(I) \in Nat
         /\ key[i] < key[j] <=> Cardinality(Below(I, key, i)) < Cardinality(Below(I, key, j))
<1>1. IsFiniteSet(I) /\ Cardinality(I) \in Nat
  BY FS_CardinalityType DEF Keyed
<1>2. ASSUME NEW k \in I
      PROVE  /\ IsFiniteSet(Below(I, key, k)) /\ Cardinality(Below(I, key, k)) \in Nat
             /\ Cardinality(Below(I, key, k)) < Cardinality(I)
  <2>1. Below(I, key, k) \subseteq I /\ k \notin Below(I, key, k)
    BY DEF Below, Keyed
  <2>2. IsFiniteSet(Below(I, key, k)) /\ Cardinality(Below(I, key, k)) <= Cardinality(I)
        /\ (Cardinality(Below(I, key, k)) = Cardinality(I) => Below(I, key, k) = I)
    BY <1>1, <2>1, FS_Subset
  <2>3. Cardinality(Below(I, key, k)) \in Nat
    BY <2>2, FS_CardinalityType
  <2> QED
    BY <1>1, <2>1, <2>2, <2>3
<1>3. ASSUME NEW k \in I, NEW l \in I, key[k] < key[l]
      PROVE  Cardinality(Below(I, key, k)) < Cardinality(Below(I, key, l))
  <2>1. key[k] \in Int /\ key[l] \in Int /\ \A m \in I : key[m] \in Int
    BY DEF Keyed
  <2>2. Below(I, key, k) \subseteq Below(I, key, l) /\ k \in Below(I, key, l) /\ k \notin Below(I, key, k)
    BY <1>3, <2>1 DEF Below
  <2>3. /\ Cardinality(Below(I, key, k)) <= Cardinality(Below(I, key, l))
        /\ Cardinality(Below(I, key, k)) = Cardinality(Below(I, key, l)) => Below(I, key, k) = Below(I, key, l)
    BY <1>2, <2>2, FS_Subset
  <2> QED
    BY <1>2, <2>2, <2>3
<1>4. CASE i = j
  BY <1>1, <1>2, <1>4 DEF Keyed
<1>5. CASE i # j
  <2>1. key[i] \in Int /\ key[j] \in Int /\ key[i] # key[j]
    BY <1>5 DEF Keyed
  <2>2. key[i] < key[j] => Cardinality(Below(I, key, i)) < Cardinality(Below(I, key, j))
    BY <1>3
  <2>3. key[j] < key[i] => Cardinality(Below(I, key, j)) < Cardinality(Below(I, key, i))
    BY <1>3
  <2>4. Cardinality(Below(I, key, i)) \in Nat /\ Cardinality(Below(I, key, j)) \in Nat
        /\ Cardinality(Below(I, key, i)) < Cardinality(I)
    BY <1>2
  <2> QED
    BY <1>1, <2>1, <2>2, <2>3, <2>4
<1> QED
  BY <1>4, <1>5

\* Each number up to the number of elements is that of one of them.
LEMMA EachNumber ==
  ASSUME NEW I, NEW key, Keyed(I, key), NEW k \in 1..Cardinality(I)
  PROVE  \E i \in I : Cardinality(Below(I, key, i)) = k - 1
<1> DEFINE N == Cardinality(I)
           rank == [i \in I |-> Cardinality(Below(I, key, i))]
<1>1. IsFiniteSet(I) /\ N \in Nat
  BY FS_CardinalityType DEF Keyed
<1>2. \A i \in I : Cardinality(Below(I, key, i)) \in 0..(N - 1)
  BY BelowGrows
<1>3. ASSUME NEW i \in I, NEW j \in I, i # j
      PROVE  Cardinality(Below(I, key, i)) # Cardinality(Below(I, key, j))
  <2>1. key[i] # key[j] /\ key[i] \in Int /\ key[j] \in Int
    BY <1>3 DEF Keyed
  <2>2. key[i] < key[j] <=> Cardinality(Below(I, key, i)) < Cardinality(Below(I, key, j))
    BY BelowGrows
  <2>3. key[j] < key[i] <=> Cardinality(Below(I, key, j)) < Cardinality(Below(I, key, i))
    BY BelowGrows
  <2>4. Cardinality(Below(I, key, i)) \in 0..(N - 1) /\ Cardinality(Below(I, key, j)) \in 0..(N - 1)
    BY <1>2
  <2> HIDE DEF N
  <2> QED
    BY <1>1, <2>1, <2>2, <2>3, <2>4
<1>4. rank \in [I -> 0..(N - 1)] /\ \A i, j \in I : rank[i] = rank[j] => i = j
  BY <1>2, <1>3
<1> HIDE DEF rank, N
<1>5. rank \in Injection(I, 0..(N - 1))
  BY <1>4 DEF Injection, IsInjective
<1>6. IsFiniteSet(0..(N - 1)) /\ Cardinality(0..(N - 1)) = N
  <2>1. 0 \in Int /\ N - 1 \in Int
    BY <1>1
  <2>2. /\ IsFiniteSet(0..(N - 1))
        /\ Cardinality(0..(N - 1)) = IF 0 > N - 1 THEN 0 ELSE (N - 1) - 0 + 1
    BY <2>1, FS_Interval
  <2> QED
    BY <1>1, <2>2
<1>7. rank \in Surjection(I, 0..(N - 1))
  BY <1>5, <1>6, FS_Injection DEF N
<1>8. k - 1 \in 0..(N - 1)
  BY <1>1 DEF N
<1>9. \E i \in I : rank[i] = k - 1
  BY <1>7, <1>8 DEF Surjection
<1> QED
  BY <1>9 DEF rank

\* What the client sorts and keeps.
LEMMA SortedIs ==
  ASSUME NEW s \in Seq(Messages), Distinct(s)
  PROVE  /\ Chat!Sorted(s) \in Seq(Messages) /\ Len(Chat!Sorted(s)) = Len(s)
         /\ ToSet(Chat!Sorted(s)) = ToSet(s)
         /\ \A i, j \in 1..Len(s) : i < j => Chat!Sorted(s)[i] < Chat!Sorted(s)[j]
<1> DEFINE I == 1..Len(s)
           c == [k \in I |-> CHOOSE i \in I : Cardinality(Below(I, s, i)) = k - 1]
           t == Chat!Sorted(s)
<1>1. DOMAIN s = I /\ Len(s) \in Nat /\ \A i \in I : s[i] \in Messages /\ s[i] \in Int
  <2>1. DOMAIN s = I /\ Len(s) \in Nat /\ \A i \in I : s[i] \in Messages
    BY LenProperties
  <2>2. \A m \in Messages : m \in Int
    BY ChatAssumption
  <2> HIDE DEF I
  <2> QED
    BY <2>1, <2>2
<1>2. IsFiniteSet(I) /\ Cardinality(I) = Len(s)
  BY <1>1, FS_Interval
<1>3. Keyed(I, s)
  BY <1>1, <1>2 DEF Keyed, Distinct
<1>4. ASSUME NEW i \in I
      PROVE  {j \in DOMAIN s : s[j] < s[i] \/ (s[j] = s[i] /\ j < i)} = Below(I, s, i)
  BY <1>1 DEF Below, Distinct
<1>5. t = [k \in I |-> s[CHOOSE i \in I : Cardinality(Below(I, s, i)) = k - 1]]
  <2> DEFINE before(i) == {j \in DOMAIN s : s[j] < s[i] \/ (s[j] = s[i] /\ j < i)}
             theirs(k) == CHOOSE i \in DOMAIN s : Chat!Cardinality(before(i)) = k - 1
             ours(k) == CHOOSE i \in I : Cardinality(Below(I, s, i)) = k - 1
  <2>1. t = [k \in DOMAIN s |-> s[theirs(k)]]
    BY DEF Chat!Sorted
  <2>2. \A i \in I : before(i) = Below(I, s, i)
    BY <1>4
  <2>3. ASSUME NEW k \in I PROVE theirs(k) = ours(k)
    <3> HIDE DEF before, I, t
    <3>1. \A i : (i \in DOMAIN s /\ Chat!Cardinality(before(i)) = k - 1)
                  <=> (i \in I /\ Cardinality(Below(I, s, i)) = k - 1)
      BY <1>1, <2>2, SameNumber
    <3> QED
      BY <3>1
  <2> SUFFICES t = [k \in I |-> s[ours(k)]]
    OBVIOUS
  <2> HIDE DEF theirs, ours, before, I, t
  <2> QED
    BY <1>1, <2>1, <2>3
<1>6. ASSUME NEW k \in I PROVE c[k] \in I /\ Cardinality(Below(I, s, c[k])) = k - 1 /\ t[k] = s[c[k]]
  <2>1. k \in 1..Cardinality(I)
    BY <1>2
  <2> HIDE DEF I
  <2>2. \E i \in I : Cardinality(Below(I, s, i)) = k - 1
    BY <1>3, <2>1, EachNumber
  <2> QED
    BY <1>5, <2>2
<1> HIDE DEF c
<1>7. t \in Seq(Messages) /\ Len(t) = Len(s)
  <2>1. t = [k \in 1..Len(s) |-> s[c[k]]]
    BY <1>5 DEF c
  <2>2. \A k \in 1..Len(s) : s[c[k]] \in Messages
    BY <1>1, <1>6
  <2> HIDE DEF t
  <2> QED
    BY <1>1, <2>1, <2>2
<1> HIDE DEF t
<1>8. ASSUME NEW k \in I, NEW l \in I, k < l PROVE t[k] < t[l]
  <2>1. c[k] \in I /\ Cardinality(Below(I, s, c[k])) = k - 1 /\ t[k] = s[c[k]]
    BY <1>6
  <2>2. c[l] \in I /\ Cardinality(Below(I, s, c[l])) = l - 1 /\ t[l] = s[c[l]]
    BY <1>6
  <2>3. k - 1 < l - 1
    BY <1>1, <1>8
  <2> HIDE DEF I
  <2>4. s[c[k]] < s[c[l]] <=> Cardinality(Below(I, s, c[k])) < Cardinality(Below(I, s, c[l]))
    BY <1>3, <2>1, <2>2, BelowGrows
  <2> QED
    BY <2>1, <2>2, <2>3, <2>4
<1>9. ASSUME NEW i \in I PROVE \E k \in I : t[k] = s[i]
  <2>1. Cardinality(Below(I, s, i)) \in 0..(Len(s) - 1)
    <3> HIDE DEF I
    <3> QED
      BY <1>2, <1>3, BelowGrows
  <2> DEFINE k == Cardinality(Below(I, s, i)) + 1
  <2>2. k \in I /\ k - 1 = Cardinality(Below(I, s, i))
    BY <1>1, <2>1
  <2>3. c[k] \in I /\ Cardinality(Below(I, s, c[k])) = Cardinality(Below(I, s, i)) /\ t[k] = s[c[k]]
    BY <1>6, <2>2
  <2>4. ~(s[c[k]] < s[i]) /\ ~(s[i] < s[c[k]])
    <3> HIDE DEF I, k
    <3>1. s[c[k]] < s[i] <=> Cardinality(Below(I, s, c[k])) < Cardinality(Below(I, s, i))
      BY <1>3, <2>3, BelowGrows
    <3>2. s[i] < s[c[k]] <=> Cardinality(Below(I, s, i)) < Cardinality(Below(I, s, c[k]))
      BY <1>3, <2>3, BelowGrows
    <3> QED
      BY <1>2, <2>1, <2>3, <3>1, <3>2
  <2>5. s[c[k]] = s[i]
    BY <1>1, <2>3, <2>4
  <2> QED
    BY <2>2, <2>3, <2>5
<1>10. ToSet(t) = ToSet(s)
  <2>1. DOMAIN t = I
    BY <1>7
  <2>2. \A k \in I : \E i \in I : t[k] = s[i]
    BY <1>6
  <2> HIDE DEF I
  <2> QED
    BY <1>1, <1>9, <2>1, <2>2 DEF ToSet
<1> QED
  BY <1>7, <1>8, <1>10 DEF t

LEMMA KeptOfMessages ==
  ASSUME NEW s \in Seq(Messages), Distinct(s)
  PROVE  /\ Chat!Kept(s) \in Seq(Messages) /\ Len(Chat!Kept(s)) <= MessageHistorySize
         /\ ToSet(Chat!Kept(s)) \subseteq ToSet(s)
         /\ \A i, j \in DOMAIN Chat!Kept(s) : i < j => Chat!Kept(s)[i] < Chat!Kept(s)[j]
         /\ Distinct(Chat!Kept(s))
<1> DEFINE t == Chat!Sorted(s)
           d == IF Len(t) > MessageHistorySize THEN Len(t) - MessageHistorySize ELSE 0
           u == SubSeq(t, d + 1, Len(t))
<1>1. /\ t \in Seq(Messages) /\ Len(t) = Len(s) /\ ToSet(t) = ToSet(s) /\ Len(s) \in Nat
      /\ \A i, j \in 1..Len(t) : i < j => t[i] < t[j]
  BY SortedIs
<1>2. Chat!Kept(s) = u
  BY DEF Chat!Kept
<1>3. MessageHistorySize \in Nat
  BY ChatAssumption
<1> HIDE DEF t
<1>4. d \in 0..Len(t) /\ Len(t) - d <= MessageHistorySize /\ Len(t) \in Nat
  BY <1>1, <1>3
<1> HIDE DEF d
<1>5. u \in Seq(Messages) /\ Len(u) = Len(t) - d /\ \A i \in 1..(Len(t) - d) : u[i] = t[d + i]
  <2>1. d + 1 \in 1..(Len(t) + 1)
    BY <1>4
  <2>2. u \in Seq(Messages) /\ Len(u) = IF d + 1 <= Len(t) THEN Len(t) - (d + 1) + 1 ELSE 0
    BY <1>1, <2>1, SubSeqProperties
  <2>3. Len(u) = Len(t) - d
    BY <1>4, <2>2
  <2>4. \A i \in 1..(Len(t) - (d + 1) + 1) : u[i] = t[d + 1 + i - 1]
    BY <1>1, <2>1, SubSeqProperties
  <2>5. ASSUME NEW i \in 1..(Len(t) - d) PROVE u[i] = t[d + i]
    <3>1. i \in 1..(Len(t) - (d + 1) + 1) /\ d + 1 + i - 1 = d + i
      BY <1>4
    <3> QED
      BY <2>4, <3>1
  <2> QED
    BY <2>2, <2>3, <2>5
<1> HIDE DEF u
<1>6. ASSUME NEW i \in 1..Len(u) PROVE d + i \in 1..Len(t) /\ u[i] = t[d + i]
  BY <1>4, <1>5
<1>7. DOMAIN u = 1..Len(u) /\ DOMAIN t = 1..Len(t)
  BY <1>1, <1>5, LenProperties
<1>8. ToSet(u) \subseteq ToSet(t)
  BY <1>6, <1>7 DEF ToSet
<1>9. ASSUME NEW i \in 1..Len(u), NEW j \in 1..Len(u), i < j PROVE u[i] < u[j]
  <2>1. d + i < d + j
    BY <1>4, <1>5, <1>9
  <2> QED
    BY <1>1, <1>6, <2>1
<1>10. Distinct(u)
  <2> SUFFICES ASSUME NEW i \in 1..Len(u), NEW j \in 1..Len(u), u[i] = u[j] PROVE i = j
    BY DEF Distinct
  <2>1. u[i] \in Int /\ Len(u) \in Nat
    <3>1. u[i] \in Messages /\ Len(u) \in Nat
      BY <1>5
    <3>2. \A m \in Messages : m \in Int
      BY ChatAssumption
    <3> HIDE DEF d
    <3> QED
      BY <3>1, <3>2
  <2>2. ~(i < j) /\ ~(j < i)
    BY <1>9, <2>1
  <2> QED
    BY <2>1, <2>2
<1> QED
  BY <1>1, <1>2, <1>4, <1>5, <1>7, <1>8, <1>9, <1>10

-----------------------------------------------------------------------------
(* The updates of the chat                                                 *)

ChatEvents ==
  {e \in [what : {"created", "deleted", "enabled", "disabled"}, id : Messages \cup {0}] :
     e.what \in {"created", "deleted"} => e.id \in Messages}

\* An update brings a message, takes one away, turns chat on or off.
Brings(u, m) == \E i \in 1..Len(u) : u[i].what = "created" /\ u[i].id = m
Takes(u, m) == \E i \in 1..Len(u) : u[i].what = "deleted" /\ u[i].id = m
Tells(u, what) == \E i \in 1..Len(u) : u[i].what = what

\* Either messages only, or one event.
ChatUpdates ==
  {u \in Seq(ChatEvents) : (\A i \in 1..Len(u) : u[i].what = "created") \/ Len(u) = 1}

\* What the client keeps: the list and the set agree.
ChatStates ==
  {s \in [shown : Seq(Messages), seen : SUBSET Messages, on : BOOLEAN] :
     Distinct(s.shown) /\ s.seen = ToSet(s.shown)}

LEMMA EventsAre ==
  /\ \A m \in Messages : Chat!Created(m) \in ChatEvents /\ Chat!Deleted(m) \in ChatEvents
  /\ Chat!Event("enabled") \in ChatEvents /\ Chat!Event("disabled") \in ChatEvents
BY DEF ChatEvents, Chat!Created, Chat!Deleted, Chat!Event

\* handleChatEvent
LEMMA AppliedIs ==
  ASSUME NEW s \in ChatStates, NEW e \in ChatEvents
  PROVE  /\ Chat!Applied(s, e) \in ChatStates
         /\ e.what = "created" => /\ Chat!Applied(s, e).seen = s.seen \cup {e.id}
                                  /\ Chat!Applied(s, e).on = s.on
         /\ e.what = "deleted" => /\ Chat!Applied(s, e).seen = s.seen \ {e.id}
                                  /\ Chat!Applied(s, e).on = s.on
         /\ e.what = "enabled" => Chat!Applied(s, e).seen = s.seen /\ Chat!Applied(s, e).on = TRUE
         /\ e.what = "disabled" => Chat!Applied(s, e).seen = s.seen /\ Chat!Applied(s, e).on = FALSE
<1>1. /\ s.shown \in Seq(Messages) /\ s.seen \subseteq Messages /\ s.on \in BOOLEAN
      /\ s = [shown |-> s.shown, seen |-> s.seen, on |-> s.on]
      /\ Distinct(s.shown) /\ s.seen = ToSet(s.shown)
  BY DEF ChatStates
<1>2. /\ e.what \in {"created", "deleted", "enabled", "disabled"}
      /\ e.what \in {"created", "deleted"} => e.id \in Messages
  BY DEF ChatEvents
<1>3. ASSUME NEW w \in Seq(Messages), NEW v, Distinct(w), v = ToSet(w), NEW b \in BOOLEAN
      PROVE  [shown |-> w, seen |-> v, on |-> b] \in ChatStates
  <2> DEFINE r == [shown |-> w, seen |-> v, on |-> b]
  <2>1. r.shown = w /\ r.seen = v /\ r.on = b
    OBVIOUS
  <2>2. v \subseteq Messages
    BY <1>3 DEF ToSet
  <2>3. r \in [shown : Seq(Messages), seen : SUBSET Messages, on : BOOLEAN]
    BY <2>2
  <2> HIDE DEF r
  <2>4. r \in ChatStates
    BY <1>3, <2>1, <2>3 DEF ChatStates
  <2> QED
    BY <2>4 DEF r
<1>4. CASE e.what = "created" /\ e.id \notin s.seen
  <2> DEFINE w == Append(s.shown, e.id)
  <2>1. Chat!Applied(s, e) = [shown |-> w, seen |-> s.seen \cup {e.id}, on |-> s.on]
    BY <1>1, <1>4 DEF Chat!Applied
  <2>2. w \in Seq(Messages) /\ e.id \in Messages
    BY <1>1, <1>2, <1>4
  <2>3. Distinct(w) /\ \A y : Holds(w, y) <=> Holds(s.shown, y) \/ y = e.id
    <3>1. ~Holds(s.shown, e.id)
      BY <1>1, <1>4, HeldIs
    <3> QED
      BY <1>1, <2>2, <3>1, AppendEdit
  <2> HIDE DEF w
  <2>4. s.seen \cup {e.id} = ToSet(w)
    BY <1>1, <2>2, <2>3, HeldIs
  <2>5. [shown |-> w, seen |-> s.seen \cup {e.id}, on |-> s.on] \in ChatStates
    BY <1>1, <1>3, <2>2, <2>3, <2>4
  <2> QED
    BY <1>4, <2>1, <2>5
<1>5. CASE e.what = "created" /\ e.id \in s.seen
  <2>1. Chat!Applied(s, e) = s
    BY <1>5 DEF Chat!Applied
  <2> QED
    BY <1>5, <2>1
<1>6. CASE e.what = "deleted"
  <2> DEFINE w == Without(s.shown, {e.id})
  <2>1. Chat!Applied(s, e) = [shown |-> w, seen |-> s.seen \ {e.id}, on |-> s.on]
    BY <1>1, <1>6, SameOperators DEF Chat!Applied
  <2>2. /\ w \in Seq(Messages) /\ Distinct(w)
        /\ \A y : Holds(w, y) <=> Holds(s.shown, y) /\ y \notin {e.id}
    BY <1>1, WithoutHolds
  <2> HIDE DEF w
  <2>3. s.seen \ {e.id} = ToSet(w)
    BY <1>1, <2>2, HeldIs
  <2>4. [shown |-> w, seen |-> s.seen \ {e.id}, on |-> s.on] \in ChatStates
    BY <1>1, <1>3, <2>2, <2>3
  <2> QED
    BY <1>6, <2>1, <2>4
<1>7. CASE e.what = "enabled"
  <2>1. Chat!Applied(s, e) = [shown |-> s.shown, seen |-> s.seen, on |-> TRUE]
    BY <1>1, <1>7 DEF Chat!Applied
  <2>2. [shown |-> s.shown, seen |-> s.seen, on |-> TRUE] \in ChatStates
    BY <1>1, <1>3
  <2> QED
    BY <1>7, <2>1, <2>2
<1>8. CASE e.what = "disabled"
  <2>1. Chat!Applied(s, e) = [shown |-> s.shown, seen |-> s.seen, on |-> FALSE]
    BY <1>1, <1>8 DEF Chat!Applied
  <2>2. [shown |-> s.shown, seen |-> s.seen, on |-> FALSE] \in ChatStates
    BY <1>1, <1>3
  <2> QED
    BY <1>8, <2>1, <2>2
<1> QED
  BY <1>2, <1>4, <1>5, <1>6, <1>7, <1>8

\* The turns of handleChatUpdated.
ChatTurns(f, s, u) ==
  /\ f \in [0..Len(u) -> ChatStates]
  /\ Chat!Processed(s, u) = f[Len(u)] /\ f[0] = s
  /\ \A i \in 1..Len(u) : f[i] = Chat!Applied(f[i - 1], u[i])

LEMMA UpdateTurns ==
  ASSUME NEW s \in ChatStates, NEW u \in Seq(ChatEvents)
  PROVE  \E f : ChatTurns(f, s, u)
<1> DEFINE n == Len(u)
           step == [i \in 1..n |-> [v \in ChatStates |-> Chat!Applied(v, u[i])]]
           IsLoop(f) == f = [i \in 0..n |-> IF i = 0 THEN s ELSE Chat!Applied(f[i - 1], u[i])]
<1>1. n \in Nat /\ \A i \in 1..n : u[i] \in ChatEvents
  OBVIOUS
<1>2. step \in [1..n -> [ChatStates -> ChatStates]]
  <2>1. ASSUME NEW i \in 1..n, NEW v \in ChatStates PROVE Chat!Applied(v, u[i]) \in ChatStates
    BY <1>1, AppliedIs
  <2> QED
    BY <2>1
<1>3. PICK f : LoopTurns(f, ChatStates, s, n, step)
  <2> HIDE DEF step, n
  <2> QED
    BY <1>1, <1>2, TurnsOfALoop
<1>4. /\ f \in [0..n -> ChatStates] /\ f[0] = s
      /\ \A i \in 1..n : f[i] = Chat!Applied(f[i - 1], u[i])
  <2>1. f \in [0..n -> ChatStates] /\ f[0] = s /\ \A i \in 1..n : f[i] = step[i][f[i - 1]]
    BY <1>3 DEF LoopTurns
  <2>2. ASSUME NEW i \in 1..n PROVE f[i] = Chat!Applied(f[i - 1], u[i])
    <3>1. i - 1 \in 0..n
      BY <1>1
    <3>2. f[i - 1] \in ChatStates
      BY <2>1, <3>1
    <3> QED
      BY <2>1, <3>2
  <2> QED
    BY <2>1, <2>2
<1>5. IsLoop(f)
  <2>1. ASSUME NEW i \in 0..n
        PROVE  f[i] = IF i = 0 THEN s ELSE Chat!Applied(f[i - 1], u[i])
    <3>1. i # 0 => i \in 1..n
      BY <1>1
    <3> QED
      BY <1>4, <3>1
  <2> HIDE DEF n
  <2> QED
    BY <1>4, <2>1
<1> DEFINE g == CHOOSE h : IsLoop(h)
<1>6. IsLoop(g) /\ Chat!Processed(s, u) = g[n]
  <2>1. Chat!Processed(s, u) = g[n]
    BY DEF Chat!Processed
  <2>2. IsLoop(g)
    BY <1>5
  <2> QED
    BY <2>1, <2>2
<1> HIDE DEF g
<1> DEFINE T == {m \in 0..n : g[m] # f[m]}
<1>7. T = {}
  <2> SUFFICES ASSUME T # {} PROVE FALSE
    OBVIOUS
  <2>1. T \subseteq Nat
    BY <1>1
  <2>2. PICK m \in T : \A y \in T : m <= y
    BY <2>1, LeastElement
  <2>3. m \in 0..n /\ g[m] # f[m]
    OBVIOUS
  <2>4. m # 0
    BY <1>1, <1>4, <1>6, <2>3
  <2>5. m \in 1..n /\ m - 1 \in 0..n
    BY <1>1, <2>3, <2>4
  <2>6. g[m - 1] = f[m - 1]
    BY <1>1, <2>2, <2>5
  <2> QED
    BY <1>4, <1>6, <2>3, <2>4, <2>5, <2>6
<1>8. g[n] = f[n]
  BY <1>1, <1>7
<1> QED
  BY <1>4, <1>6, <1>8 DEF ChatTurns

\* What an update changes.
LEMMA UpdateIs ==
  ASSUME NEW s \in ChatStates, NEW u \in ChatUpdates
  PROVE  /\ Chat!Processed(s, u) \in ChatStates
         /\ \A m \in Chat!Processed(s, u).seen : m \in s.seen \/ Brings(u, m)
         /\ \A m : (m \in s.seen \/ Brings(u, m)) /\ ~Takes(u, m) => m \in Chat!Processed(s, u).seen
         /\ \A m : Takes(u, m) => m \notin Chat!Processed(s, u).seen
         /\ ~Tells(u, "enabled") /\ ~Tells(u, "disabled") => Chat!Processed(s, u).on = s.on
         /\ Tells(u, "enabled") => Chat!Processed(s, u).on = TRUE
         /\ Tells(u, "disabled") => Chat!Processed(s, u).on = FALSE
<1>0. u \in Seq(ChatEvents) /\ ((\A i \in 1..Len(u) : u[i].what = "created") \/ Len(u) = 1)
  BY DEF ChatUpdates
<1> HIDE DEF ChatEvents
<1>1. Len(u) \in Nat /\ \A i \in 1..Len(u) : u[i] \in ChatEvents
  BY <1>0
<1>2. PICK f : ChatTurns(f, s, u)
  BY <1>0, UpdateTurns
<1>3. /\ f \in [0..Len(u) -> ChatStates]
      /\ Chat!Processed(s, u) = f[Len(u)] /\ f[0] = s
      /\ \A i \in 1..Len(u) : f[i] = Chat!Applied(f[i - 1], u[i])
  BY <1>2 DEF ChatTurns
<1>4. ASSUME NEW i \in 1..Len(u)
      PROVE  /\ f[i] \in ChatStates /\ u[i].what \in {"created", "deleted", "enabled", "disabled"}
             /\ u[i].what = "created" => f[i].seen = f[i - 1].seen \cup {u[i].id} /\ f[i].on = f[i - 1].on
             /\ u[i].what = "deleted" => f[i].seen = f[i - 1].seen \ {u[i].id} /\ f[i].on = f[i - 1].on
             /\ u[i].what = "enabled" => f[i].seen = f[i - 1].seen /\ f[i].on = TRUE
             /\ u[i].what = "disabled" => f[i].seen = f[i - 1].seen /\ f[i].on = FALSE
  <2>1. i - 1 \in 0..Len(u) /\ u[i] \in ChatEvents
    BY <1>1
  <2>2. f[i - 1] \in ChatStates
    BY <1>3, <2>1
  <2>3. u[i].what \in {"created", "deleted", "enabled", "disabled"}
    BY <2>1 DEF ChatEvents
  <2>4. f[i] = Chat!Applied(f[i - 1], u[i])
    BY <1>3
  <2> DEFINE v == f[i - 1]
             e == u[i]
             r == f[i]
  <2>5. v \in ChatStates /\ e \in ChatEvents /\ r = Chat!Applied(v, e)
    BY <2>1, <2>2, <2>4
  <2> HIDE DEF v, e, r
  <2>6. /\ r \in ChatStates
        /\ e.what = "created" => r.seen = v.seen \cup {e.id} /\ r.on = v.on
        /\ e.what = "deleted" => r.seen = v.seen \ {e.id} /\ r.on = v.on
        /\ e.what = "enabled" => r.seen = v.seen /\ r.on = TRUE
        /\ e.what = "disabled" => r.seen = v.seen /\ r.on = FALSE
    BY <2>5, AppliedIs
  <2> QED
    BY <2>3, <2>6 DEF v, e, r
<1>5. CASE \A i \in 1..Len(u) : u[i].what = "created"
  <2> DEFINE Ok(i) == /\ \A m : m \in f[i].seen <=> m \in s.seen \/ \E k \in 1..i : u[k].id = m
                      /\ f[i].on = s.on
             T == {i \in 0..Len(u) : ~Ok(i)}
  <2>1. T = {}
    <3> SUFFICES ASSUME T # {} PROVE FALSE
      OBVIOUS
    <3>1. T \subseteq Nat
      OBVIOUS
    <3>2. PICK i \in T : \A y \in T : i <= y
      BY <3>1, LeastElement
    <3>3. i \in 0..Len(u) /\ ~Ok(i)
      OBVIOUS
    <3>4. i # 0
      <4>1. Ok(0)
        BY <1>3
      <4> QED
        BY <3>3, <4>1
    <3>5. i \in 1..Len(u) /\ i - 1 \in 0..Len(u)
      BY <1>1, <3>3, <3>4
    <3>6. Ok(i - 1)
      <4>1. ~(i <= i - 1)
        BY <3>5
      <4>2. i - 1 \notin T
        BY <3>2, <4>1
      <4> HIDE DEF Ok
      <4> QED
        BY <3>5, <4>2
    <3>7. f[i].seen = f[i - 1].seen \cup {u[i].id} /\ f[i].on = f[i - 1].on
      BY <1>4, <1>5, <3>5
    <3>8. \A m : (\E k \in 1..i : u[k].id = m) <=> (\E k \in 1..(i - 1) : u[k].id = m) \/ u[i].id = m
      BY <3>5
    <3>9. Ok(i)
      BY <3>6, <3>7, <3>8
    <3> QED
      BY <3>3, <3>9
  <2>2. Ok(Len(u)) /\ f[Len(u)] \in ChatStates
    <3>1. Len(u) \in 0..Len(u)
      BY <1>1
    <3> HIDE DEF Ok
    <3> QED
      BY <1>3, <2>1, <3>1
  <2>3. /\ \A m : Brings(u, m) <=> \E k \in 1..Len(u) : u[k].id = m
        /\ \A m : ~Takes(u, m)
        /\ ~Tells(u, "enabled") /\ ~Tells(u, "disabled")
    BY <1>5 DEF Brings, Takes, Tells
  <2> QED
    BY <1>3, <2>2, <2>3
<1>6. CASE Len(u) = 1
  <2>1. Chat!Processed(s, u) = f[1] /\ 1 \in 1..Len(u) /\ f[1 - 1] = s
    BY <1>3, <1>6
  <2>2. /\ \A m : Brings(u, m) <=> u[1].what = "created" /\ u[1].id = m
        /\ \A m : Takes(u, m) <=> u[1].what = "deleted" /\ u[1].id = m
        /\ \A what : Tells(u, what) <=> u[1].what = what
    BY <1>6 DEF Brings, Takes, Tells
  <2>3. /\ f[1] \in ChatStates /\ u[1].what \in {"created", "deleted", "enabled", "disabled"}
        /\ u[1].what = "created" => f[1].seen = s.seen \cup {u[1].id} /\ f[1].on = s.on
        /\ u[1].what = "deleted" => f[1].seen = s.seen \ {u[1].id} /\ f[1].on = s.on
        /\ u[1].what = "enabled" => f[1].seen = s.seen /\ f[1].on = TRUE
        /\ u[1].what = "disabled" => f[1].seen = s.seen /\ f[1].on = FALSE
    BY <1>4, <2>1
  <2> QED
    BY <2>1, <2>2, <2>3
<1> QED
  BY <1>0, <1>5, <1>6

-----------------------------------------------------------------------------
(* The chat                                                                *)

ChatTypes ==
  /\ row \in [Messages -> {"none", "stored", "deleted"}]
  /\ announced \subseteq Messages /\ withdrawn \subseteq Messages /\ enabled \in BOOLEAN
  /\ caller \in [Callers -> [at : {"idle", "checked", "written"}, on : BOOLEAN]]
  /\ consumer \in {"off", "disabled", "enabled", "created", "subscribed", "told on",
                   "told off", "live"}
  /\ onCreated \subseteq Messages /\ onDeleted \subseteq Messages
  /\ onEnabled \in BOOLEAN /\ onDisabled \in BOOLEAN
  /\ updates \in Seq(ChatUpdates) /\ Len(updates) <= MaxInFlight
  /\ connected \in BOOLEAN /\ chatEnabled \in BOOLEAN /\ muddled \in BOOLEAN
  /\ due \subseteq Messages /\ missed \subseteq Messages

\* What the client shows.
InView ==
  /\ shown \in Seq(Messages) /\ seen = ToSet(shown) /\ Distinct(shown)
  /\ Len(shown) <= MessageHistorySize
  /\ \A i, j \in 1..Len(shown) : i < j => shown[i] < shown[j]

\* A channel has one notification at most; those of the switch are empty
\* without a stream, and nothing is on its way before the first update.
OneEach ==
  /\ \A m, n \in onCreated : m = n
  /\ \A m, n \in onDeleted : m = n
  /\ consumer = "off" => ~onEnabled /\ ~onDisabled
  /\ consumer # "live" => updates = <<>> /\ ~connected

OnWay(m) == \E k \in 1..Len(updates) : Brings(updates[k], m)

\* What is told to be deleted is.
DeletedOnly ==
  /\ \A m \in withdrawn \cup onDeleted : row[m] = "deleted"
  /\ \A k \in 1..Len(updates) : \A m \in Messages : Takes(updates[k], m) => row[m] = "deleted"

NeverOfShadowbanned ==
  \A m \in Shadowbanned : m \notin seen /\ m \notin due /\ ~OnWay(m)

\* The message is not shown once the updates are handled.
Gone(m) ==
  \/ m \notin seen /\ ~OnWay(m)
  \/ \E k \in 1..Len(updates) :
       Takes(updates[k], m) /\ \A j \in k..Len(updates) : ~Brings(updates[j], m)

\* A deletion that is notified and not missed reaches what is shown.
DeletionReaches ==
  \A m \in withdrawn \ missed : m \in onDeleted \/ (m \in announced /\ m \notin onCreated /\ Gone(m))

\* So does a creation.
CreationReaches ==
  \A m \in due : m \in onCreated \/ OnWay(m) \/ m \in seen \/ row[m] = "deleted"

Switched(u) == Tells(u, "enabled") \/ Tells(u, "disabled")
Turning(u, on) == Tells(u, IF on THEN "enabled" ELSE "disabled")

\* What the client says of chat once the updates are handled.
WillSay(on) ==
  \/ /\ \A k \in 1..Len(updates) : ~Switched(updates[k])
     /\ (chatEnabled \/ ~connected) = on
  \/ \E k \in 1..Len(updates) :
       Turning(updates[k], on) /\ \A j \in (k + 1)..Len(updates) : ~Switched(updates[j])

\* A call has yet to notify what the switch says.
ToTell == \E c \in Callers : caller[c].at = "written" /\ caller[c].on = enabled

\* What comes last of the switch, in the channels, in what Enabled() told the
\* stream or on the way, is what it says.
LastIsRight ==
  /\ onEnabled => enabled
  /\ onDisabled => ~enabled
  /\ consumer = "told on" => enabled \/ onDisabled
  /\ consumer = "told off" => ~enabled \/ onEnabled
  /\ consumer = "live" /\ ~onEnabled /\ ~onDisabled => WillSay(enabled)

SwitchReaches == ~muddled /\ consumer # "off" => ToTell \/ LastIsRight

ChatInv ==
  /\ ChatTypes /\ InView /\ OneEach /\ DeletedOnly /\ NeverOfShadowbanned
  /\ DeletionReaches /\ CreationReaches /\ SwitchReaches

\* The first update of a stream: stored messages that this viewer may see.
LEMMA LatestIs ==
  ASSUME ChatTypes
  PROVE  /\ DOMAIN Chat!Latest = 1..Len(Chat!Latest) /\ Len(Chat!Latest) \in Nat
         /\ \A i \in 1..Len(Chat!Latest) :
              Chat!Latest[i] \in Messages /\ row[Chat!Latest[i]] = "stored"
              /\ Chat!Latest[i] \notin Shadowbanned
<1> DEFINE visible == {m \in Messages : row[m] = "stored" /\ m \notin Shadowbanned}
           newest == {m \in visible : Chat!Cardinality({n \in visible : n > m}) < InitialHistorySize}
           key == [m \in newest |-> 0 - m]
           pick(k) == CHOOSE m \in newest : Chat!Cardinality({n \in newest : n > m}) = k - 1
           s == [k \in 1..Chat!Cardinality(newest) |-> pick(k)]
<1>1. Chat!Latest = s
  BY DEF Chat!Latest
<1>2. newest \subseteq Messages /\ \A m \in newest : row[m] = "stored" /\ m \notin Shadowbanned
  OBVIOUS
<1> HIDE DEF newest
<1>3. IsFiniteSet(newest) /\ \A m \in newest : m \in Nat
  <2>1. IsFiniteSet(Messages) /\ Messages \subseteq Nat
    BY ChatAssumption
  <2>2. IsFiniteSet(newest)
    BY <1>2, <2>1, FS_Subset
  <2> QED
    BY <1>2, <2>1, <2>2
<1>4. Chat!Cardinality(newest) = Cardinality(newest) /\ Cardinality(newest) \in Nat
  BY <1>3, SameNumber, FS_CardinalityType
<1>5. Keyed(newest, key)
  <2>1. \A m \in newest : key[m] \in Int
    BY <1>3
  <2>2. ASSUME NEW m \in newest, NEW n \in newest, key[m] = key[n] PROVE m = n
    BY <1>3, <2>2
  <2> HIDE DEF key
  <2> QED
    BY <1>3, <2>1, <2>2 DEF Keyed
<1>6. ASSUME NEW k \in 1..Cardinality(newest) PROVE pick(k) \in newest
  <2>1. \E m \in newest : Cardinality(Below(newest, key, m)) = k - 1
    <3> HIDE DEF key
    <3> QED
      BY <1>5, EachNumber
  <2>2. ASSUME NEW m \in newest PROVE Below(newest, key, m) = {n \in newest : n > m}
    BY <1>3 DEF Below
  <2>3. \E m \in newest : Chat!Cardinality({n \in newest : n > m}) = k - 1
    <3>1. PICK m \in newest : Cardinality(Below(newest, key, m)) = k - 1
      BY <2>1
    <3>2. Chat!Cardinality({n \in newest : n > m}) = k - 1
      BY <2>2, <3>1, SameNumber
    <3> QED
      BY <3>2
  <2> QED
    BY <2>3
<1> HIDE DEF pick
<1>7. DOMAIN s = 1..Cardinality(newest) /\ Len(s) = Cardinality(newest)
  BY <1>4
<1>8. \A i \in 1..Len(s) : s[i] \in newest
  BY <1>4, <1>6, <1>7
<1> HIDE DEF s
<1> QED
  BY <1>1, <1>2, <1>4, <1>7, <1>8

LEMMA SingleIs ==
  ASSUME NEW e \in ChatEvents
  PROVE  /\ <<e>> \in ChatUpdates
         /\ \A m : Brings(<<e>>, m) <=> e.what = "created" /\ e.id = m
         /\ \A m : Takes(<<e>>, m) <=> e.what = "deleted" /\ e.id = m
         /\ \A what : Tells(<<e>>, what) <=> e.what = what
<1> DEFINE u == <<e>>
<1> HIDE DEF ChatEvents
<1>1. u \in Seq(ChatEvents) /\ Len(u) = 1 /\ u[1] = e
  OBVIOUS
<1> HIDE DEF u
<1>2. u \in ChatUpdates
  BY <1>1 DEF ChatUpdates
<1>3. \A m : Brings(u, m) <=> e.what = "created" /\ e.id = m
  BY <1>1 DEF Brings
<1>4. \A m : Takes(u, m) <=> e.what = "deleted" /\ e.id = m
  BY <1>1 DEF Takes
<1>5. \A what : Tells(u, what) <=> e.what = what
  BY <1>1 DEF Tells
<1> QED
  BY <1>2, <1>3, <1>4, <1>5 DEF u

\* Another update is on the way.
LEMMA SendIs ==
  ASSUME updates \in Seq(ChatUpdates), MaxInFlight \in Nat, NEW e \in ChatEvents, Chat!Send(e),
         UNCHANGED <<seen, chatEnabled, connected>>
  PROVE  /\ consumer = "live" /\ updates' \in Seq(ChatUpdates) /\ Len(updates') <= MaxInFlight
         /\ \A m : OnWay(m)' <=> OnWay(m) \/ (e.what = "created" /\ e.id = m)
         /\ \A m : (\E k \in 1..Len(updates') : Takes(updates'[k], m)) =>
                     (\E k \in 1..Len(updates) : Takes(updates[k], m)) \/ (e.what = "deleted" /\ e.id = m)
         /\ \A m : Gone(m) /\ ~(e.what = "created" /\ e.id = m) => Gone(m)'
         /\ \A m : e.what = "deleted" /\ e.id = m => Gone(m)'
         /\ \A on \in BOOLEAN : WillSay(on) /\ e.what \notin {"enabled", "disabled"} => WillSay(on)'
         /\ \A on \in BOOLEAN : e.what = (IF on THEN "enabled" ELSE "disabled") => WillSay(on)'
<1> DEFINE n == Len(updates)
           u == <<e>>
<1>1. consumer = "live" /\ n < MaxInFlight /\ updates' = Append(updates, u)
  BY DEF Chat!Send
<1>2. /\ u \in ChatUpdates
      /\ \A m : Brings(u, m) <=> e.what = "created" /\ e.id = m
      /\ \A m : Takes(u, m) <=> e.what = "deleted" /\ e.id = m
      /\ \A what : Tells(u, what) <=> e.what = what
  BY SingleIs
<1> HIDE DEF u
<1>3. /\ n \in Nat /\ updates' \in Seq(ChatUpdates) /\ Len(updates') = n + 1
      /\ updates'[n + 1] = u /\ \A k \in 1..n : updates'[k] = updates[k]
  BY <1>1, <1>2, AppendProperties
<1> DEFINE v == updates'
<1> HIDE DEF n
<1>4. Len(updates') <= MaxInFlight
  BY <1>1, <1>3
<1>5. \A k \in 1..(n + 1) : k \in 1..n \/ k = n + 1
  BY <1>3
<1>6. n + 1 \in 1..(n + 1) /\ \A k \in 1..n : k \in 1..(n + 1)
  BY <1>3
<1>7. ASSUME NEW m PROVE OnWay(m)' <=> OnWay(m) \/ (e.what = "created" /\ e.id = m)
  BY <1>2, <1>3, <1>5, <1>6 DEF OnWay, n
<1>8. ASSUME NEW m, \E k \in 1..Len(updates') : Takes(updates'[k], m)
      PROVE  (\E k \in 1..n : Takes(updates[k], m)) \/ (e.what = "deleted" /\ e.id = m)
  BY <1>2, <1>3, <1>5, <1>8
<1>9. ASSUME NEW m, e.what = "deleted", e.id = m PROVE Gone(m)'
  <2>1. Takes(updates'[n + 1], m) /\ ~Brings(updates'[n + 1], m)
    BY <1>2, <1>3, <1>9
  <2>2. \A j \in (n + 1)..(n + 1) : j = n + 1
    BY <1>3
  <2> QED
    BY <1>3, <1>6, <2>1, <2>2 DEF Gone
<1>10. ASSUME NEW m, Gone(m), ~(e.what = "created" /\ e.id = m) PROVE Gone(m)'
  <2>1. CASE m \notin seen /\ ~OnWay(m)
    BY <1>7, <1>10, <2>1 DEF Gone
  <2>2. CASE \E k \in 1..n : Takes(updates[k], m) /\ \A j \in k..n : ~Brings(updates[j], m)
    <3>1. PICK k \in 1..n : Takes(updates[k], m) /\ \A j \in k..n : ~Brings(updates[j], m)
      BY <2>2
    <3>2. Takes(updates'[k], m) /\ k \in 1..Len(updates')
      BY <1>3, <1>6, <3>1
    <3>3. ASSUME NEW j \in k..Len(updates') PROVE ~Brings(updates'[j], m)
      <4>1. (j \in k..n /\ j \in 1..n) \/ j = n + 1
        BY <1>3
      <4> QED
        BY <1>2, <1>3, <1>10, <3>1, <4>1
    <3> QED
      BY <3>2, <3>3 DEF Gone
  <2> QED
    BY <1>10, <2>1, <2>2 DEF Gone, n
<1>11. ASSUME NEW on \in BOOLEAN, e.what = (IF on THEN "enabled" ELSE "disabled") PROVE WillSay(on)'
  <2>1. Turning(updates'[n + 1], on)
    BY <1>2, <1>3, <1>11 DEF Turning
  <2>2. ~ \E j : j \in (n + 1 + 1)..(n + 1)
    BY <1>3
  <2> QED
    BY <1>3, <1>6, <2>1, <2>2 DEF WillSay
<1>12. ASSUME NEW on \in BOOLEAN, WillSay(on), e.what \notin {"enabled", "disabled"} PROVE WillSay(on)'
  <2>1. ~Switched(updates'[n + 1])
    BY <1>2, <1>3, <1>12 DEF Switched
  <2>2. CASE (\A k \in 1..n : ~Switched(updates[k])) /\ (chatEnabled \/ ~connected) = on
    <3>1. \A k \in 1..Len(updates') : ~Switched(updates'[k])
      BY <1>3, <1>5, <2>1, <2>2
    <3>2. (chatEnabled' \/ ~connected') = on
      BY <2>2
    <3> QED
      BY <3>1, <3>2 DEF WillSay
  <2>3. CASE \E k \in 1..n : Turning(updates[k], on) /\ \A j \in (k + 1)..n : ~Switched(updates[j])
    <3>1. PICK k \in 1..n : Turning(updates[k], on) /\ \A j \in (k + 1)..n : ~Switched(updates[j])
      BY <2>3
    <3>2. Turning(updates'[k], on) /\ k \in 1..Len(updates')
      BY <1>3, <1>6, <3>1
    <3>3. ASSUME NEW j \in (k + 1)..Len(updates') PROVE ~Switched(updates'[j])
      <4>1. (j \in (k + 1)..n /\ j \in 1..n) \/ j = n + 1
        BY <1>3
      <4> QED
        BY <1>3, <2>1, <3>1, <4>1
    <3> QED
      BY <3>2, <3>3 DEF WillSay
  <2> QED
    BY <1>12, <2>2, <2>3 DEF WillSay, n
<1> QED
  BY <1>1, <1>3, <1>4, <1>7, <1>8, <1>9, <1>10, <1>11, <1>12 DEF n

\* What the client shows once it has handled an update.
LEMMA ReceiveShows ==
  ASSUME ChatTypes, InView, Chat!Receive
  PROVE  /\ InView' /\ chatEnabled' \in BOOLEAN /\ connected' = TRUE
         /\ updates # <<>> /\ updates' = Tail(updates) /\ updates[1] \in ChatUpdates
         /\ \A m \in seen' : (m \in seen \/ Brings(updates[1], m)) /\ ~Takes(updates[1], m)
         /\ \A m \in due' : /\ m \in due
                            /\ (m \in seen \/ Brings(updates[1], m)) /\ ~Takes(updates[1], m) => m \in seen'
         /\ ~Switched(updates[1]) => chatEnabled' = (chatEnabled \/ ~connected)
         /\ Tells(updates[1], "enabled") => chatEnabled' = TRUE
         /\ Tells(updates[1], "disabled") => chatEnabled' = FALSE
<1> DEFINE u == updates[1]
           s == Chat!State
           new == Chat!Processed(s, u)
           w == Chat!Kept(new.shown)
           gone == Chat!Forgotten(new.shown)
<1>1. updates \in Seq(ChatUpdates) /\ updates # <<>>
  BY DEF ChatTypes, Chat!Receive
<1>2. u \in ChatUpdates /\ Head(updates) = u
  <2> HIDE DEF ChatUpdates
  <2>1. Len(updates) \in Nat /\ Len(updates) # 0
    BY <1>1
  <2>2. 1 \in 1..Len(updates)
    BY <2>1
  <2> QED
    BY <1>1, <2>2
<1>3. /\ updates' = Tail(updates) /\ connected' = TRUE
      /\ shown' = w /\ seen' = new.seen \ gone /\ chatEnabled' = new.on /\ due' = due \ gone
  BY <1>2 DEF Chat!Receive
<1> HIDE DEF u
<1>4. s \in ChatStates /\ s.seen = seen /\ s.on = (chatEnabled \/ ~connected)
  <2>1. s = [shown |-> shown, seen |-> seen, on |-> chatEnabled \/ ~connected]
    BY DEF Chat!State
  <2>2. shown \in Seq(Messages) /\ seen = ToSet(shown) /\ Distinct(shown)
    BY DEF InView
  <2>3. seen \subseteq Messages
    BY <2>2 DEF ToSet
  <2>4. (chatEnabled \/ ~connected) \in BOOLEAN
    OBVIOUS
  <2> HIDE DEF s
  <2>5. s \in [shown : Seq(Messages), seen : SUBSET Messages, on : BOOLEAN]
    BY <2>1, <2>2, <2>3, <2>4
  <2>6. s.shown = shown /\ s.seen = seen
    BY <2>1
  <2>7. s.on = (chatEnabled \/ ~connected)
    BY <2>1
  <2> QED
    BY <2>2, <2>5, <2>6, <2>7 DEF ChatStates
<1> HIDE DEF s
<1>5. /\ new \in ChatStates
      /\ \A m \in new.seen : m \in seen \/ Brings(u, m)
      /\ \A m : (m \in seen \/ Brings(u, m)) /\ ~Takes(u, m) => m \in new.seen
      /\ \A m : Takes(u, m) => m \notin new.seen
      /\ ~Tells(u, "enabled") /\ ~Tells(u, "disabled") => new.on = (chatEnabled \/ ~connected)
      /\ Tells(u, "enabled") => new.on = TRUE
      /\ Tells(u, "disabled") => new.on = FALSE
  BY <1>2, <1>4, UpdateIs
<1> HIDE DEF new
<1>6. new.shown \in Seq(Messages) /\ Distinct(new.shown) /\ new.seen = ToSet(new.shown) /\ new.on \in BOOLEAN
  BY <1>5 DEF ChatStates
<1>7. /\ w \in Seq(Messages) /\ Len(w) <= MessageHistorySize
      /\ ToSet(w) \subseteq new.seen
      /\ \A i, j \in DOMAIN w : i < j => w[i] < w[j]
      /\ Distinct(w)
  BY <1>6, KeptOfMessages
<1>8. gone = new.seen \ ToSet(w)
  BY <1>6, SameOperators DEF Chat!Forgotten
<1> HIDE DEF w, gone
<1>9. seen' = ToSet(w)
  BY <1>3, <1>7, <1>8
<1>10. InView'
  <2>1. DOMAIN w = 1..Len(w)
    BY <1>7, HeldIs
  <2> QED
    BY <1>3, <1>7, <1>9, <2>1 DEF InView
<1>11. \A m \in seen' : (m \in seen \/ Brings(u, m)) /\ ~Takes(u, m)
  BY <1>5, <1>7, <1>9
<1>12. \A m \in due' : m \in due /\ ((m \in seen \/ Brings(u, m)) /\ ~Takes(u, m) => m \in seen')
  BY <1>3, <1>5, <1>8, <1>9
<1> QED
  BY <1>1, <1>2, <1>3, <1>5, <1>6, <1>10, <1>11, <1>12 DEF u, Switched

\* What is on the way once an update was handled.
LEMMA ReceiveIs ==
  ASSUME ChatTypes, InView, Chat!Receive
  PROVE  /\ updates' \in Seq(ChatUpdates) /\ Len(updates') <= Len(updates) /\ Len(updates') \in Nat
         /\ 1 \in 1..Len(updates)
         /\ \A m : OnWay(m) <=> OnWay(m)' \/ Brings(updates[1], m)
         /\ \A k \in 1..Len(updates') : k + 1 \in 1..Len(updates) /\ updates'[k] = updates[k + 1]
         /\ \A m : Gone(m) => Gone(m)'
         /\ \A on \in BOOLEAN : WillSay(on) => WillSay(on)'
<1> DEFINE n == Len(updates)
           u == updates[1]
<1>1. updates \in Seq(ChatUpdates) /\ updates # <<>> /\ updates' = Tail(updates) /\ u \in ChatUpdates
  BY ReceiveShows DEF ChatTypes
<1>2. n \in Nat /\ n # 0
  <2> HIDE DEF ChatUpdates
  <2> QED
    BY <1>1
<1>3. /\ updates' \in Seq(ChatUpdates) /\ Len(updates') = n - 1
      /\ \A k \in 1..(n - 1) : updates'[k] = updates[k + 1]
  <2> HIDE DEF ChatUpdates
  <2> QED
    BY <1>1, <1>2, HeadTailProperties
<1>4. /\ \A m \in seen' : (m \in seen \/ Brings(u, m)) /\ ~Takes(u, m)
      /\ ~Switched(u) => chatEnabled' = (chatEnabled \/ ~connected)
      /\ Tells(u, "enabled") => chatEnabled' = TRUE
      /\ Tells(u, "disabled") => chatEnabled' = FALSE
      /\ connected' = TRUE /\ chatEnabled' \in BOOLEAN
  BY ReceiveShows
<1> HIDE DEF n
<1>5. 1 \in 1..n /\ \A k \in 1..(n - 1) : k + 1 \in 1..n
  BY <1>2
<1>6. \A k \in 1..n : k = 1 \/ (k - 1 \in 1..(n - 1) /\ (k - 1) + 1 = k)
  BY <1>2
<1>7. ASSUME NEW k \in 1..n, k # 1 PROVE k - 1 \in 1..(n - 1) /\ updates'[k - 1] = updates[k]
  BY <1>3, <1>6, <1>7
<1>8. ASSUME NEW m PROVE OnWay(m) <=> OnWay(m)' \/ Brings(u, m)
  <2>1. ASSUME OnWay(m) PROVE OnWay(m)' \/ Brings(u, m)
    <3>1. PICK k \in 1..n : Brings(updates[k], m)
      BY <2>1 DEF OnWay, n
    <3>2. CASE k = 1
      BY <3>1, <3>2
    <3>3. CASE k # 1
      <4>1. k - 1 \in 1..(n - 1) /\ Brings(updates'[k - 1], m)
        BY <1>7, <3>1, <3>3
      <4> QED
        BY <1>3, <4>1 DEF OnWay
    <3> QED
      BY <3>2, <3>3
  <2>2. ASSUME OnWay(m)' PROVE OnWay(m)
    <3>1. PICK k \in 1..(n - 1) : Brings(updates'[k], m)
      BY <1>3, <2>2 DEF OnWay
    <3>2. k + 1 \in 1..n /\ Brings(updates[k + 1], m)
      BY <1>3, <1>5, <3>1
    <3> QED
      BY <3>2 DEF OnWay, n
  <2>3. ASSUME Brings(u, m) PROVE OnWay(m)
    BY <1>5, <2>3 DEF OnWay, n
  <2> QED
    BY <2>1, <2>2, <2>3
<1>9. ASSUME NEW m, Gone(m) PROVE Gone(m)'
  <2>1. CASE m \notin seen /\ ~OnWay(m)
    BY <1>4, <1>8, <2>1 DEF Gone
  <2>2. CASE \E k \in 1..n : Takes(updates[k], m) /\ \A j \in k..n : ~Brings(updates[j], m)
    <3>1. PICK k \in 1..n : Takes(updates[k], m) /\ \A j \in k..n : ~Brings(updates[j], m)
      BY <2>2
    <3>2. ASSUME NEW j \in 1..(n - 1), j >= k - 1 PROVE ~Brings(updates'[j], m)
      <4>1. j + 1 \in k..n /\ updates'[j] = updates[j + 1]
        BY <1>2, <1>3, <3>1, <3>2
      <4> QED
        BY <3>1, <4>1
    <3>3. CASE k = 1
      <4>1. \A j \in 1..(n - 1) : ~Brings(updates'[j], m)
        BY <3>2, <3>3
      <4>2. ~OnWay(m)'
        BY <1>3, <4>1 DEF OnWay
      <4>3. m \notin seen'
        BY <1>4, <3>1, <3>3
      <4> QED
        BY <4>2, <4>3 DEF Gone
    <3>4. CASE k # 1
      <4>1. k - 1 \in 1..(n - 1) /\ Takes(updates'[k - 1], m)
        BY <1>7, <3>1, <3>4
      <4>2. \A j \in (k - 1)..(n - 1) : ~Brings(updates'[j], m)
        BY <3>2, <4>1
      <4> QED
        BY <1>3, <4>1, <4>2 DEF Gone
    <3> QED
      BY <3>3, <3>4
  <2> QED
    BY <1>9, <2>1, <2>2 DEF Gone, n
<1>10. ASSUME NEW on \in BOOLEAN, WillSay(on) PROVE WillSay(on)'
  <2>1. CASE (\A k \in 1..n : ~Switched(updates[k])) /\ (chatEnabled \/ ~connected) = on
    <3>1. \A k \in 1..(n - 1) : ~Switched(updates'[k])
      BY <1>3, <1>5, <2>1
    <3>2. ~Switched(u)
      BY <1>5, <2>1
    <3>3. (chatEnabled' \/ ~connected') = on
      BY <1>4, <2>1, <3>2
    <3> QED
      BY <1>3, <3>1, <3>3 DEF WillSay
  <2>2. CASE \E k \in 1..n : Turning(updates[k], on) /\ \A j \in (k + 1)..n : ~Switched(updates[j])
    <3>1. PICK k \in 1..n : Turning(updates[k], on) /\ \A j \in (k + 1)..n : ~Switched(updates[j])
      BY <2>2
    <3>2. ASSUME NEW j \in 1..(n - 1), j >= k PROVE ~Switched(updates'[j])
      <4>1. j + 1 \in (k + 1)..n /\ updates'[j] = updates[j + 1]
        BY <1>2, <1>3, <3>1, <3>2
      <4> QED
        BY <3>1, <4>1
    <3>3. CASE k = 1
      <4>1. \A j \in 1..(n - 1) : ~Switched(updates'[j])
        BY <3>2, <3>3
      <4>2. (chatEnabled' \/ ~connected') = on
        BY <1>4, <3>1, <3>3 DEF Turning
      <4> QED
        BY <1>3, <4>1, <4>2 DEF WillSay
    <3>4. CASE k # 1
      <4>1. k - 1 \in 1..(n - 1) /\ Turning(updates'[k - 1], on)
        BY <1>7, <3>1, <3>4
      <4>2. \A j \in ((k - 1) + 1)..(n - 1) : ~Switched(updates'[j])
        <5>1. (k - 1) + 1 = k
          BY <1>2
        <5>2. \A j \in k..(n - 1) : j \in 1..(n - 1) /\ j >= k
          BY <1>2
        <5> QED
          BY <3>2, <5>1, <5>2
      <4> QED
        BY <1>3, <4>1, <4>2 DEF WillSay
    <3> QED
      BY <3>3, <3>4
  <2> QED
    BY <1>10, <2>1, <2>2 DEF WillSay, n
<1> QED
  BY <1>1, <1>2, <1>3, <1>5, <1>8, <1>9, <1>10 DEF n

\* Steps that leave what is on the way and what is shown.
LEMMA WaySame ==
  ASSUME UNCHANGED <<updates, connected, shown, seen, chatEnabled>>
  PROVE  /\ InView => InView'
         /\ \A m : OnWay(m)' <=> OnWay(m)
         /\ \A m : Gone(m)' <=> Gone(m)
         /\ \A on \in BOOLEAN : WillSay(on)' <=> WillSay(on)
<1>1. InView => InView'
  BY DEF InView
<1>2. \A m : OnWay(m)' <=> OnWay(m)
  BY DEF OnWay
<1>3. \A m : Gone(m)' <=> Gone(m)
  BY <1>2 DEF Gone
<1>4. \A on \in BOOLEAN : WillSay(on)' <=> WillSay(on)
  BY DEF WillSay
<1> QED
  BY <1>1, <1>2, <1>3, <1>4

LEMMA MessageStep ==
  ASSUME ChatInv, NEW m \in Messages,
         Chat!Store(m) \/ Chat!Announce(m) \/ Chat!Delete(m) \/ Chat!Withdraw(m)
  PROVE  ChatInv'
<1> USE DEF Chat!serverVars, Chat!messageVars, Chat!switchVars, Chat!channelVars, Chat!clientVars, Chat!historyVars
<1>1. /\ ChatTypes /\ InView /\ OneEach /\ DeletedOnly /\ NeverOfShadowbanned
      /\ DeletionReaches /\ CreationReaches /\ SwitchReaches
  BY DEF ChatInv
<1>2. UNCHANGED <<enabled, caller, consumer, onEnabled, onDisabled, updates, connected, shown, seen, chatEnabled, muddled>>
  BY DEF Chat!Store, Chat!Announce, Chat!Delete, Chat!Withdraw
<1>3. /\ InView' /\ \A n : OnWay(n)' <=> OnWay(n)
      /\ \A n : Gone(n)' <=> Gone(n)
      /\ \A on \in BOOLEAN : WillSay(on)' <=> WillSay(on)
  BY <1>1, <1>2, WaySame
<1>4. SwitchReaches'
  <2>1. enabled' = enabled /\ enabled \in BOOLEAN
    BY <1>1, <1>2 DEF ChatTypes
  <2>2. WillSay(enabled)' <=> WillSay(enabled)
    BY <1>3, <2>1
  <2> QED
    BY <1>1, <1>2, <2>2 DEF SwitchReaches, ToTell, LastIsRight
<1>5. CASE Chat!Store(m)
  <2>1. /\ row[m] = "none" /\ row' = [row EXCEPT ![m] = "stored"]
        /\ UNCHANGED <<announced, withdrawn, onCreated, onDeleted, due, missed>>
    BY <1>5 DEF Chat!Store
  <2>2. ChatTypes'
    BY <1>1, <1>2, <2>1 DEF ChatTypes
  <2>3. \A n \in Messages : row[n] = "deleted" => row'[n] = "deleted"
    BY <1>1, <2>1 DEF ChatTypes
  <2>4. withdrawn \subseteq Messages /\ onDeleted \subseteq Messages /\ due \subseteq Messages
    BY <1>1 DEF ChatTypes
  <2>5. OneEach'
    BY <1>1, <1>2, <2>1 DEF OneEach
  <2>6. DeletedOnly'
    BY <1>1, <1>2, <2>1, <2>3, <2>4 DEF DeletedOnly
  <2>7. NeverOfShadowbanned'
    BY <1>1, <1>2, <1>3, <2>1 DEF NeverOfShadowbanned
  <2>8. DeletionReaches'
    BY <1>1, <1>3, <2>1 DEF DeletionReaches
  <2>9. CreationReaches'
    BY <1>1, <1>2, <1>3, <2>1, <2>3, <2>4 DEF CreationReaches
  <2> QED
    BY <1>3, <1>4, <2>2, <2>5, <2>6, <2>7, <2>8, <2>9 DEF ChatInv
<1>6. CASE Chat!Announce(m)
  <2>1. /\ m \notin announced /\ announced' = announced \cup {m}
        /\ UNCHANGED <<row, withdrawn, onDeleted, missed>>
        /\ \/ onCreated = {} /\ onCreated' = {m} /\ due' = due \cup ({m} \ Shadowbanned)
           \/ UNCHANGED <<onCreated, due>>
    BY <1>6 DEF Chat!Announce
  <2>2. ChatTypes'
    <3>1. announced' \subseteq Messages /\ onCreated' \subseteq Messages /\ due' \subseteq Messages
      BY <1>1, <2>1 DEF ChatTypes
    <3> QED
      BY <1>1, <1>2, <2>1, <3>1 DEF ChatTypes
  <2>3. OneEach'
    BY <1>1, <1>2, <2>1 DEF OneEach
  <2>4. DeletedOnly'
    BY <1>1, <1>2, <2>1 DEF DeletedOnly
  <2>5. NeverOfShadowbanned'
    BY <1>1, <1>2, <1>3, <2>1 DEF NeverOfShadowbanned
  <2>6. DeletionReaches'
    BY <1>1, <1>3, <2>1 DEF DeletionReaches
  <2>7. CreationReaches'
    BY <1>1, <1>2, <1>3, <2>1 DEF CreationReaches
  <2> QED
    BY <1>3, <1>4, <2>2, <2>3, <2>4, <2>5, <2>6, <2>7 DEF ChatInv
<1>7. CASE Chat!Delete(m)
  <2>1. /\ row[m] = "stored" /\ row' = [row EXCEPT ![m] = "deleted"]
        /\ UNCHANGED <<announced, withdrawn, onCreated, onDeleted, due, missed>>
    BY <1>7 DEF Chat!Delete
  <2>2. ChatTypes'
    BY <1>1, <1>2, <2>1 DEF ChatTypes
  <2>3. \A n \in Messages : row[n] = "deleted" => row'[n] = "deleted"
    BY <1>1, <2>1 DEF ChatTypes
  <2>4. withdrawn \subseteq Messages /\ onDeleted \subseteq Messages /\ due \subseteq Messages
    BY <1>1 DEF ChatTypes
  <2>5. OneEach'
    BY <1>1, <1>2, <2>1 DEF OneEach
  <2>6. DeletedOnly'
    BY <1>1, <1>2, <2>1, <2>3, <2>4 DEF DeletedOnly
  <2>7. NeverOfShadowbanned'
    BY <1>1, <1>2, <1>3, <2>1 DEF NeverOfShadowbanned
  <2>8. DeletionReaches'
    BY <1>1, <1>3, <2>1 DEF DeletionReaches
  <2>9. CreationReaches'
    BY <1>1, <1>2, <1>3, <2>1, <2>3, <2>4 DEF CreationReaches
  <2> QED
    BY <1>3, <1>4, <2>2, <2>5, <2>6, <2>7, <2>8, <2>9 DEF ChatInv
<1>8. CASE Chat!Withdraw(m)
  <2>1. /\ row[m] = "deleted" /\ withdrawn' = withdrawn \cup {m}
        /\ UNCHANGED <<row, announced, onCreated, due>>
        /\ \/ onDeleted = {} /\ onDeleted' = {m} /\ missed' = missed
           \/ onDeleted' = onDeleted /\ missed' = missed \cup {m}
    BY <1>8 DEF Chat!Withdraw
  <2>2. ChatTypes'
    <3>1. withdrawn' \subseteq Messages /\ onDeleted' \subseteq Messages /\ missed' \subseteq Messages
      BY <1>1, <2>1 DEF ChatTypes
    <3> QED
      BY <1>1, <1>2, <2>1, <3>1 DEF ChatTypes
  <2>3. OneEach'
    BY <1>1, <1>2, <2>1 DEF OneEach
  <2>4. DeletedOnly'
    BY <1>1, <1>2, <2>1 DEF DeletedOnly
  <2>5. NeverOfShadowbanned'
    BY <1>1, <1>2, <1>3, <2>1 DEF NeverOfShadowbanned
  <2>6. DeletionReaches'
    BY <1>1, <1>3, <2>1 DEF DeletionReaches
  <2>7. CreationReaches'
    BY <1>1, <1>2, <1>3, <2>1 DEF CreationReaches
  <2> QED
    BY <1>3, <1>4, <2>2, <2>3, <2>4, <2>5, <2>6, <2>7 DEF ChatInv
<1> QED
  BY <1>5, <1>6, <1>7, <1>8

LEMMA SwitchStep ==
  ASSUME ChatInv, NEW c \in Callers,
         Chat!CheckSwitch(c) \/ Chat!WriteSwitch(c) \/ Chat!NotifySwitch(c)
  PROVE  ChatInv'
<1> USE DEF Chat!messageVars, Chat!channelVars, Chat!clientVars, Chat!historyVars
<1>1. /\ ChatTypes /\ InView /\ OneEach /\ DeletedOnly /\ NeverOfShadowbanned
      /\ DeletionReaches /\ CreationReaches /\ SwitchReaches
  BY DEF ChatInv
<1>2. /\ UNCHANGED <<row, announced, withdrawn, consumer, onCreated, onDeleted, updates, due, missed>>
      /\ UNCHANGED <<connected, shown, seen, chatEnabled>>
  BY DEF Chat!CheckSwitch, Chat!WriteSwitch, Chat!NotifySwitch
<1>3. /\ InView' /\ \A n : OnWay(n)' <=> OnWay(n)
      /\ \A n : Gone(n)' <=> Gone(n)
      /\ \A on \in BOOLEAN : WillSay(on)' <=> WillSay(on)
  BY <1>1, <1>2, WaySame
<1>4. DeletedOnly'
  BY <1>1, <1>2 DEF DeletedOnly
<1>5. NeverOfShadowbanned'
  BY <1>1, <1>2, <1>3 DEF NeverOfShadowbanned
<1>6. DeletionReaches'
  BY <1>1, <1>2, <1>3 DEF DeletionReaches
<1>7. CreationReaches'
  BY <1>1, <1>2, <1>3 DEF CreationReaches
<1>8. /\ enabled \in BOOLEAN /\ onEnabled \in BOOLEAN /\ onDisabled \in BOOLEAN /\ muddled \in BOOLEAN
      /\ caller \in [Callers -> [at : {"idle", "checked", "written"}, on : BOOLEAN]]
  BY <1>1 DEF ChatTypes
<1>9. caller[c] = [at |-> caller[c].at, on |-> caller[c].on] /\ caller[c].on \in BOOLEAN
  BY <1>8
<1>10. CASE Chat!CheckSwitch(c)
  <2>1. /\ caller[c].at = "idle"
        /\ caller' = [caller EXCEPT ![c] = [at |-> "checked", on |-> ~enabled]]
        /\ UNCHANGED <<enabled, onEnabled, onDisabled, muddled>>
    BY <1>10 DEF Chat!CheckSwitch, Chat!Idle, Chat!Call
  <2>2. ChatTypes' /\ OneEach'
    <3>1. caller' \in [Callers -> [at : {"idle", "checked", "written"}, on : BOOLEAN]]
      BY <1>8, <2>1
    <3> QED
      BY <1>1, <1>2, <2>1, <3>1 DEF ChatTypes, OneEach
  <2>3. ToTell => ToTell'
    BY <1>8, <2>1 DEF ToTell
  <2>4. LastIsRight => LastIsRight'
    <3>1. WillSay(enabled)' <=> WillSay(enabled)
      BY <1>3, <1>8, <2>1
    <3> QED
      BY <1>2, <2>1, <3>1 DEF LastIsRight
  <2>5. SwitchReaches'
    BY <1>1, <1>2, <2>1, <2>3, <2>4 DEF SwitchReaches
  <2> QED
    BY <1>3, <1>4, <1>5, <1>6, <1>7, <2>2, <2>5 DEF ChatInv
<1>11. CASE Chat!WriteSwitch(c)
  <2>1. /\ enabled' = caller[c].on
        /\ caller' = [caller EXCEPT ![c].at = "written"]
        /\ UNCHANGED <<onEnabled, onDisabled, muddled>>
    BY <1>11 DEF Chat!WriteSwitch
  <2>2. /\ caller' \in [Callers -> [at : {"idle", "checked", "written"}, on : BOOLEAN]]
        /\ caller'[c].at = "written" /\ caller'[c].on = enabled'
    BY <1>8, <2>1
  <2>3. ChatTypes' /\ OneEach'
    BY <1>1, <1>2, <1>9, <2>1, <2>2 DEF ChatTypes, OneEach
  <2>4. SwitchReaches'
    BY <2>2 DEF SwitchReaches, ToTell
  <2> QED
    BY <1>3, <1>4, <1>5, <1>6, <1>7, <2>3, <2>4 DEF ChatInv
<1>12. CASE Chat!NotifySwitch(c)
  <2>1. /\ caller[c].at = "written" /\ enabled' = enabled
        /\ caller[c].on => onEnabled' = (onEnabled \/ Chat!HearsEnabled) /\ onDisabled' = onDisabled
        /\ ~caller[c].on => onDisabled' = (onDisabled \/ Chat!HearsDisabled) /\ onEnabled' = onEnabled
        /\ caller' = [caller EXCEPT ![c] = [at |-> "idle", on |-> FALSE]]
    BY <1>12 DEF Chat!NotifySwitch, Chat!Idle
  <2>2. /\ Chat!HearsDisabled <=> consumer # "off"
        /\ Chat!HearsEnabled <=> consumer # "off" /\ consumer # "disabled"
        /\ Chat!HearsDisabled \in BOOLEAN /\ Chat!HearsEnabled \in BOOLEAN
    BY DEF Chat!HearsDisabled, Chat!HearsEnabled
  <2>3. /\ muddled' \in BOOLEAN
        /\ ~muddled' /\ consumer # "off" =>
             /\ caller[c].on => ~onDisabled
             /\ ~caller[c].on => ~onEnabled
             /\ caller[c].on = enabled \/ Chat!ToNotify(c) # {}
    BY <1>8, <1>9, <1>12, <2>2 DEF Chat!NotifySwitch
  <2>4. /\ caller' \in [Callers -> [at : {"idle", "checked", "written"}, on : BOOLEAN]]
        /\ \A d \in Callers : d # c => caller'[d] = caller[d]
    BY <1>8, <2>1
  <2>5. ChatTypes'
    <3>1. onEnabled' \in BOOLEAN /\ onDisabled' \in BOOLEAN
      BY <1>8, <1>9, <2>1, <2>2
    <3> QED
      BY <1>1, <1>2, <2>1, <2>3, <2>4, <3>1 DEF ChatTypes
  <2>6. OneEach'
    <3>1. consumer = "off" => ~onEnabled' /\ ~onDisabled'
      BY <1>1, <1>9, <2>1, <2>2 DEF OneEach
    <3> QED
      BY <1>1, <1>2, <3>1 DEF OneEach
  <2>7. ASSUME Chat!ToNotify(c) # {} PROVE ToTell'
    <3>1. PICK d \in Callers : d # c /\ caller[d] = [at |-> "written", on |-> enabled]
      BY <2>7 DEF Chat!ToNotify, Chat!Call
    <3> QED
      BY <2>1, <2>4, <3>1 DEF ToTell
  <2>8. ASSUME caller[c].on = enabled, consumer # "off", enabled => ~onDisabled, ~enabled => ~onEnabled
        PROVE  LastIsRight'
    <3>1. CASE enabled
      <4>0. caller[c].on
        BY <2>8, <3>1
      <4>1. onEnabled' = (onEnabled \/ Chat!HearsEnabled) /\ onDisabled' = onDisabled
        BY <2>1, <4>0
      <4>2. consumer \in {"live", "told off"} => Chat!HearsEnabled
        BY <2>2
      <4>3. consumer \in {"live", "told off"} => onEnabled' = TRUE
        BY <4>1, <4>2
      <4>4. ~onDisabled'
        BY <2>8, <3>1, <4>1
      <4> QED
        BY <1>2, <2>1, <3>1, <4>3, <4>4 DEF LastIsRight
    <3>2. CASE ~enabled
      <4>0. ~caller[c].on
        BY <2>8, <3>2
      <4>1. ~onEnabled' /\ onDisabled'
        BY <1>9, <2>1, <2>2, <2>8, <3>2, <4>0
      <4> QED
        BY <1>2, <2>1, <3>2, <4>1 DEF LastIsRight
    <3> QED
      BY <3>1, <3>2
  <2>9. SwitchReaches'
    BY <1>2, <1>8, <2>3, <2>7, <2>8 DEF SwitchReaches
  <2> QED
    BY <1>3, <1>4, <1>5, <1>6, <1>7, <2>5, <2>6, <2>9 DEF ChatInv
<1> QED
  BY <1>10, <1>11, <1>12

LEMMA OpenStep == ASSUME ChatInv, Chat!Subscribe \/ Chat!ReadSwitch PROVE ChatInv'
<1>1. /\ ChatTypes /\ InView /\ OneEach /\ DeletedOnly /\ NeverOfShadowbanned
      /\ DeletionReaches /\ CreationReaches /\ SwitchReaches
  BY DEF ChatInv
<1>2. /\ UNCHANGED <<row, announced, withdrawn, enabled, caller, onCreated, onDeleted, onEnabled, onDisabled>>
      /\ UNCHANGED <<updates, connected, shown, seen, chatEnabled, due, missed, muddled>>
  BY DEF Chat!Subscribe, Chat!ReadSwitch, Chat!serverVars, Chat!messageVars, Chat!switchVars,
         Chat!channelVars, Chat!clientVars, Chat!historyVars
<1>3. /\ consumer # "live"
      /\ \/ consumer' \in {"disabled", "enabled", "created", "subscribed"}
         \/ enabled /\ consumer = "subscribed" /\ consumer' = "told on"
         \/ ~enabled /\ consumer = "subscribed" /\ consumer' = "told off"
  <2>1. CASE Chat!Subscribe
    <3>1. PICK step \in { <<"off", "disabled">>, <<"disabled", "enabled">>,
                          <<"enabled", "created">>, <<"created", "subscribed">> } :
            consumer = step[1] /\ consumer' = step[2]
      BY <2>1 DEF Chat!Subscribe
    <3>2. CASE step = <<"off", "disabled">>
      BY <3>1, <3>2
    <3>3. CASE step = <<"disabled", "enabled">>
      BY <3>1, <3>3
    <3>4. CASE step = <<"enabled", "created">>
      BY <3>1, <3>4
    <3>5. CASE step = <<"created", "subscribed">>
      BY <3>1, <3>5
    <3> QED
      BY <3>1, <3>2, <3>3, <3>4, <3>5
  <2>2. CASE Chat!ReadSwitch
    BY <2>2 DEF Chat!ReadSwitch
  <2> QED
    BY <2>1, <2>2
<1>4. /\ InView' /\ \A n : OnWay(n)' <=> OnWay(n)
      /\ \A n : Gone(n)' <=> Gone(n)
  BY <1>1, <1>2, WaySame
<1>5. ChatTypes'
  BY <1>1, <1>2, <1>3 DEF ChatTypes
<1>6. OneEach'
  BY <1>1, <1>2, <1>3 DEF OneEach
<1>7. DeletedOnly'
  BY <1>1, <1>2 DEF DeletedOnly
<1>8. NeverOfShadowbanned'
  BY <1>1, <1>2, <1>4 DEF NeverOfShadowbanned
<1>9. DeletionReaches'
  BY <1>1, <1>2, <1>4 DEF DeletionReaches
<1>10. CreationReaches'
  BY <1>1, <1>2, <1>4 DEF CreationReaches
<1>11. SwitchReaches'
  <2>1. ToTell' <=> ToTell
    BY <1>2 DEF ToTell
  <2>2. consumer = "off" \/ LastIsRight => LastIsRight'
    BY <1>1, <1>2, <1>3 DEF LastIsRight, OneEach
  <2> QED
    BY <1>1, <1>2, <2>1, <2>2 DEF SwitchReaches
<1> QED
  BY <1>4, <1>5, <1>6, <1>7, <1>8, <1>9, <1>10, <1>11 DEF ChatInv

LEMMA SendInitialStep == ASSUME ChatInv, Chat!SendInitial PROVE ChatInv'
<1> DEFINE u == IF consumer = "told on" THEN [i \in DOMAIN Chat!Latest |-> Chat!Created(Chat!Latest[i])]
                                       ELSE <<Chat!Event("disabled")>>
<1>1. /\ ChatTypes /\ InView /\ OneEach /\ DeletedOnly /\ NeverOfShadowbanned
      /\ DeletionReaches /\ CreationReaches /\ SwitchReaches
  BY DEF ChatInv
<1>2. /\ consumer \in {"told on", "told off"} /\ consumer' = "live" /\ updates' = <<u>>
      /\ UNCHANGED <<row, announced, withdrawn, enabled, caller, onCreated, onDeleted, onEnabled, onDisabled>>
      /\ UNCHANGED <<connected, shown, seen, chatEnabled, due, missed, muddled>>
  BY DEF Chat!SendInitial, Chat!serverVars, Chat!messageVars, Chat!switchVars, Chat!channelVars, Chat!clientVars, Chat!historyVars
<1>3. updates = <<>> /\ ~connected /\ enabled \in BOOLEAN
  BY <1>1, <1>2 DEF OneEach, ChatTypes
<1>4. /\ u \in ChatUpdates
      /\ \A m : Brings(u, m) => m \notin Shadowbanned /\ row[m] = "stored"
      /\ \A m : ~Takes(u, m)
      /\ consumer = "told on" => ~Switched(u)
      /\ consumer = "told off" => Tells(u, "disabled")
  <2>1. CASE consumer = "told on"
    <3> DEFINE s == Chat!Latest
               v == [i \in DOMAIN s |-> Chat!Created(s[i])]
    <3>1. /\ DOMAIN s = 1..Len(s) /\ Len(s) \in Nat
          /\ \A i \in 1..Len(s) : s[i] \in Messages /\ row[s[i]] = "stored" /\ s[i] \notin Shadowbanned
      BY <1>1, LatestIs
    <3> HIDE DEF s
    <3>2. \A i \in 1..Len(s) : /\ v[i] \in ChatEvents
                               /\ v[i].what = "created" /\ v[i].id = s[i]
      BY <3>1, EventsAre DEF Chat!Created
    <3>3. Len(v) = Len(s) /\ v \in Seq(ChatEvents)
      <4>1. v = [i \in 1..Len(s) |-> Chat!Created(s[i])]
        BY <3>1
      <4>2. \A i \in 1..Len(s) : Chat!Created(s[i]) \in ChatEvents
        BY <3>1, EventsAre
      <4> HIDE DEF ChatEvents, v
      <4> QED
        BY <3>1, <4>1, <4>2
    <3>4. u = v
      BY <2>1 DEF s
    <3> HIDE DEF v, u
    <3>5. v \in ChatUpdates
      BY <3>2, <3>3 DEF ChatUpdates
    <3>6. \A m : Brings(v, m) => m \notin Shadowbanned /\ row[m] = "stored"
      BY <3>1, <3>2, <3>3 DEF Brings
    <3>7. (\A m : ~Takes(v, m)) /\ ~Switched(v)
      BY <3>2, <3>3 DEF Takes, Switched, Tells
    <3> QED
      BY <2>1, <3>4, <3>5, <3>6, <3>7
  <2>2. CASE consumer = "told off"
    <3> DEFINE e == Chat!Event("disabled")
    <3>1. e \in ChatEvents /\ e.what = "disabled"
      BY EventsAre DEF Chat!Event
    <3>2. u = <<e>>
      BY <2>2
    <3> HIDE DEF e, u
    <3>3. /\ <<e>> \in ChatUpdates
          /\ \A m : Brings(<<e>>, m) <=> e.what = "created" /\ e.id = m
          /\ \A m : Takes(<<e>>, m) <=> e.what = "deleted" /\ e.id = m
          /\ \A what : Tells(<<e>>, what) <=> e.what = what
      BY <3>1, SingleIs
    <3> QED
      BY <2>2, <3>1, <3>2, <3>3
  <2> QED
    BY <1>2, <2>1, <2>2
<1> HIDE DEF u
<1>5. updates' \in Seq(ChatUpdates) /\ Len(updates') = 1 /\ updates'[1] = u
  <2>1. updates' = <<u>> /\ u \in ChatUpdates
    BY <1>2, <1>4
  <2> HIDE DEF ChatUpdates
  <2> QED
    BY <2>1
<1>6. \A k : k \in 1..Len(updates') <=> k = 1
  BY <1>5
<1>7. \A m : OnWay(m)' <=> Brings(u, m)
  BY <1>5, <1>6 DEF OnWay
<1>8. Len(updates) = 0
  BY <1>3
<1>9. ASSUME NEW m, Gone(m), ~Brings(u, m) PROVE Gone(m)'
  <2>1. m \notin seen
    BY <1>8, <1>9 DEF Gone
  <2> QED
    BY <1>2, <1>7, <1>9, <2>1 DEF Gone
<1>10. \A m : ~OnWay(m)
  BY <1>8 DEF OnWay
<1>11. (consumer = "told on") = enabled => WillSay(enabled)'
  <2>1. CASE consumer = "told on" /\ enabled
    <3>1. \A k \in 1..Len(updates') : ~Switched(updates'[k])
      BY <1>4, <1>5, <1>6, <2>1
    <3>2. (chatEnabled' \/ ~connected') = enabled'
      BY <1>2, <1>3, <2>1
    <3> QED
      BY <3>1, <3>2 DEF WillSay
  <2>2. CASE consumer = "told off" /\ ~enabled
    <3>1. 1 \in 1..Len(updates') /\ Turning(updates'[1], enabled')
      BY <1>2, <1>4, <1>5, <1>6, <2>2 DEF Turning
    <3>2. ~ \E j : j \in (1 + 1)..Len(updates')
      BY <1>5
    <3> QED
      BY <3>1, <3>2 DEF WillSay
  <2> QED
    BY <1>2, <1>3, <2>1, <2>2
<1>12. ChatTypes'
  <2>1. Len(updates') <= MaxInFlight
    BY <1>5, ChatAssumption
  <2> QED
    BY <1>1, <1>2, <1>5, <2>1 DEF ChatTypes
<1>13. InView'
  BY <1>1, <1>2 DEF InView
<1>14. OneEach'
  BY <1>1, <1>2 DEF OneEach
<1>15. DeletedOnly'
  <2>1. \A k \in 1..Len(updates') : \A m : ~Takes(updates'[k], m)
    BY <1>4, <1>5, <1>6
  <2> QED
    BY <1>1, <1>2, <2>1 DEF DeletedOnly
<1>16. NeverOfShadowbanned'
  BY <1>1, <1>2, <1>4, <1>7 DEF NeverOfShadowbanned
<1>17. DeletionReaches'
  <2> SUFFICES ASSUME NEW m \in withdrawn' \ missed'
               PROVE  m \in onDeleted' \/ (m \in announced' /\ m \notin onCreated' /\ Gone(m)')
    BY DEF DeletionReaches
  <2>1. m \in withdrawn /\ row[m] = "deleted" /\ ~Brings(u, m)
    BY <1>1, <1>2, <1>4 DEF DeletedOnly
  <2>2. m \in onDeleted \/ (m \in announced /\ m \notin onCreated /\ Gone(m))
    BY <1>1, <1>2, <2>1 DEF DeletionReaches
  <2> QED
    BY <1>2, <1>9, <2>1, <2>2
<1>18. CreationReaches'
  BY <1>1, <1>2, <1>10 DEF CreationReaches
<1>19. SwitchReaches'
  <2>1. ToTell' <=> ToTell
    BY <1>2 DEF ToTell
  <2>2. LastIsRight => LastIsRight'
    BY <1>2, <1>3, <1>11 DEF LastIsRight
  <2> QED
    BY <1>1, <1>2, <2>1, <2>2 DEF SwitchReaches
<1> QED
  BY <1>12, <1>13, <1>14, <1>15, <1>16, <1>17, <1>18, <1>19 DEF ChatInv

LEMMA SendCreatedStep == ASSUME ChatInv, Chat!SendCreated PROVE ChatInv'
<1>1. /\ ChatTypes /\ InView /\ OneEach /\ DeletedOnly /\ NeverOfShadowbanned
      /\ DeletionReaches /\ CreationReaches /\ SwitchReaches
  BY DEF ChatInv
<1>2. PICK m \in onCreated :
        IF m \in Shadowbanned THEN consumer = "live" /\ UNCHANGED updates ELSE Chat!Send(Chat!Created(m))
  BY DEF Chat!SendCreated
<1>3. /\ onCreated' = {}
      /\ UNCHANGED <<row, announced, withdrawn, enabled, caller, consumer, onDeleted, onEnabled, onDisabled>>
      /\ UNCHANGED <<connected, shown, seen, chatEnabled, due, missed, muddled>>
  BY DEF Chat!SendCreated, Chat!serverVars, Chat!messageVars, Chat!switchVars, Chat!clientVars, Chat!historyVars
<1>4. m \in Messages /\ onCreated = {m} /\ consumer = "live"
  BY <1>1, <1>2 DEF ChatTypes, OneEach, Chat!Send
<1>5. InView'
  BY <1>1, <1>3 DEF InView
<1>6. CASE m \in Shadowbanned
  <2>1. UNCHANGED <<updates, connected, shown, seen, chatEnabled>>
    BY <1>2, <1>3, <1>6
  <2>2. /\ \A n : OnWay(n)' <=> OnWay(n)
        /\ \A n : Gone(n)' <=> Gone(n)
        /\ \A on \in BOOLEAN : WillSay(on)' <=> WillSay(on)
    BY <2>1, WaySame
  <2>3. ChatTypes'
    BY <1>1, <1>3, <2>1 DEF ChatTypes
  <2>4. OneEach'
    BY <1>1, <1>3, <2>1 DEF OneEach
  <2>5. DeletedOnly'
    BY <1>1, <1>3, <2>1 DEF DeletedOnly
  <2>6. NeverOfShadowbanned'
    BY <1>1, <1>3, <2>2 DEF NeverOfShadowbanned
  <2>7. DeletionReaches'
    BY <1>1, <1>3, <2>2 DEF DeletionReaches
  <2>8. CreationReaches'
    <3>1. m \notin due
      BY <1>1, <1>6 DEF NeverOfShadowbanned
    <3> QED
      BY <1>1, <1>3, <1>4, <2>2, <3>1 DEF CreationReaches
  <2>9. SwitchReaches'
    <3>1. enabled' = enabled /\ enabled \in BOOLEAN
      BY <1>1, <1>3 DEF ChatTypes
    <3>2. WillSay(enabled)' <=> WillSay(enabled)
      BY <2>2, <3>1
    <3> QED
      BY <1>1, <1>3, <3>2 DEF SwitchReaches, ToTell, LastIsRight
  <2> QED
    BY <1>5, <2>3, <2>4, <2>5, <2>6, <2>7, <2>8, <2>9 DEF ChatInv
<1>7. CASE m \notin Shadowbanned
  <2> DEFINE e == Chat!Created(m)
  <2>1. e \in ChatEvents /\ e.what = "created" /\ e.id = m
    BY <1>4, EventsAre DEF Chat!Created
  <2>2. Chat!Send(e) /\ UNCHANGED <<seen, chatEnabled, connected>>
    BY <1>2, <1>3, <1>7
  <2>3. updates \in Seq(ChatUpdates) /\ MaxInFlight \in Nat
    BY <1>1, ChatAssumption DEF ChatTypes
  <2> HIDE DEF e
  <2>4. /\ consumer = "live" /\ updates' \in Seq(ChatUpdates) /\ Len(updates') <= MaxInFlight
        /\ \A n : OnWay(n)' <=> OnWay(n) \/ (e.what = "created" /\ e.id = n)
        /\ \A n : (\E k \in 1..Len(updates') : Takes(updates'[k], n)) =>
                    (\E k \in 1..Len(updates) : Takes(updates[k], n)) \/ (e.what = "deleted" /\ e.id = n)
        /\ \A n : Gone(n) /\ ~(e.what = "created" /\ e.id = n) => Gone(n)'
        /\ \A on \in BOOLEAN : WillSay(on) /\ e.what \notin {"enabled", "disabled"} => WillSay(on)'
    BY <2>1, <2>2, <2>3, SendIs
  <2>5. ChatTypes'
    BY <1>1, <1>3, <2>4 DEF ChatTypes
  <2>6. OneEach'
    BY <1>1, <1>3, <2>4 DEF OneEach
  <2>7. DeletedOnly'
    BY <1>1, <1>3, <2>1, <2>4 DEF DeletedOnly
  <2>8. NeverOfShadowbanned'
    BY <1>1, <1>3, <1>7, <2>1, <2>4 DEF NeverOfShadowbanned
  <2>9. DeletionReaches'
    BY <1>1, <1>3, <1>4, <2>1, <2>4 DEF DeletionReaches
  <2>10. CreationReaches'
    BY <1>1, <1>3, <1>4, <2>1, <2>4 DEF CreationReaches
  <2>11. SwitchReaches'
    <3>1. enabled' = enabled /\ enabled \in BOOLEAN
      BY <1>1, <1>3 DEF ChatTypes
    <3>2. WillSay(enabled) => WillSay(enabled)'
      BY <2>1, <2>4, <3>1
    <3> QED
      BY <1>1, <1>3, <3>2 DEF SwitchReaches, ToTell, LastIsRight
  <2> QED
    BY <1>5, <2>5, <2>6, <2>7, <2>8, <2>9, <2>10, <2>11 DEF ChatInv
<1> QED
  BY <1>6, <1>7

LEMMA SendDeletedStep == ASSUME ChatInv, Chat!SendDeleted PROVE ChatInv'
<1>1. /\ ChatTypes /\ InView /\ OneEach /\ DeletedOnly /\ NeverOfShadowbanned
      /\ DeletionReaches /\ CreationReaches /\ SwitchReaches
  BY DEF ChatInv
<1>2. PICK m \in onDeleted : Chat!Send(Chat!Deleted(m))
  BY DEF Chat!SendDeleted
<1>3. /\ onDeleted' = {}
      /\ missed' = missed \cup {n \in onDeleted : n \in onCreated \/ n \notin announced}
      /\ UNCHANGED <<row, announced, withdrawn, enabled, caller, consumer, onCreated, onEnabled, onDisabled>>
      /\ UNCHANGED <<connected, shown, seen, chatEnabled, due, muddled>>
  BY DEF Chat!SendDeleted, Chat!serverVars, Chat!messageVars, Chat!switchVars, Chat!clientVars
<1>4. m \in Messages /\ onDeleted = {m} /\ row[m] = "deleted"
  BY <1>1, <1>2 DEF ChatTypes, OneEach, DeletedOnly
<1>5. InView'
  BY <1>1, <1>3 DEF InView
<1> DEFINE e == Chat!Deleted(m)
<1>6. e \in ChatEvents /\ e.what = "deleted" /\ e.id = m
  BY <1>4, EventsAre DEF Chat!Deleted
<1>7. Chat!Send(e) /\ UNCHANGED <<seen, chatEnabled, connected>>
  BY <1>2, <1>3
<1>8. updates \in Seq(ChatUpdates) /\ MaxInFlight \in Nat
  BY <1>1, ChatAssumption DEF ChatTypes
<1> HIDE DEF e
<1>9. /\ consumer = "live" /\ updates' \in Seq(ChatUpdates) /\ Len(updates') <= MaxInFlight
      /\ \A n : OnWay(n)' <=> OnWay(n) \/ (e.what = "created" /\ e.id = n)
      /\ \A n : (\E k \in 1..Len(updates') : Takes(updates'[k], n)) =>
                  (\E k \in 1..Len(updates) : Takes(updates[k], n)) \/ (e.what = "deleted" /\ e.id = n)
      /\ \A n : Gone(n) /\ ~(e.what = "created" /\ e.id = n) => Gone(n)'
      /\ \A n : e.what = "deleted" /\ e.id = n => Gone(n)'
      /\ \A on \in BOOLEAN : WillSay(on) /\ e.what \notin {"enabled", "disabled"} => WillSay(on)'
  BY <1>6, <1>7, <1>8, SendIs
<1>10. ChatTypes'
  <2>1. missed' \subseteq Messages
    BY <1>1, <1>3 DEF ChatTypes
  <2> QED
    BY <1>1, <1>3, <1>9, <2>1 DEF ChatTypes
<1>11. OneEach'
  BY <1>1, <1>3, <1>9 DEF OneEach
<1>12. DeletedOnly'
  BY <1>1, <1>3, <1>4, <1>6, <1>9 DEF DeletedOnly
<1>13. NeverOfShadowbanned'
  BY <1>1, <1>3, <1>6, <1>9 DEF NeverOfShadowbanned
<1>14. DeletionReaches'
  BY <1>1, <1>3, <1>4, <1>6, <1>9 DEF DeletionReaches
<1>15. CreationReaches'
  BY <1>1, <1>3, <1>9 DEF CreationReaches
<1>16. SwitchReaches'
  <2>1. enabled' = enabled /\ enabled \in BOOLEAN
    BY <1>1, <1>3 DEF ChatTypes
  <2>2. WillSay(enabled) => WillSay(enabled)'
    BY <1>6, <1>9, <2>1
  <2> QED
    BY <1>1, <1>3, <2>2 DEF SwitchReaches, ToTell, LastIsRight
<1> QED
  BY <1>5, <1>10, <1>11, <1>12, <1>13, <1>14, <1>15, <1>16 DEF ChatInv

LEMMA SendSwitchStep == ASSUME ChatInv, Chat!SendEnabled \/ Chat!SendDisabled PROVE ChatInv'
<1>1. /\ ChatTypes /\ InView /\ OneEach /\ DeletedOnly /\ NeverOfShadowbanned
      /\ DeletionReaches /\ CreationReaches /\ SwitchReaches
  BY DEF ChatInv
<1>2. /\ UNCHANGED <<row, announced, withdrawn, enabled, caller, consumer, onCreated, onDeleted>>
      /\ UNCHANGED <<connected, shown, seen, chatEnabled, due, missed, muddled>>
      /\ \/ onEnabled /\ onEnabled' = FALSE /\ onDisabled' = onDisabled
         \/ onDisabled /\ onDisabled' = FALSE /\ onEnabled' = onEnabled
  BY DEF Chat!SendEnabled, Chat!SendDisabled, Chat!serverVars, Chat!messageVars, Chat!switchVars, Chat!clientVars, Chat!historyVars
<1>3. PICK e \in ChatEvents :
        /\ Chat!Send(e)
        /\ \/ e.what = "enabled" /\ onEnabled /\ onEnabled' = FALSE /\ onDisabled' = onDisabled
           \/ e.what = "disabled" /\ onDisabled /\ onDisabled' = FALSE /\ onEnabled' = onEnabled
  <2>1. CASE Chat!SendEnabled
    <3> DEFINE e == Chat!Event("enabled")
    <3>1. e \in ChatEvents /\ e.what = "enabled"
      BY EventsAre DEF Chat!Event
    <3>2. Chat!Send(e) /\ onEnabled /\ onEnabled' = FALSE /\ onDisabled' = onDisabled
      BY <2>1 DEF Chat!SendEnabled
    <3> HIDE DEF e
    <3> QED
      BY <3>1, <3>2
  <2>2. CASE Chat!SendDisabled
    <3> DEFINE e == Chat!Event("disabled")
    <3>1. e \in ChatEvents /\ e.what = "disabled"
      BY EventsAre DEF Chat!Event
    <3>2. Chat!Send(e) /\ onDisabled /\ onDisabled' = FALSE /\ onEnabled' = onEnabled
      BY <2>2 DEF Chat!SendDisabled
    <3> HIDE DEF e
    <3> QED
      BY <3>1, <3>2
  <2> QED
    BY <2>1, <2>2
<1>4. InView'
  BY <1>1, <1>2 DEF InView
<1>5. updates \in Seq(ChatUpdates) /\ MaxInFlight \in Nat /\ UNCHANGED <<seen, chatEnabled, connected>>
  BY <1>1, <1>2, ChatAssumption DEF ChatTypes
<1>6. /\ consumer = "live" /\ updates' \in Seq(ChatUpdates) /\ Len(updates') <= MaxInFlight
      /\ \A n : OnWay(n)' <=> OnWay(n) \/ (e.what = "created" /\ e.id = n)
      /\ \A n : (\E k \in 1..Len(updates') : Takes(updates'[k], n)) =>
                  (\E k \in 1..Len(updates) : Takes(updates[k], n)) \/ (e.what = "deleted" /\ e.id = n)
      /\ \A n : Gone(n) /\ ~(e.what = "created" /\ e.id = n) => Gone(n)'
      /\ \A on \in BOOLEAN : e.what = (IF on THEN "enabled" ELSE "disabled") => WillSay(on)'
  BY <1>3, <1>5, SendIs
<1>7. e.what # "created" /\ e.what # "deleted"
  BY <1>3
<1>8. ChatTypes'
  <2>1. onEnabled' \in BOOLEAN /\ onDisabled' \in BOOLEAN
    BY <1>1, <1>2 DEF ChatTypes
  <2> QED
    BY <1>1, <1>2, <1>6, <2>1 DEF ChatTypes
<1>9. OneEach'
  BY <1>1, <1>2, <1>6 DEF OneEach
<1>10. DeletedOnly'
  BY <1>1, <1>2, <1>6, <1>7 DEF DeletedOnly
<1>11. NeverOfShadowbanned'
  BY <1>1, <1>2, <1>6, <1>7 DEF NeverOfShadowbanned
<1>12. DeletionReaches'
  BY <1>1, <1>2, <1>6, <1>7 DEF DeletionReaches
<1>13. CreationReaches'
  BY <1>1, <1>2, <1>6, <1>7 DEF CreationReaches
<1>14. SwitchReaches'
  <2>1. enabled' = enabled /\ enabled \in BOOLEAN
    BY <1>1, <1>2 DEF ChatTypes
  <2>2. ToTell' <=> ToTell
    BY <1>2 DEF ToTell
  <2>3. ASSUME LastIsRight PROVE LastIsRight'
    <3>1. e.what = IF enabled THEN "enabled" ELSE "disabled"
      BY <1>3, <2>1, <2>3 DEF LastIsRight
    <3>2. WillSay(enabled)'
      BY <1>6, <2>1, <3>1
    <3> QED
      BY <1>2, <1>6, <2>1, <2>3, <3>2 DEF LastIsRight
  <2> QED
    BY <1>1, <1>2, <2>2, <2>3 DEF SwitchReaches
<1> QED
  BY <1>4, <1>8, <1>9, <1>10, <1>11, <1>12, <1>13, <1>14 DEF ChatInv

LEMMA LoseStep == ASSUME ChatInv, Chat!Lose PROVE ChatInv'
<1>1. /\ ChatTypes /\ InView /\ OneEach /\ DeletedOnly /\ NeverOfShadowbanned
      /\ DeletionReaches /\ CreationReaches /\ SwitchReaches
  BY DEF ChatInv
<1> DEFINE cutOff == {m \in Messages : \E u \in Chat!Range(updates) : Chat!Deleted(m) \in Chat!Range(u)}
<1>2. /\ consumer' = "off" /\ onCreated' = {} /\ onDeleted' = {} /\ onEnabled' = FALSE /\ onDisabled' = FALSE
      /\ updates' = <<>> /\ connected' = FALSE /\ due' = {} /\ muddled' = FALSE
      /\ missed' = missed \cup onDeleted \cup cutOff
      /\ UNCHANGED <<row, announced, withdrawn, enabled, caller, shown, seen, chatEnabled>>
  BY DEF Chat!Lose, Chat!serverVars, Chat!messageVars, Chat!switchVars
<1>3. ASSUME NEW m \in Messages, NEW k \in 1..Len(updates), Takes(updates[k], m) PROVE m \in cutOff
  <2> DEFINE u == updates[k]
  <2>1. updates \in Seq(ChatUpdates)
    BY <1>1 DEF ChatTypes
  <2>2. u \in ChatUpdates /\ u \in ToSet(updates)
    <3> HIDE DEF ChatUpdates
    <3> QED
      BY <2>1 DEF ToSet
  <2>3. PICK i \in 1..Len(u) : u[i].what = "deleted" /\ u[i].id = m
    BY <1>3 DEF Takes
  <2> HIDE DEF u
  <2>4. u \in Seq(ChatEvents)
    BY <2>2 DEF ChatUpdates
  <2>5. u[i] \in ChatEvents /\ u[i] \in ToSet(u)
    <3> HIDE DEF ChatEvents
    <3> QED
      BY <2>3, <2>4 DEF ToSet
  <2>6. u[i] = [what |-> u[i].what, id |-> u[i].id]
    BY <2>5 DEF ChatEvents
  <2>7. u[i] = Chat!Deleted(m)
    BY <2>3, <2>6 DEF Chat!Deleted
  <2>8. u \in Chat!Range(updates) /\ Chat!Deleted(m) \in Chat!Range(u)
    BY <2>2, <2>5, <2>7, SameOperators
  <2> QED
    BY <2>8
<1>4. cutOff \subseteq Messages
  OBVIOUS
<1> HIDE DEF cutOff
<1>5. Len(updates') = 0 /\ updates' \in Seq(ChatUpdates)
  BY <1>2
<1>6. ~ \E k : k \in 1..Len(updates')
  BY <1>5
<1>7. \A m : ~OnWay(m)'
  BY <1>6 DEF OnWay
<1>8. ChatTypes'
  <2>1. Len(updates') <= MaxInFlight
    BY <1>5, ChatAssumption
  <2>2. missed' \subseteq Messages
    BY <1>1, <1>2, <1>4 DEF ChatTypes
  <2> QED
    BY <1>1, <1>2, <1>5, <2>1, <2>2 DEF ChatTypes
<1>9. InView'
  BY <1>1, <1>2 DEF InView
<1>10. OneEach'
  BY <1>2 DEF OneEach
<1>11. DeletedOnly'
  BY <1>1, <1>2, <1>6 DEF DeletedOnly
<1>12. NeverOfShadowbanned'
  BY <1>1, <1>2, <1>7 DEF NeverOfShadowbanned
<1>13. DeletionReaches'
  <2> SUFFICES ASSUME NEW m \in withdrawn' \ missed'
               PROVE  m \in announced' /\ m \notin onCreated' /\ Gone(m)'
    BY DEF DeletionReaches
  <2>1. m \in withdrawn /\ m \in Messages /\ m \notin missed /\ m \notin onDeleted /\ m \notin cutOff
    BY <1>1, <1>2 DEF ChatTypes
  <2>2. m \in announced /\ Gone(m)
    BY <1>1, <2>1 DEF DeletionReaches
  <2>3. m \notin seen
    BY <1>3, <2>1, <2>2 DEF Gone
  <2> QED
    BY <1>2, <1>7, <2>2, <2>3 DEF Gone
<1>14. CreationReaches'
  BY <1>2 DEF CreationReaches
<1>15. SwitchReaches'
  BY <1>2 DEF SwitchReaches, ToTell, LastIsRight
<1> QED
  BY <1>8, <1>9, <1>10, <1>11, <1>12, <1>13, <1>14, <1>15 DEF ChatInv

LEMMA ReceiveStep == ASSUME ChatInv, Chat!Receive PROVE ChatInv'
<1>1. /\ ChatTypes /\ InView /\ OneEach /\ DeletedOnly /\ NeverOfShadowbanned
      /\ DeletionReaches /\ CreationReaches /\ SwitchReaches
  BY DEF ChatInv
<1>2. /\ UNCHANGED <<row, announced, withdrawn, enabled, caller, consumer>>
      /\ UNCHANGED <<onCreated, onDeleted, onEnabled, onDisabled, missed, muddled>>
  BY DEF Chat!Receive, Chat!serverVars, Chat!messageVars, Chat!switchVars, Chat!channelVars
<1>3. /\ InView' /\ chatEnabled' \in BOOLEAN /\ connected' = TRUE
      /\ updates # <<>>
      /\ \A m \in seen' : (m \in seen \/ Brings(updates[1], m)) /\ ~Takes(updates[1], m)
      /\ \A m \in due' : /\ m \in due
                         /\ (m \in seen \/ Brings(updates[1], m)) /\ ~Takes(updates[1], m) => m \in seen'
  BY <1>1, ReceiveShows
<1>4. /\ updates' \in Seq(ChatUpdates) /\ Len(updates') <= Len(updates) /\ Len(updates') \in Nat
      /\ 1 \in 1..Len(updates)
      /\ \A m : OnWay(m) <=> OnWay(m)' \/ Brings(updates[1], m)
      /\ \A k \in 1..Len(updates') : k + 1 \in 1..Len(updates) /\ updates'[k] = updates[k + 1]
      /\ \A m : Gone(m) => Gone(m)'
      /\ \A on \in BOOLEAN : WillSay(on) => WillSay(on)'
  BY <1>1, ReceiveIs
<1>5. consumer = "live"
  BY <1>1, <1>3 DEF OneEach, ChatTypes
<1>6. ChatTypes'
  <2>1. Len(updates') <= MaxInFlight
    <3>1. Len(updates) \in Nat /\ Len(updates) <= MaxInFlight /\ MaxInFlight \in Nat
      <4>1. updates \in Seq(ChatUpdates) /\ Len(updates) <= MaxInFlight
        BY <1>1 DEF ChatTypes
      <4> HIDE DEF ChatUpdates
      <4> QED
        BY <4>1, ChatAssumption
    <3> QED
      BY <1>4, <3>1
  <2>2. due' \subseteq Messages
    BY <1>1, <1>3 DEF ChatTypes
  <2> QED
    BY <1>1, <1>2, <1>3, <1>4, <2>1, <2>2 DEF ChatTypes
<1>7. OneEach'
  BY <1>1, <1>2, <1>5 DEF OneEach
<1>8. DeletedOnly'
  BY <1>1, <1>2, <1>4 DEF DeletedOnly
<1>9. NeverOfShadowbanned'
  BY <1>1, <1>3, <1>4 DEF NeverOfShadowbanned
<1>10. DeletionReaches'
  BY <1>1, <1>2, <1>4 DEF DeletionReaches
<1>11. CreationReaches'
  <2> SUFFICES ASSUME NEW m \in due'
               PROVE  m \in onCreated' \/ OnWay(m)' \/ m \in seen' \/ row'[m] = "deleted"
    BY DEF CreationReaches
  <2>1. m \in due /\ m \in Messages
    BY <1>1, <1>3 DEF ChatTypes
  <2>2. m \in onCreated \/ OnWay(m)' \/ Brings(updates[1], m) \/ m \in seen \/ row[m] = "deleted"
    BY <1>1, <1>4, <2>1 DEF CreationReaches
  <2>3. Takes(updates[1], m) => row[m] = "deleted"
    BY <1>1, <1>4, <2>1 DEF DeletedOnly
  <2>4. (m \in seen \/ Brings(updates[1], m)) /\ ~Takes(updates[1], m) => m \in seen'
    BY <1>3
  <2> QED
    BY <1>2, <2>2, <2>3, <2>4
<1>12. SwitchReaches'
  <2>1. enabled' = enabled /\ enabled \in BOOLEAN
    BY <1>1, <1>2 DEF ChatTypes
  <2>2. WillSay(enabled) => WillSay(enabled)'
    BY <1>4, <2>1
  <2> QED
    BY <1>1, <1>2, <2>2 DEF SwitchReaches, ToTell, LastIsRight
<1> QED
  BY <1>3, <1>6, <1>7, <1>8, <1>9, <1>10, <1>11, <1>12 DEF ChatInv

LEMMA ChatMoves == ASSUME ChatInv, Chat!ChatNext PROVE ChatInv'
BY MessageStep, SwitchStep, OpenStep, SendInitialStep, SendCreatedStep, SendDeletedStep,
   SendSwitchStep, LoseStep, ReceiveStep DEF Chat!ChatNext

LEMMA ChatStays == ASSUME ChatInv, UNCHANGED chatVars PROVE ChatInv'
<1>1. /\ UNCHANGED <<row, announced, withdrawn, enabled, caller, consumer, onCreated, onDeleted, onEnabled, onDisabled>>
      /\ UNCHANGED <<updates, connected, shown, seen, chatEnabled, due, missed, muddled>>
  BY DEF chatVars
<1>2. /\ ChatTypes /\ InView /\ OneEach /\ DeletedOnly /\ NeverOfShadowbanned
      /\ DeletionReaches /\ CreationReaches /\ SwitchReaches
  BY DEF ChatInv
<1>3. /\ InView' /\ \A n : OnWay(n)' <=> OnWay(n)
      /\ \A n : Gone(n)' <=> Gone(n)
      /\ \A on \in BOOLEAN : WillSay(on)' <=> WillSay(on)
  BY <1>1, <1>2, WaySame
<1>4. ChatTypes' /\ OneEach'
  BY <1>1, <1>2 DEF ChatTypes, OneEach
<1>5. DeletedOnly' /\ NeverOfShadowbanned'
  BY <1>1, <1>2, <1>3 DEF DeletedOnly, NeverOfShadowbanned
<1>6. DeletionReaches' /\ CreationReaches'
  BY <1>1, <1>2, <1>3 DEF DeletionReaches, CreationReaches
<1>7. SwitchReaches'
  <2>1. enabled' = enabled /\ enabled \in BOOLEAN
    BY <1>1, <1>2 DEF ChatTypes
  <2>2. WillSay(enabled)' <=> WillSay(enabled)
    BY <1>3, <2>1
  <2> QED
    BY <1>1, <1>2, <2>2 DEF SwitchReaches, ToTell, LastIsRight
<1> QED
  BY <1>3, <1>4, <1>5, <1>6, <1>7 DEF ChatInv

LEMMA ChatStarts == ASSUME Chat!ChatInit PROVE ChatInv
<1>1. /\ row = [m \in Messages |-> "none"] /\ announced = {} /\ withdrawn = {} /\ enabled = TRUE
      /\ caller = [c \in Callers |-> [at |-> "idle", on |-> FALSE]]
      /\ consumer = "off" /\ onCreated = {} /\ onDeleted = {} /\ onEnabled = FALSE /\ onDisabled = FALSE
      /\ updates = <<>> /\ connected = FALSE /\ shown = <<>> /\ seen = {} /\ chatEnabled = TRUE
      /\ due = {} /\ missed = {} /\ muddled = FALSE
  BY DEF Chat!ChatInit, Chat!Idle
<1>2. Len(updates) = 0 /\ updates \in Seq(ChatUpdates) /\ ~ \E k : k \in 1..Len(updates)
  BY <1>1
<1>3. ChatTypes
  <2>1. Len(updates) <= MaxInFlight
    BY <1>2, ChatAssumption
  <2> QED
    BY <1>1, <1>2, <2>1 DEF ChatTypes
<1>4. InView
  <2>1. Len(shown) = 0 /\ shown \in Seq(Messages) /\ DOMAIN shown = {} /\ ~ \E k : k \in 1..Len(shown)
    BY <1>1
  <2>2. ToSet(shown) = {}
    BY <2>1 DEF ToSet
  <2>3. Len(shown) <= MessageHistorySize
    BY <2>1, ChatAssumption
  <2> QED
    BY <1>1, <2>1, <2>2, <2>3 DEF InView, Distinct
<1>5. OneEach /\ CreationReaches /\ SwitchReaches /\ DeletionReaches
  BY <1>1 DEF OneEach, CreationReaches, SwitchReaches, DeletionReaches
<1>6. DeletedOnly /\ NeverOfShadowbanned
  BY <1>1, <1>2 DEF DeletedOnly, NeverOfShadowbanned, OnWay
<1> QED
  BY <1>3, <1>4, <1>5, <1>6 DEF ChatInv

THEOREM ChatInductive == MCSpec => []ChatInv
<1>1. MCInit => ChatInv
  BY ChatStarts DEF MCInit
<1>2. ASSUME ChatInv, [MCNext]_<<restartVars, chatVars, configurationVars, about>>
      PROVE  ChatInv'
  BY <1>2, PartsMove, ChatMoves, ChatStays
<1> QED
  BY <1>1, <1>2, PTL DEF MCSpec

\* What is shown is in order and nothing twice, seenMessageIDs has what is
\* shown, and no more is kept than the client keeps, for any number of
\* messages, whatever is lost with a stream (Chat.svelte).
THEOREM ShownInOrder == MCSpec => []ShownOnce
<1>1. ASSUME ChatInv PROVE ShownOnce
  <2>1. InView
    BY <1>1 DEF ChatInv
  <2>2. DOMAIN shown = 1..Len(shown)
    BY <2>1, HeldIs DEF InView
  <2> QED
    BY <2>1, <2>2, SameOperators DEF InView, ShownOnce, Chat!ShownOnce
<1> QED
  BY <1>1, ChatInductive, PTL

\* A client that has caught up shows of the deleted messages only those whose
\* deletion was dropped, lost or overtook the creation, none of a shadowbanned
\* user, every message the stream was notified of that later ones have not
\* pushed out, and, once no call is between its write and its notification,
\* whether chat is enabled, unless the last notification of the switch found the
\* opposite one in its channel or came after another call had set the switch
\* again and told so (grpc_chat.go, disable.go, Chat.svelte).
THEOREM ChatIsShown == MCSpec => []ShowsTheChat
<1>1. ASSUME ChatInv PROVE ShowsTheChat
  <2> SUFFICES ASSUME Chat!CaughtUp
               PROVE  /\ \A m \in Chat!Range(shown) : m \notin Shadowbanned /\ (row[m] = "deleted" => m \in missed)
                      /\ \A m \in due : m \in Chat!Range(shown) \/ row[m] = "deleted"
                      /\ ~muddled /\ (\A c \in Callers : caller[c].at # "written") => chatEnabled = enabled
    BY DEF ShowsTheChat, Chat!ShowsTheChat
  <2>1. /\ ChatTypes /\ InView /\ DeletedOnly /\ NeverOfShadowbanned
        /\ DeletionReaches /\ CreationReaches /\ SwitchReaches
    BY <1>1 DEF ChatInv
  <2>2. /\ consumer = "live" /\ connected /\ updates = <<>>
        /\ onCreated = {} /\ onDeleted = {} /\ ~onEnabled /\ ~onDisabled
        /\ \A m \in Messages : row[m] = "deleted" => m \in withdrawn
    BY DEF Chat!CaughtUp
  <2>3. Chat!Range(shown) = seen /\ seen \subseteq Messages
    <3>1. shown \in Seq(Messages) /\ seen = ToSet(shown)
      BY <2>1 DEF InView
    <3>2. ToSet(shown) \subseteq Messages
      BY <3>1 DEF ToSet
    <3> QED
      BY <3>1, <3>2, SameOperators
  <2>4. ~ \E k : k \in 1..Len(updates)
    BY <2>2
  <2>5. \A m : ~OnWay(m)
    BY <2>4 DEF OnWay
  <2>6. ASSUME NEW m \in seen PROVE m \notin Shadowbanned /\ (row[m] = "deleted" => m \in missed)
    <3>1. m \notin Shadowbanned
      BY <2>1 DEF NeverOfShadowbanned
    <3>2. ~Gone(m)
      BY <2>4 DEF Gone
    <3>3. row[m] = "deleted" => m \in withdrawn
      BY <2>2, <2>3
    <3> QED
      BY <2>1, <2>2, <3>1, <3>2, <3>3 DEF DeletionReaches
  <2>7. \A m \in due : m \in seen \/ row[m] = "deleted"
    BY <2>1, <2>2, <2>5 DEF CreationReaches
  <2>8. ASSUME ~muddled, \A c \in Callers : caller[c].at # "written" PROVE chatEnabled = enabled
    <3>1. WillSay(enabled) /\ chatEnabled \in BOOLEAN /\ enabled \in BOOLEAN
      BY <2>1, <2>2, <2>8 DEF SwitchReaches, ToTell, LastIsRight, ChatTypes
    <3>2. (chatEnabled \/ ~connected) = enabled
      BY <2>4, <3>1 DEF WillSay
    <3> QED
      BY <2>2, <3>1, <3>2
  <2> QED
    BY <2>3, <2>6, <2>7, <2>8
<1> QED
  BY <1>1, ChatInductive, PTL

\* The two parts of the client keep to their types, for any number of messages,
\* applications and tabs (Chat.svelte, configurationStores.ts, tabStores.ts).
THEOREM ViewTypes == MCSpec => []ViewsTypeOK
<1>1. ASSUME ChatInv PROVE Chat!ChatTypeOK
  <2>1. ChatTypes /\ shown \in Seq(Messages) /\ seen \subseteq Messages
    <3>1. ChatTypes /\ shown \in Seq(Messages) /\ seen = ToSet(shown)
      BY <1>1 DEF ChatInv, InView
    <3>2. ToSet(shown) \subseteq Messages
      BY <3>1 DEF ToSet
    <3> QED
      BY <3>1, <3>2
  <2> QED
    BY <2>1 DEF ChatTypes, Chat!ChatTypeOK
<1>2. ASSUME ConfigurationInv PROVE Configuration!ConfigurationTypeOK
  BY <1>2, InvGivesTypes
<1> QED
  BY <1>1, <1>2, ChatInductive, ConfigurationInductive, PTL DEF ViewsTypeOK
=============================================================================
