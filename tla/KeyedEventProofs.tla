--------------------------- MODULE KeyedEventProofs ---------------------------
(***************************************************************************)
(* The events of a key, for any number of subscribers, events and          *)
(* notifications.                                                          *)
(*                                                                         *)
(* A collection holds exactly the subscribers an event has, each in the    *)
(* slot of its identifier, because its free slots make a list that no slot *)
(* is on twice (CollectionOk).  What waits to be sent waits for the first  *)
(* subscriber (KeyInv): so each event does what a Topic does, step by      *)
(* step, and nothing is read after what was sent later.                    *)
(*                                                                         *)
(* What such events carry to a viewer, in three channels that overtake     *)
(* each other, settles on what is unread (LightInv).                       *)
(***************************************************************************)
EXTENDS KeyedEventMC, FiniteSetTheorems, SequenceTheorems, WellFoundedInduction, TLAPS

-----------------------------------------------------------------------------
(* Induction                                                               *)

\* A set of natural numbers has a least element.
LEMMA LeastElement ==
  ASSUME NEW T, T \subseteq Nat, T # {}
  PROVE  \E x \in T : \A y \in T : x <= y
<1> DEFINE R == OpToRel(<, Nat)
<1>1. IsWellFoundedOn(R, Nat)
  BY NatLessThanWellFounded
<1>2. \A x, y \in Nat : <<x, y>> \in R <=> x < y
  BY DEF OpToRel
<1> HIDE DEF R
<1>3. PICK x \in T : \A y \in T : ~(<<y, x>> \in R)
  BY <1>1, WFMin
<1>4. x \in Nat /\ \A y \in T : y \in Nat
  OBVIOUS
<1>5. \A y \in T : ~(y < x)
  BY <1>2, <1>3, <1>4
<1> QED
  BY <1>4, <1>5

-----------------------------------------------------------------------------
(* Sending several notifications                                           *)

\* What is in a channel after the first n of ms were sent to it.
AfterFirst(strategy, box, ms, n) ==
  IF n = 0 THEN box
  ELSE IF strategy = "first" THEN (IF box = <<>> THEN <<ms[1]>> ELSE box)
  ELSE IF strategy = "latest" THEN <<ms[n]>>
  ELSE box \o SubSeq(ms, 1, n)

\* One more is sent.
LEMMA SendNext ==
  ASSUME NEW strategy \in Strategies, NEW S, NEW box \in Seq(S), NEW ms \in Seq(S), NEW n \in 1..Len(ms)
  PROVE  AfterFirst(strategy, box, ms, n) = Send(strategy, AfterFirst(strategy, box, ms, n - 1), ms[n])
<1>1. n \in Nat /\ n # 0 /\ n - 1 \in Nat /\ Len(ms) \in Nat
  OBVIOUS
<1>2. CASE strategy = "first"
  <2>1. AfterFirst(strategy, box, ms, n) = IF box = <<>> THEN <<ms[1]>> ELSE box
    BY <1>1, <1>2 DEF AfterFirst
  <2>2. CASE n = 1
    BY <1>2, <2>1, <2>2 DEF AfterFirst, Send
  <2>3. CASE n # 1
    <3>1. AfterFirst(strategy, box, ms, n - 1) = IF box = <<>> THEN <<ms[1]>> ELSE box
      BY <1>1, <1>2, <2>3 DEF AfterFirst
    <3>2. <<ms[1]>> # <<>>
      OBVIOUS
    <3> QED
      BY <1>2, <2>1, <3>1, <3>2 DEF Send
  <2> QED
    BY <2>2, <2>3
<1>3. CASE strategy = "latest"
  BY <1>1, <1>3 DEF AfterFirst, Send
<1>4. CASE strategy = "all"
  <2>1. AfterFirst(strategy, box, ms, n) = box \o SubSeq(ms, 1, n)
    BY <1>1, <1>4 DEF AfterFirst
  <2>2. SubSeq(ms, 1, n) = SubSeq(ms, 1, n - 1) \o <<ms[n]>>
    BY SubSeqRecursiveSecond
  <2>3. SubSeq(ms, 1, n - 1) \in Seq(S) /\ <<ms[n]>> \in Seq(S) /\ ms[n] \in S
    BY <1>1, SubSeqProperties
  <2>4. box \o SubSeq(ms, 1, n) = (box \o SubSeq(ms, 1, n - 1)) \o <<ms[n]>>
    <3> DEFINE front == SubSeq(ms, 1, n - 1)
               last == <<ms[n]>>
    <3>1. front \in Seq(S) /\ last \in Seq(S)
      BY <2>3
    <3> HIDE DEF front, last
    <3>2. (box \o front) \o last = box \o (front \o last)
      BY <3>1, ConcatAssociative, SMTT(60)
    <3> QED
      BY <2>2, <3>2 DEF front, last
  <2>5. box \o SubSeq(ms, 1, n - 1) = AfterFirst(strategy, box, ms, n - 1)
    <3>1. CASE n = 1
      <4>1. SubSeq(ms, 1, n - 1) = <<>>
        BY <3>1
      <4> QED
        BY <3>1, <4>1, ConcatEmptySeq DEF AfterFirst
    <3>2. CASE n # 1
      BY <1>1, <1>4, <3>2 DEF AfterFirst
    <3> QED
      BY <3>1, <3>2
  <2>6. box \o SubSeq(ms, 1, n - 1) \in Seq(S)
    BY <2>3, ConcatProperties
  <2>7. Send(strategy, AfterFirst(strategy, box, ms, n - 1), ms[n]) = Append(box \o SubSeq(ms, 1, n - 1), ms[n])
    BY <1>4, <2>5 DEF Send
  <2>8. \A x \in Seq(S) : Append(x, ms[n]) = x \o <<ms[n]>>
    BY <2>3, AppendIsConcat
  <2> QED
    BY <2>1, <2>4, <2>6, <2>7, <2>8
<1> QED
  BY <1>2, <1>3, <1>4 DEF Strategies

\* The loop of SendEach computes it.
LEMMA SendEachIs ==
  ASSUME NEW strategy \in Strategies, NEW S, NEW box \in Seq(S), NEW ms \in Seq(S)
  PROVE  SendEach(strategy, box, ms) = AfterFirst(strategy, box, ms, Len(ms))
<1> DEFINE Loops(f) == f = [n \in 0..Len(ms) |-> IF n = 0 THEN box ELSE Send(strategy, f[n - 1], ms[n])]
           after == CHOOSE f : Loops(f)
           known == [n \in 0..Len(ms) |-> AfterFirst(strategy, box, ms, n)]
<1>1. SendEach(strategy, box, ms) = after[Len(ms)]
  BY DEF SendEach
<1>2. Len(ms) \in Nat
  OBVIOUS
<1>3. known = [n \in 0..Len(ms) |-> IF n = 0 THEN box ELSE Send(strategy, known[n - 1], ms[n])]
  <2>1. ASSUME NEW n \in 0..Len(ms)
        PROVE  known[n] = IF n = 0 THEN box ELSE Send(strategy, known[n - 1], ms[n])
    <3>1. CASE n = 0
      BY <1>2, <3>1 DEF AfterFirst
    <3>2. CASE n # 0
      <4>1. n \in 1..Len(ms) /\ n - 1 \in 0..Len(ms)
        BY <1>2, <3>2
      <4>2. known[n - 1] = AfterFirst(strategy, box, ms, n - 1) /\ known[n] = AfterFirst(strategy, box, ms, n)
        BY <4>1
      <4> QED
        BY <3>2, <4>1, <4>2, SendNext
    <3> QED
      BY <3>1, <3>2
  <2> QED
    BY <2>1
<1>4. Loops(known)
  BY <1>3
<1> HIDE DEF known
<1>5. Loops(after)
  BY <1>4
<1> HIDE DEF after
<1>6. \A n \in 0..Len(ms) : after[n] = IF n = 0 THEN box ELSE Send(strategy, after[n - 1], ms[n])
  BY <1>5
<1> HIDE DEF Loops
<1> DEFINE Bad == {n \in 0..Len(ms) : after[n] # AfterFirst(strategy, box, ms, n)}
<1>7. Bad = {}
  <2> SUFFICES ASSUME Bad # {} PROVE FALSE
    OBVIOUS
  <2>1. PICK n \in Bad : \A k \in Bad : n <= k
    <3>1. Bad \subseteq Nat
      BY <1>2
    <3> HIDE DEF Bad
    <3> QED
      BY <3>1, LeastElement
  <2>2. n \in 0..Len(ms) /\ after[n] # AfterFirst(strategy, box, ms, n)
    OBVIOUS
  <2>3. n # 0
    BY <1>6, <2>2 DEF AfterFirst
  <2>4. n \in 1..Len(ms) /\ n - 1 \in 0..Len(ms) /\ ~(n <= n - 1)
    BY <1>2, <2>2, <2>3
  <2>5. after[n - 1] = AfterFirst(strategy, box, ms, n - 1)
    BY <2>1, <2>4
  <2> QED
    BY <1>6, <2>2, <2>3, <2>4, <2>5, SendNext
<1>8. Len(ms) \in 0..Len(ms)
  BY <1>2
<1> QED
  BY <1>1, <1>7, <1>8

\* Which is what a Topic offers.
LEMMA SendEachOffers ==
  ASSUME NEW strategy \in Strategies, NEW S, NEW box \in Seq(S), NEW ms \in Seq(S)
  PROVE  SendEach(strategy, box, ms) = AsTopics!OfferAll(strategy, box, ms)
<1>1. SendEach(strategy, box, ms) = AfterFirst(strategy, box, ms, Len(ms))
  BY SendEachIs
<1>2. Len(ms) \in Nat /\ (Len(ms) = 0 <=> ms = <<>>) /\ SubSeq(ms, 1, Len(ms)) = ms
  BY EmptySeq, SubSeqFull
<1>3. strategy \in {"first", "latest", "all"}
  BY DEF Strategies
<1> QED
  BY <1>1, <1>2, <1>3 DEF AfterFirst, AsTopics!OfferAll

\* Nothing sent changes nothing.
LEMMA SendNothing ==
  ASSUME NEW strategy \in Strategies, NEW S, NEW box \in Seq(S)
  PROVE  SendEach(strategy, box, <<>>) = box
<1>1. <<>> \in Seq(S) /\ Len(<<>>) = 0
  BY EmptySeq
<1>2. SendEach(strategy, box, <<>>) = AfterFirst(strategy, box, <<>>, Len(<<>>))
  BY <1>1, SendEachIs
<1> QED
  BY <1>1, <1>2 DEF AfterFirst

-----------------------------------------------------------------------------
(* The collections                                                         *)

\* The collection c holds the contents who, each in the slot of its identifier;
\* the other slots are free and empty, and no two places of the list of free
\* slots lead to the same one.
CollectionTypes(c) ==
  /\ c = [lastDeleteIdx |-> c.lastDeleteIdx, len |-> c.len, array |-> c.array]
  /\ c.array \in Seq([next : Int, content : Subscribers \cup {Nil}])
  /\ c.lastDeleteIdx \in 0..Len(c.array)

Slots(c, who, id) ==
  /\ \A i \in 1..Len(c.array) :
       \/ c.array[i].next = -1 /\ c.array[i].content \in who /\ id[c.array[i].content] = i
       \/ c.array[i].next \in 0..Len(c.array) /\ c.array[i].content = Nil
  /\ \A s \in who : /\ id[s] \in 1..Len(c.array)
                    /\ c.array[id[s]].next = -1 /\ c.array[id[s]].content = s

FreeList(c) ==
  /\ c.lastDeleteIdx # 0 => c.array[c.lastDeleteIdx].next # -1
  /\ \A i \in 1..Len(c.array) :
       c.array[i].next > 0 => /\ c.array[c.array[i].next].next # -1
                              /\ c.array[i].next # c.lastDeleteIdx
                              /\ \A j \in 1..Len(c.array) : c.array[j].next = c.array[i].next => j = i

CollectionOk(c, who, id) ==
  /\ CollectionTypes(c)
  /\ Slots(c, who, id)
  /\ FreeList(c)
  /\ IsFiniteSet(who) /\ c.len = Cardinality(who)

\* What the loops over a collection meet are the contents it holds.
LEMMA Contents ==
  ASSUME NEW c, NEW who \in SUBSET Subscribers, NEW id, CollectionOk(c, who, id)
  PROVE  BackingContents(c) = who /\ Entries(c) = who
<1>1. Nil \notin who
  BY KeyedAssumption
<1>2. /\ \A i \in 1..Len(c.array) : \/ c.array[i].next = -1 /\ c.array[i].content \in who
                                    \/ c.array[i].next \in 0..Len(c.array) /\ c.array[i].content = Nil
      /\ \A s \in who : \E i \in 1..Len(c.array) : c.array[i].next = -1 /\ c.array[i].content = s
  BY DEF CollectionOk, Slots
<1>3. BackingContents(c) = who
  BY <1>1, <1>2 DEF BackingContents
<1>4. Entries(c) = who
  <2>1. Len(c.array) \in Nat
    BY DEF CollectionOk, CollectionTypes
  <2>2. UsedSlots(c) = {i \in 1..Len(c.array) : c.array[i].next = -1}
    BY <1>2, <2>1 DEF UsedSlots
  <2> QED
    BY <1>1, <1>2, <2>2 DEF Entries
<1> QED
  BY <1>3, <1>4

\* A collection as it is made.
LEMMA EmptyOk == ASSUME NEW id PROVE CollectionOk(EmptyCollection, {}, id)
<1>1. /\ EmptyCollection.array = <<>> /\ EmptyCollection.lastDeleteIdx = 0 /\ EmptyCollection.len = 0
      /\ EmptyCollection = [lastDeleteIdx |-> 0, len |-> 0, array |-> <<>>]
  BY DEF EmptyCollection
<1>2. Len(<<>>) = 0 /\ <<>> \in Seq([next : Int, content : Subscribers \cup {Nil}])
  BY EmptySeq
<1>3. CollectionTypes(EmptyCollection)
  BY <1>1, <1>2 DEF CollectionTypes
<1>4. Slots(EmptyCollection, {}, id) /\ FreeList(EmptyCollection)
  BY <1>1, <1>2 DEF Slots, FreeList
<1> QED
  BY <1>1, <1>3, <1>4, FS_EmptySet DEF CollectionOk

\* Other identifiers do not matter.
LEMMA SameIDs ==
  ASSUME NEW c, NEW who, NEW id, CollectionOk(c, who, id), NEW ids, \A x \in who : ids[x] = id[x]
  PROVE  CollectionOk(c, who, ids)
<1>1. Slots(c, who, ids)
  BY DEF CollectionOk, Slots
<1> QED
  BY <1>1 DEF CollectionOk

\* A content is inserted: it gets the first free slot, or a new one.
LEMMA InsertKeeps ==
  ASSUME NEW c, NEW who \in SUBSET Subscribers, NEW id, CollectionOk(c, who, id),
         NEW s \in Subscribers \ who, NEW ids, ids[s] = InsertID(c), \A x \in who : ids[x] = id[x]
  PROVE  CollectionOk(Insert(c, s), who \cup {s}, ids)
<1> DEFINE T == [next : Int, content : Subscribers \cup {Nil}]
           a == c.array
           h == c.lastDeleteIdx
           n == Len(a)
           slot == [next |-> -1, content |-> s]
           d == Insert(c, s)
           b == d.array
           m == Len(b)
<1>1. /\ a \in Seq(T) /\ n \in Nat /\ h \in 0..n /\ slot \in T
      /\ c = [lastDeleteIdx |-> h, len |-> c.len, array |-> a]
  BY DEF CollectionOk, CollectionTypes
<1>2. slot.next = -1 /\ slot.content = s
  OBVIOUS
<1>3. \A i \in 1..n : a[i].next \in Int
  <2>1. \A i \in 1..n : a[i] \in T
    BY <1>1, ElementOfSeq
  <2> QED
    BY <2>1
<1>4. Slots(c, who, id) /\ FreeList(c) /\ IsFiniteSet(who) /\ c.len = Cardinality(who)
  BY DEF CollectionOk
<1>5. /\ \A i \in 1..n : \/ a[i].next = -1 /\ a[i].content \in who /\ id[a[i].content] = i
                         \/ a[i].next \in 0..n /\ a[i].content = Nil
      /\ \A x \in who : id[x] \in 1..n /\ a[id[x]].next = -1 /\ a[id[x]].content = x
  BY <1>4 DEF Slots
<1>6. /\ h # 0 => a[h].next # -1
      /\ \A i \in 1..n : a[i].next > 0 => /\ a[a[i].next].next # -1 /\ a[i].next # h
                                          /\ \A j \in 1..n : a[j].next = a[i].next => j = i
  BY <1>4 DEF FreeList
<1>7. /\ d = [lastDeleteIdx |-> IF h > 0 THEN a[h].next ELSE h, len |-> c.len + 1, array |-> b]
      /\ b = IF h > 0 THEN [a EXCEPT ![h] = slot] ELSE Append(a, slot)
      /\ ids[s] = IF h > 0 THEN h ELSE n + 1
  BY <1>1 DEF Insert, InsertID
<1>8. /\ h > 0 => ids[s] = h /\ m = n
      /\ h = 0 => ids[s] = n + 1 /\ m = n + 1
      /\ b \in Seq(T)
      /\ \A i \in 1..m : b[i] = IF i = ids[s] THEN slot ELSE a[i]
  <2>1. CASE h > 0
    <3>1. h \in 1..n
      BY <1>1, <2>1
    <3>2. b \in Seq(T) /\ m = n /\ \A i \in 1..n : b[i] = IF i = h THEN slot ELSE a[i]
      <4>1. b = [a EXCEPT ![h] = slot]
        BY <1>7, <2>1
      <4> HIDE DEF a, h, slot, b, T
      <4> QED
        BY <1>1, <3>1, <4>1, ExceptSeq
    <3> HIDE DEF a, h, slot, b, T, n, m
    <3> QED
      BY <1>1, <1>7, <2>1, <3>1, <3>2
  <2>2. CASE h = 0
    <3>1. b = Append(a, slot)
      BY <1>7, <2>2
    <3> HIDE DEF a, h, slot, b, T
    <3>2. b \in Seq(T) /\ m = n + 1 /\ b[n + 1] = slot /\ \A i \in 1..n : b[i] = a[i]
      BY <1>1, <3>1, AppendProperties
    <3>3. ids[s] = n + 1
      BY <1>7, <2>2
    <3> HIDE DEF n, m
    <3> QED
      BY <1>1, <2>2, <3>2, <3>3
  <2> QED
    BY <1>1, <2>1, <2>2
<1>9. d.lastDeleteIdx = (IF h > 0 THEN a[h].next ELSE 0) /\ d.len = c.len + 1
  BY <1>1, <1>7
<1> HIDE DEF a, h, n, slot, d, b, m, T
<1>10. /\ m \in Nat /\ n <= m /\ ids[s] \in 1..m /\ \A i \in 1..m : i # ids[s] => i \in 1..n
       /\ \A x \in who : id[x] # ids[s]
       /\ \A i \in 1..n : a[i].next > 0 => a[i].next # ids[s] /\ a[i].next \in 1..n
  <2>1. m \in Nat /\ n <= m /\ ids[s] \in 1..m /\ \A i \in 1..m : i # ids[s] => i \in 1..n
    BY <1>1, <1>8
  <2>2. \A x \in who : id[x] # ids[s]
    BY <1>1, <1>5, <1>6, <1>8
  <2>3. \A i \in 1..n : a[i].next > 0 => a[i].next # ids[s] /\ a[i].next \in 1..n
    BY <1>1, <1>3, <1>5, <1>6, <1>8
  <2> QED
    BY <2>1, <2>2, <2>3
<1>11. d.lastDeleteIdx \in 0..n /\ (d.lastDeleteIdx # 0 => h > 0 /\ d.lastDeleteIdx = a[h].next)
  <2>1. h > 0 => h \in 1..n /\ a[h].next # -1
    BY <1>1, <1>6
  <2>2. h > 0 => a[h].next \in 0..n
    BY <1>5, <2>1
  <2> QED
    BY <1>1, <1>9, <2>1, <2>2
<1>12. CollectionTypes(d)
  <2>1. d = [lastDeleteIdx |-> d.lastDeleteIdx, len |-> d.len, array |-> d.array]
    BY <1>7, <1>9
  <2>2. d.lastDeleteIdx \in 0..Len(d.array)
    BY <1>1, <1>10, <1>11 DEF m, b
  <2> QED
    BY <1>8, <2>1, <2>2 DEF CollectionTypes, b, T
<1>13. Slots(d, who \cup {s}, ids)
  <2>1. ASSUME NEW i \in 1..m
        PROVE  \/ b[i].next = -1 /\ b[i].content \in who \cup {s} /\ ids[b[i].content] = i
               \/ b[i].next \in 0..m /\ b[i].content = Nil
    <3>1. CASE i = ids[s]
      BY <1>2, <1>8, <3>1 DEF slot
    <3>2. CASE i # ids[s]
      <4>1. i \in 1..n /\ b[i] = a[i]
        BY <1>8, <1>10, <3>2
      <4>2. 0..n \subseteq 0..m
        BY <1>1, <1>10
      <4> QED
        BY <1>5, <4>1, <4>2
    <3> QED
      BY <3>1, <3>2
  <2>2. ASSUME NEW x \in who \cup {s}
        PROVE  ids[x] \in 1..m /\ b[ids[x]].next = -1 /\ b[ids[x]].content = x
    <3>1. CASE x = s
      BY <1>2, <1>8, <1>10, <3>1 DEF slot
    <3>2. CASE x \in who
      <4>1. ids[x] = id[x] /\ id[x] \in 1..n /\ id[x] # ids[s]
        BY <1>5, <1>10, <3>2
      <4>2. id[x] \in 1..m
        BY <1>1, <1>10, <4>1
      <4>3. b[id[x]] = a[id[x]]
        BY <1>8, <4>1, <4>2
      <4> QED
        BY <1>5, <3>2, <4>1, <4>2, <4>3
    <3> QED
      BY <3>1, <3>2
  <2> QED
    BY <2>1, <2>2 DEF Slots, m, b
<1>14. FreeList(d)
  <2>1. d.lastDeleteIdx # 0 => b[d.lastDeleteIdx].next # -1
    <3> SUFFICES ASSUME d.lastDeleteIdx # 0 PROVE b[d.lastDeleteIdx].next # -1
      OBVIOUS
    <3>1. h \in 1..n /\ d.lastDeleteIdx = a[h].next /\ a[h].next > 0 /\ ids[s] = h
      BY <1>1, <1>8, <1>11
    <3>2. a[a[h].next].next # -1 /\ a[h].next # h
      BY <1>6, <3>1
    <3>3. b[a[h].next] = a[a[h].next]
      BY <1>1, <1>8, <1>10, <1>11, <3>1, <3>2
    <3> QED
      BY <3>1, <3>2, <3>3
  <2>2. ASSUME NEW i \in 1..m, b[i].next > 0
        PROVE  /\ b[b[i].next].next # -1 /\ b[i].next # d.lastDeleteIdx
               /\ \A j \in 1..m : b[j].next = b[i].next => j = i
    <3>1. i # ids[s] /\ i \in 1..n /\ b[i] = a[i] /\ a[i].next > 0
      BY <1>2, <1>8, <1>10, <2>2 DEF slot
    <3>2. /\ a[a[i].next].next # -1 /\ a[i].next # ids[s] /\ a[i].next \in 1..n
          /\ \A j \in 1..n : a[j].next = a[i].next => j = i
      BY <1>6, <1>10, <3>1
    <3>3. a[i].next \in 1..m
      BY <1>1, <1>10, <3>2
    <3>4. b[a[i].next].next # -1
      BY <1>8, <3>2, <3>3
    <3>5. a[i].next # d.lastDeleteIdx
      <4>1. h > 0 => h \in 1..n /\ ids[s] = h
        BY <1>1, <1>8
      <4> QED
        BY <1>11, <3>1, <3>2, <4>1
    <3>6. ASSUME NEW j \in 1..m, b[j].next = a[i].next PROVE j = i
      <4>1. j # ids[s]
        BY <1>2, <1>8, <3>1, <3>6 DEF slot
      <4> QED
        BY <1>8, <1>10, <3>2, <3>6, <4>1
    <3> QED
      BY <3>1, <3>4, <3>5, <3>6
  <2> QED
    BY <2>1, <2>2 DEF FreeList, m, b
<1>15. IsFiniteSet(who \cup {s}) /\ d.len = Cardinality(who \cup {s})
  BY <1>4, <1>9, FS_AddElement
<1> QED
  BY <1>12, <1>13, <1>14, <1>15 DEF CollectionOk, d

\* A content is deleted: its slot becomes the first free one.
LEMMA DeleteKeeps ==
  ASSUME NEW c, NEW who \in SUBSET Subscribers, NEW id, CollectionOk(c, who, id),
         NEW s \in who, NEW ids, \A x \in who \ {s} : ids[x] = id[x]
  PROVE  CollectionOk(Delete(c, id[s]), who \ {s}, ids)
<1> DEFINE T == [next : Int, content : Subscribers \cup {Nil}]
           a == c.array
           h == c.lastDeleteIdx
           n == Len(a)
           k == id[s]
           slot == [next |-> h, content |-> Nil]
           d == Delete(c, k)
           b == d.array
<1>1. a \in Seq(T) /\ n \in Nat /\ h \in 0..n /\ slot \in T
  BY DEF CollectionOk, CollectionTypes
<1>2. slot.next = h /\ slot.content = Nil
  OBVIOUS
<1>3. Slots(c, who, id) /\ FreeList(c) /\ IsFiniteSet(who) /\ c.len = Cardinality(who)
  BY DEF CollectionOk
<1>4. /\ \A i \in 1..n : \/ a[i].next = -1 /\ a[i].content \in who /\ id[a[i].content] = i
                         \/ a[i].next \in 0..n /\ a[i].content = Nil
      /\ \A x \in who : id[x] \in 1..n /\ a[id[x]].next = -1 /\ a[id[x]].content = x
  BY <1>3 DEF Slots
<1>5. /\ h # 0 => a[h].next # -1
      /\ \A i \in 1..n : a[i].next > 0 => /\ a[a[i].next].next # -1 /\ a[i].next # h
                                          /\ \A j \in 1..n : a[j].next = a[i].next => j = i
  BY <1>3 DEF FreeList
<1>6. d = [lastDeleteIdx |-> k, len |-> c.len - 1, array |-> b] /\ b = [a EXCEPT ![k] = slot]
  BY DEF Delete
<1>7. k \in 1..n /\ a[k].next = -1 /\ a[k].content = s
  BY <1>4
<1> HIDE DEF a, h, n, k, slot, d, b, T
<1>8. b \in Seq(T) /\ Len(b) = n /\ \A i \in 1..n : b[i] = IF i = k THEN slot ELSE a[i]
  BY <1>1, <1>6, <1>7, ExceptSeq DEF n
<1>9. d.lastDeleteIdx = k /\ d.len = c.len - 1
  BY <1>6
<1>10. k # 0 /\ k \in 0..n /\ k # h
  BY <1>1, <1>5, <1>7
<1>11. CollectionTypes(d)
  <2>1. d = [lastDeleteIdx |-> d.lastDeleteIdx, len |-> d.len, array |-> d.array]
    BY <1>6, <1>9
  <2> QED
    BY <1>8, <1>9, <1>10, <2>1 DEF CollectionTypes, b, T
<1>12. Slots(d, who \ {s}, ids)
  <2>1. ASSUME NEW i \in 1..n
        PROVE  \/ b[i].next = -1 /\ b[i].content \in who \ {s} /\ ids[b[i].content] = i
               \/ b[i].next \in 0..n /\ b[i].content = Nil
    <3>1. CASE i = k
      BY <1>1, <1>2, <1>8, <3>1
    <3>2. CASE i # k
      <4>1. b[i] = a[i]
        BY <1>8, <3>2
      <4>2. a[i].next = -1 /\ a[i].content \in who /\ id[a[i].content] = i => a[i].content # s
        BY <3>2 DEF k
      <4> QED
        BY <1>4, <4>1, <4>2
    <3> QED
      BY <3>1, <3>2
  <2>2. ASSUME NEW x \in who \ {s}
        PROVE  ids[x] \in 1..n /\ b[ids[x]].next = -1 /\ b[ids[x]].content = x
    <3>1. ids[x] = id[x] /\ id[x] \in 1..n /\ a[id[x]].next = -1 /\ a[id[x]].content = x
      BY <1>4
    <3>2. id[x] # k
      BY <1>7, <3>1
    <3> QED
      BY <1>8, <3>1, <3>2
  <2> QED
    BY <1>8, <2>1, <2>2 DEF Slots, b
<1>13. FreeList(d)
  <2>1. b[k].next # -1
    BY <1>1, <1>2, <1>7, <1>8
  <2>2. ASSUME NEW i \in 1..n, b[i].next > 0
        PROVE  /\ b[b[i].next].next # -1 /\ b[i].next # k
               /\ \A j \in 1..n : b[j].next = b[i].next => j = i
    <3>1. CASE i = k
      <4>1. b[i].next = h /\ h \in 1..n /\ a[h].next # -1
        BY <1>1, <1>2, <1>5, <1>8, <2>2, <3>1
      <4>2. b[h] = a[h]
        BY <1>8, <1>10, <4>1
      <4>3. ASSUME NEW j \in 1..n, b[j].next = h, j # k PROVE FALSE
        <5>1. b[j] = a[j]
          BY <1>8, <4>3
        <5> QED
          BY <1>5, <2>2, <4>1, <4>3, <5>1
      <4> QED
        BY <1>10, <3>1, <4>1, <4>2, <4>3
    <3>2. CASE i # k
      <4>1. b[i] = a[i] /\ a[i].next > 0
        BY <1>8, <2>2, <3>2
      <4>2. /\ a[a[i].next].next # -1 /\ a[i].next # h /\ a[i].next \in 1..n
            /\ \A j \in 1..n : a[j].next = a[i].next => j = i
        BY <1>1, <1>4, <1>5, <4>1
      <4>3. a[i].next # k
        BY <1>7, <4>2
      <4>4. b[a[i].next] = a[a[i].next]
        BY <1>8, <4>2, <4>3
      <4>5. ASSUME NEW j \in 1..n, b[j].next = a[i].next PROVE j = i
        <5>1. j # k
          BY <1>2, <1>8, <4>2, <4>5
        <5> QED
          BY <1>8, <4>2, <4>5, <5>1
      <4> QED
        BY <4>1, <4>2, <4>3, <4>4, <4>5
    <3> QED
      BY <3>1, <3>2
  <2> QED
    BY <1>8, <1>9, <2>1, <2>2 DEF FreeList, b
<1>14. IsFiniteSet(who \ {s}) /\ d.len = Cardinality(who \ {s})
  BY <1>3, <1>9, FS_RemoveElement
<1> QED
  BY <1>11, <1>12, <1>13, <1>14 DEF CollectionOk, d, k

-----------------------------------------------------------------------------
(* Numbered notifications                                                  *)

\* Notifications in the order they were sent, the n-th at the latest.
Numbered(ms, n) == ms \in Seq(1..n) /\ \A i, j \in 1..Len(ms) : i < j => ms[i] < ms[j]

\* There may be later ones.
LEMMA NumberedMore == ASSUME NEW n \in Nat, NEW ms, Numbered(ms, n) PROVE Numbered(ms, n + 1)
<1>1. 1..n \subseteq 1..(n + 1)
  OBVIOUS
<1>2. ms \in Seq(1..(n + 1))
  BY <1>1, SeqMonotonic DEF Numbered
<1> QED
  BY <1>2 DEF Numbered

\* The next one comes last.
LEMMA NumberedNext == ASSUME NEW n \in Nat, NEW ms, Numbered(ms, n) PROVE Numbered(Append(ms, n + 1), n + 1)
<1>1. ms \in Seq(1..(n + 1)) /\ n + 1 \in 1..(n + 1) /\ Len(ms) \in Nat
  BY NumberedMore DEF Numbered
<1>2. /\ Append(ms, n + 1) \in Seq(1..(n + 1)) /\ Len(Append(ms, n + 1)) = Len(ms) + 1
      /\ \A i \in 1..Len(ms) : Append(ms, n + 1)[i] = ms[i]
      /\ Append(ms, n + 1)[Len(ms) + 1] = n + 1
  BY <1>1, AppendProperties
<1>3. \A i \in 1..Len(ms) : ms[i] \in Nat /\ ms[i] < n + 1
  <2>1. \A i \in 1..Len(ms) : ms[i] \in 1..n
    BY ElementOfSeq DEF Numbered
  <2> QED
    BY <2>1
<1>4. ASSUME NEW i \in 1..(Len(ms) + 1), NEW j \in 1..(Len(ms) + 1), i < j
      PROVE  Append(ms, n + 1)[i] < Append(ms, n + 1)[j]
  <2>1. i \in 1..Len(ms)
    BY <1>1, <1>4
  <2>2. CASE j = Len(ms) + 1
    BY <1>2, <1>3, <2>1, <2>2
  <2>3. CASE j # Len(ms) + 1
    <3>1. j \in 1..Len(ms)
      BY <1>1, <2>3
    <3> QED
      BY <1>2, <1>4, <2>1, <3>1 DEF Numbered
  <2> QED
    BY <2>2, <2>3
<1> QED
  BY <1>2, <1>4 DEF Numbered

\* No notification, or a single one.
LEMMA NumberedFew ==
  ASSUME NEW n \in Nat
  PROVE  Numbered(<<>>, n) /\ \A m \in 1..n : Numbered(<<m>>, n)
<1>1. <<>> \in Seq(1..n) /\ Len(<<>>) = 0
  BY EmptySeq
<1>2. \A m \in 1..n : <<m>> \in Seq(1..n) /\ Len(<<m>>) = 1
  OBVIOUS
<1>3. \A i, j \in 1..1 : ~(i < j)
  OBVIOUS
<1> QED
  BY <1>1, <1>2, <1>3 DEF Numbered

\* The first one is read.
LEMMA NumberedTail ==
  ASSUME NEW n \in Nat, NEW ms, Numbered(ms, n), ms # <<>>
  PROVE  Numbered(Tail(ms), n)
<1>1. ms \in Seq(1..n) /\ Len(ms) \in Nat /\ Len(ms) # 0
  BY EmptySeq DEF Numbered
<1>2. /\ Tail(ms) \in Seq(1..n) /\ Len(Tail(ms)) = Len(ms) - 1
      /\ \A i \in 1..Len(Tail(ms)) : Tail(ms)[i] = ms[i + 1]
  BY <1>1, HeadTailProperties
<1>3. ASSUME NEW i \in 1..Len(Tail(ms)), NEW j \in 1..Len(Tail(ms)), i < j
      PROVE  Tail(ms)[i] < Tail(ms)[j]
  <2>1. i + 1 \in 1..Len(ms) /\ j + 1 \in 1..Len(ms) /\ i + 1 < j + 1
    BY <1>1, <1>2, <1>3
  <2> QED
    BY <1>2, <2>1 DEF Numbered
<1> QED
  BY <1>2, <1>3 DEF Numbered

\* The next one is sent.
LEMMA NumberedSend ==
  ASSUME NEW n \in Nat, NEW strategy \in Strategies, NEW box, Numbered(box, n)
  PROVE  Numbered(Send(strategy, box, n + 1), n + 1)
<1>1. n + 1 \in Nat /\ n + 1 \in 1..(n + 1)
  OBVIOUS
<1>2. /\ Numbered(<<n + 1>>, n + 1) /\ Numbered(box, n + 1)
      /\ Numbered(Append(box, n + 1), n + 1)
  BY <1>1, NumberedFew, NumberedMore, NumberedNext
<1> QED
  BY <1>2 DEF Send, Strategies

\* What waits is sent to a new subscriber.
LEMMA NumberedOffer ==
  ASSUME NEW n \in Nat, NEW strategy \in Strategies, NEW ms, Numbered(ms, n)
  PROVE  Numbered(SendEach(strategy, <<>>, ms), n)
<1>1. ms \in Seq(1..n) /\ <<>> \in Seq(1..n) /\ Len(ms) \in Nat
  BY EmptySeq DEF Numbered
<1>2. SendEach(strategy, <<>>, ms) = AfterFirst(strategy, <<>>, ms, Len(ms))
  BY <1>1, SendEachIs
<1>3. CASE Len(ms) = 0
  BY <1>2, <1>3, NumberedFew DEF AfterFirst
<1>4. CASE Len(ms) # 0
  <2>1. ms[1] \in 1..n /\ ms[Len(ms)] \in 1..n
    BY <1>1, <1>4, ElementOfSeq
  <2>2. <<>> \o SubSeq(ms, 1, Len(ms)) = ms
    BY <1>1, SubSeqFull, ConcatEmptySeq
  <2>3. AfterFirst(strategy, <<>>, ms, Len(ms)) \in {<<ms[1]>>, <<ms[Len(ms)]>>, ms}
    BY <1>4, <2>2 DEF AfterFirst
  <2>4. Numbered(<<ms[1]>>, n) /\ Numbered(<<ms[Len(ms)]>>, n)
    BY <2>1, NumberedFew
  <2> QED
    BY <1>2, <2>3, <2>4
<1> QED
  BY <1>3, <1>4

-----------------------------------------------------------------------------
(* The inductive invariant                                                 *)

Subscribed(e, strategy) == {s \in Subscribers : at[s] = e /\ Strategy[s] = strategy}

KeyTypes ==
  /\ created \subseteq Events /\ current \in created \cup {NoEvent}
  /\ sent \in Nat /\ upgrading \in Nat /\ sent + upgrading <= MaxMessages
  /\ at \in [Subscribers -> created \cup {NoEvent}]
  /\ subID = [s \in Subscribers |-> subID[s]]
  /\ inbox = [s \in Subscribers |-> inbox[s]]
  /\ closed \in [Events -> BOOLEAN]
  /\ pendingNotifications = [e \in Events |-> pendingNotifications[e]]
  /\ subs = [e \in Events |-> [strategy \in Strategies |-> subs[e][strategy]]]

\* Each collection of an event holds those that are subscribed to it.
Collections ==
  \A e \in Events, strategy \in Strategies : CollectionOk(subs[e][strategy], Subscribed(e, strategy), subID)

\* What waits to be sent waits for the first subscriber: the key keeps it while
\* it has no event, and an event that is not closed while it has no subscriber.
Waits ==
  /\ kept # <<>> => current = NoEvent
  /\ \A e \in Events :
       /\ pendingNotifications[e] # <<>> => closed[e] \/ \A s \in Subscribers : at[s] # e
       /\ e \notin created => pendingNotifications[e] = <<>> /\ ~closed[e]
  /\ \A s \in Subscribers : at[s] = NoEvent => inbox[s] = <<>>

SentInOrder ==
  /\ Numbered(kept, sent) /\ Len(kept) <= sent
  /\ \A e \in Events : Numbered(pendingNotifications[e], sent)
  /\ \A s \in Subscribers : Numbered(inbox[s], sent)

KeyInv == KeyTypes /\ Collections /\ Waits /\ SentInOrder

\* A notification reaches those that are subscribed, and an event without a
\* length has nobody.
LEMMA Listeners ==
  ASSUME KeyInv, NEW e \in Events
  PROVE  /\ Reached(e) = {s \in Subscribers : at[s] = e}
         /\ len(e) = 0 <=> \A s \in Subscribers : at[s] # e
<1> DEFINE of(strategy) == Subscribed(e, strategy)
<1>1. \A strategy \in Strategies : CollectionOk(subs[e][strategy], of(strategy), subID)
  BY DEF KeyInv, Collections
<1>2. \A strategy \in Strategies : of(strategy) \in SUBSET Subscribers
  BY DEF Subscribed
<1>3. \A s \in Subscribers : at[s] = e <=> s \in of("first") \cup of("latest") \cup of("all")
  BY KeyedAssumption DEF Subscribed, Strategies
<1> HIDE DEF of
<1>4. \A strategy \in Strategies : /\ BackingContents(subs[e][strategy]) = of(strategy)
                                   /\ Entries(subs[e][strategy]) = of(strategy)
  BY <1>1, <1>2, Contents
<1>5. "first" \in Strategies /\ "latest" \in Strategies /\ "all" \in Strategies
  BY DEF Strategies
<1>6. Reached(e) = {s \in Subscribers : at[s] = e}
  BY <1>3, <1>4, <1>5 DEF Reached
<1>7. \A strategy \in Strategies : /\ subs[e][strategy].len \in Nat
                                   /\ subs[e][strategy].len = 0 <=> of(strategy) = {}
  <2>1. \A strategy \in Strategies : /\ IsFiniteSet(of(strategy))
                                     /\ subs[e][strategy].len = Cardinality(of(strategy))
    BY <1>1 DEF CollectionOk
  <2> QED
    BY <2>1, FS_EmptySet, FS_CardinalityType
<1>8. len(e) = 0 <=> of("first") = {} /\ of("latest") = {} /\ of("all") = {}
  <2> DEFINE i == subs[e]["first"].len
             j == subs[e]["latest"].len
             k == subs[e]["all"].len
  <2>1. i \in Nat /\ j \in Nat /\ k \in Nat
    BY <1>5, <1>7
  <2>2. (i = 0 <=> of("first") = {}) /\ (j = 0 <=> of("latest") = {}) /\ (k = 0 <=> of("all") = {})
    BY <1>5, <1>7
  <2>3. len(e) = i + j + k
    BY DEF len
  <2> HIDE DEF i, j, k
  <2>4. i + j + k = 0 <=> i = 0 /\ j = 0 /\ k = 0
    BY <2>1
  <2> QED
    BY <2>2, <2>3, <2>4
<1>9. (of("first") = {} /\ of("latest") = {} /\ of("all") = {}) <=> \A s \in Subscribers : at[s] # e
  BY <1>2, <1>3, <1>5
<1> QED
  BY <1>6, <1>8, <1>9

-----------------------------------------------------------------------------
(* Subscribing                                                             *)

\* The event a subscriber gets is the one of the key, or a new one, and only
\* what waits for it is sent.
SubscribesTo(s, e) ==
  /\ at[s] = NoEvent
  /\ current' = e /\ created' = created \cup {e} /\ kept' = <<>>
  /\ at' = [at EXCEPT ![s] = e]
  /\ subID' = [subID EXCEPT ![s] = InsertID(subs[e][Strategy[s]])]
  /\ subs' = [subs EXCEPT ![e][Strategy[s]] = Insert(@, s)]
  /\ \/ closed[e] /\ UNCHANGED <<inbox, pendingNotifications>>
     \/ /\ ~closed[e]
        /\ inbox' = [inbox EXCEPT ![s] = SendEach(Strategy[s], <<>>, pendingNotifications[e] \o kept)]
        /\ pendingNotifications' = [pendingNotifications EXCEPT ![e] = <<>>]
  /\ UNCHANGED <<upgrading, panicked, closed, sent>>

LEMMA SubscribesToOne ==
  ASSUME KeyInv, NEW s \in Subscribers, Subscribe(s)
  PROVE  \E e \in Events :
           /\ SubscribesTo(s, e)
           /\ Numbered(pendingNotifications[e] \o kept, sent)
           /\ kept # <<>> => e \notin created
<1>1. PICK e \in IF current = NoEvent THEN Events \ created ELSE {current} :
        LET mine   == pendingNotifications[e] \o (IF len(e) = 0 THEN kept ELSE <<>>)
            others == kept \o pendingNotifications[e]
        IN  /\ current' = e
            /\ created' = created \cup {e}
            /\ at' = [at EXCEPT ![s] = e]
            /\ subID' = [subID EXCEPT ![s] = InsertID(subs[e][Strategy[s]])]
            /\ subs' = [subs EXCEPT ![e][Strategy[s]] = Insert(@, s)]
            /\ IF closed[e]
               THEN UNCHANGED <<inbox, pendingNotifications>>
               ELSE /\ inbox' = [x \in Subscribers |->
                                   CASE x = s            -> SendEach(Strategy[x], <<>>, mine)
                                     [] x \in Reached(e) -> SendEach(Strategy[x], inbox[x], others)
                                     [] OTHER            -> inbox[x]]
                    /\ pendingNotifications' = [pendingNotifications EXCEPT ![e] = <<>>]
            /\ kept' = <<>>
  BY DEF Subscribe
<1>2. at[s] = NoEvent /\ UNCHANGED <<upgrading, panicked, closed, sent>>
  BY DEF Subscribe
<1>3. e \in Events /\ (kept # <<>> => e \notin created)
  BY <1>1, KeyedAssumption DEF KeyInv, KeyTypes, Waits
<1> DEFINE ms == pendingNotifications[e] \o kept
           mine == pendingNotifications[e] \o (IF len(e) = 0 THEN kept ELSE <<>>)
           others == kept \o pendingNotifications[e]
<1>4. Numbered(pendingNotifications[e], sent) /\ Numbered(kept, sent) /\ sent \in Nat
  BY <1>3 DEF KeyInv, SentInOrder, KeyTypes
<1>5. kept = <<>> \/ pendingNotifications[e] = <<>>
  BY <1>3 DEF KeyInv, Waits
<1>6. \A q \in Seq(1..sent) : q \o <<>> = q /\ <<>> \o q = q
  BY ConcatEmptySeq
<1>7. Numbered(ms, sent)
  BY <1>4, <1>5, <1>6 DEF Numbered
<1>8. kept # <<>> => len(e) = 0
  <2>1. kept # <<>> => \A x \in Subscribers : at[x] # e
    BY <1>3, KeyedAssumption DEF KeyInv, KeyTypes
  <2> QED
    BY <1>3, <2>1, Listeners
<1>9. mine = ms
  BY <1>8
<1>10. ASSUME ~closed[e], NEW x \in Subscribers, x # s, x \in Reached(e)
       PROVE  SendEach(Strategy[x], inbox[x], others) = inbox[x]
  <2>1. at[x] = e
    BY <1>3, <1>10, Listeners
  <2>2. pendingNotifications[e] = <<>> /\ kept = <<>>
    BY <1>3, <1>10, <2>1, KeyedAssumption DEF KeyInv, KeyTypes, Waits
  <2>3. others = <<>>
    BY <1>4, <1>6, <2>2 DEF Numbered
  <2>4. Strategy[x] \in Strategies /\ inbox[x] \in Seq(1..sent)
    BY KeyedAssumption DEF KeyInv, SentInOrder, Numbered
  <2> QED
    BY <2>3, <2>4, SendNothing
<1>11. ASSUME ~closed[e]
       PROVE  inbox' = [inbox EXCEPT ![s] = SendEach(Strategy[s], <<>>, ms)]
  <2>1. inbox' = [x \in Subscribers |-> CASE x = s            -> SendEach(Strategy[x], <<>>, mine)
                                          [] x \in Reached(e) -> SendEach(Strategy[x], inbox[x], others)
                                          [] OTHER            -> inbox[x]]
    BY <1>1, <1>11
  <2>2. ASSUME NEW x \in Subscribers
        PROVE  inbox'[x] = IF x = s THEN SendEach(Strategy[s], <<>>, ms) ELSE inbox[x]
    <3> HIDE DEF mine, others, ms
    <3>1. CASE x = s
      <4>1. s \notin Reached(e)
        BY <1>2, <1>3, Listeners, KeyedAssumption
      <4> QED
        BY <1>9, <2>1, <3>1, <4>1
    <3>2. CASE x # s /\ x \in Reached(e)
      BY <1>10, <1>11, <2>1, <3>2
    <3>3. CASE x # s /\ x \notin Reached(e)
      BY <2>1, <3>3
    <3> QED
      BY <3>1, <3>2, <3>3
  <2> HIDE DEF mine, others, ms
  <2>3. inbox' = [x \in Subscribers |-> inbox'[x]]
    BY <2>1
  <2>4. inbox = [x \in Subscribers |-> inbox[x]]
    BY DEF KeyInv, KeyTypes
  <2> QED
    BY <2>2, <2>3, <2>4
<1>12. SubscribesTo(s, e)
  BY <1>1, <1>2, <1>11 DEF SubscribesTo
<1> QED
  BY <1>3, <1>7, <1>12

\* It keeps the invariant.
LEMMA SubscribeKeeps == ASSUME KeyInv, NEW s \in Subscribers, Subscribe(s) PROVE KeyInv'
<1>1. PICK e \in Events : /\ SubscribesTo(s, e)
                          /\ Numbered(pendingNotifications[e] \o kept, sent)
                          /\ kept # <<>> => e \notin created
  BY SubscribesToOne
<1> DEFINE strategy == Strategy[s]
<1>2. strategy \in Strategies /\ e # NoEvent
  BY KeyedAssumption
<1>3. /\ at[s] = NoEvent /\ current' = e /\ created' = created \cup {e} /\ kept' = <<>>
      /\ at' = [at EXCEPT ![s] = e]
      /\ subID' = [subID EXCEPT ![s] = InsertID(subs[e][strategy])]
      /\ subs' = [subs EXCEPT ![e][strategy] = Insert(@, s)]
      /\ UNCHANGED <<upgrading, panicked, closed, sent>>
  BY <1>1 DEF SubscribesTo
<1>4. /\ \A x \in Subscribers : at'[x] = IF x = s THEN e ELSE at[x]
      /\ \A x \in Subscribers : subID'[x] = IF x = s THEN InsertID(subs[e][strategy]) ELSE subID[x]
      /\ \A f \in Events, st \in Strategies :
           subs'[f][st] = IF f = e /\ st = strategy THEN Insert(subs[e][strategy], s) ELSE subs[f][st]
  BY <1>2, <1>3 DEF KeyInv, KeyTypes
<1>5. /\ inbox' = [x \in Subscribers |-> inbox'[x]]
      /\ \A x \in Subscribers : x # s => inbox'[x] = inbox[x]
      /\ \/ inbox'[s] = inbox[s]
         \/ inbox'[s] = SendEach(strategy, <<>>, pendingNotifications[e] \o kept)
  BY <1>1 DEF SubscribesTo, KeyInv, KeyTypes
<1>6. /\ pendingNotifications' = [f \in Events |-> pendingNotifications'[f]]
      /\ \A f \in Events : f # e => pendingNotifications'[f] = pendingNotifications[f]
      /\ \/ closed[e] /\ pendingNotifications'[e] = pendingNotifications[e]
         \/ pendingNotifications'[e] = <<>>
  BY <1>1 DEF SubscribesTo, KeyInv, KeyTypes
<1> HIDE DEF strategy
<1>7. KeyTypes'
  <2>1. subs' = [f \in Events |-> [st \in Strategies |-> subs'[f][st]]]
    BY <1>2, <1>3 DEF KeyInv, KeyTypes
  <2>2. subID' = [x \in Subscribers |-> subID'[x]]
    BY <1>3 DEF KeyInv, KeyTypes
  <2>3. at' \in [Subscribers -> created' \cup {NoEvent}]
    BY <1>3, <1>4 DEF KeyInv, KeyTypes
  <2> QED
    BY <1>3, <1>5, <1>6, <2>1, <2>2, <2>3 DEF KeyInv, KeyTypes
<1>8. Collections'
  <2>1. ASSUME NEW f \in Events, NEW st \in Strategies
        PROVE  CollectionOk(subs'[f][st], Subscribed(f, st)', subID')
    <3> DEFINE who == Subscribed(f, st)
    <3>1. CollectionOk(subs[f][st], who, subID) /\ who \in SUBSET Subscribers /\ s \notin who
      BY <1>2, <1>3, KeyedAssumption DEF KeyInv, Collections, Subscribed
    <3>2. CASE f = e /\ st = strategy
      <4>1. Subscribed(f, st)' = who \cup {s}
        BY <1>4, <3>2 DEF Subscribed, strategy
      <4>2. subs'[f][st] = Insert(subs[f][st], s) /\ subID'[s] = InsertID(subs[f][st])
        BY <1>4, <3>2
      <4>3. \A x \in who : subID'[x] = subID[x]
        BY <1>4, <3>1
      <4> HIDE DEF who
      <4> QED
        BY <3>1, <4>1, <4>2, <4>3, InsertKeeps
    <3>3. CASE ~(f = e /\ st = strategy)
      <4>1. Subscribed(f, st)' = who
        <5>1. \A x \in Subscribers : at'[x] = f /\ Strategy[x] = st <=> at[x] = f /\ Strategy[x] = st
          BY <1>2, <1>3, <1>4, <3>3, KeyedAssumption DEF strategy
        <5> QED
          BY <5>1 DEF Subscribed
      <4>2. subs'[f][st] = subs[f][st]
        BY <1>4, <3>3
      <4>3. \A x \in who : subID'[x] = subID[x]
        BY <1>4, <3>1
      <4> HIDE DEF who
      <4> QED
        BY <3>1, <4>1, <4>2, <4>3, SameIDs
    <3> QED
      BY <3>2, <3>3
  <2> QED
    BY <2>1 DEF Collections
<1>9. Waits'
  <2>1. ASSUME NEW f \in Events
        PROVE  /\ pendingNotifications'[f] # <<>> => closed'[f] \/ \A x \in Subscribers : at'[x] # f
               /\ f \notin created' => pendingNotifications'[f] = <<>> /\ ~closed'[f]
    <3>1. CASE f = e
      BY <1>3, <1>6, <3>1
    <3>2. CASE f # e
      BY <1>3, <1>4, <1>6, <3>2 DEF KeyInv, Waits
    <3> QED
      BY <3>1, <3>2
  <2>2. \A x \in Subscribers : at'[x] = NoEvent => inbox'[x] = <<>>
    BY <1>2, <1>4, <1>5 DEF KeyInv, Waits
  <2> QED
    BY <1>3, <2>1, <2>2 DEF Waits
<1>10. SentInOrder'
  <2>1. sent \in Nat
    BY DEF KeyInv, KeyTypes
  <2>2. Numbered(kept', sent') /\ Len(kept') <= sent'
    BY <1>3, <2>1, NumberedFew
  <2>3. \A f \in Events : Numbered(pendingNotifications'[f], sent')
    BY <1>3, <1>6, <2>1, NumberedFew DEF KeyInv, SentInOrder
  <2>4. \A x \in Subscribers : Numbered(inbox'[x], sent')
    <3>1. Numbered(SendEach(strategy, <<>>, pendingNotifications[e] \o kept), sent)
      BY <1>1, <1>2, <2>1, NumberedOffer
    <3> QED
      BY <1>3, <1>5, <3>1 DEF KeyInv, SentInOrder
  <2> QED
    BY <2>2, <2>3, <2>4 DEF SentInOrder
<1> QED
  BY <1>7, <1>8, <1>9, <1>10 DEF KeyInv

-----------------------------------------------------------------------------
(* The other steps                                                         *)

\* Nobody comes or goes.
LEMMA SameCollections == ASSUME Collections, UNCHANGED <<subs, at, subID>> PROVE Collections'
BY DEF Collections, Subscribed

LEMMA UnsubscribeKeeps == ASSUME KeyInv, NEW s \in Subscribers, Unsubscribe(s) PROVE KeyInv'
<1> DEFINE e == at[s]
           strategy == Strategy[s]
<1>1. /\ e # NoEvent
      /\ subs' = [subs EXCEPT ![e][strategy] = Delete(@, subID[s])]
      /\ at' = [at EXCEPT ![s] = NoEvent]
      /\ subID' = [subID EXCEPT ![s] = 0]
      /\ inbox' = [inbox EXCEPT ![s] = <<>>]
      /\ UNCHANGED <<current, kept, upgrading, panicked, created, pendingNotifications, closed, sent>>
  BY DEF Unsubscribe, keyVars
<1>2. strategy \in Strategies /\ e \in Events
  BY <1>1, KeyedAssumption DEF KeyInv, KeyTypes
<1>3. /\ \A x \in Subscribers : at'[x] = IF x = s THEN NoEvent ELSE at[x]
      /\ \A x \in Subscribers : x # s => subID'[x] = subID[x]
      /\ \A x \in Subscribers : inbox'[x] = IF x = s THEN <<>> ELSE inbox[x]
      /\ \A f \in Events, st \in Strategies :
           subs'[f][st] = IF f = e /\ st = strategy THEN Delete(subs[e][strategy], subID[s]) ELSE subs[f][st]
  BY <1>1, <1>2 DEF KeyInv, KeyTypes
<1>4. KeyTypes'
  <2>1. subs' = [f \in Events |-> [st \in Strategies |-> subs'[f][st]]]
    BY <1>1, <1>2 DEF KeyInv, KeyTypes
  <2>2. subID' = [x \in Subscribers |-> subID'[x]] /\ inbox' = [x \in Subscribers |-> inbox'[x]]
    BY <1>1 DEF KeyInv, KeyTypes
  <2>3. at' \in [Subscribers -> created' \cup {NoEvent}]
    BY <1>1 DEF KeyInv, KeyTypes
  <2> QED
    BY <1>1, <2>1, <2>2, <2>3 DEF KeyInv, KeyTypes
<1>5. Collections'
  <2>1. ASSUME NEW f \in Events, NEW st \in Strategies
        PROVE  CollectionOk(subs'[f][st], Subscribed(f, st)', subID')
    <3> DEFINE who == Subscribed(f, st)
    <3>1. CollectionOk(subs[f][st], who, subID) /\ who \in SUBSET Subscribers
      BY DEF KeyInv, Collections, Subscribed
    <3>2. CASE f = e /\ st = strategy
      <4>1. Subscribed(f, st)' = who \ {s} /\ s \in who
        BY <1>1, <1>3, <3>2 DEF Subscribed
      <4>2. subs'[f][st] = Delete(subs[f][st], subID[s])
        BY <1>3, <3>2
      <4>3. \A x \in who \ {s} : subID'[x] = subID[x]
        BY <1>3, <3>1
      <4> HIDE DEF who
      <4>4. CollectionOk(Delete(subs[f][st], subID[s]), who \ {s}, subID')
        BY <3>1, <4>1, <4>3, DeleteKeeps
      <4> QED
        BY <4>1, <4>2, <4>4
    <3>3. CASE ~(f = e /\ st = strategy)
      <4>1. Subscribed(f, st)' = who /\ s \notin who
        <5>1. \A x \in Subscribers : at'[x] = f /\ Strategy[x] = st <=> at[x] = f /\ Strategy[x] = st
          BY <1>3, <3>3, KeyedAssumption
        <5> QED
          BY <3>3, <5>1 DEF Subscribed
      <4>2. subs'[f][st] = subs[f][st]
        BY <1>3, <3>3
      <4>3. \A x \in who : subID'[x] = subID[x]
        BY <1>3, <3>1, <4>1
      <4> HIDE DEF who
      <4> QED
        BY <3>1, <4>1, <4>2, <4>3, SameIDs
    <3> QED
      BY <3>2, <3>3
  <2> QED
    BY <2>1 DEF Collections
<1> HIDE DEF e, strategy
<1>6. Waits'
  <2>1. \A f \in Events : (\A x \in Subscribers : at[x] # f) => \A x \in Subscribers : at'[x] # f
    BY <1>3, KeyedAssumption
  <2>2. \A x \in Subscribers : at'[x] = NoEvent => inbox'[x] = <<>>
    BY <1>3 DEF KeyInv, Waits
  <2> QED
    BY <1>1, <2>1, <2>2 DEF KeyInv, Waits
<1>7. SentInOrder'
  <2>1. \A x \in Subscribers : Numbered(inbox'[x], sent)
    BY <1>3, NumberedFew DEF KeyInv, KeyTypes, SentInOrder
  <2> QED
    BY <1>1, <2>1 DEF KeyInv, SentInOrder
<1> QED
  BY <1>4, <1>5, <1>6, <1>7 DEF KeyInv

LEMMA ReadKeeps == ASSUME KeyInv, NEW s \in Subscribers, Read(s) PROVE KeyInv'
<1>1. /\ inbox[s] # <<>> /\ inbox' = [inbox EXCEPT ![s] = Tail(@)]
      /\ UNCHANGED <<current, kept, upgrading, panicked, created, subs, pendingNotifications, closed, at, subID, sent>>
  BY DEF Read, keyVars
<1>2. \A x \in Subscribers : inbox'[x] = IF x = s THEN Tail(inbox[s]) ELSE inbox[x]
  BY <1>1 DEF KeyInv, KeyTypes
<1>3. KeyTypes'
  BY <1>1 DEF KeyInv, KeyTypes
<1>4. Collections'
  BY <1>1, SameCollections DEF KeyInv
<1>5. Waits'
  <2>1. \A x \in Subscribers : at'[x] = NoEvent => inbox'[x] = <<>>
    BY <1>1, <1>2 DEF KeyInv, Waits
  <2> QED
    BY <1>1, <2>1 DEF KeyInv, Waits
<1>6. SentInOrder'
  <2>1. Numbered(Tail(inbox[s]), sent)
    BY <1>1, NumberedTail DEF KeyInv, KeyTypes, SentInOrder
  <2>2. \A x \in Subscribers : Numbered(inbox'[x], sent)
    BY <1>2, <2>1 DEF KeyInv, SentInOrder
  <2> QED
    BY <1>1, <2>2 DEF KeyInv, SentInOrder
<1> QED
  BY <1>3, <1>4, <1>5, <1>6 DEF KeyInv

\* A closed event forgets the notification; one without subscribers may keep it;
\* the others send it to theirs.
Notifies(e) ==
  /\ e \in Events /\ e \in created
  /\ sent' = sent + 1 /\ sent + 1 + upgrading <= MaxMessages
  /\ UNCHANGED <<current, kept, upgrading, panicked, created, subs, closed, at, subID>>
  /\ \/ closed[e] /\ UNCHANGED <<inbox, pendingNotifications>>
     \/ /\ ~closed[e] /\ \A s \in Subscribers : at[s] # e
        /\ pendingNotifications' = [pendingNotifications EXCEPT ![e] = Append(@, sent + 1)]
        /\ UNCHANGED inbox
     \/ /\ ~closed[e]
        /\ inbox' = [s \in Subscribers |-> IF at[s] = e THEN Send(Strategy[s], inbox[s], sent + 1) ELSE inbox[s]]
        /\ UNCHANGED pendingNotifications

LEMMA NotifiesIts == ASSUME KeyInv, NEW defer \in Deferral, Notify(defer) PROVE \E e \in Events : Notifies(e)
<1>1. /\ current # NoEvent /\ sent + upgrading < MaxMessages /\ sent' = sent + 1
      /\ NotifyEvent(current, sent + 1, defer)
      /\ UNCHANGED <<current, kept, upgrading, panicked, created, subs, closed, at, subID>>
  BY DEF Notify, keyVars
<1>2. current \in Events /\ current \in created /\ sent + 1 + upgrading <= MaxMessages
  BY <1>1, KeyedAssumption DEF KeyInv, KeyTypes
<1>3. \A s \in Subscribers : s \in Reached(current) <=> at[s] = current
  BY <1>2, Listeners
<1>4. len(current) = 0 => \A s \in Subscribers : at[s] # current
  BY <1>2, Listeners
<1>5. CASE closed[current]
  BY <1>1, <1>2, <1>5 DEF NotifyEvent, Notifies
<1>6. CASE ~closed[current] /\ defer /\ len(current) = 0
  <2>1. pendingNotifications' = [pendingNotifications EXCEPT ![current] = Append(@, sent + 1)] /\ UNCHANGED inbox
    BY <1>1, <1>6 DEF NotifyEvent
  <2> QED
    BY <1>1, <1>2, <1>4, <1>6, <2>1 DEF Notifies
<1>7. CASE ~closed[current] /\ ~(defer /\ len(current) = 0)
  <2>1. /\ inbox' = [s \in Subscribers |-> IF s \in Reached(current) THEN Send(Strategy[s], inbox[s], sent + 1)
                                                                     ELSE inbox[s]]
        /\ UNCHANGED pendingNotifications
    BY <1>1, <1>7 DEF NotifyEvent
  <2>2. inbox' = [s \in Subscribers |-> IF at[s] = current THEN Send(Strategy[s], inbox[s], sent + 1)
                                                           ELSE inbox[s]]
    BY <1>3, <2>1
  <2> QED
    BY <1>1, <1>2, <1>7, <2>1, <2>2 DEF Notifies
<1> QED
  BY <1>2, <1>5, <1>6, <1>7

LEMMA NotifyKeeps == ASSUME KeyInv, NEW defer \in Deferral, Notify(defer) PROVE KeyInv'
<1>1. PICK e \in Events : Notifies(e)
  BY NotifiesIts
<1>2. /\ e \in created /\ sent' = sent + 1 /\ sent + 1 + upgrading <= MaxMessages
      /\ UNCHANGED <<current, kept, upgrading, panicked, created, subs, closed, at, subID>>
  BY <1>1 DEF Notifies
<1>3. /\ inbox' = [s \in Subscribers |-> inbox'[s]]
      /\ \A s \in Subscribers : \/ inbox'[s] = inbox[s]
                                \/ at[s] = e /\ inbox'[s] = Send(Strategy[s], inbox[s], sent + 1)
  BY <1>1 DEF Notifies, KeyInv, KeyTypes
<1>4. /\ pendingNotifications' = [f \in Events |-> pendingNotifications'[f]]
      /\ \A f \in Events : \/ pendingNotifications'[f] = pendingNotifications[f]
                           \/ /\ f = e /\ \A s \in Subscribers : at[s] # e
                              /\ pendingNotifications'[f] = Append(pendingNotifications[f], sent + 1)
  BY <1>1 DEF Notifies, KeyInv, KeyTypes
<1>5. KeyTypes'
  <2>1. sent' \in Nat /\ sent' + upgrading' <= MaxMessages
    BY <1>2 DEF KeyInv, KeyTypes
  <2> QED
    BY <1>2, <1>3, <1>4, <2>1 DEF KeyInv, KeyTypes
<1>6. Collections'
  BY <1>2, SameCollections DEF KeyInv
<1>7. Waits'
  <2>1. \A s \in Subscribers : at[s] = NoEvent => inbox'[s] = <<>>
    BY <1>3, KeyedAssumption DEF KeyInv, Waits
  <2>2. \A f \in Events : /\ pendingNotifications'[f] # <<>> => closed[f] \/ \A s \in Subscribers : at[s] # f
                          /\ f \notin created => pendingNotifications'[f] = <<>> /\ ~closed[f]
    BY <1>2, <1>4 DEF KeyInv, Waits
  <2> QED
    BY <1>2, <2>1, <2>2 DEF KeyInv, Waits
<1>8. SentInOrder'
  <2>1. sent \in Nat
    BY DEF KeyInv, KeyTypes
  <2>2. /\ Numbered(kept, sent + 1) /\ \A f \in Events : Numbered(pendingNotifications[f], sent + 1)
        /\ \A s \in Subscribers : Numbered(inbox[s], sent + 1)
    BY <2>1, NumberedMore DEF KeyInv, SentInOrder
  <2>3. \A f \in Events : Numbered(pendingNotifications'[f], sent + 1)
    <3>1. \A f \in Events : Numbered(Append(pendingNotifications[f], sent + 1), sent + 1)
      BY <2>1, NumberedNext DEF KeyInv, SentInOrder
    <3> QED
      BY <1>4, <2>2, <3>1
  <2>4. \A s \in Subscribers : Numbered(inbox'[s], sent + 1)
    <3>1. \A s \in Subscribers : Strategy[s] \in Strategies
      BY KeyedAssumption
    <3>2. \A s \in Subscribers : Numbered(Send(Strategy[s], inbox[s], sent + 1), sent + 1)
      BY <2>1, <3>1, NumberedSend DEF KeyInv, SentInOrder
    <3> QED
      BY <1>3, <2>2, <3>2
  <2>5. Len(kept) <= sent + 1
    <3>1. Len(kept) \in Nat
      BY DEF KeyInv, SentInOrder, Numbered
    <3> QED
      BY <2>1, <3>1 DEF KeyInv, SentInOrder
  <2> QED
    BY <1>2, <2>2, <2>3, <2>4, <2>5 DEF SentInOrder
<1> QED
  BY <1>5, <1>6, <1>7, <1>8 DEF KeyInv

\* Deferring a notification for a key that has no event.
LEMMA DeferKeeps == ASSUME KeyInv, NotifyUpgrade \/ NotifyRecheck PROVE KeyInv'
<1>1. /\ UNCHANGED <<current, created, subs, pendingNotifications, closed, at, subID, inbox>>
      /\ \/ upgrading' = upgrading + 1 /\ sent + upgrading < MaxMessages /\ UNCHANGED <<kept, sent>>
         \/ upgrading > 0 /\ upgrading' = upgrading - 1 /\ UNCHANGED <<kept, sent>>
         \/ /\ upgrading > 0 /\ upgrading' = upgrading - 1 /\ current = NoEvent
            /\ kept' = Append(kept, sent + 1) /\ sent' = sent + 1
  BY DEF NotifyUpgrade, NotifyRecheck
<1>2. sent \in Nat /\ upgrading \in Nat /\ sent + upgrading <= MaxMessages /\ MaxMessages \in Nat
  BY KeyedAssumption DEF KeyInv, KeyTypes
<1>3. KeyTypes'
  <2>1. sent' \in Nat /\ upgrading' \in Nat /\ sent' + upgrading' <= MaxMessages
    BY <1>1, <1>2
  <2> QED
    BY <1>1, <2>1 DEF KeyInv, KeyTypes
<1>4. Collections'
  BY <1>1, SameCollections DEF KeyInv
<1>5. Waits'
  BY <1>1 DEF KeyInv, Waits
<1>6. SentInOrder'
  <2>1. CASE UNCHANGED <<kept, sent>>
    BY <1>1, <2>1 DEF KeyInv, SentInOrder
  <2>2. CASE kept' = Append(kept, sent + 1) /\ sent' = sent + 1
    <3>1. Numbered(kept, sent) /\ Len(kept) <= sent
      BY DEF KeyInv, SentInOrder
    <3>2. Numbered(kept', sent') /\ Len(kept') <= sent'
      <4>1. kept \in Seq(1..sent)
        BY <3>1 DEF Numbered
      <4>2. Len(Append(kept, sent + 1)) = Len(kept) + 1 /\ Len(kept) \in Nat
        BY <4>1
      <4> QED
        BY <1>2, <2>2, <3>1, <4>2, NumberedNext
    <3>3. /\ \A e \in Events : Numbered(pendingNotifications[e], sent + 1)
          /\ \A s \in Subscribers : Numbered(inbox[s], sent + 1)
      BY <1>2, NumberedMore DEF KeyInv, SentInOrder
    <3> QED
      BY <1>1, <2>2, <3>2, <3>3 DEF SentInOrder
  <2> QED
    BY <1>1, <2>1, <2>2
<1> QED
  BY <1>3, <1>4, <1>5, <1>6 DEF KeyInv

LEMMA CloseKeeps == ASSUME KeyInv, Close PROVE KeyInv'
<1>1. /\ current # NoEvent /\ closed' = [closed EXCEPT ![current] = TRUE]
      /\ UNCHANGED <<current, kept, upgrading, panicked, created, subs, pendingNotifications, at, subID, inbox, sent>>
  BY DEF Close, keyVars
<1>2. current \in created /\ current \in Events
  BY <1>1 DEF KeyInv, KeyTypes
<1>3. KeyTypes' /\ \A e \in Events : closed'[e] = (IF e = current THEN TRUE ELSE closed[e])
  BY <1>1, <1>2 DEF KeyInv, KeyTypes
<1>4. Collections'
  BY <1>1, SameCollections DEF KeyInv
<1>5. Waits'
  BY <1>1, <1>2, <1>3 DEF KeyInv, Waits
<1>6. SentInOrder'
  BY <1>1 DEF KeyInv, SentInOrder
<1> QED
  BY <1>3, <1>4, <1>5, <1>6 DEF KeyInv

\* The cleanup forgets what is kept for the key.
LEMMA CleanupKeeps ==
  ASSUME KeyInv, NEW e \in Events, CleanupRead(e) \/ CleanupDelete(e)
  PROVE  KeyInv'
<1>1. /\ UNCHANGED <<upgrading, created, subs, pendingNotifications, closed, at, subID, inbox, sent>>
      /\ UNCHANGED <<current, kept>> \/ (current' = NoEvent /\ kept' = <<>>)
  BY DEF CleanupRead, CleanupDelete, keyVars
<1>2. KeyTypes'
  BY <1>1 DEF KeyInv, KeyTypes
<1>3. Collections'
  BY <1>1, SameCollections DEF KeyInv
<1>4. Waits'
  BY <1>1 DEF KeyInv, Waits
<1>5. SentInOrder'
  <2>1. Numbered(<<>>, sent) /\ Len(<<>>) <= sent
    BY NumberedFew DEF KeyInv, KeyTypes
  <2> QED
    BY <1>1, <2>1 DEF KeyInv, SentInOrder
<1> QED
  BY <1>2, <1>3, <1>4, <1>5 DEF KeyInv

\* Nothing the events are made of changes.
LEMMA StutterKeeps == ASSUME KeyInv, UNCHANGED vars PROVE KeyInv'
<1>1. UNCHANGED <<current, kept, upgrading, created, subs, pendingNotifications, closed, at, subID, inbox, sent>>
  BY DEF vars, keyVars
<1>2. KeyTypes'
  BY <1>1 DEF KeyInv, KeyTypes
<1>3. Collections'
  BY <1>1, SameCollections DEF KeyInv
<1>4. Waits' /\ SentInOrder'
  BY <1>1 DEF KeyInv, Waits, SentInOrder
<1> QED
  BY <1>2, <1>3, <1>4 DEF KeyInv

LEMMA KeyInvHolds == Spec => []KeyInv
<1>1. Init => KeyInv
  <2> SUFFICES ASSUME Init PROVE KeyInv
    OBVIOUS
  <2>1. KeyTypes
    BY KeyedAssumption DEF Init, KeyTypes
  <2>2. Collections
    <3>1. ASSUME NEW e \in Events, NEW strategy \in Strategies
          PROVE  CollectionOk(subs[e][strategy], Subscribed(e, strategy), subID)
      <4>1. Subscribed(e, strategy) = {}
        BY KeyedAssumption DEF Init, Subscribed
      <4>2. subs[e][strategy] = EmptyCollection
        BY DEF Init
      <4> QED
        BY <4>1, <4>2, EmptyOk
    <3> QED
      BY <3>1 DEF Collections
  <2>3. Waits
    BY DEF Init, Waits
  <2>4. SentInOrder
    <3>1. sent = 0 /\ Numbered(<<>>, 0) /\ Len(<<>>) <= 0
      BY NumberedFew DEF Init
    <3> QED
      BY <3>1 DEF Init, SentInOrder
  <2> QED
    BY <2>1, <2>2, <2>3, <2>4 DEF KeyInv
<1>2. KeyInv /\ [Next]_vars => KeyInv'
  BY SubscribeKeeps, UnsubscribeKeeps, ReadKeeps, NotifyKeeps, DeferKeeps, CloseKeeps, CleanupKeeps, StutterKeeps
     DEF Next
<1> QED
  BY <1>1, <1>2, PTL DEF Spec

\* A notification is never read after a later one, whether it was sent at once,
\* deferred by its event or kept for a key without one (keyed.go:60-64).
THEOREM ReadInOrder == Spec => []InOrder
<1>1. KeyInv => InOrder
  BY DEF KeyInv, SentInOrder, Numbered, InOrder
<1> QED
  BY <1>1, KeyInvHolds, PTL

-----------------------------------------------------------------------------
(* What an event promises                                                  *)

\* The abstract steps that the operations take.
LEMMA SubscribeImplements ==
  ASSUME KeyInv, NEW s \in Subscribers, Subscribe(s)
  PROVE  \E e \in Events, ms \in AsTopics!BoundedSeq(1..MaxMessages, MaxMessages) : AsTopics!TopicSubscribe(e, s, ms)
<1>1. PICK e \in Events : SubscribesTo(s, e) /\ Numbered(pendingNotifications[e] \o kept, sent)
  BY SubscribesToOne
<1>2. /\ sent \in Nat /\ MaxMessages \in Nat /\ sent <= MaxMessages
      /\ kept \in Seq(1..sent) /\ Len(kept) <= sent
  BY KeyedAssumption DEF KeyInv, KeyTypes, SentInOrder, Numbered
<1>3. kept \in AsTopics!BoundedSeq(1..MaxMessages, MaxMessages)
  <2>1. kept \in [1..Len(kept) -> 1..MaxMessages] /\ Len(kept) \in 0..MaxMessages
    <3>1. 1..sent \subseteq 1..MaxMessages
      BY <1>2
    <3>2. kept \in Seq(1..MaxMessages)
      BY <1>2, <3>1, SeqMonotonic
    <3>3. kept \in [1..Len(kept) -> 1..MaxMessages] /\ Len(kept) \in Nat
      BY <3>2, LenProperties
    <3> QED
      BY <1>2, <3>3
  <2> QED
    BY <2>1 DEF AsTopics!BoundedSeq, AsTopics!SeqOf
<1>4. SendEach(Strategy[s], <<>>, pendingNotifications[e] \o kept)
        = AsTopics!OfferAll(Strategy[s], <<>>, pendingNotifications[e] \o kept)
  <2>1. pendingNotifications[e] \o kept \in Seq(1..sent) /\ <<>> \in Seq(1..sent)
    BY <1>1, EmptySeq DEF Numbered
  <2> QED
    BY <2>1, KeyedAssumption, SendEachOffers
<1>5. AsTopics!TopicSubscribe(e, s, kept)
  BY <1>1, <1>4 DEF SubscribesTo, AsTopics!TopicSubscribe
<1> QED
  BY <1>3, <1>5

LEMMA NotifyImplements ==
  ASSUME KeyInv, NEW defer \in Deferral, Notify(defer)
  PROVE  \/ UNCHANGED AsTopics!topicVars
         \/ \E e \in Events, m \in 1..MaxMessages : AsTopics!TopicNotify(e, m) \/ AsTopics!TopicDefer(e, m)
<1>1. PICK e \in Events : Notifies(e)
  BY NotifiesIts
<1>2. sent + 1 \in 1..MaxMessages
  BY <1>1, KeyedAssumption DEF Notifies, KeyInv, KeyTypes
<1>3. \A s \in Subscribers : Send(Strategy[s], inbox[s], sent + 1) = AsTopics!Offer(Strategy[s], inbox[s], sent + 1)
  BY DEF Send, AsTopics!Offer
<1>4. UNCHANGED <<at, closed>>
  BY <1>1 DEF Notifies
<1>5. CASE UNCHANGED <<inbox, pendingNotifications>>
  BY <1>4, <1>5 DEF AsTopics!topicVars
<1>6. CASE /\ ~closed[e] /\ \A s \in Subscribers : at[s] # e
           /\ pendingNotifications' = [pendingNotifications EXCEPT ![e] = Append(@, sent + 1)]
           /\ UNCHANGED inbox
  <2>1. AsTopics!TopicDefer(e, sent + 1)
    BY <1>4, <1>6 DEF AsTopics!TopicDefer
  <2> QED
    BY <1>2, <2>1
<1>7. CASE /\ ~closed[e]
           /\ inbox' = [s \in Subscribers |-> IF at[s] = e THEN Send(Strategy[s], inbox[s], sent + 1) ELSE inbox[s]]
           /\ UNCHANGED pendingNotifications
  <2>1. AsTopics!TopicNotify(e, sent + 1)
    BY <1>3, <1>4, <1>7 DEF AsTopics!TopicNotify
  <2> QED
    BY <1>2, <2>1
<1> QED
  BY <1>1, <1>5, <1>6, <1>7 DEF Notifies

\* The collections with their lists of free slots, the map of the events of the
\* key and what the key keeps implement what an event promises: each subscriber
\* gets what its strategy says of what is sent while it is there, and the first
\* one what was deferred (event.go:58-86, 263-316).
THEOREM ImplementsTopics == Spec => EventsAreTopics
<1>1. Init => AsTopics!TopicInit
  BY DEF Init, AsTopics!TopicInit
<1>2. KeyInv /\ [Next]_vars => [AsTopics!TopicNext]_(AsTopics!topicVars)
  <2> SUFFICES ASSUME KeyInv, [Next]_vars PROVE AsTopics!TopicNext \/ UNCHANGED AsTopics!topicVars
    OBVIOUS
  <2>1. ASSUME NEW s \in Subscribers, Subscribe(s) PROVE AsTopics!TopicNext
    BY <2>1, SubscribeImplements DEF AsTopics!TopicNext
  <2>2. ASSUME NEW s \in Subscribers, Unsubscribe(s) PROVE AsTopics!TopicNext
    <3>1. AsTopics!TopicUnsubscribe(s)
      BY <2>2 DEF Unsubscribe, AsTopics!TopicUnsubscribe
    <3> QED
      BY <3>1 DEF AsTopics!TopicNext
  <2>3. ASSUME NEW s \in Subscribers, Read(s) PROVE AsTopics!TopicNext
    <3>1. AsTopics!TopicRead(s)
      BY <2>3 DEF Read, AsTopics!TopicRead
    <3> QED
      BY <3>1 DEF AsTopics!TopicNext
  <2>4. ASSUME NEW defer \in Deferral, Notify(defer) PROVE AsTopics!TopicNext \/ UNCHANGED AsTopics!topicVars
    BY <2>4, NotifyImplements DEF AsTopics!TopicNext
  <2>5. ASSUME Close PROVE AsTopics!TopicNext
    <3>1. current \in Events
      BY <2>5 DEF Close, KeyInv, KeyTypes
    <3>2. AsTopics!TopicClose(current)
      BY <2>5 DEF Close, AsTopics!TopicClose
    <3> QED
      BY <3>1, <3>2 DEF AsTopics!TopicNext
  <2>6. ASSUME \/ NotifyUpgrade \/ NotifyRecheck
               \/ \E e \in Events : CleanupRead(e) \/ CleanupDelete(e)
               \/ UNCHANGED vars
        PROVE  UNCHANGED AsTopics!topicVars
    BY <2>6 DEF NotifyUpgrade, NotifyRecheck, CleanupRead, CleanupDelete, vars, AsTopics!topicVars
  <2> QED
    BY <2>1, <2>2, <2>3, <2>4, <2>5, <2>6 DEF Next
<1> QED
  BY <1>1, <1>2, KeyInvHolds, PTL DEF Spec, EventsAreTopics, AsTopics!TopicSpec

-----------------------------------------------------------------------------
(* Notifications: what is on its way to the viewer                         *)

\* The channel through which notifications of the key come, and the other one.
Own == IF personal THEN direct ELSE broadcast
Other == IF personal THEN broadcast ELSE direct

Last(channel) == channel[Len(channel)]
OnlyClears(channel) == \A i \in 1..Len(channel) : channel[i] = Notifications!Clear

NotificationTypes ==
  /\ personal \in BOOLEAN
  /\ made \in Nat /\ persisted \in 0..made
  /\ announcing \subseteq 1..made
  /\ late \subseteq Nat \ {0}
  /\ stream \in {"off", "subscribed", "live"}
  /\ initial \in Seq(Nat) /\ broadcast \in Seq(Nat) /\ direct \in Seq(Nat)
  /\ stream = "off" => initial = <<>> /\ broadcast = <<>> /\ direct = <<>>
  /\ personal => broadcast = <<>>
  /\ entry \in Nat /\ (entry # 0 => lit)
  /\ {lit, stale, dark} \subseteq BOOLEAN

\* A light is taken away by the entry it is for; and unless the key is unread, it
\* is off for good or the last event on its way is the one that puts it off.
GoesOff ==
  ~stale =>
    /\ lit => entry # 0
    /\ ~Notifications!Unread =>
         \/ ~lit /\ OnlyClears(initial) /\ OnlyClears(broadcast) /\ OnlyClears(direct)
         \/ initial = <<>> /\ broadcast = <<>> /\ direct # <<>> /\ Last(direct) = Notifications!Clear

\* A notification that was sent, and that is not past its deadline, is the last to
\* arrive, or has arrived.
GoesOn ==
  /\ stream # "off" /\ ~dark
  /\ Notifications!Unread /\ persisted \notin announcing /\ persisted \notin late
  =>
    /\ Other = <<>>
    /\ Own # <<>> => Last(Own) = persisted
    /\ initial \in {<<>>, <<persisted>>}
    /\ stream = "live" /\ Own = <<>> /\ initial = <<>> => entry = persisted

LightInv == NotificationTypes /\ GoesOff /\ GoesOn

\* A channel after its first event was received.
LEMMA Received ==
  ASSUME NEW channel \in Seq(Nat), channel # <<>>
  PROVE  /\ Tail(channel) \in Seq(Nat) /\ Head(channel) \in Nat
         /\ Len(channel) \in Nat /\ Len(channel) > 0 /\ Len(Tail(channel)) = Len(channel) - 1
         /\ Tail(channel) # <<>> => Last(Tail(channel)) = Last(channel)
         /\ Tail(channel) = <<>> => Head(channel) = Last(channel)
         /\ OnlyClears(channel) => Head(channel) = Notifications!Clear /\ OnlyClears(Tail(channel))
<1>1. /\ Tail(channel) \in Seq(Nat) /\ Head(channel) = channel[1] /\ Len(channel) \in Nat
      /\ Len(channel) > 0 /\ Len(Tail(channel)) = Len(channel) - 1
      /\ \A i \in 1..Len(Tail(channel)) : Tail(channel)[i] = channel[i + 1]
  BY HeadTailProperties, EmptySeq
<1>2. Head(channel) \in Nat
  BY <1>1, ElementOfSeq
<1>3. ASSUME Tail(channel) # <<>> PROVE Last(Tail(channel)) = Last(channel)
  <2>1. Len(Tail(channel)) \in 1..Len(Tail(channel))
    BY <1>1, <1>3, EmptySeq
  <2>2. Tail(channel)[Len(Tail(channel))] = channel[Len(Tail(channel)) + 1]
    BY <1>1, <2>1
  <2>3. Len(Tail(channel)) + 1 = Len(channel)
    BY <1>1
  <2> QED
    BY <2>2, <2>3 DEF Last
<1>4. ASSUME Tail(channel) = <<>> PROVE Head(channel) = Last(channel)
  <2>1. Len(Tail(channel)) = 0
    BY <1>4, EmptySeq
  <2>2. Len(channel) \in Nat /\ Len(Tail(channel)) = Len(channel) - 1
    BY <1>1
  <2>3. Len(channel) = 1
    BY <2>1, <2>2
  <2> QED
    BY <1>1, <2>3 DEF Last
<1>5. ASSUME OnlyClears(channel) PROVE Head(channel) = Notifications!Clear /\ OnlyClears(Tail(channel))
  <2>1. Head(channel) = Notifications!Clear
    BY <1>1, <1>5 DEF OnlyClears
  <2>2. ASSUME NEW i \in 1..Len(Tail(channel)) PROVE Tail(channel)[i] = Notifications!Clear
    <3>1. i + 1 \in 1..Len(channel) /\ Tail(channel)[i] = channel[i + 1]
      BY <1>1
    <3> QED
      BY <1>5, <3>1 DEF OnlyClears
  <2> QED
    BY <2>1, <2>2 DEF OnlyClears
<1> QED
  BY <1>1, <1>2, <1>3, <1>4, <1>5

\* A channel after something was sent into it.
LEMMA SentLast ==
  ASSUME NEW channel \in Seq(Nat), NEW e \in Nat
  PROVE  /\ channel \o <<e>> \in Seq(Nat) /\ channel \o <<e>> # <<>> /\ Last(channel \o <<e>>) = e
         /\ channel \o <<e, e>> \in Seq(Nat) /\ channel \o <<e, e>> # <<>> /\ Last(channel \o <<e, e>>) = e
<1>1. <<e>> \in Seq(Nat) /\ <<e, e>> \in Seq(Nat) /\ Len(<<e>>) = 1 /\ Len(<<e, e>>) = 2
  OBVIOUS
<1>2. channel \o <<e>> \in Seq(Nat) /\ channel \o <<e, e>> \in Seq(Nat)
  BY <1>1, ConcatProperties
<1>3. /\ Len(channel \o <<e>>) = Len(channel) + 1 /\ (channel \o <<e>>)[Len(channel) + 1] = e
      /\ Len(channel) \in Nat
  BY <1>1
<1>4. Len(channel \o <<e, e>>) = Len(channel) + 2 /\ (channel \o <<e, e>>)[Len(channel) + 2] = e
  BY <1>1
<1>5. channel \o <<e>> # <<>> /\ channel \o <<e, e>> # <<>>
  BY <1>2, <1>3, <1>4, EmptySeq
<1> QED
  BY <1>2, <1>3, <1>4, <1>5 DEF Last

\* All that the invariant is about.
LEMMA NothingMoves ==
  ASSUME LightInv,
         UNCHANGED <<personal, made, announcing, persisted, read, late, stream, initial, broadcast, direct,
                     entry, lit, stale, dark>>
  PROVE  LightInv'
<1>1. NotificationTypes'
  BY DEF LightInv, NotificationTypes
<1>2. GoesOff'
  BY DEF LightInv, GoesOff, OnlyClears, Last, Notifications!Unread
<1>3. GoesOn'
  BY DEF LightInv, GoesOn, Own, Other, Last, Notifications!Unread
<1> QED
  BY <1>1, <1>2, <1>3 DEF LightInv

\* The event that clears the key is sent, and the key is not unread after it.
LEMMA ClearSent ==
  ASSUME LightInv,
         NEW events \in {<<Notifications!Clear>>, <<Notifications!Clear, Notifications!Clear>>},
         Notifications!SendClear(events),
         UNCHANGED <<personal, made, announcing, late>>,
         persisted' \in {0, persisted}, ~Notifications!Unread'
  PROVE  LightInv'
<1> USE DEF LightInv
<1>1. Notifications!Clear = 0
  BY DEF Notifications!Clear
<1>2. direct \in Seq(Nat) /\ direct' = Notifications!Sent(Notifications!Reachable, direct, events)
  BY DEF NotificationTypes, Notifications!SendClear
<1>3. /\ direct' \in Seq(Nat)
      /\ Notifications!Reachable => direct' # <<>> /\ Last(direct') = 0 /\ stream # "off"
      /\ ~Notifications!Reachable => direct' = direct
  <2>1. CASE ~Notifications!Reachable
    BY <1>2, <2>1 DEF Notifications!Sent
  <2>2. CASE Notifications!Reachable
    <3>1. direct' = direct \o events /\ stream # "off"
      BY <1>2, <2>2 DEF Notifications!Sent, Notifications!Reachable, Notifications!Listening
    <3>2. CASE events = <<0>>
      <4>1. direct \o <<0>> \in Seq(Nat) /\ direct \o <<0>> # <<>> /\ Last(direct \o <<0>>) = 0
        BY <1>2, SentLast
      <4> QED
        BY <2>2, <3>1, <3>2, <4>1
    <3>3. CASE events = <<0, 0>>
      <4>1. direct \o <<0, 0>> \in Seq(Nat) /\ direct \o <<0, 0>> # <<>> /\ Last(direct \o <<0, 0>>) = 0
        BY <1>2, SentLast
      <4> QED
        BY <2>2, <3>1, <3>3, <4>1
    <3> QED
      BY <1>1, <3>2, <3>3
  <2> QED
    BY <2>1, <2>2
<1>4. NotificationTypes'
  <2>1. UNCHANGED <<stream, initial, broadcast, entry, lit, dark>> /\ stale' \in BOOLEAN
    BY DEF Notifications!SendClear, Notifications!streamVars, Notifications!clientVars, NotificationTypes
  <2>2. persisted' \in 0..made'
    BY DEF NotificationTypes
  <2> QED
    BY <1>3, <2>1, <2>2 DEF NotificationTypes
<1>5. GoesOff'
  <2> SUFFICES ASSUME ~stale' PROVE GoesOff'
    BY DEF GoesOff
  <2>1. UNCHANGED <<stream, initial, broadcast, entry, lit>>
    BY DEF Notifications!SendClear, Notifications!streamVars, Notifications!clientVars
  <2>2. /\ ~stale
        /\ Notifications!Reachable => broadcast = <<>> /\ initial = <<>>
        /\ ~Notifications!Reachable => ~lit /\ ~(Notifications!Queued > 0)
    BY DEF Notifications!SendClear
  <2>3. lit' => entry' # 0
    BY <2>1, <2>2 DEF GoesOff
  <2>4. CASE ~Notifications!Reachable
    <3>1. initial = <<>> /\ broadcast = <<>> /\ direct = <<>>
      <4>1. initial \in Seq(Nat) /\ broadcast \in Seq(Nat)
        BY DEF NotificationTypes
      <4>2. Len(initial) \in Nat /\ Len(broadcast) \in Nat /\ Len(direct) \in Nat
        BY <1>2, <4>1, LenProperties
      <4>3. Len(initial) = 0 /\ Len(broadcast) = 0 /\ Len(direct) = 0
        BY <2>2, <2>4, <4>2 DEF Notifications!Queued
      <4> QED
        BY <1>2, <4>1, <4>3, EmptySeq
    <3>2. initial' = <<>> /\ broadcast' = <<>> /\ direct' = <<>> /\ ~lit'
      BY <1>3, <2>1, <2>2, <2>4, <3>1
    <3> QED
      BY <2>3, <3>2 DEF GoesOff, OnlyClears
  <2>5. CASE Notifications!Reachable
    <3>1. initial' = <<>> /\ broadcast' = <<>> /\ direct' # <<>> /\ Last(direct') = Notifications!Clear
      BY <1>1, <1>3, <2>1, <2>2, <2>5
    <3> QED
      BY <2>3, <3>1 DEF GoesOff, Last
  <2> QED
    BY <2>4, <2>5
<1>6. GoesOn'
  BY DEF GoesOn
<1> QED
  BY <1>4, <1>5, <1>6

\* A new notification is sent.
LEMMA Announced ==
  ASSUME LightInv, NEW n, Notifications!Announce(n)
  PROVE  LightInv'
<1> USE DEF LightInv
<1> DEFINE reached == IF personal THEN Notifications!Reachable ELSE Notifications!Listening
<1>0. reached => stream # "off"
  BY DEF Notifications!Reachable, Notifications!Listening
<1>1. /\ n \in Nat /\ n # 0 /\ n \in 1..made
      /\ UNCHANGED <<personal, made, persisted, read, late, stream, initial, entry, lit>>
      /\ announcing' = announcing \ {n}
      /\ Own' = Notifications!Sent(reached, Own, <<n>>) /\ Other' = Other
  <2>1. n \in 1..made /\ made \in Nat
    BY DEF Notifications!Announce, NotificationTypes
  <2>2. n \in Nat /\ n # 0
    BY <2>1
  <2>3. /\ UNCHANGED <<personal, made, persisted, read, late, stream, initial, entry, lit>>
        /\ announcing' = announcing \ {n}
    BY DEF Notifications!Announce, Notifications!streamVars, Notifications!clientVars, Notifications!monitorVars
  <2>4. Own' = Notifications!Sent(reached, Own, <<n>>) /\ Other' = Other
    BY DEF Notifications!Announce, Own, Other, NotificationTypes
  <2> QED
    BY <2>1, <2>2, <2>3, <2>4
<1>2. Own \in Seq(Nat)
  BY DEF Own, NotificationTypes
<1>3. /\ Own' \in Seq(Nat)
      /\ reached => Own' # <<>> /\ Last(Own') = n
      /\ ~reached => Own' = Own
  <2>1. CASE ~reached
    BY <1>1, <1>2, <2>1 DEF Notifications!Sent
  <2>2. CASE reached
    <3>1. Own' = Own \o <<n>>
      BY <1>1, <2>2 DEF Notifications!Sent
    <3> QED
      BY <1>1, <1>2, <2>2, <3>1, SentLast
  <2> QED
    BY <2>1, <2>2
<1>4. ~reached => UNCHANGED <<broadcast, direct>>
  BY <1>1, <1>3 DEF Own, Other, NotificationTypes
<1>5. NotificationTypes'
  <2>1. broadcast' \in Seq(Nat) /\ direct' \in Seq(Nat) /\ (personal' => broadcast' = <<>>)
    BY <1>1, <1>3 DEF Own, Other, NotificationTypes
  <2>2. stale' \in BOOLEAN /\ dark' \in BOOLEAN
    BY DEF Notifications!Announce, NotificationTypes, Notifications!Listening
  <2>3. announcing' \subseteq 1..made'
    BY <1>1 DEF NotificationTypes
  <2> QED
    BY <1>0, <1>1, <1>4, <2>1, <2>2, <2>3 DEF NotificationTypes
<1>6. GoesOff'
  <2>1. CASE ~reached
    <3>1. ~stale' => ~stale
      BY DEF Notifications!Announce
    <3> QED
      BY <1>1, <1>4, <2>1, <3>1 DEF GoesOff, OnlyClears, Last, Notifications!Unread
  <2>2. CASE reached
    <3>1. ~stale' => ~stale /\ persisted = n /\ ~read
      BY <2>2 DEF Notifications!Announce
    <3>2. ~stale' => Notifications!Unread'
      BY <1>1, <3>1 DEF Notifications!Unread
    <3> QED
      BY <1>1, <3>1, <3>2 DEF GoesOff
  <2> QED
    BY <2>1, <2>2
<1>7. GoesOn'
  <2> SUFFICES ASSUME stream' # "off", ~dark' PROVE GoesOn'
    BY DEF GoesOn
  <2>1. reached /\ ~dark /\ persisted = n /\ initial \in {<<>>, <<n>>} /\ (personal \/ direct = <<>>)
    BY <1>1 DEF Notifications!Announce, Notifications!Listening
  <2>2. Other' = <<>>
    BY <1>1, <2>1 DEF Other, NotificationTypes
  <2>3. Own' # <<>> /\ Last(Own') = persisted' /\ initial' \in {<<>>, <<persisted'>>}
    BY <1>1, <1>3, <2>1
  <2> QED
    BY <2>2, <2>3 DEF GoesOn, Last
<1> QED
  BY <1>5, <1>6, <1>7

\* The client receives an event, the first of its channel.
LEMMA ReceivedFrom ==
  ASSUME LightInv, NEW event \in Nat, Notifications!Receive(event),
         \/ initial # <<>> /\ event = Head(initial) /\ initial' = <<>> /\ UNCHANGED <<broadcast, direct>>
         \/ broadcast # <<>> /\ event = Head(broadcast) /\ broadcast' = Tail(broadcast) /\ UNCHANGED <<initial, direct>>
         \/ direct # <<>> /\ event = Head(direct) /\ direct' = Tail(direct) /\ UNCHANGED <<initial, broadcast>>
  PROVE  LightInv'
<1> USE DEF LightInv
<1>1. UNCHANGED <<personal, made, announcing, persisted, read, late, stream>>
  BY DEF Notifications!Receive, Notifications!monitorVars, Notifications!streamVars
<1>2. initial \in Seq(Nat) /\ broadcast \in Seq(Nat) /\ direct \in Seq(Nat)
  BY DEF NotificationTypes
<1>3. initial' \in Seq(Nat) /\ broadcast' \in Seq(Nat) /\ direct' \in Seq(Nat)
  <2>1. <<>> \in Seq(Nat)
    BY EmptySeq
  <2> QED
    BY <1>2, <2>1, Received
<1>4. /\ event # 0 /\ event \notin late => entry' = event /\ lit' = TRUE
      /\ event # 0 /\ event \in late /\ entry = 0 => lit' = TRUE /\ entry' = 0
      /\ event # 0 /\ event \in late /\ entry # 0 => entry' = 0 /\ lit' = FALSE
      /\ event = 0 /\ entry = 0 => entry' = 0 /\ lit' = lit
      /\ event = 0 /\ entry # 0 => entry' = 0 /\ lit' = FALSE
  <2>1. Notifications!Process(event) /\ Notifications!Clear = 0
    BY DEF Notifications!Receive, Notifications!Clear
  <2>2. CASE event # 0 /\ event \notin late
    BY <2>1, <2>2 DEF Notifications!Process
  <2>3. CASE event # 0 /\ event \in late /\ entry = 0
    BY <2>1, <2>3 DEF Notifications!Process
  <2>4. CASE event = 0 /\ entry = 0
    BY <2>1, <2>4 DEF Notifications!Process, Notifications!clientVars
  <2>5. CASE (event = 0 \/ event \in late) /\ entry # 0
    BY <2>1, <2>5 DEF Notifications!Process
  <2> QED
    BY <2>2, <2>3, <2>4, <2>5
<1>5. entry' \in Nat /\ lit' \in BOOLEAN /\ (entry' # 0 => lit')
  <2>1. entry \in Nat /\ lit \in BOOLEAN
    BY DEF NotificationTypes
  <2>2. CASE event # 0 /\ event \notin late
    BY <1>4, <2>2
  <2>3. CASE event # 0 /\ event \in late /\ entry = 0
    BY <1>4, <2>3
  <2>4. CASE event # 0 /\ event \in late /\ entry # 0
    <3>1. entry' = 0 /\ lit' = FALSE
      BY <1>4, <2>4
    <3> QED
      BY <3>1
  <2>5. CASE event = 0 /\ entry = 0
    BY <1>4, <2>1, <2>5
  <2>6. CASE event = 0 /\ entry # 0
    BY <1>4, <2>6
  <2> QED
    BY <2>2, <2>3, <2>4, <2>5, <2>6
<1>6. ASSUME ~(Notifications!Queued > 1) PROVE initial' = <<>> /\ broadcast' = <<>> /\ direct' = <<>>
  <2>1. Len(initial) + Len(broadcast) + Len(direct) <= 1
    <3>1. Len(initial) \in Nat /\ Len(broadcast) \in Nat /\ Len(direct) \in Nat
      BY <1>2, LenProperties
    <3> QED
      BY <1>6, <3>1 DEF Notifications!Queued
  <2>2. CASE initial # <<>>
    <3>1. Len(initial) > 0 /\ Len(initial) \in Nat /\ Len(broadcast) \in Nat /\ Len(direct) \in Nat
      BY <1>2, <2>2, Received, LenProperties
    <3>2. Len(broadcast) = 0 /\ Len(direct) = 0
      BY <2>1, <3>1
    <3> QED
      BY <1>2, <3>2, EmptySeq
  <2>3. CASE broadcast # <<>>
    <3>1. /\ Len(broadcast) > 0 /\ Len(initial) \in Nat /\ Len(broadcast) \in Nat /\ Len(direct) \in Nat
          /\ Len(Tail(broadcast)) = Len(broadcast) - 1 /\ Tail(broadcast) \in Seq(Nat)
      BY <1>2, <2>3, Received, LenProperties
    <3>2. Len(initial) = 0 /\ Len(direct) = 0 /\ Len(Tail(broadcast)) = 0
      BY <2>1, <3>1
    <3> QED
      BY <1>2, <3>1, <3>2, EmptySeq
  <2>4. CASE direct # <<>>
    <3>1. /\ Len(direct) > 0 /\ Len(initial) \in Nat /\ Len(broadcast) \in Nat /\ Len(direct) \in Nat
          /\ Len(Tail(direct)) = Len(direct) - 1 /\ Tail(direct) \in Seq(Nat)
      BY <1>2, <2>4, Received, LenProperties
    <3>2. Len(initial) = 0 /\ Len(broadcast) = 0 /\ Len(Tail(direct)) = 0
      BY <2>1, <3>1
    <3> QED
      BY <1>2, <3>1, <3>2, EmptySeq
  <2> QED
    BY <2>2, <2>3, <2>4
<1>7. NotificationTypes'
  <2>1. stream = "off" => initial' = <<>> /\ broadcast' = <<>> /\ direct' = <<>>
    BY DEF NotificationTypes
  <2>2. personal => broadcast' = <<>>
    BY DEF NotificationTypes
  <2>3. stale' \in BOOLEAN /\ dark' \in BOOLEAN
    BY DEF Notifications!Receive
  <2> QED
    BY <1>1, <1>3, <1>5, <2>1, <2>2, <2>3 DEF NotificationTypes
<1>8. GoesOff'
  <2> SUFFICES ASSUME ~stale' PROVE GoesOff'
    BY DEF GoesOff
  <2>1. (~stale /\ event \notin late) \/ (~lit' /\ ~(Notifications!Queued > 1))
    BY DEF Notifications!Receive
  <2>2. CASE ~lit' /\ ~(Notifications!Queued > 1)
    <3>1. initial' = <<>> /\ broadcast' = <<>> /\ direct' = <<>>
      BY <1>6, <2>2
    <3> QED
      BY <2>2, <3>1 DEF GoesOff, OnlyClears
  <2>3. CASE ~stale /\ event \notin late
    <3>1. lit' => entry' # 0
      BY <1>4, <2>3 DEF GoesOff
    <3> SUFFICES ASSUME ~Notifications!Unread'
                 PROVE  \/ ~lit' /\ OnlyClears(initial)' /\ OnlyClears(broadcast)' /\ OnlyClears(direct)'
                        \/ initial' = <<>> /\ broadcast' = <<>> /\ direct' # <<>> /\ Last(direct)' = Notifications!Clear
      BY <3>1 DEF GoesOff
    <3>2. ~Notifications!Unread
      BY <1>1 DEF Notifications!Unread
    <3>3. CASE ~lit /\ OnlyClears(initial) /\ OnlyClears(broadcast) /\ OnlyClears(direct)
      <4>1. event = 0 /\ OnlyClears(initial') /\ OnlyClears(broadcast') /\ OnlyClears(direct')
        <5>1. OnlyClears(<<>>) /\ Notifications!Clear = 0
          BY DEF OnlyClears, Notifications!Clear
        <5> QED
          BY <1>2, <3>3, <5>1, Received
      <4>2. ~lit'
        BY <1>4, <3>3, <4>1
      <4> QED
        BY <4>1, <4>2 DEF OnlyClears
    <3>4. CASE initial = <<>> /\ broadcast = <<>> /\ direct # <<>> /\ Last(direct) = Notifications!Clear
      <4>1. event = Head(direct) /\ direct' = Tail(direct) /\ initial' = <<>> /\ broadcast' = <<>>
        BY <3>4
      <4>2. CASE direct' # <<>>
        <5>1. Last(direct') = Notifications!Clear
          BY <1>2, <3>4, <4>1, <4>2, Received
        <5> QED
          BY <4>1, <4>2, <5>1 DEF Last
      <4>3. CASE direct' = <<>>
        <5>1. event = 0
          BY <1>2, <3>4, <4>1, <4>3, Received DEF Notifications!Clear
        <5>2. ~lit'
          BY <1>4, <2>3, <5>1 DEF GoesOff
        <5>3. OnlyClears(<<>>)
          BY DEF OnlyClears
        <5>4. OnlyClears(initial') /\ OnlyClears(broadcast') /\ OnlyClears(direct')
          BY <4>1, <4>3, <5>3
        <5> QED
          BY <5>2, <5>4 DEF OnlyClears
      <4> QED
        BY <4>2, <4>3
    <3> QED
      BY <2>3, <3>2, <3>3, <3>4 DEF GoesOff
  <2> QED
    BY <2>1, <2>2, <2>3
<1>9. GoesOn'
  <2> SUFFICES ASSUME stream' # "off", ~dark', Notifications!Unread', persisted' \notin announcing', persisted' \notin late'
               PROVE  /\ Other' = <<>>
                      /\ Own' # <<>> => Last(Own)' = persisted'
                      /\ initial' \in {<<>>, <<persisted'>>}
                      /\ stream' = "live" /\ Own' = <<>> /\ initial' = <<>> => entry' = persisted'
    BY DEF GoesOn
  <2>1. ~dark \/ (entry' = persisted /\ ~(Notifications!Queued > 1))
    BY DEF Notifications!Receive
  <2>2. CASE entry' = persisted /\ ~(Notifications!Queued > 1)
    <3>1. initial' = <<>> /\ broadcast' = <<>> /\ direct' = <<>>
      BY <1>6, <2>2
    <3> QED
      BY <1>1, <2>2, <3>1 DEF Own, Other
  <2>3. CASE ~dark
    <3>1. /\ stream # "off" /\ Notifications!Unread /\ persisted \notin announcing /\ persisted \notin late
          /\ persisted # 0 /\ persisted \in Nat
      BY <1>1 DEF Notifications!Unread, NotificationTypes
    <3>2. /\ Other = <<>> /\ (Own # <<>> => Last(Own) = persisted) /\ initial \in {<<>>, <<persisted>>}
          /\ stream = "live" /\ Own = <<>> /\ initial = <<>> => entry = persisted
      BY <2>3, <3>1 DEF GoesOn
    <3>3. event = persisted => entry' = persisted
      BY <1>4, <3>1
    <3>4. CASE initial # <<>> /\ event = Head(initial) /\ initial' = <<>> /\ UNCHANGED <<broadcast, direct>>
      <4>1. event = persisted
        BY <3>2, <3>4
      <4>2. Own' = Own /\ Other' = Other
        BY <1>1, <3>4 DEF Own, Other
      <4> QED
        BY <1>1, <3>2, <3>3, <3>4, <4>1, <4>2 DEF Last
    <3>5. CASE Own # <<>> /\ event = Head(Own) /\ Own' = Tail(Own) /\ UNCHANGED <<initial, Other>>
      <4>1. Own \in Seq(Nat)
        BY <1>2 DEF Own
      <4>2. CASE Own' = <<>>
        <5>1. event = persisted
          BY <3>2, <3>5, <4>1, <4>2, Received
        <5> QED
          BY <1>1, <3>2, <3>3, <3>5, <4>2, <5>1
      <4>3. CASE Own' # <<>>
        <5>1. Last(Own') = persisted
          BY <3>2, <3>5, <4>1, <4>3, Received
        <5>2. Last(Own)' = Last(Own')
          BY DEF Last
        <5> QED
          BY <1>1, <3>2, <3>5, <4>3, <5>1, <5>2
      <4> QED
        BY <4>2, <4>3
    <3>6. \/ initial # <<>> /\ event = Head(initial) /\ initial' = <<>> /\ UNCHANGED <<broadcast, direct>>
          \/ Own # <<>> /\ event = Head(Own) /\ Own' = Tail(Own) /\ UNCHANGED <<initial, Other>>
      BY <1>1, <3>2 DEF Own, Other
    <3> QED
      BY <3>4, <3>5, <3>6
  <2> QED
    BY <2>1, <2>2, <2>3
<1> QED
  BY <1>7, <1>8, <1>9

\* Each part of what the viewer is shown is kept by every step of the manager,
\* of the stream and of the client.
LEMMA LightInductive == LightInv /\ [Notifications!NotificationsNext]_(Notifications!notificationVars) => LightInv'
<1> SUFFICES ASSUME LightInv, [Notifications!NotificationsNext]_(Notifications!notificationVars) PROVE LightInv'
  OBVIOUS
<1> USE DEF LightInv
<1> DEFINE Still == UNCHANGED <<personal, made, announcing, persisted, read, late, stream, initial, broadcast,
                                direct, entry, lit, stale, dark>>
<1>1. ASSUME Still PROVE LightInv'
  BY <1>1, NothingMoves
<1>2. ASSUME Notifications!Persist PROVE LightInv'
  <2>1. /\ made' = made + 1 /\ announcing' = announcing \cup {made + 1} /\ persisted' = made + 1 /\ read' = FALSE
        /\ UNCHANGED <<personal, late, stream, initial, broadcast, direct, entry, lit, stale, dark>>
    BY <1>2 DEF Notifications!Persist, Notifications!streamVars, Notifications!channelVars,
                Notifications!clientVars, Notifications!historyVars
  <2>2. made \in Nat /\ announcing \subseteq 1..made
    BY DEF NotificationTypes
  <2>3. made' \in Nat /\ persisted' \in 0..made' /\ announcing' \subseteq 1..made' /\ persisted' # 0
    BY <2>1, <2>2
  <2>4. NotificationTypes'
    BY <2>1, <2>3 DEF NotificationTypes
  <2>5. GoesOff'
    BY <2>1, <2>3 DEF GoesOff, Notifications!Unread
  <2>6. GoesOn'
    BY <2>1 DEF GoesOn
  <2> QED
    BY <2>4, <2>5, <2>6
<1>3. ASSUME Notifications!MarkAsRead PROVE LightInv'
  <2>1. UNCHANGED <<personal, made, announcing, late>>
    BY <1>3 DEF Notifications!MarkAsRead
  <2>2. \E events \in {<<Notifications!Clear>>, <<Notifications!Clear, Notifications!Clear>>} :
          /\ Notifications!SendClear(events)
          /\ persisted' \in {0, persisted} /\ (persisted' = 0 \/ read')
    BY <1>3 DEF Notifications!MarkAsRead, Notifications!ClearInsideMutex
  <2> QED
    BY <2>1, <2>2, ClearSent DEF Notifications!Unread
<1>4. ASSUME NEW events \in {<<Notifications!Clear>>}, Notifications!ClearInsideMutex(events),
             UNCHANGED <<personal, made, announcing, late>>
      PROVE  LightInv'
  <2>1. Notifications!SendClear(events) /\ persisted' = 0
    BY <1>4 DEF Notifications!ClearInsideMutex
  <2>2. ~Notifications!Unread'
    BY <2>1 DEF Notifications!Unread
  <2> QED
    BY <1>4, <2>1, <2>2, ClearSent
<1>5. ASSUME Notifications!ClearPersisted PROVE LightInv'
  BY <1>4, <1>5 DEF Notifications!ClearPersisted
<1>6. ASSUME NEW n \in Notifications!Numbers, Notifications!MonitorClears(n) PROVE LightInv'
  <2>1. CASE persisted # 0
    BY <1>4, <1>6, <2>1 DEF Notifications!MonitorClears
  <2>2. CASE persisted = 0
    <3>1. Still
      BY <1>6, <2>2 DEF Notifications!MonitorClears, Notifications!streamVars, Notifications!channelVars,
                        Notifications!clientVars, Notifications!historyVars
    <3> QED
      BY <1>1, <3>1
  <2> QED
    BY <2>1, <2>2
<1>7. ASSUME NEW n \in Notifications!Numbers, Notifications!PassDeadline(n) PROVE LightInv'
  <2>1. /\ late' = late \cup {n} /\ n \in Nat \ {0}
        /\ UNCHANGED <<personal, made, announcing, persisted, read, stream, initial, broadcast, direct, entry, lit,
                       stale, dark>>
    <3>1. n \in Nat \ {0}
      BY DEF Notifications!Numbers
    <3> QED
      BY <1>7, <3>1 DEF Notifications!PassDeadline, Notifications!streamVars, Notifications!channelVars,
                        Notifications!clientVars, Notifications!historyVars
  <2>2. NotificationTypes'
    BY <2>1 DEF NotificationTypes
  <2>3. GoesOff'
    BY <2>1 DEF GoesOff, OnlyClears, Last, Notifications!Unread
  <2>4. GoesOn'
    BY <2>1 DEF GoesOn, Own, Other, Last, Notifications!Unread
  <2> QED
    BY <2>2, <2>3, <2>4
<1>8. ASSUME Notifications!Subscribe PROVE LightInv'
  <2>1. /\ stream = "off" /\ stream' = "subscribed"
        /\ UNCHANGED <<personal, made, announcing, persisted, read, late, initial, broadcast, direct, entry, lit,
                       stale, dark>>
    BY <1>8 DEF Notifications!Subscribe, Notifications!monitorVars, Notifications!channelVars,
                Notifications!clientVars, Notifications!historyVars
  <2>2. NotificationTypes'
    BY <2>1 DEF NotificationTypes
  <2>3. GoesOff'
    BY <2>1 DEF GoesOff, OnlyClears, Last, Notifications!Unread
  <2>4. GoesOn'
    BY <2>1 DEF GoesOn, Own, Other, NotificationTypes
  <2> QED
    BY <2>2, <2>3, <2>4
<1>9. ASSUME Notifications!TakeSnapshot PROVE LightInv'
  <2>1. /\ stream = "subscribed" /\ stream' = "live"
        /\ initial' = (IF Notifications!Unread THEN <<persisted>> ELSE <<>>)
        /\ UNCHANGED <<personal, made, announcing, persisted, read, late, broadcast, direct, entry, lit, stale, dark>>
    BY <1>9 DEF Notifications!TakeSnapshot, Notifications!monitorVars, Notifications!clientVars,
                Notifications!historyVars
  <2>2. initial' \in Seq(Nat)
    BY <2>1 DEF NotificationTypes
  <2>3. NotificationTypes'
    BY <2>1, <2>2 DEF NotificationTypes
  <2>4. GoesOff'
    <3>1. Notifications!Unread' = Notifications!Unread
      BY <2>1 DEF Notifications!Unread
    <3>2. OnlyClears(<<>>)
      BY DEF OnlyClears
    <3>3. ~Notifications!Unread => OnlyClears(initial')
      BY <2>1, <3>2
    <3> QED
      BY <2>1, <3>1, <3>3 DEF GoesOff, OnlyClears, Last
  <2>5. GoesOn'
    <3>1. Notifications!Unread' = Notifications!Unread /\ Own' = Own /\ Other' = Other /\ Last(Own)' = Last(Own)
      BY <2>1 DEF Notifications!Unread, Own, Other, Last
    <3>2. Notifications!Unread => initial' = <<persisted'>> /\ initial' # <<>>
      BY <2>1
    <3> QED
      BY <2>1, <3>1, <3>2 DEF GoesOn
  <2> QED
    BY <2>3, <2>4, <2>5
<1>10. ASSUME Notifications!Lose PROVE LightInv'
  <2>1. /\ stream' = "off" /\ initial' = <<>> /\ broadcast' = <<>> /\ direct' = <<>>
        /\ stale' = (stale \/ (lit /\ \E i \in DOMAIN direct : direct[i] = Notifications!Clear))
        /\ UNCHANGED <<personal, made, announcing, persisted, read, late, entry, lit, dark>>
    BY <1>10 DEF Notifications!Lose, Notifications!monitorVars, Notifications!clientVars
  <2>2. NotificationTypes'
    <3>1. <<>> \in Seq(Nat) /\ stale' \in BOOLEAN
      BY <2>1, EmptySeq DEF NotificationTypes
    <3> QED
      BY <2>1, <3>1 DEF NotificationTypes
  <2>3. GoesOff'
    <3>1. /\ ~stale' => ~stale
          /\ OnlyClears(initial)' /\ OnlyClears(broadcast)' /\ OnlyClears(direct)'
      <4>1. ~stale' => ~stale
        BY <2>1
      <4>2. \A i \in 1..Len(<<>>) : <<>>[i] = Notifications!Clear
        OBVIOUS
      <4>3. OnlyClears(initial)' /\ OnlyClears(broadcast)' /\ OnlyClears(direct)'
        BY <2>1, <4>2 DEF OnlyClears
      <4> QED
        BY <4>1, <4>3
    <3>2. ~stale' => (lit' => entry' # 0)
      BY <2>1, <3>1 DEF GoesOff
    <3> SUFFICES ASSUME ~stale', ~Notifications!Unread' PROVE ~lit'
      BY <3>1, <3>2 DEF GoesOff
    <3>3. ~stale /\ ~Notifications!Unread
      BY <2>1, <3>1 DEF Notifications!Unread
    <3>4. CASE direct # <<>> /\ Last(direct) = Notifications!Clear
      <4>1. direct \in Seq(Nat) /\ Len(direct) \in DOMAIN direct
        <5>1. direct \in Seq(Nat)
          BY DEF NotificationTypes
        <5>2. Len(direct) \in Nat /\ Len(direct) > 0 /\ DOMAIN direct = 1..Len(direct)
          BY <3>4, <5>1, Received, LenProperties
        <5> QED
          BY <5>1, <5>2
      <4> QED
        BY <2>1, <3>4, <4>1 DEF Last
    <3> QED
      BY <2>1, <3>3, <3>4 DEF GoesOff
  <2>4. GoesOn'
    BY <2>1 DEF GoesOn
  <2> QED
    BY <2>2, <2>3, <2>4
<1>11. ASSUME Notifications!ReceiveInitial PROVE LightInv'
  <2>1. initial \in Seq(Nat) /\ initial # <<>>
    BY <1>11 DEF Notifications!ReceiveInitial, NotificationTypes
  <2>2. Head(initial) \in Nat
    BY <2>1, Received
  <2> QED
    BY <1>11, <2>2, ReceivedFrom DEF Notifications!ReceiveInitial
<1>12. ASSUME Notifications!ReceiveBroadcast PROVE LightInv'
  <2>1. broadcast \in Seq(Nat) /\ broadcast # <<>>
    BY <1>12 DEF Notifications!ReceiveBroadcast, NotificationTypes
  <2>2. Head(broadcast) \in Nat
    BY <2>1, Received
  <2> QED
    BY <1>12, <2>2, ReceivedFrom DEF Notifications!ReceiveBroadcast
<1>13. ASSUME Notifications!ReceiveDirect PROVE LightInv'
  <2>1. direct \in Seq(Nat) /\ direct # <<>>
    BY <1>13 DEF Notifications!ReceiveDirect, NotificationTypes
  <2>2. Head(direct) \in Nat
    BY <2>1, Received
  <2> QED
    BY <1>13, <2>2, ReceivedFrom DEF Notifications!ReceiveDirect
<1>14. ASSUME Notifications!ClientExpires PROVE LightInv'
  <2>1. /\ entry \in late /\ entry' = 0 /\ lit' = FALSE
        /\ UNCHANGED <<personal, made, announcing, persisted, read, late, stream, initial, broadcast, direct,
                       stale, dark>>
    BY <1>14 DEF Notifications!ClientExpires, Notifications!monitorVars, Notifications!streamVars,
                 Notifications!channelVars, Notifications!historyVars
  <2>2. NotificationTypes'
    BY <2>1 DEF NotificationTypes
  <2>3. GoesOff'
    BY <2>1 DEF GoesOff, OnlyClears, Last, Notifications!Unread
  <2>4. GoesOn'
    <3>1. Notifications!Unread' = Notifications!Unread /\ Own' = Own /\ Other' = Other /\ Last(Own)' = Last(Own)
      BY <2>1 DEF Notifications!Unread, Own, Other, Last
    <3> QED
      BY <2>1, <3>1 DEF GoesOn
  <2> QED
    BY <2>2, <2>3, <2>4
<1>15. ASSUME NEW n \in Notifications!Numbers,
              \/ Notifications!CallClear(n) \/ Notifications!MonitorAborts(n) \/ Notifications!MonitorDone(n)
       PROVE  LightInv'
  <2>1. Still
    BY <1>15 DEF Notifications!CallClear, Notifications!MonitorAborts, Notifications!MonitorDone,
                 Notifications!streamVars, Notifications!channelVars, Notifications!clientVars,
                 Notifications!historyVars
  <2> QED
    BY <1>1, <2>1
<1>16. ASSUME Notifications!LoseOther \/ Notifications!Cleanup PROVE LightInv'
  <2>1. Still
    BY <1>16 DEF Notifications!LoseOther, Notifications!Cleanup, Notifications!monitorVars,
                 Notifications!channelVars, Notifications!clientVars, Notifications!historyVars
  <2> QED
    BY <1>1, <2>1
<1>17. ASSUME UNCHANGED Notifications!notificationVars PROVE LightInv'
  <2>1. Still
    BY <1>17 DEF Notifications!notificationVars, Notifications!monitorVars, Notifications!streamVars,
                 Notifications!channelVars, Notifications!clientVars, Notifications!historyVars
  <2> QED
    BY <1>1, <2>1
<1> QED
  BY <1>2, <1>3, <1>5, <1>6, <1>7, <1>8, <1>9, <1>10, <1>11, <1>12, <1>13, <1>14, <1>15, <1>16, <1>17, Announced
  DEF Notifications!NotificationsNext

\* A viewer whose client has received everything sees the light exactly if there
\* is something unread, up to what was lost or came out of order, for any number
\* of notifications and any length of the channels (manager.go:60-95,
\* notifications.ts:10-44).
THEOREM LightFollows == Notifications!NotificationsSpec => []ShowsWhatIsUnread
<1>1. Notifications!NotificationsInit => LightInv
  <2> SUFFICES ASSUME Notifications!NotificationsInit PROVE LightInv
    OBVIOUS
  <2>1. NotificationTypes
    <3>1. <<>> \in Seq(Nat)
      BY EmptySeq
    <3> QED
      <4>1. /\ personal \in BOOLEAN /\ made = 0 /\ announcing = {} /\ persisted = 0 /\ late = {}
            /\ stream = "off" /\ initial = <<>> /\ broadcast = <<>> /\ direct = <<>>
            /\ entry = 0 /\ lit = FALSE /\ stale = FALSE /\ dark = FALSE
        BY DEF Notifications!NotificationsInit
      <4>2. persisted \in 0..made /\ announcing \subseteq 1..made /\ late \subseteq Nat \ {0}
        BY <4>1
      <4> QED
        BY <3>1, <4>1, <4>2 DEF NotificationTypes
  <2>2. GoesOff /\ GoesOn
    BY DEF Notifications!NotificationsInit, GoesOff, GoesOn, OnlyClears
  <2> QED
    BY <2>1, <2>2 DEF LightInv
<1>2. LightInv => ShowsWhatIsUnread
  <2> SUFFICES ASSUME LightInv, Notifications!Settled
               PROVE  /\ Notifications!Unread /\ ~dark => lit
                      /\ lit /\ ~stale => Notifications!Unread
    BY DEF ShowsWhatIsUnread, Notifications!ShowsWhatIsUnread
  <2>1. /\ stream = "live" /\ initial = <<>> /\ broadcast = <<>> /\ direct = <<>>
        /\ persisted \notin announcing /\ persisted \notin late
    BY DEF Notifications!Settled, Notifications!Over
  <2>2. Notifications!Unread /\ ~dark => lit
    <3>1. Notifications!Unread /\ ~dark => entry = persisted /\ persisted # 0
      BY <2>1 DEF LightInv, GoesOn, Own, Notifications!Unread
    <3> QED
      BY <3>1 DEF LightInv, NotificationTypes
  <2>3. lit /\ ~stale => Notifications!Unread
    BY <2>1 DEF LightInv, GoesOff
  <2> QED
    BY <2>2, <2>3
<1> QED
  BY <1>1, <1>2, LightInductive, PTL DEF Notifications!NotificationsSpec
=============================================================================
