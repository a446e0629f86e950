---------------------------- MODULE FastCollection ----------------------------
(***************************************************************************)
(* The array-backed collection of utils/fastcollection, as operators on a  *)
(* record.  Go's lastDeleteIdx and NextDeleteIdx are offset from the array *)
(* index by one, which makes them the indices of a TLA+ sequence: 0 ends   *)
(* the list of free slots and -1 marks a slot in use.  The identifiers     *)
(* returned by Insert are offset here in the same way.                     *)
(***************************************************************************)
EXTENDS Integers, Sequences

CONSTANT Nil \* the zero value of a content

EmptyCollection == [lastDeleteIdx |-> 0, len |-> 0, array |-> <<>>]

\* The identifier Insert returns.
InsertID(c) == IF c.lastDeleteIdx > 0 THEN c.lastDeleteIdx ELSE Len(c.array) + 1

\* Mutant: the head of the free list is not advanced.
Insert_KeepsFree(c, item) ==
  [c EXCEPT !.len = @ + 1,
            !.array = IF c.lastDeleteIdx > 0
                      THEN [@ EXCEPT ![c.lastDeleteIdx] = [next |-> -1, content |-> item]]
                      ELSE Append(@, [next |-> -1, content |-> item])]

Insert(c, item) ==
  LET slot == [next |-> -1, content |-> item]
  IN  IF c.lastDeleteIdx > 0
      THEN [lastDeleteIdx |-> c.array[c.lastDeleteIdx].next,
            len |-> c.len + 1,
            array |-> [c.array EXCEPT ![c.lastDeleteIdx] = slot]]
      ELSE [c EXCEPT !.len = @ + 1, !.array = Append(@, slot)]

Delete(c, id) ==
  [lastDeleteIdx |-> id,
   len |-> c.len - 1,
   array |-> [c.array EXCEPT ![id] = [next |-> c.lastDeleteIdx, content |-> Nil]]]

\* Entries and ForEach visit the slots in use.
UsedSlots(c) == {i \in 1..Len(c.array) : c.array[i].next < 0}
Entries(c) == {c.array[i].content : i \in UsedSlots(c)}

\* What a loop over UnsafeBackingArray meets that is not nil.
BackingContents(c) == {c.array[i].content : i \in 1..Len(c.array)} \ {Nil}
=============================================================================
