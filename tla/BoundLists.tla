----------------------------- MODULE BoundLists -----------------------------
(***************************************************************************)
(* StaticBoundList (api/binding/static_bound_list.cpp) and what KList adds  *)
(* (klist.cpp): a list kept as a length and a StaticBoundObject whose       *)
(* property names are the indexes.  `sequence` is the list its callers      *)
(* think they have; AnyElement is an element that nobody gave a value.      *)
(***************************************************************************)
EXTENDS Integers, Sequences, SequencesExt

CONSTANTS Elements,
          NoElement,  \* the value Undefined
          AnyElement,
          MaxLength   \* bound

ASSUME BoundListsAssumption == MaxLength \in Nat \ {0} /\ AnyElement \notin Elements

VARIABLES length, slots,  \* the two fields of StaticBoundList
          sequence        \* history

listVars == <<length, slots, sequence>>

Indexes == 0..MaxLength - 1

\* A key that was never set, or was unset, reads as Undefined.
BoundListsInit ==
    /\ length = 0
    /\ slots = [i \in Indexes |-> NoElement]
    /\ sequence = <<>>

\* The effect of SetAt on the two fields: no index is filled in between.
SlotSet(s, i, v) == [s EXCEPT ![i] = v]

LongerOf(n, i) == IF i >= n THEN i + 1 ELSE n

ListAppend(v) ==
    /\ length < MaxLength
    /\ slots' = SlotSet(slots, length, v)
    /\ length' = length + 1
    /\ sequence' = Append(sequence, v)

\* SetAt, and Set with a name that is a number.
SetAt(i, v) ==
    /\ slots' = SlotSet(slots, i, v)
    /\ length' = LongerOf(length, i)
    /\ sequence' = [k \in 1..LongerOf(length, i) |->
                      IF k = i + 1 THEN v ELSE IF k <= length THEN sequence[k] ELSE AnyElement]

ShiftedMutant(s, n, i) ==  \* the shift stops one element early
    [k \in Indexes |-> IF k = i THEN (IF i + 1 < n - 1 THEN s[i + 1] ELSE NoElement)
                       ELSE IF k > i /\ k + 1 < n - 1 THEN s[k + 1] ELSE s[k]]

\* Remove's two loops over the keys: the removed one is unset, each later
\* element moves down one, and the key that was last is left as it is.
Shifted(s, n, i) ==
    [k \in Indexes |-> IF k = i THEN (IF i + 1 < n THEN s[i + 1] ELSE NoElement)
                       ELSE IF k > i /\ k + 1 < n THEN s[k + 1] ELSE s[k]]

\* Remove returns false, and does nothing, beyond the end.
ListRemove(i) ==
    /\ i < length
    /\ slots' = Shifted(slots, length, i)
    /\ length' = length - 1
    /\ sequence' = RemoveAt(sequence, i + 1)

\* KList::ResizeTo: removes from the end, or appends Undefined.
ResizeTo(size) ==
    /\ size # length
    /\ LET slot(k) == (size <= k /\ k < length) \/ (length <= k /\ k < size)
       IN  slots' = [k \in Indexes |-> IF slot(k) THEN NoElement ELSE slots[k]]
    /\ length' = size
    /\ sequence' = [k \in 1..size |-> IF k <= length THEN sequence[k] ELSE NoElement]

BoundListsNext ==
    \/ \E v \in Elements : ListAppend(v)
    \/ \E i \in Indexes, v \in Elements : SetAt(i, v)
    \/ \E i \in Indexes : ListRemove(i)
    \/ \E size \in 0..MaxLength : ResizeTo(size)

BoundListsSpec == BoundListsInit /\ [][BoundListsNext]_listVars

BoundListsTypeOK ==
    /\ length \in 0..MaxLength
    /\ slots \in [Indexes -> Elements \cup {NoElement}]
    /\ Len(sequence) = length

\* A list gives back what was put into it, wherever removals moved it
\* (static_bound_list.cpp, Append, SetAt, Remove over keys that are numbers).
\* It says nothing of an element that nobody put, a gap that SetAt left beyond the
\* end: GapsAreUndefined does.
ListKeepsItsElements ==
    \A i \in 1..length : sequence[i] # AnyElement => slots[i - 1] = sequence[i]

\* klist.h, SetAt: "If the index is greater than the current list length, the list
\* will be lengenthed by appending Value::Undefined".  SetAt appends nothing, and
\* Remove leaves the key that was last bound: that old value is shown in the gap.
GapsAreUndefined ==
    \A i \in 1..length : sequence[i] = AnyElement => slots[i - 1] = NoElement
=============================================================================
