--------------------------- MODULE BindingProofs -----------------------------
(***************************************************************************)
(* Theorems about the object model, the scripts that use it and the bridges *)
(* between script objects and Kroll's: BoundLists, BoundObjects, Scripts    *)
(* and LanguageBridges, for every set of elements, threads, objects, names, *)
(* windows, proxies, wrappers and contexts, and every bound.                *)
(***************************************************************************)
EXTENDS BoundLists, BoundObjects, Scripts, LanguageBridges, VectorsProofs, FiniteSetTheorems

-----------------------------------------------------------------------------
(* Lists.                                                                   *)

ListValues == Elements \cup {NoElement, AnyElement}

ListInv ==
    /\ length \in 0..MaxLength
    /\ slots \in [Indexes -> Elements \cup {NoElement}]
    /\ sequence \in Seq(ListValues)
    /\ Len(sequence) = length
    /\ ListKeepsItsElements

\* A sequence given by its elements.
LEMMA GivenSeq ==
    ASSUME NEW S, NEW n \in Nat, NEW f \in [1..n -> S]
    PROVE  f \in Seq(S) /\ Len(f) = n
  OBVIOUS

\* The elements of a sequence without one of them.
LEMMA RemoveAtElements ==
    ASSUME NEW S, NEW s \in Seq(S), NEW i \in 1..Len(s)
    PROVE  /\ RemoveAt(s, i) \in Seq(S)
           /\ Len(RemoveAt(s, i)) = Len(s) - 1
           /\ \A k \in 1..Len(s) - 1 : RemoveAt(s, i)[k] = IF k < i THEN s[k] ELSE s[k + 1]
  <1> DEFINE a == SubSeq(s, 1, i - 1)
             b == SubSeq(s, i + 1, Len(s))
  <1>1. Len(s) \in Nat /\ i \in Nat /\ i >= 1 /\ i <= Len(s)
    OBVIOUS
  <1>2. /\ a \in Seq(S) /\ Len(a) = i - 1
        /\ \A k \in 1..i - 1 : a[k] = s[k]
    BY <1>1
  <1>3. /\ b \in Seq(S) /\ Len(b) = Len(s) - i
        /\ \A k \in 1..Len(s) - i : b[k] = s[k + i]
    BY <1>1
  <1>4. RemoveAt(s, i) = a \o b
    BY DEF RemoveAt
  <1> HIDE DEF a, b
  <1>5. /\ a \o b \in Seq(S)
        /\ Len(a \o b) = Len(s) - 1
        /\ \A k \in 1..Len(s) - 1 : (a \o b)[k] = IF k <= i - 1 THEN a[k] ELSE b[k - (i - 1)]
    <2>1. /\ a \o b \in Seq(S)
          /\ Len(a \o b) = Len(a) + Len(b)
          /\ \A k \in 1..Len(a) + Len(b) :
                (a \o b)[k] = IF k <= Len(a) THEN a[k] ELSE b[k - Len(a)]
      <3> a \in Seq(S) /\ b \in Seq(S)
        BY <1>2, <1>3
      <3>1. a \o b \in Seq(S)
        OBVIOUS
      <3>2. Len(a \o b) = Len(a) + Len(b)
        OBVIOUS
      <3>3. ASSUME NEW k \in 1..Len(a) + Len(b)
            PROVE  (a \o b)[k] = IF k <= Len(a) THEN a[k] ELSE b[k - Len(a)]
        OBVIOUS
      <3> QED
        BY <3>1, <3>2, <3>3
    <2>2. Len(a) + Len(b) = Len(s) - 1
      BY <1>1, <1>2, <1>3
    <2> QED
      BY <1>2, <2>1, <2>2
  <1>6. ASSUME NEW k \in 1..Len(s) - 1
        PROVE  (a \o b)[k] = IF k < i THEN s[k] ELSE s[k + 1]
    <2>0. k \in Nat
      BY <1>1
    <2>1. CASE k < i
      <3>1. k <= i - 1 /\ k \in 1..i - 1
        BY <1>1, <2>0, <2>1
      <3> QED
        BY <1>2, <1>5, <2>1, <3>1
    <2>2. CASE ~ (k < i)
      <3>1. /\ ~ (k <= i - 1)
            /\ k - (i - 1) \in 1..Len(s) - i /\ k - (i - 1) + i = k + 1
        BY <1>1, <2>0, <2>2
      <3>2. (a \o b)[k] = b[k - (i - 1)]
        BY <1>5, <3>1
      <3>3. b[k - (i - 1)] = s[k - (i - 1) + i]
        BY <1>3, <3>1
      <3> QED
        BY <2>2, <3>1, <3>2, <3>3
    <2> QED
      BY <2>1, <2>2
  <1> QED
    BY <1>4, <1>5, <1>6

\* Initially lists are empty.
LEMMA ListInvInit == BoundListsInit => ListInv
  <1> SUFFICES ASSUME BoundListsInit PROVE ListInv
    OBVIOUS
  <1>1. length = 0 /\ sequence = <<>> /\ slots = [i \in Indexes |-> NoElement]
    BY DEF BoundListsInit
  <1>2. length \in 0..MaxLength
    BY <1>1, BoundListsAssumption
  <1> QED
    BY <1>1, <1>2 DEF ListInv, ListKeepsItsElements

\* Every list operation keeps length and numbered properties in agreement.
LEMMA ListInvNext == ListInv /\ [BoundListsNext]_listVars => ListInv'
  <1> SUFFICES ASSUME ListInv, [BoundListsNext]_listVars
               PROVE  ListInv'
    OBVIOUS
  <1>1. /\ length \in 0..MaxLength /\ length \in Nat /\ MaxLength \in Nat
        /\ slots \in [Indexes -> Elements \cup {NoElement}]
        /\ sequence \in Seq(ListValues) /\ Len(sequence) = length
        /\ \A i \in 1..length : sequence[i] # AnyElement => slots[i - 1] = sequence[i]
        /\ \A i \in 1..length : sequence[i] \in ListValues
    BY BoundListsAssumption DEF ListInv, ListKeepsItsElements
  \* It is enough to know the elements of the new list.
  <1>2. ASSUME length' \in 0..MaxLength,
               slots' \in [Indexes -> Elements \cup {NoElement}],
               sequence' \in Seq(ListValues), Len(sequence') = length',
               \A i \in 1..length' : sequence'[i] # AnyElement => slots'[i - 1] = sequence'[i]
        PROVE  ListInv'
    BY <1>2 DEF ListInv, ListKeepsItsElements
  <1>3. ASSUME NEW v \in Elements, ListAppend(v)
        PROVE  ListInv'
    <2>1. /\ length < MaxLength
          /\ slots' = [slots EXCEPT ![length] = v]
          /\ length' = length + 1
          /\ sequence' = Append(sequence, v)
      BY <1>3 DEF ListAppend, SlotSet
    <2>2. length' \in 0..MaxLength /\ length \in Indexes
      BY <1>1, <2>1 DEF Indexes
    <2>3. /\ slots' \in [Indexes -> Elements \cup {NoElement}]
          /\ slots'[length] = v
          /\ \A k \in Indexes : k # length => slots'[k] = slots[k]
      BY <1>1, <2>1, <2>2
    <2>4. v \in ListValues
      BY DEF ListValues
    <2>5. /\ sequence' \in Seq(ListValues) /\ Len(sequence') = length'
          /\ sequence'[length + 1] = v
          /\ \A k \in 1..length : sequence'[k] = sequence[k]
      BY <1>1, <2>1, <2>4
    <2>6. ASSUME NEW i \in 1..length', sequence'[i] # AnyElement
          PROVE  slots'[i - 1] = sequence'[i]
      <3>1. CASE i = length + 1
        <4>1. i - 1 = length
          BY <1>1, <3>1
        <4> QED
          BY <2>3, <2>5, <3>1, <4>1
      <3>2. CASE i # length + 1
        <4>1. i \in 1..length /\ i - 1 \in Indexes /\ i - 1 # length
          BY <1>1, <2>1, <3>2 DEF Indexes
        <4> QED
          BY <1>1, <2>3, <2>5, <2>6, <4>1
      <3> QED
        BY <3>1, <3>2
    <2> QED
      BY <1>2, <2>2, <2>3, <2>5, <2>6
  <1>4. ASSUME NEW j \in Indexes, NEW v \in Elements, SetAt(j, v)
        PROVE  ListInv'
    <2>1. /\ slots' = [slots EXCEPT ![j] = v]
          /\ length' = LongerOf(length, j)
          /\ sequence' = [k \in 1..length' |->
               IF k = j + 1 THEN v ELSE IF k <= length THEN sequence[k] ELSE AnyElement]
      BY <1>4 DEF SetAt, SlotSet
    <2>2. j \in Nat /\ j < MaxLength /\ length' \in 0..MaxLength /\ length' \in Nat
      BY <1>1, <2>1 DEF LongerOf, Indexes
    <2>3. /\ slots' \in [Indexes -> Elements \cup {NoElement}]
          /\ slots'[j] = v
          /\ \A k \in Indexes : k # j => slots'[k] = slots[k]
      BY <1>1, <2>1
    <2>4. sequence' \in [1..length' -> ListValues]
      <3>1. v \in ListValues /\ AnyElement \in ListValues
        BY DEF ListValues
      <3>2. \A k \in 1..length' : k # j + 1 /\ k <= length => sequence[k] \in ListValues
        BY <1>1, <2>2
      <3> QED
        BY <2>1, <3>1, <3>2
    <2>5. sequence' \in Seq(ListValues) /\ Len(sequence') = length'
      BY <2>2, <2>4, GivenSeq
    <2>6. ASSUME NEW i \in 1..length', sequence'[i] # AnyElement
          PROVE  slots'[i - 1] = sequence'[i]
      <3>1. CASE i = j + 1
        <4>1. i - 1 = j /\ sequence'[i] = v
          BY <2>1, <2>2, <3>1
        <4> QED
          BY <2>3, <4>1
      <3>2. CASE i # j + 1
        <4>1. sequence'[i] = (IF i <= length THEN sequence[i] ELSE AnyElement)
          BY <2>1, <3>2
        <4>2. i \in 1..length /\ i - 1 \in Indexes /\ i - 1 # j /\ sequence'[i] = sequence[i]
          BY <1>1, <2>2, <2>6, <3>2, <4>1 DEF Indexes
        <4> QED
          BY <1>1, <2>3, <2>6, <4>2
      <3> QED
        BY <3>1, <3>2
    <2> QED
      BY <1>2, <2>2, <2>3, <2>5, <2>6
  <1>5. ASSUME NEW j \in Indexes, ListRemove(j)
        PROVE  ListInv'
    <2>1. /\ j < length /\ slots' = Shifted(slots, length, j)
          /\ length' = length - 1 /\ sequence' = RemoveAt(sequence, j + 1)
      BY <1>5 DEF ListRemove
    <2>2. j \in Nat /\ length' \in 0..MaxLength /\ j + 1 \in 1..Len(sequence)
      BY <1>1, <2>1 DEF Indexes
    <2>3. /\ sequence' \in Seq(ListValues) /\ Len(sequence') = length'
          /\ \A k \in 1..length' : sequence'[k] = IF k < j + 1 THEN sequence[k] ELSE sequence[k + 1]
      BY <1>1, <2>1, <2>2, RemoveAtElements
    <2>4. ASSUME NEW k \in Indexes
          PROVE  /\ slots'[k] \in Elements \cup {NoElement}
                 /\ k < j => slots'[k] = slots[k]
                 /\ j <= k /\ k + 1 < length => slots'[k] = slots[k + 1]
      <3>1. slots'[k] = IF k = j THEN (IF j + 1 < length THEN slots[j + 1] ELSE NoElement)
                        ELSE IF k > j /\ k + 1 < length THEN slots[k + 1] ELSE slots[k]
        BY <2>1 DEF Shifted
      <3>2. k \in Nat /\ (k + 1 < length => k + 1 \in Indexes)
        BY <1>1 DEF Indexes
      <3>3. slots[k] \in Elements \cup {NoElement} /\ (k + 1 < length => slots[k + 1] \in Elements \cup {NoElement})
        BY <1>1, <3>2
      <3> QED
        BY <1>1, <2>2, <3>1, <3>2, <3>3
    <2>5. slots' \in [Indexes -> Elements \cup {NoElement}]
      <3>1. slots' = [k \in Indexes |-> slots'[k]]
        BY <2>1 DEF Shifted
      <3> QED
        BY <2>4, <3>1
    <2>6. ASSUME NEW i \in 1..length', sequence'[i] # AnyElement
          PROVE  slots'[i - 1] = sequence'[i]
      <3>0. i \in Nat /\ i >= 1 /\ i <= length - 1
        BY <1>1, <2>1, <2>2
      <3>1. CASE i < j + 1
        <4>1. i - 1 \in Indexes /\ i - 1 < j /\ i \in 1..length /\ sequence'[i] = sequence[i]
          BY <1>1, <2>2, <2>3, <3>0, <3>1 DEF Indexes
        <4> QED
          BY <1>1, <2>4, <2>6, <4>1
      <3>2. CASE ~ (i < j + 1)
        <4>1. /\ i - 1 \in Indexes /\ j <= i - 1 /\ i - 1 + 1 < length /\ i - 1 + 1 = i
              /\ i + 1 \in 1..length /\ i + 1 - 1 = i
          BY <1>1, <2>2, <3>0, <3>2 DEF Indexes
        <4>2. sequence'[i] = sequence[i + 1]
          BY <2>3, <3>2
        <4>3. slots'[i - 1] = slots[i]
          BY <2>4, <4>1
        <4>4. slots[i + 1 - 1] = sequence[i + 1]
          BY <1>1, <2>6, <4>1, <4>2
        <4> QED
          BY <4>1, <4>2, <4>3, <4>4
      <3> QED
        BY <3>1, <3>2
    <2> QED
      BY <1>2, <2>2, <2>3, <2>5, <2>6
  <1>6. ASSUME NEW size \in 0..MaxLength, ResizeTo(size)
        PROVE  ListInv'
    <2>1. /\ length' = size
          /\ slots' = [k \in Indexes |->
               IF (size <= k /\ k < length) \/ (length <= k /\ k < size) THEN NoElement
                                                                      ELSE slots[k]]
          /\ sequence' = [k \in 1..size |-> IF k <= length THEN sequence[k] ELSE NoElement]
      BY <1>6 DEF ResizeTo
    <2>2. size \in Nat /\ length' \in 0..MaxLength
      BY <1>1, <2>1
    <2>3. slots' \in [Indexes -> Elements \cup {NoElement}]
      BY <1>1, <2>1
    <2>4. sequence' \in [1..size -> ListValues]
      <3>1. NoElement \in ListValues
        BY DEF ListValues
      <3>2. \A k \in 1..size : k <= length => sequence[k] \in ListValues
        BY <1>1, <2>2
      <3> QED
        BY <2>1, <3>1, <3>2
    <2>5. sequence' \in Seq(ListValues) /\ Len(sequence') = length'
      BY <2>1, <2>2, <2>4, GivenSeq
    <2>6. ASSUME NEW i \in 1..length', sequence'[i] # AnyElement
          PROVE  slots'[i - 1] = sequence'[i]
      <3>0. i \in 1..size /\ i \in Nat /\ i >= 1 /\ i <= size /\ size <= MaxLength
        BY <1>1, <2>1, <2>2
      <3>1. i - 1 \in Indexes /\ i - 1 < size
        BY <1>1, <3>0 DEF Indexes
      <3>2. CASE i <= length
        <4>1. i \in 1..length /\ sequence'[i] = sequence[i]
          BY <1>1, <2>1, <3>0, <3>2
        <4>2. slots'[i - 1] = slots[i - 1]
          <5>1. ~ ((size <= i - 1 /\ i - 1 < length) \/ (length <= i - 1 /\ i - 1 < size))
            BY <1>1, <3>0, <3>2
          <5> QED
            BY <2>1, <3>1, <5>1
        <4> QED
          BY <1>1, <2>6, <4>1, <4>2
      <3>3. CASE ~ (i <= length)
        <4>1. sequence'[i] = NoElement
          BY <2>1, <3>0, <3>3
        <4>2. length <= i - 1
          BY <1>1, <3>0, <3>3
        <4>3. slots'[i - 1] = NoElement
          BY <2>1, <3>1, <4>2
        <4> QED
          BY <4>1, <4>3
      <3> QED
        BY <3>2, <3>3
    <2> QED
      BY <1>2, <2>2, <2>3, <2>5, <2>6
  <1>7. CASE UNCHANGED listVars
    BY <1>7 DEF listVars, ListInv, ListKeepsItsElements
  <1> QED
    BY <1>3, <1>4, <1>5, <1>6, <1>7 DEF BoundListsNext

\* A list gives back what was put into it, wherever removals moved it, and its
\* length is that of the list its callers think they have (static_bound_list.cpp,
\* Append, SetAt, Remove; klist.cpp, ResizeTo).
THEOREM ListsKeepTheirElements ==
    BoundListsSpec => [](BoundListsTypeOK /\ ListKeepsItsElements)
  <1>1. ListInv => BoundListsTypeOK /\ ListKeepsItsElements
    BY DEF ListInv, BoundListsTypeOK
  <1> QED
    BY <1>1, ListInvInit, ListInvNext, PTL DEF BoundListsSpec

-----------------------------------------------------------------------------
(* Scripts.                                                                 *)

FrameKinds == {"python", "ruby"} \cup PhpKinds
AnyWindow == Windows \cup {NoWindow}
FrameRecords ==
    {f \in [kind : FrameKinds, window : AnyWindow, copy : Nat, saved : AnyWindow, outer : Nat] :
        f.kind = "ruby" => f.window \in Windows}

\* g is the global object of the innermost PHP frame among the first n of s, or
\* NoWindow if none of them is PHP's; it may be any if that frame is torn (in t).
GlobalBelow(s, t, n, g) ==
    \/ /\ g = NoWindow \/ 0 \in t
       /\ \A i \in 1..n : s[i].kind \notin PhpKinds
    \/ \E i \in 1..n : /\ s[i].kind \in PhpKinds
                       /\ s[i].window = g \/ i \in t
                       /\ \A j \in i + 1..n : s[j].kind \notin PhpKinds

\* b is no handler, one that is gone, or one that a frame among the first n of s
\* has set up.
HandlerBelow(s, n, b) ==
    /\ b \in (0..n) \cup {Gone}
    /\ b \notin {0, Gone} => s[b].kind \in Handlers

\* What a frame restores when it is left is right for the stack below it.
Restores(s, t, i) ==
    /\ s[i].kind \in PhpKinds => GlobalBelow(s, t, i - 1, s[i].saved)
    /\ HandlerBelow(s, i - 1, s[i].outer)

\* The strengthening of PhpStateFollowsStack: the current state is right for the
\* whole stack, and the state each frame saved for the stack below it.
StackInv ==
    /\ frames \in Seq(FrameRecords)
    /\ Depth <= MaxDepth
    /\ \A i \in 1..Depth : Restores(frames, torn, i)
    /\ GlobalBelow(frames, torn, Depth, phpGlobal)
    /\ HandlerBelow(frames, Depth, bailout)
    /\ phpGlobal \in AnyWindow
    /\ functions \subseteq [kind : {"method", "function"}, window : AnyWindow]
    /\ torn \subseteq 0..MaxDepth

\* Values are numbered as they are assigned: no copy is ahead of the count.
ValuesInv ==
    /\ evaluators \subseteq ScriptLanguages
    /\ assigned \in 1..MaxAssignments
    /\ property \in [Windows -> 0..assigned]
    /\ phpTable \in 0..assigned
    /\ \A i \in 1..Depth : frames[i].copy \in 0..assigned
    /\ rubyGlobal \in AnyWindow
    /\ rubyMethod \in [Windows -> 0..assigned]
    /\ exited \in BOOLEAN

\* Only the frames below matter, and which of them are torn.
LEMMA BelowAgree ==
    ASSUME NEW s, NEW r, NEW n \in Nat, \A i \in 1..n : r[i] = s[i],
           NEW t, NEW u, \A i \in 0..n : i \in t => i \in u
    PROVE  /\ \A g : GlobalBelow(s, t, n, g) => GlobalBelow(r, u, n, g)
           /\ \A b : HandlerBelow(s, n, b) => HandlerBelow(r, n, b)
           /\ \A i \in 1..n : Restores(s, t, i) => Restores(r, u, i)
  <1>1. ASSUME NEW m \in Nat, m <= n, NEW g, GlobalBelow(s, t, m, g)
        PROVE  GlobalBelow(r, u, m, g)
    <2>1. /\ \A i \in 1..m : i \in 1..n /\ i \in 0..n /\ r[i] = s[i]
          /\ 0 \in 0..n
      BY <1>1
    <2>2. CASE (g = NoWindow \/ 0 \in t) /\ \A i \in 1..m : s[i].kind \notin PhpKinds
      BY <2>1, <2>2 DEF GlobalBelow
    <2>3. CASE \E i \in 1..m : /\ s[i].kind \in PhpKinds
                               /\ s[i].window = g \/ i \in t
                               /\ \A j \in i + 1..m : s[j].kind \notin PhpKinds
      <3>1. PICK i \in 1..m : /\ s[i].kind \in PhpKinds
                              /\ s[i].window = g \/ i \in t
                              /\ \A j \in i + 1..m : s[j].kind \notin PhpKinds
        BY <2>3
      <3>2. \A j \in i + 1..m : r[j] = s[j]
        BY <2>1
      <3>3. r[i] = s[i] /\ (i \in t => i \in u)
        BY <2>1
      <3> QED
        BY <3>1, <3>2, <3>3 DEF GlobalBelow
    <2> QED
      BY <1>1, <2>2, <2>3 DEF GlobalBelow
  <1>2. ASSUME NEW m \in Nat, m <= n, NEW b, HandlerBelow(s, m, b)
        PROVE  HandlerBelow(r, m, b)
    BY <1>2 DEF HandlerBelow
  <1>3. ASSUME NEW i \in 1..n, Restores(s, t, i)
        PROVE  Restores(r, u, i)
    <2>1. i - 1 \in Nat /\ i - 1 <= n /\ r[i] = s[i]
      BY <1>3
    <2>2. s[i].kind \in PhpKinds => GlobalBelow(r, u, i - 1, s[i].saved)
      BY <1>1, <1>3, <2>1 DEF Restores
    <2>3. HandlerBelow(r, i - 1, s[i].outer)
      BY <1>2, <1>3, <2>1 DEF Restores
    <2> QED
      BY <2>1, <2>2, <2>3 DEF Restores
  <1> QED
    BY <1>1, <1>2, <1>3

\* Nothing is asked of the global object once the enclosing frame is torn.
LEMMA TornBelow ==
    ASSUME NEW n \in Nat, NEW t, NEW h, GlobalBelow(frames, t, n, h), NEW g
    PROVE  GlobalBelow(frames, t \cup EnclosingPhp(n), n, g)
  <1>1. CASE \A i \in 1..n : frames[i].kind \notin PhpKinds
    <2>1. 0 \in EnclosingPhp(n)
      BY <1>1 DEF EnclosingPhp
    <2> QED
      BY <1>1, <2>1 DEF GlobalBelow
  <1>2. CASE ~ \A i \in 1..n : frames[i].kind \notin PhpKinds
    <2>1. PICK i \in 1..n : /\ frames[i].kind \in PhpKinds
                            /\ \A j \in i + 1..n : frames[j].kind \notin PhpKinds
      BY <1>2 DEF GlobalBelow
    <2>2. i \in EnclosingPhp(n)
      BY <2>1 DEF EnclosingPhp
    <2> QED
      BY <2>1, <2>2 DEF GlobalBelow
  <1> QED
    BY <1>1, <1>2

\* The first frames of a stack.
LEMMA Below ==
    ASSUME NEW S, NEW s \in Seq(S), NEW n \in 0..Len(s)
    PROVE  /\ SubSeq(s, 1, n) \in Seq(S)
           /\ Len(SubSeq(s, 1, n)) = n
           /\ \A i \in 1..n : SubSeq(s, 1, n)[i] = s[i]
  OBVIOUS

\* A stack cut back to n frames, with the state that is right for them.
LEMMA CutBack ==
    ASSUME StackInv, NEW n \in Nat, n < Depth,
           frames' = SubSeq(frames, 1, n),
           \A i \in 0..n : i \in torn => i \in torn', torn' \subseteq 0..MaxDepth,
           GlobalBelow(frames, torn', n, phpGlobal'), phpGlobal' \in AnyWindow,
           HandlerBelow(frames, n, bailout'),
           functions' = functions
    PROVE  StackInv'
  <1>1. /\ frames \in Seq(FrameRecords) /\ Len(frames) \in Nat /\ n \in 0..Len(frames)
        /\ Len(frames) <= MaxDepth /\ \A i \in 1..Len(frames) : Restores(frames, torn, i)
    BY DEF StackInv, Depth
  <1>2. /\ frames' \in Seq(FrameRecords) /\ Len(frames') = n
        /\ \A i \in 1..n : frames'[i] = frames[i]
    BY <1>1, Below
  <1>3. /\ \A g : GlobalBelow(frames, torn', n, g) => GlobalBelow(frames', torn', n, g)
        /\ \A b : HandlerBelow(frames, n, b) => HandlerBelow(frames', n, b)
    BY <1>2, BelowAgree
  <1>4. \A i \in 1..n : Restores(frames, torn, i) => Restores(frames', torn', i)
    BY <1>2, BelowAgree
  <1>5. Depth' = n /\ n <= MaxDepth
    BY <1>1, <1>2, ScriptsAssumption DEF Depth
  <1>6. \A i \in 1..n : Restores(frames', torn', i)
    BY <1>1, <1>4
  <1>7. functions' \subseteq [kind : {"method", "function"}, window : AnyWindow]
    BY DEF StackInv
  <1>8. GlobalBelow(frames', torn', n, phpGlobal') /\ HandlerBelow(frames', n, bailout')
    BY <1>3
  <1> QED
    BY <1>2, <1>5, <1>6, <1>7, <1>8 DEF StackInv

\* A frame pushed on a stack.
LEMMA Pushes ==
    ASSUME StackInv, NEW f \in FrameRecords, Enter(f),
           f.kind \in PhpKinds => f.saved = phpGlobal /\ phpGlobal' = f.window,
           f.kind \notin PhpKinds => phpGlobal' = phpGlobal,
           f.outer \in {0, bailout},
           \/ bailout' = bailout
           \/ bailout' = Depth + 1 /\ f.kind \in {"php", "function"},
           functions' = functions
    PROVE  StackInv'
  <1> DEFINE d == Len(frames)
  <1>1. /\ frames \in Seq(FrameRecords) /\ d \in Nat /\ d + 1 <= MaxDepth
        /\ \A i \in 1..d : Restores(frames, torn, i)
        /\ GlobalBelow(frames, torn, d, phpGlobal) /\ HandlerBelow(frames, d, bailout)
        /\ phpGlobal \in AnyWindow /\ torn \subseteq 0..MaxDepth /\ torn' = torn
        /\ frames' = Append(frames, f)
    BY ScriptsAssumption DEF StackInv, Depth, Enter
  <1>2. /\ frames' \in Seq(FrameRecords) /\ Len(frames') = d + 1
        /\ frames'[d + 1] = f
        /\ \A i \in 1..d : frames'[i] = frames[i]
    BY <1>1
  <1> HIDE DEF d
  <1>3. /\ GlobalBelow(frames', torn, d, phpGlobal)
        /\ HandlerBelow(frames', d, bailout)
        /\ \A i \in 1..d : Restores(frames', torn, i)
    BY <1>1, <1>2, BelowAgree
  <1>4. Depth' = d + 1
    BY <1>2 DEF Depth
  <1>5. ASSUME NEW i \in Nat, i = d + 1
        PROVE  Restores(frames', torn, i)
    <2>1. PICK m : m = i - 1
      OBVIOUS
    <2>2. m = d
      BY <1>1, <1>5, <2>1
    <2>3. HandlerBelow(frames', m, f.outer)
      <3>1. CASE f.outer = bailout
        BY <1>3, <2>2, <3>1
      <3>2. CASE f.outer = 0
        BY <1>1, <2>2, <3>2 DEF HandlerBelow
      <3> QED
        BY <3>1, <3>2
    <2>4. f.kind \in PhpKinds => GlobalBelow(frames', torn, m, f.saved)
      BY <1>3, <2>2
    <2>5. frames'[i] = f
      BY <1>2, <1>5
    <2> QED
      BY ONLY <2>1, <2>3, <2>4, <2>5 DEF Restores
  <1>6. \A i \in 1..d + 1 : Restores(frames', torn, i)
    BY <1>1, <1>3, <1>5
  <1>7. GlobalBelow(frames', torn, d + 1, phpGlobal')
    <2>1. CASE f.kind \in PhpKinds
      <3>1. d + 1 \in 1..d + 1 /\ \A j \in d + 1 + 1..d + 1 : FALSE
        BY <1>1
      <3> QED
        BY <1>2, <2>1, <3>1 DEF GlobalBelow
    <2>2. CASE f.kind \notin PhpKinds
      <3>1. \A j \in 1..d + 1 : j \in 1..d \/ j = d + 1
        BY <1>1
      <3>2. CASE /\ phpGlobal = NoWindow \/ 0 \in torn
                 /\ \A i \in 1..d : frames'[i].kind \notin PhpKinds
        BY <1>2, <2>2, <3>1, <3>2 DEF GlobalBelow
      <3>3. CASE \E i \in 1..d : /\ frames'[i].kind \in PhpKinds
                                 /\ frames'[i].window = phpGlobal \/ i \in torn
                                 /\ \A j \in i + 1..d : frames'[j].kind \notin PhpKinds
        <4>1. PICK i \in 1..d : /\ frames'[i].kind \in PhpKinds
                                /\ frames'[i].window = phpGlobal \/ i \in torn
                                /\ \A j \in i + 1..d : frames'[j].kind \notin PhpKinds
          BY <3>3
        <4>2. i \in 1..d + 1 /\ \A j \in i + 1..d + 1 : j \in i + 1..d \/ j = d + 1
          BY <1>1
        <4>3. \A j \in i + 1..d + 1 : frames'[j].kind \notin PhpKinds
          BY <1>2, <2>2, <4>1, <4>2
        <4> QED
          BY <2>2, <4>1, <4>2, <4>3 DEF GlobalBelow
      <3> QED
        BY <1>3, <3>2, <3>3 DEF GlobalBelow
    <2> QED
      BY <2>1, <2>2
  <1>8. HandlerBelow(frames', d + 1, bailout')
    <2>1. CASE bailout' = bailout
      <3>1. 0..d \subseteq 0..d + 1
        BY <1>1
      <3>2. HandlerBelow(frames', d, bailout')
        BY <1>3, <2>1
      <3> QED
        BY ONLY <3>1, <3>2 DEF HandlerBelow
    <2>2. CASE bailout' = Depth + 1 /\ f.kind \in {"php", "function"}
      <3>1. bailout' = d + 1 /\ d + 1 \in 0..d + 1
        BY <1>1, <2>2 DEF Depth, d
      <3>2. frames'[bailout'].kind \in Handlers
        BY <1>2, <2>2, <3>1 DEF Handlers, PhpKinds
      <3> QED
        BY <3>1, <3>2 DEF HandlerBelow
    <2> QED
      BY <2>1, <2>2
  <1>9. phpGlobal' \in AnyWindow
    BY <1>1 DEF FrameRecords
  <1>10. functions' \subseteq [kind : {"method", "function"}, window : AnyWindow]
    BY DEF StackInv
  <1> QED
    BY <1>1, <1>2, <1>4, <1>6, <1>7, <1>8, <1>9, <1>10 DEF StackInv

\* Initially no script runs.
LEMMA ScriptsInvInit == ScriptsInit => StackInv /\ ValuesInv
  <1> SUFFICES ASSUME ScriptsInit PROVE StackInv /\ ValuesInv
    OBVIOUS
  <1>1. /\ frames = <<>> /\ Len(frames) = 0 /\ phpGlobal = NoWindow /\ bailout = 0
        /\ functions = {} /\ evaluators = {} /\ assigned = 1 /\ phpTable = 0
        /\ rubyGlobal = NoWindow /\ exited = FALSE /\ property \in [Windows -> {0, 1}]
        /\ torn = {} /\ rubyMethod = [w \in Windows |-> 0]
    BY DEF ScriptsInit
  <1>2. \A i \in 1..0 : FALSE
    OBVIOUS
  <1>3. /\ GlobalBelow(frames, torn, 0, NoWindow) /\ HandlerBelow(frames, 0, 0)
        /\ \A i \in 1..0 : Restores(frames, torn, i)
    BY <1>2 DEF GlobalBelow, HandlerBelow
  <1>4. StackInv
    BY <1>1, <1>3, ScriptsAssumption DEF StackInv, Depth, AnyWindow
  <1>5. 1 \in 1..MaxAssignments /\ 0..1 = {0, 1}
    BY ScriptsAssumption
  <1>6. ValuesInv
    BY <1>1, <1>2, <1>5 DEF ValuesInv, Depth, AnyWindow
  <1> QED
    BY <1>4, <1>6

\* The values that SwapGlobalObject moves are values that were assigned, also when
\* it fails halfway.
LEMMA SwapValues ==
    ASSUME ValuesInv, NEW new \in AnyWindow,
           SwapGlobalObject(new) \/ PushThrows \/ FillThrows(new)
    PROVE  property' \in [Windows -> 0..assigned] /\ phpTable' \in 0..assigned
  <1>1. /\ property \in [Windows -> 0..assigned] /\ phpTable \in 0..assigned
        /\ 0 \in 0..assigned
    BY DEF ValuesInv
  <1>2. Pushed \in [Windows -> 0..assigned]
    BY <1>1 DEF Pushed
  <1>3. new # NoWindow => Pushed[new] \in 0..assigned
    BY <1>2 DEF AnyWindow
  <1>4. CASE SwapGlobalObject(new)
    <2>1. property' = Pushed /\ phpTable' = IF new = NoWindow THEN 0 ELSE Pushed[new]
      BY <1>4 DEF SwapGlobalObject
    <2> QED
      BY <1>1, <1>2, <1>3, <2>1
  <1>5. CASE PushThrows
    BY <1>1, <1>2, <1>5 DEF PushThrows
  <1>6. CASE FillThrows(new)
    BY <1>1, <1>2, <1>3, <1>6 DEF FillThrows
  <1> QED
    BY <1>4, <1>5, <1>6

\* Entering and leaving keep every copy.
LEMMA CopiesKept ==
    ASSUME StackInv, ValuesInv, assigned' = assigned,
           \/ \E f : Enter(f) /\ f.copy \in 0..assigned
           \/ \E n \in 0..Depth : frames' = SubSeq(frames, 1, n)
           \/ frames' = frames
    PROVE  \A i \in 1..Depth' : frames'[i].copy \in 0..assigned'
  <1>1. /\ frames \in Seq(FrameRecords) /\ Len(frames) \in Nat
        /\ \A i \in 1..Len(frames) : frames[i].copy \in 0..assigned
    BY DEF StackInv, ValuesInv, Depth
  <1>2. CASE \E f : Enter(f) /\ f.copy \in 0..assigned
    <2>1. PICK f : frames' = Append(frames, f) /\ f.copy \in 0..assigned
      BY <1>2 DEF Enter
    <2>2. /\ Len(frames') = Len(frames) + 1 /\ frames'[Len(frames) + 1] = f
          /\ \A i \in 1..Len(frames) : frames'[i] = frames[i]
      BY <1>1, <2>1
    <2>3. \A i \in 1..Len(frames) + 1 : i \in 1..Len(frames) \/ i = Len(frames) + 1
      BY <1>1
    <2> QED
      BY <1>1, <2>1, <2>2, <2>3 DEF Depth
  <1>3. CASE \E n \in 0..Depth : frames' = SubSeq(frames, 1, n)
    <2>1. PICK n \in 0..Len(frames) : frames' = SubSeq(frames, 1, n)
      BY <1>3 DEF Depth
    <2>2. Len(frames') = n /\ \A i \in 1..n : frames'[i] = frames[i]
      BY <1>1, <2>1, Below
    <2>3. 1..n \subseteq 1..Len(frames)
      BY <1>1
    <2> QED
      BY <1>1, <2>2, <2>3 DEF Depth
  <1>4. CASE frames' = frames
    BY <1>1, <1>4 DEF Depth
  <1> QED
    BY <1>2, <1>3, <1>4

\* A step that leaves the stack and PHP's state alone.
LEMMA StackAlone ==
    ASSUME StackInv, frames' = frames, phpGlobal' = phpGlobal, torn' = torn,
           bailout' \in {0, bailout},
           functions' \subseteq [kind : {"method", "function"}, window : AnyWindow]
    PROVE  StackInv'
  BY DEF StackInv, Depth, HandlerBelow

\* A step that assigns to a window's property or to the symbol table.
LEMMA ValuesAssigned ==
    ASSUME StackInv, ValuesInv, assigned < MaxAssignments, assigned' = assigned + 1,
           UNCHANGED <<evaluators, rubyGlobal, exited>>,
           property' = property \/ \E w : property' = [property EXCEPT ![w] = assigned + 1],
           phpTable' = phpTable \/ phpTable' = assigned + 1,
           \/ rubyMethod' = rubyMethod
           \/ \E w : rubyMethod' = [rubyMethod EXCEPT ![w] = assigned + 1],
           frames' = frames \/ frames' = [frames EXCEPT ![Depth].copy = assigned + 1]
    PROVE  ValuesInv'
  <1>1. /\ assigned \in Nat /\ assigned >= 1 /\ property \in [Windows -> 0..assigned]
        /\ phpTable \in 0..assigned /\ \A i \in 1..Len(frames) : frames[i].copy \in 0..assigned
        /\ frames \in Seq(FrameRecords) /\ Len(frames) \in Nat
        /\ evaluators \subseteq ScriptLanguages /\ rubyGlobal \in AnyWindow
        /\ exited \in BOOLEAN /\ rubyMethod \in [Windows -> 0..assigned]
    BY DEF ValuesInv, StackInv, Depth
  <1>2. /\ assigned' \in 1..MaxAssignments
        /\ 0..assigned \subseteq 0..assigned' /\ assigned + 1 \in 0..assigned'
    BY <1>1, ScriptsAssumption
  <1>3. property' \in [Windows -> 0..assigned']
    BY <1>1, <1>2
  <1>4. phpTable' \in 0..assigned' /\ rubyMethod' \in [Windows -> 0..assigned']
    BY <1>1, <1>2
  <1>5. ASSUME NEW i \in 1..Len(frames')
        PROVE  frames'[i].copy \in 0..assigned'
    <2>1. CASE frames' = frames
      BY <1>1, <1>2, <2>1
    <2>2. CASE frames' = [frames EXCEPT ![Depth].copy = assigned + 1]
      <3>1. Len(frames') = Len(frames) /\ i \in DOMAIN frames /\ i \in 1..Len(frames)
        BY <1>1, <2>2
      <3>2. CASE i = Depth
        <4>1. frames'[i] = [frames[i] EXCEPT !.copy = assigned + 1]
          BY <2>2, <3>1, <3>2
        <4>2. frames[i] \in FrameRecords
          BY <1>1, <3>1
        <4>3. frames'[i].copy = assigned + 1
          BY <4>1, <4>2 DEF FrameRecords
        <4> QED
          BY <1>2, <4>3
      <3>3. CASE i # Depth
        <4>1. frames'[i] = frames[i]
          BY <2>2, <3>1, <3>3
        <4> QED
          BY <1>1, <1>2, <3>1, <4>1
      <3> QED
        BY <3>2, <3>3
    <2> QED
      BY <2>1, <2>2
  <1> QED
    BY <1>1, <1>2, <1>3, <1>4, <1>5 DEF ValuesInv, Depth

\* Running code is entered and left, on the stack and in PHP's state.
LEMMA StackInvNext == StackInv /\ ValuesInv /\ [ScriptsNext]_scriptVars => StackInv'
  <1> SUFFICES ASSUME StackInv, ValuesInv, [ScriptsNext]_scriptVars
               PROVE  StackInv'
    OBVIOUS
  <1>1. /\ frames \in Seq(FrameRecords) /\ Depth \in Nat /\ Len(frames) = Depth
        /\ \A i \in 1..Depth : frames[i] \in FrameRecords /\ Restores(frames, torn, i)
        /\ GlobalBelow(frames, torn, Depth, phpGlobal) /\ HandlerBelow(frames, Depth, bailout)
        /\ bailout \in (0..Depth) \cup {Gone} /\ Gone \in Nat /\ Depth < Gone
        /\ torn \subseteq 0..MaxDepth /\ Depth <= MaxDepth /\ MaxDepth \in Nat
        /\ phpGlobal \in AnyWindow /\ NoWindow \in AnyWindow
        /\ functions \subseteq [kind : {"method", "function"}, window : AnyWindow]
    BY ScriptsAssumption DEF StackInv, Depth, HandlerBelow, AnyWindow, Gone
  <1>2. frames # <<>> => Depth >= 1 /\ Depth \in 1..Depth /\ Depth - 1 \in Nat
    BY <1>1
  \* The stack without its innermost frame.
  <1>3. ASSUME frames # <<>>, Innermost.kind \notin Handlers
        PROVE  HandlerBelow(frames, Depth - 1, bailout)
    <2>1. frames[Depth].kind \notin Handlers /\ Depth \in 1..Depth
      BY <1>2, <1>3 DEF Innermost
    <2>2. bailout \notin {0, Gone} => bailout # Depth
      BY <1>1, <2>1 DEF HandlerBelow
    <2>3. bailout \in (0..Depth - 1) \cup {Gone}
      BY <1>1, <2>1, <2>2
    <2> QED
      BY <1>1, <2>3 DEF HandlerBelow
  <1>4. ASSUME frames # <<>>, Innermost.kind \notin PhpKinds
        PROVE  GlobalBelow(frames, torn, Depth - 1, phpGlobal)
    <2>0. PICK n \in Nat : n = Depth - 1
      BY <1>2, <1>4
    <2>1. /\ frames[Depth].kind \notin PhpKinds /\ n + 1 = Depth
          /\ \A i \in 1..Depth : i \in 1..n \/ i = Depth
          /\ 1..n \subseteq 1..Depth
      BY <1>1, <1>2, <1>4, <2>0 DEF Innermost
    <2>3. CASE /\ phpGlobal = NoWindow \/ 0 \in torn
               /\ \A i \in 1..Depth : frames[i].kind \notin PhpKinds
      BY <2>0, <2>1, <2>3 DEF GlobalBelow
    <2>4. CASE \E i \in 1..Depth : /\ frames[i].kind \in PhpKinds
                                   /\ frames[i].window = phpGlobal \/ i \in torn
                                   /\ \A j \in i + 1..Depth : frames[j].kind \notin PhpKinds
      <3>1. PICK i \in 1..Depth : /\ frames[i].kind \in PhpKinds
                                  /\ frames[i].window = phpGlobal \/ i \in torn
                                  /\ \A j \in i + 1..Depth : frames[j].kind \notin PhpKinds
        BY <2>4
      <3>2. i \in 1..n /\ i + 1..n \subseteq i + 1..Depth
        BY <1>1, <2>1, <3>1
      <3>3. GlobalBelow(frames, torn, n, phpGlobal)
        BY <3>1, <3>2 DEF GlobalBelow
      <3> QED
        BY <2>0, <3>3
    <2> QED
      BY <1>1, <2>3, <2>4 DEF GlobalBelow
  <1>5. ASSUME NEW i \in 1..Depth, frames[i].kind \in PhpKinds
        PROVE  /\ i - 1 \in Nat /\ i - 1 < Depth
               /\ GlobalBelow(frames, torn, i - 1, frames[i].saved)
               /\ frames[i].saved \in AnyWindow
               /\ HandlerBelow(frames, i - 1, frames[i].outer)
    <2>1. frames[i] \in FrameRecords /\ Restores(frames, torn, i)
      BY <1>1
    <2>2. i - 1 \in Nat /\ i - 1 < Depth
      BY <1>1
    <2>3. frames[i].saved \in AnyWindow
      BY <2>1 DEF FrameRecords
    <2> QED
      BY <1>5, <2>1, <2>2, <2>3 DEF Restores
  <1>6. ASSUME NEW w \in Windows, PythonEvaluate(w) PROVE StackInv'
    <2>1. PICK f : f = [kind |-> "python", window |-> w, copy |-> property[w],
                        saved |-> NoWindow, outer |-> 0]
      OBVIOUS
    <2>2. f \in FrameRecords
      BY <2>1 DEF FrameRecords, FrameKinds, AnyWindow, ValuesInv
    <2>3. f.kind \notin PhpKinds /\ f.outer = 0
      BY <2>1 DEF PhpKinds
    <2>4. Enter(f) /\ phpGlobal' = phpGlobal /\ bailout' = bailout /\ functions' = functions
      BY <1>6, <2>1 DEF PythonEvaluate
    <2> QED
      BY <2>2, <2>3, <2>4, Pushes
  <1>7. ASSUME NEW w \in Windows, RubyEvaluate(w) PROVE StackInv'
    <2>1. PICK f : f = [kind |-> "ruby", window |-> w, copy |-> 0, saved |-> NoWindow,
                        outer |-> 0]
      OBVIOUS
    <2>2. f \in FrameRecords
      BY <2>1 DEF FrameRecords, FrameKinds, AnyWindow
    <2>3. f.kind \notin PhpKinds /\ f.outer = 0
      BY <2>1 DEF PhpKinds
    <2>4. Enter(f) /\ phpGlobal' = phpGlobal /\ bailout' = bailout /\ functions' = functions
      BY <1>7, <2>1 DEF RubyEvaluate
    <2> QED
      BY <2>2, <2>3, <2>4, Pushes
  <1>8. ASSUME NEW w \in Windows, PHPEvaluate(w) PROVE StackInv'
    <2>1. PICK f : f = [kind |-> "php", window |-> w, copy |-> 0, saved |-> phpGlobal,
                        outer |-> 0]
      OBVIOUS
    <2>2. f \in FrameRecords
      BY <1>1, <2>1 DEF FrameRecords, FrameKinds, PhpKinds, AnyWindow
    <2>3. /\ f.kind \in PhpKinds /\ f.kind \in {"php", "function"} /\ f.outer = 0
          /\ f.saved = phpGlobal /\ f.window = w
      BY <2>1 DEF PhpKinds
    <2>4. Enter(f) /\ phpGlobal' = w /\ bailout' = Depth + 1 /\ functions' = functions
      BY <1>8, <2>1 DEF PHPEvaluate, SwapGlobalObject
    <2> QED
      BY <2>2, <2>3, <2>4, Pushes
  <1>9. ASSUME NEW h \in functions, CallMethod(h) \/ CallFunction(h) PROVE StackInv'
    <2>0. h.kind \in {"method", "function"} /\ h.window \in AnyWindow
      BY <1>1
    <2>1. PICK f : f = [kind |-> h.kind, window |-> h.window, copy |-> 0, saved |-> phpGlobal,
                        outer |-> bailout]
      OBVIOUS
    <2>2. f \in FrameRecords
      BY <1>1, <2>0, <2>1 DEF FrameRecords, FrameKinds, PhpKinds
    <2>3. /\ f.kind \in PhpKinds /\ f.kind = h.kind /\ f.outer = bailout
          /\ f.saved = phpGlobal /\ f.window = h.window
      BY <2>0, <2>1 DEF PhpKinds
    <2>4. CASE CallMethod(h)
      <3>1. /\ Enter(f) /\ phpGlobal' = h.window /\ bailout' = bailout
            /\ functions' = functions
        BY <2>1, <2>4 DEF CallMethod, EnterPhp, SwapGlobalObject
      <3> QED
        BY <2>2, <2>3, <3>1, Pushes
    <2>5. CASE CallFunction(h)
      <3>1. /\ Enter(f) /\ phpGlobal' = h.window /\ bailout' = Depth + 1
            /\ functions' = functions /\ f.kind = "function"
        BY <2>1, <2>5 DEF CallFunction, EnterPhp, SwapGlobalObject
      <3> QED
        BY <2>2, <2>3, <3>1, Pushes
    <2> QED
      BY <1>9, <2>4, <2>5
  <1>10. ASSUME PythonLeave \/ RubyLeave \/ LeaveThrows PROVE StackInv'
    <2>1. /\ frames # <<>> /\ Innermost.kind \notin PhpKinds
          /\ frames' = SubSeq(frames, 1, Depth - 1) /\ torn' = torn
          /\ phpGlobal' = phpGlobal /\ bailout' = bailout /\ functions' = functions
      BY <1>10 DEF PythonLeave, RubyLeave, LeaveThrows, InPython, InRuby, PhpKinds
    <2>2. Depth - 1 \in Nat /\ Depth - 1 < Depth
      BY <1>1, <1>2, <2>1
    <2>3. Innermost.kind \notin Handlers
      BY <2>1 DEF Handlers
    <2>4. /\ GlobalBelow(frames, torn, Depth - 1, phpGlobal)
          /\ HandlerBelow(frames, Depth - 1, bailout)
      BY <1>3, <1>4, <2>1, <2>3
    <2> QED
      BY <1>1, <2>1, <2>2, <2>4, CutBack
  \* PHP code is left, by itself or by an exception.
  <1>11. ASSUME PHPLeave \/ PHPLeaveThrows \/ PHPThrows PROVE StackInv'
    <2> DEFINE e == EnclosingPhp(Depth - 1)
    <2>1. /\ frames # <<>> /\ frames[Depth].kind \in PhpKinds
          /\ frames' = SubSeq(frames, 1, Depth - 1) /\ functions' = functions
          /\ bailout' \in {IF frames[Depth].kind = "method" THEN bailout ELSE frames[Depth].outer,
                           IF frames[Depth].kind = "method" THEN bailout ELSE Gone}
          /\ \/ phpGlobal' = frames[Depth].saved /\ torn' = torn \ {Depth}
             \/ phpGlobal' = phpGlobal /\ torn' = (torn \ {Depth}) \cup e
      BY <1>11 DEF PHPLeave, PHPLeaveThrows, PHPThrows, InPhp, Innermost, SwapGlobalObject,
                   PushThrows, FillThrows
    <2>2. /\ Depth - 1 \in Nat /\ Depth - 1 < Depth
          /\ GlobalBelow(frames, torn, Depth - 1, frames[Depth].saved)
          /\ frames[Depth].saved \in AnyWindow
          /\ HandlerBelow(frames, Depth - 1, frames[Depth].outer)
      BY <1>2, <1>5, <2>1
    <2>3. HandlerBelow(frames, Depth - 1, bailout')
      <3>1. CASE frames[Depth].kind = "method"
        <4>1. Innermost.kind \notin Handlers
          BY <3>1 DEF Innermost, Handlers
        <4> QED
          BY <1>3, <2>1, <3>1, <4>1
      <3>2. CASE frames[Depth].kind # "method"
        <4>1. HandlerBelow(frames, Depth - 1, Gone)
          BY DEF HandlerBelow
        <4> QED
          BY <2>1, <2>2, <3>2, <4>1
      <3> QED
        BY <3>1, <3>2
    <2>4. /\ \A i \in 0..Depth - 1 : i \in torn => i \in torn \ {Depth}
          /\ \A i \in 1..Depth - 1 : frames[i] = frames[i]
      BY <2>2
    <2>5. GlobalBelow(frames, torn \ {Depth}, Depth - 1, frames[Depth].saved)
      BY <2>2, <2>4, BelowAgree
    <2>6. GlobalBelow(frames, (torn \ {Depth}) \cup e, Depth - 1, phpGlobal)
      BY <2>2, <2>5, TornBelow
    <2>7. e \subseteq 0..MaxDepth
      BY <1>1, <2>2 DEF EnclosingPhp
    <2>8. torn' \subseteq 0..MaxDepth /\ \A i \in 0..Depth - 1 : i \in torn => i \in torn'
      BY <1>1, <2>1, <2>4, <2>7
    <2>9. GlobalBelow(frames, torn', Depth - 1, phpGlobal') /\ phpGlobal' \in AnyWindow
      BY <1>1, <2>1, <2>2, <2>5, <2>6
    <2> QED
      BY <2>1, <2>2, <2>3, <2>8, <2>9, CutBack
  <1>12. ASSUME FatalError PROVE StackInv'
    <2>1. /\ bailout \notin {0, Gone} /\ frames' = SubSeq(frames, 1, bailout - 1)
          /\ bailout' = frames[bailout].outer /\ phpGlobal' = frames[bailout].saved
          /\ functions' = functions /\ torn' = {i \in torn : i < bailout}
      BY <1>12 DEF FatalError, Uncaught, SwapGlobalObject
    <2>2. bailout \in 1..Depth /\ frames[bailout].kind \in PhpKinds
      BY <1>1, <2>1 DEF HandlerBelow, Handlers
    <2>3. /\ bailout - 1 \in Nat /\ bailout - 1 < Depth
          /\ GlobalBelow(frames, torn, bailout - 1, frames[bailout].saved)
          /\ frames[bailout].saved \in AnyWindow
          /\ HandlerBelow(frames, bailout - 1, frames[bailout].outer)
      BY <1>5, <2>2
    <2>4. /\ \A i \in 0..bailout - 1 : i \in torn => i \in torn'
          /\ \A i \in 1..bailout - 1 : frames[i] = frames[i]
          /\ torn' \subseteq 0..MaxDepth
      <3>1. \A i \in 0..bailout - 1 : i < bailout
        BY <2>2
      <3> QED
        BY <1>1, <2>1, <3>1
    <2>5. GlobalBelow(frames, torn', bailout - 1, frames[bailout].saved)
      BY <2>3, <2>4, BelowAgree
    <2> QED
      BY <2>1, <2>3, <2>4, <2>5, CutBack
  \* No code is entered, but the global object is another's.
  <1>13. ASSUME NEW w \in AnyWindow, EnterThrows(w) PROVE StackInv'
    <2>1. /\ frames' = frames /\ bailout' = bailout /\ functions' = functions
          /\ \/ phpGlobal' = phpGlobal /\ torn' = torn
             \/ phpGlobal' = w /\ torn' = torn \cup EnclosingPhp(Depth)
      BY <1>13 DEF EnterThrows, PushThrows, FillThrows
    <2>2. CASE phpGlobal' = phpGlobal /\ torn' = torn
      BY <1>1, <2>1, <2>2, StackAlone
    <2>3. CASE phpGlobal' = w /\ torn' = torn \cup EnclosingPhp(Depth)
      <3>1. GlobalBelow(frames, torn', Depth, w)
        BY <1>1, <2>3, TornBelow
      <3>2. torn' \subseteq 0..MaxDepth
        <4>1. EnclosingPhp(Depth) \subseteq 0..Depth
          BY DEF EnclosingPhp
        <4>2. 0..Depth \subseteq 0..MaxDepth
          BY <1>1
        <4> QED
          BY <1>1, <2>3, <4>1, <4>2
      <3>3. /\ \A i \in 0..Depth : i \in torn => i \in torn'
            /\ \A i \in 1..Depth : frames[i] = frames[i]
        BY <2>3
      <3>4. \A i \in 1..Depth : Restores(frames, torn', i)
        BY <1>1, <3>3, BelowAgree
      <3>5. Depth' = Depth
        BY <2>1 DEF Depth
      <3> QED
        BY <1>1, <2>1, <2>3, <3>1, <3>2, <3>4, <3>5 DEF StackInv
    <2> QED
      BY <2>1, <2>2, <2>3
  \* The copy of a Python frame is no part of what PHP restores.
  <1>14. ASSUME PythonAssigns PROVE StackInv'
    <2>1. /\ frames # <<>> /\ frames' = [frames EXCEPT ![Depth].copy = assigned + 1]
          /\ phpGlobal' = phpGlobal /\ bailout' = bailout /\ functions' = functions
          /\ torn' = torn
      BY <1>14 DEF PythonAssigns, Assign, InPython
    <2>2. Depth \in 1..Depth /\ Depth \in DOMAIN frames /\ assigned + 1 \in Nat
      BY <1>1, <1>2, <2>1 DEF ValuesInv
    <2>3. PICK f : f = [frames[Depth] EXCEPT !.copy = assigned + 1]
      OBVIOUS
    <2>4. /\ frames[Depth] \in FrameRecords /\ f \in FrameRecords
          /\ f.kind = frames[Depth].kind /\ f.window = frames[Depth].window
          /\ f.saved = frames[Depth].saved /\ f.outer = frames[Depth].outer
      BY <1>1, <2>2, <2>3 DEF FrameRecords
    <2>5. frames' = [frames EXCEPT ![Depth] = f]
      BY <2>1, <2>3
    <2>6. /\ frames' \in Seq(FrameRecords) /\ Len(frames') = Depth
          /\ \A i \in 1..Depth : frames'[i] = IF i = Depth THEN f ELSE frames[i]
      BY <1>1, <2>2, <2>4, <2>5
    <2>7. \A i \in 1..Depth : /\ frames'[i].kind = frames[i].kind
                              /\ frames'[i].window = frames[i].window
                              /\ frames'[i].saved = frames[i].saved
                              /\ frames'[i].outer = frames[i].outer
      BY <2>4, <2>6
    <2>8. ASSUME NEW n \in Nat, n <= Depth, NEW g, GlobalBelow(frames, torn, n, g)
          PROVE  GlobalBelow(frames', torn, n, g)
      <3>1. \A i \in 1..n : frames'[i].kind = frames[i].kind /\ frames'[i].window = frames[i].window
        BY <1>1, <2>7, <2>8
      <3>2. CASE (g = NoWindow \/ 0 \in torn) /\ \A i \in 1..n : frames[i].kind \notin PhpKinds
        BY <3>1, <3>2 DEF GlobalBelow
      <3>3. CASE \E i \in 1..n : /\ frames[i].kind \in PhpKinds
                                 /\ frames[i].window = g \/ i \in torn
                                 /\ \A j \in i + 1..n : frames[j].kind \notin PhpKinds
        <4>1. PICK i \in 1..n : /\ frames[i].kind \in PhpKinds
                                /\ frames[i].window = g \/ i \in torn
                                /\ \A j \in i + 1..n : frames[j].kind \notin PhpKinds
          BY <3>3
        <4>2. \A j \in i + 1..n : j \in 1..n
          OBVIOUS
        <4> QED
          BY <3>1, <4>1, <4>2 DEF GlobalBelow
      <3> QED
        BY <2>8, <3>2, <3>3 DEF GlobalBelow
    <2>9. ASSUME NEW n \in Nat, n <= Depth, NEW b, HandlerBelow(frames, n, b)
          PROVE  HandlerBelow(frames', n, b)
      BY <1>1, <2>7, <2>9 DEF HandlerBelow
    <2>10. ASSUME NEW i \in 1..Depth PROVE Restores(frames', torn, i)
      <3>1. Restores(frames, torn, i) /\ i - 1 \in Nat /\ i - 1 <= Depth
        BY <1>1
      <3>2. frames'[i].kind \in PhpKinds => GlobalBelow(frames', torn, i - 1, frames[i].saved)
        BY <2>7, <2>8, <3>1 DEF Restores
      <3>3. HandlerBelow(frames', i - 1, frames[i].outer)
        BY <2>9, <3>1 DEF Restores
      <3> QED
        BY <2>7, <3>2, <3>3 DEF Restores
    <2>11. /\ Depth' = Depth /\ Depth <= MaxDepth
           /\ GlobalBelow(frames', torn, Depth, phpGlobal) /\ HandlerBelow(frames', Depth, bailout)
      <3>1. Depth' = Depth
        BY <2>6 DEF Depth
      <3>2. Depth <= MaxDepth /\ Depth <= Depth
        BY <1>1 DEF StackInv
      <3> QED
        BY <1>1, <2>8, <2>9, <3>1, <3>2
    <2> QED
      BY <1>1, <2>1, <2>6, <2>10, <2>11 DEF StackInv
  <1>15. ASSUME MakeMethod \/ KrollAddFunction PROVE StackInv'
    <2>1. PICK f : /\ f \in [kind : {"method", "function"}, window : AnyWindow]
                   /\ functions' = functions \cup {f}
                   /\ frames' = frames /\ phpGlobal' = phpGlobal /\ bailout' = bailout
                   /\ torn' = torn
      BY <1>1, <1>15 DEF MakeMethod, KrollAddFunction, Make
    <2> QED
      BY <1>1, <2>1, StackAlone
  <1>16. ASSUME UNCHANGED <<frames, phpGlobal, functions, torn>>, bailout' \in {0, bailout}
         PROVE  StackInv'
    BY <1>1, <1>16, StackAlone
  <1>17. ASSUME NEW lang, AddScriptEvaluator(lang) \/ RemoveScriptEvaluator(lang)
         PROVE  StackInv'
    BY <1>16, <1>17 DEF AddScriptEvaluator, RemoveScriptEvaluator
  <1>18. ASSUME NEW w, WindowAssigns(w) PROVE StackInv'
    BY <1>16, <1>18 DEF WindowAssigns, Assign
  <1>19. ASSUME FatalErrorExits \/ PHPAssigns \/ RubyAssigns \/ RubyDefines \/ Preprocess
         PROVE  StackInv'
    BY <1>16, <1>19 DEF FatalErrorExits, PHPAssigns, RubyAssigns, RubyDefines, Preprocess, Assign
  <1>20. ASSUME UNCHANGED scriptVars PROVE StackInv'
    BY <1>16, <1>20 DEF scriptVars
  <1>21. CASE ScriptBegins
    BY <1>6, <1>7, <1>8, <1>9, <1>19, <1>21 DEF ScriptBegins
  <1>22. CASE ScriptFails
    <2>1. ASSUME NEW w \in Windows, PHPEvaluateThrows(w) PROVE StackInv'
      BY <1>13, <2>1 DEF PHPEvaluateThrows, AnyWindow
    <2>2. ASSUME NEW f \in functions, CallThrows(f) PROVE StackInv'
      BY <1>1, <1>13, <2>2 DEF CallThrows
    <2> QED
      BY <1>10, <1>11, <1>12, <1>19, <1>22, <2>1, <2>2 DEF ScriptFails
  <1>23. CASE ScriptRuns
    BY <1>10, <1>11, <1>14, <1>15, <1>17, <1>18, <1>19, <1>23 DEF ScriptRuns
  <1> QED
    BY <1>20, <1>21, <1>22, <1>23 DEF ScriptsNext

\* No step makes a value up.
LEMMA ValuesInvNext == StackInv /\ ValuesInv /\ [ScriptsNext]_scriptVars => ValuesInv'
  <1> SUFFICES ASSUME StackInv, ValuesInv, [ScriptsNext]_scriptVars
               PROVE  ValuesInv'
    OBVIOUS
  <1>1. /\ frames \in Seq(FrameRecords) /\ Depth \in Nat /\ Len(frames) = Depth
        /\ \A i \in 1..Depth : /\ frames[i] \in FrameRecords
                               /\ frames[i].saved \in AnyWindow /\ frames[i].copy \in 0..assigned
        /\ bailout \in (0..Depth) \cup {Gone} /\ phpGlobal \in AnyWindow /\ NoWindow \in AnyWindow
        /\ \A f \in functions : f.window \in AnyWindow
        /\ Windows \subseteq AnyWindow
    <2>1. /\ frames \in Seq(FrameRecords) /\ Depth \in Nat /\ Len(frames) = Depth
          /\ bailout \in (0..Depth) \cup {Gone} /\ phpGlobal \in AnyWindow
          /\ functions \subseteq [kind : {"method", "function"}, window : AnyWindow]
          /\ \A i \in 1..Depth : frames[i].copy \in 0..assigned
      BY DEF StackInv, ValuesInv, Depth, HandlerBelow
    <2>2. \A i \in 1..Depth : frames[i] \in FrameRecords
      BY <2>1
    <2>3. \A i \in 1..Depth : frames[i].saved \in AnyWindow
      BY <2>2 DEF FrameRecords
    <2>4. NoWindow \in AnyWindow /\ Windows \subseteq AnyWindow
      BY DEF AnyWindow
    <2>5. \A f \in functions : f.window \in AnyWindow
      BY <2>1
    <2> QED
      BY <2>1, <2>2, <2>3, <2>4, <2>5
  <1>2. /\ evaluators \subseteq ScriptLanguages /\ assigned \in 1..MaxAssignments
        /\ property \in [Windows -> 0..assigned] /\ phpTable \in 0..assigned
        /\ rubyGlobal \in AnyWindow /\ exited \in BOOLEAN /\ 0 \in 0..assigned
        /\ 1 \in 0..assigned /\ rubyMethod \in [Windows -> 0..assigned]
    BY DEF ValuesInv
  <1>3. frames # <<>> => Depth \in 1..Depth /\ Depth - 1 \in 0..Depth
    BY <1>1
  \* Code is entered or left, and values move.
  <1>4. ASSUME assigned' = assigned, UNCHANGED <<evaluators, exited>>,
               property' \in [Windows -> 0..assigned], phpTable' \in 0..assigned,
               rubyGlobal' \in AnyWindow, rubyMethod' = rubyMethod,
               \/ \E f : Enter(f) /\ f.copy \in 0..assigned
               \/ \E n \in 0..Depth : frames' = SubSeq(frames, 1, n)
               \/ frames' = frames
        PROVE  ValuesInv'
    <2>1. \A i \in 1..Depth' : frames'[i].copy \in 0..assigned'
      BY <1>4, CopiesKept
    <2> QED
      BY <1>2, <1>4, <2>1 DEF ValuesInv
  <1>5. ASSUME NEW w \in Windows, PythonEvaluate(w) PROVE ValuesInv'
    <2>1. \E f : Enter(f) /\ f.copy \in 0..assigned
      <3>1. PICK f : f = [kind |-> "python", window |-> w, copy |-> property[w],
                          saved |-> NoWindow, outer |-> 0]
        OBVIOUS
      <3>2. Enter(f) /\ f.copy = property[w]
        BY <1>5, <3>1 DEF PythonEvaluate
      <3> QED
        BY <1>2, <3>2
    <2> QED
      BY <1>2, <1>4, <1>5, <2>1 DEF PythonEvaluate
  <1>6. ASSUME NEW w \in Windows, RubyEvaluate(w) PROVE ValuesInv'
    <2>1. \E f : Enter(f) /\ f.copy \in 0..assigned
      <3>1. PICK f : f = [kind |-> "ruby", window |-> w, copy |-> 0, saved |-> NoWindow,
                          outer |-> 0]
        OBVIOUS
      <3>2. Enter(f) /\ f.copy = 0
        BY <1>6, <3>1 DEF RubyEvaluate
      <3> QED
        BY <1>2, <3>2
    <2> QED
      BY <1>1, <1>2, <1>4, <1>6, <2>1 DEF RubyEvaluate
  <1>7. ASSUME NEW w \in Windows, PHPEvaluate(w) PROVE ValuesInv'
    <2>1. \E f : Enter(f) /\ f.copy \in 0..assigned
      <3>1. PICK f : f = [kind |-> "php", window |-> w, copy |-> 0, saved |-> phpGlobal,
                          outer |-> 0]
        OBVIOUS
      <3>2. Enter(f) /\ f.copy = 0
        BY <1>7, <3>1 DEF PHPEvaluate
      <3> QED
        BY <1>2, <3>2
    <2>2. SwapGlobalObject(w) /\ UNCHANGED <<evaluators, rubyGlobal, rubyMethod, exited, assigned>>
      BY <1>7 DEF PHPEvaluate
    <2>3. property' \in [Windows -> 0..assigned] /\ phpTable' \in 0..assigned
      BY <1>1, <2>2, SwapValues
    <2> QED
      BY <1>2, <1>4, <2>1, <2>2, <2>3
  <1>8. ASSUME NEW h \in functions, CallMethod(h) \/ CallFunction(h) PROVE ValuesInv'
    <2>1. PICK kind : EnterPhp(kind, h.window)
      BY <1>8 DEF CallMethod, CallFunction
    <2>2. \E f : Enter(f) /\ f.copy \in 0..assigned
      <3>1. PICK f : f = [kind |-> kind, window |-> h.window, copy |-> 0, saved |-> phpGlobal,
                          outer |-> bailout]
        OBVIOUS
      <3>2. Enter(f) /\ f.copy = 0
        BY <2>1, <3>1 DEF EnterPhp
      <3> QED
        BY <1>2, <3>2
    <2>3. /\ SwapGlobalObject(h.window) /\ h.window \in AnyWindow
          /\ UNCHANGED <<evaluators, rubyGlobal, rubyMethod, exited, assigned>>
      BY <1>1, <2>1 DEF EnterPhp
    <2>4. property' \in [Windows -> 0..assigned] /\ phpTable' \in 0..assigned
      BY <2>3, SwapValues
    <2> QED
      BY <1>2, <1>4, <2>2, <2>3, <2>4
  <1>9. ASSUME PythonLeave PROVE ValuesInv'
    <2>1. /\ frames # <<>> /\ frames' = SubSeq(frames, 1, Depth - 1)
          /\ property' = IF frames[Depth].copy = 0 THEN property
                         ELSE [property EXCEPT ![frames[Depth].window] = frames[Depth].copy]
          /\ UNCHANGED <<evaluators, phpTable, rubyGlobal, rubyMethod, exited, assigned>>
      BY <1>9 DEF PythonLeave, InPython, Innermost
    <2>2. property' \in [Windows -> 0..assigned]
      BY <1>1, <1>2, <1>3, <2>1
    <2> QED
      BY <1>2, <1>3, <1>4, <2>1, <2>2
  <1>10. ASSUME RubyLeave \/ LeaveThrows PROVE ValuesInv'
    <2>1. /\ frames # <<>> /\ frames' = SubSeq(frames, 1, Depth - 1)
          /\ UNCHANGED <<evaluators, phpTable, rubyGlobal, rubyMethod, exited, assigned>>
          /\ \/ property' = property
             \/ /\ rubyMethod[frames[Depth].window] # 0
                /\ property' = [property EXCEPT ![rubyGlobal] = rubyMethod[frames[Depth].window]]
                /\ frames[Depth].kind = "ruby"
      BY <1>10 DEF RubyLeave, LeaveThrows, InRuby, InPython, Innermost
    <2>2. ASSUME frames[Depth].kind = "ruby" PROVE frames[Depth].window \in Windows
      BY <1>1, <1>3, <2>1, <2>2 DEF FrameRecords
    <2>3. property' \in [Windows -> 0..assigned]
      BY <1>2, <2>1, <2>2
    <2> QED
      BY <1>2, <1>3, <1>4, <2>1, <2>3
  <1>11. ASSUME PHPLeave \/ PHPLeaveThrows \/ PHPThrows PROVE ValuesInv'
    <2>1. /\ frames # <<>> /\ frames' = SubSeq(frames, 1, Depth - 1)
          /\ \/ SwapGlobalObject(frames[Depth].saved)
             \/ PushThrows \/ FillThrows(frames[Depth].saved)
             \/ property' = property /\ phpTable' = phpTable
          /\ UNCHANGED <<evaluators, rubyGlobal, rubyMethod, exited, assigned>>
      BY <1>11 DEF PHPLeave, PHPLeaveThrows, PHPThrows, InPhp, Innermost
    <2>2. property' \in [Windows -> 0..assigned] /\ phpTable' \in 0..assigned
      BY <1>1, <1>2, <1>3, <2>1, SwapValues
    <2> QED
      BY <1>2, <1>3, <1>4, <2>1, <2>2
  <1>12. ASSUME NEW w \in AnyWindow, EnterThrows(w) PROVE ValuesInv'
    <2>1. /\ frames' = frames
          /\ PushThrows \/ FillThrows(w)
          /\ UNCHANGED <<evaluators, rubyGlobal, rubyMethod, exited, assigned>>
      BY <1>12 DEF EnterThrows
    <2>2. property' \in [Windows -> 0..assigned] /\ phpTable' \in 0..assigned
      BY <2>1, SwapValues
    <2> QED
      BY <1>2, <1>4, <2>1, <2>2
  <1>13. ASSUME Preprocess PROVE ValuesInv'
    BY <1>2, <1>4, <1>13 DEF Preprocess
  <1>14. ASSUME FatalError PROVE ValuesInv'
    <2>1. /\ bailout \notin {0, Gone} /\ frames' = SubSeq(frames, 1, bailout - 1)
          /\ SwapGlobalObject(frames[bailout].saved)
          /\ UNCHANGED <<evaluators, rubyGlobal, rubyMethod, exited, assigned>>
      BY <1>14 DEF FatalError, Uncaught
    <2>2. bailout \in 1..Depth /\ bailout - 1 \in 0..Depth
      BY <1>1, <2>1
    <2>3. property' \in [Windows -> 0..assigned] /\ phpTable' \in 0..assigned
      BY <1>1, <2>1, <2>2, SwapValues
    <2> QED
      BY <1>2, <1>4, <2>1, <2>2, <2>3
  <1>15. ASSUME PythonAssigns PROVE ValuesInv'
    BY <1>15, ValuesAssigned DEF PythonAssigns, Assign
  <1>16. ASSUME PHPAssigns PROVE ValuesInv'
    BY <1>16, ValuesAssigned DEF PHPAssigns, Assign
  <1>17. ASSUME RubyAssigns \/ RubyDefines PROVE ValuesInv'
    BY <1>17, ValuesAssigned DEF RubyAssigns, RubyDefines, Assign
  <1>18. ASSUME NEW w \in Windows, WindowAssigns(w) PROVE ValuesInv'
    BY <1>18, ValuesAssigned DEF WindowAssigns, Assign
  <1>19. ASSUME NEW lang \in ScriptLanguages,
                AddScriptEvaluator(lang) \/ RemoveScriptEvaluator(lang)
         PROVE  ValuesInv'
    BY <1>1, <1>2, <1>19 DEF AddScriptEvaluator, RemoveScriptEvaluator, ValuesInv, Depth
  <1>20. ASSUME MakeMethod \/ KrollAddFunction PROVE ValuesInv'
    BY <1>1, <1>2, <1>20 DEF MakeMethod, KrollAddFunction, Make, ValuesInv, Depth
  <1>21. ASSUME FatalErrorExits PROVE ValuesInv'
    BY <1>1, <1>2, <1>21 DEF FatalErrorExits, ValuesInv, Depth
  <1>22. ASSUME UNCHANGED scriptVars PROVE ValuesInv'
    BY <1>1, <1>2, <1>22 DEF scriptVars, ValuesInv, Depth
  <1>23. CASE ScriptBegins
    BY <1>5, <1>6, <1>7, <1>8, <1>13, <1>23 DEF ScriptBegins
  <1>24. CASE ScriptFails
    <2>1. ASSUME NEW w \in Windows, PHPEvaluateThrows(w) PROVE ValuesInv'
      BY <1>1, <1>12, <2>1 DEF PHPEvaluateThrows
    <2>2. ASSUME NEW f \in functions, CallThrows(f) PROVE ValuesInv'
      BY <1>1, <1>12, <2>2 DEF CallThrows
    <2> QED
      BY <1>10, <1>11, <1>14, <1>21, <1>24, <2>1, <2>2 DEF ScriptFails
  <1>25. CASE ScriptRuns
    BY <1>9, <1>10, <1>11, <1>15, <1>16, <1>17, <1>18, <1>19, <1>20, <1>25 DEF ScriptRuns
  <1> QED
    BY <1>22, <1>23, <1>24, <1>25 DEF ScriptsNext

\* The global object of the innermost PHP frame is the current one, unless the
\* frame is torn.
LEMMA StackInvMeans == StackInv /\ ValuesInv => PhpStateFollowsStack /\ ScriptsTypeOK
  <1> SUFFICES ASSUME StackInv, ValuesInv PROVE PhpStateFollowsStack /\ ScriptsTypeOK
    OBVIOUS
  <1>1. /\ Depth \in Nat /\ Depth <= MaxDepth /\ MaxDepth \in Nat
        /\ GlobalBelow(frames, torn, Depth, phpGlobal) /\ HandlerBelow(frames, Depth, bailout)
    BY ScriptsAssumption DEF StackInv, Depth
  <1>2. ASSUME NEW i \in EnclosingPhp(Depth) \ torn
        PROVE  phpGlobal = IF i = 0 THEN NoWindow ELSE frames[i].window
    <2>1. /\ i \in 0..Depth
          /\ i = 0 \/ frames[i].kind \in PhpKinds
          /\ \A j \in i + 1..Depth : frames[j].kind \notin PhpKinds
      BY <1>2 DEF EnclosingPhp
    <2>2. CASE /\ phpGlobal = NoWindow \/ 0 \in torn
               /\ \A j \in 1..Depth : frames[j].kind \notin PhpKinds
      <3>1. i \in 1..Depth => FALSE
        BY <2>1, <2>2
      <3>2. i = 0
        BY <1>1, <2>1, <3>1
      <3> QED
        BY <1>2, <2>2, <3>2
    <2>3. CASE \E k \in 1..Depth : /\ frames[k].kind \in PhpKinds
                                   /\ frames[k].window = phpGlobal \/ k \in torn
                                   /\ \A j \in k + 1..Depth : frames[j].kind \notin PhpKinds
      <3>1. PICK k \in 1..Depth : /\ frames[k].kind \in PhpKinds
                                  /\ frames[k].window = phpGlobal \/ k \in torn
                                  /\ \A j \in k + 1..Depth : frames[j].kind \notin PhpKinds
        BY <2>3
      <3>2. ~(k \in i + 1..Depth) /\ ~(i # 0 /\ i \in k + 1..Depth) /\ i \in Nat
        BY <2>1, <3>1
      <3>3. k = i
        BY <1>1, <2>1, <3>1, <3>2
      <3> QED
        BY <1>2, <3>1, <3>3
    <2> QED
      BY <1>1, <2>2, <2>3 DEF GlobalBelow
  <1>3. bailout \notin {0, Gone} => bailout \in 1..Depth /\ frames[bailout].kind \in Handlers
    BY <1>1 DEF HandlerBelow
  <1>4. PhpStateFollowsStack
    BY <1>2, <1>3 DEF PhpStateFollowsStack
  <1>5. bailout \in 0..Gone
    BY <1>1 DEF HandlerBelow, Gone
  <1>6. ScriptsTypeOK
    BY <1>5 DEF ScriptsTypeOK, StackInv, ValuesInv, AnyWindow
  <1> QED
    BY <1>4, <1>6

\* However scripts nest, whether they return, end in a fatal error or are left by an
\* exception of a page's object, PHP's current global object is that of the innermost
\* running PHP code, unless an exception came to that very code from PHP code above
\* it, and a fatal error is delivered to a frame that is still running, unless an
\* exception left the handler behind (SwapGlobalObject, zend_first_try, zend_try).
THEOREM PhpFollowsTheStack == ScriptsSpec => [](ScriptsTypeOK /\ PhpStateFollowsStack)
  <1>1. StackInv /\ ValuesInv /\ [ScriptsNext]_scriptVars => (StackInv /\ ValuesInv)'
    BY StackInvNext, ValuesInvNext
  <1>2. StackInv /\ ValuesInv => ScriptsTypeOK /\ PhpStateFollowsStack
    BY StackInvMeans
  <1> QED
    BY ScriptsInvInit, <1>1, <1>2, PTL DEF ScriptsSpec

\* PHP code of window w is the innermost PHP code among the first n frames of s.
Current(s, n, w) ==
    \E i \in 1..n : /\ s[i].kind \in PhpKinds
                    /\ s[i].window = w
                    /\ \A j \in i + 1..n : s[j].kind \notin PhpKinds

\* For window w the global object g is right for the first n frames of s, and so is
\* what each of them saved.
InStep(s, n, w, g) ==
    /\ g = w <=> Current(s, n, w)
    /\ \A i \in 1..n : s[i].kind \in PhpKinds => (s[i].saved = w <=> Current(s, i - 1, w))

\* A value that a Python or Ruby frame will write to window w when it is left: its
\* copy, or the method m of the window's context ...
IsCopy(s, i, w, m) ==
    /\ s[i].window = w
    /\ \/ s[i].kind = "python" /\ s[i].copy # 0
       \/ s[i].kind = "ruby" /\ m # 0

Written(s, i, m) == IF s[i].kind = "python" THEN s[i].copy ELSE m

\* ... and that is not undone by PHP code that was already working on the window:
\* that pushes its symbol table afterwards.
Copies(s, n, w, m) == {i \in 1..n : IsCopy(s, i, w, m) /\ ~Current(s, i - 1, w)}

\* The value a window has when the first n frames of s are left without further
\* assignments, from the innermost to the outermost, is l: the outermost copy is
\* written last, and without one what PHP has, or else the window itself (g is PHP's
\* global object, t the value in its table, p that of the window, m Ruby's method).
Arrives(s, n, w, g, t, p, m, l) ==
    /\ m \in {0, l}
    /\ \A i \in Copies(s, n, w, m) :
          (\A j \in Copies(s, n, w, m) : i <= j) => Written(s, i, m) = l
    /\ Copies(s, n, w, m) = {} =>
          /\ (IF g = w /\ t # 0 THEN t ELSE p) = l
          /\ p = 0 => m = 0 /\ \A i \in 1..n : ~IsCopy(s, i, w, m)
          /\ g = w /\ p # 0 => t # 0

\* The strengthening of ScriptWritesArrive to states in which scripts run.
ArrivesInv ==
    /\ latest \in [Windows -> Nat]
    /\ \A w \in Windows \ contended :
          /\ InStep(frames, Depth, w, phpGlobal)
          /\ Arrives(frames, Depth, w, phpGlobal, phpTable, property[w], rubyMethod[w],
                     latest[w])

\* Only kinds and windows matter to what PHP works on.
LEMMA CurrentAgree ==
    ASSUME NEW s, NEW r, NEW n \in Nat,
           \A i \in 1..n : r[i].kind = s[i].kind /\ r[i].window = s[i].window,
           NEW m \in 0..n, NEW w
    PROVE  Current(r, m, w) <=> Current(s, m, w)
  <1>1. \A i \in 1..m : i \in 1..n
    OBVIOUS
  <1>2. \A i \in 1..m : \A j \in i + 1..m : j \in 1..m
    OBVIOUS
  <1>3. \A i \in 1..m : r[i].kind = s[i].kind /\ r[i].window = s[i].window
    BY <1>1
  <1> QED
    BY ONLY <1>2, <1>3 DEF Current

\* One more frame.
LEMMA CurrentStep ==
    ASSUME NEW s, NEW n \in Nat, NEW w
    PROVE  /\ s[n + 1].kind \notin PhpKinds => (Current(s, n + 1, w) <=> Current(s, n, w))
           /\ s[n + 1].kind \in PhpKinds => (Current(s, n + 1, w) <=> s[n + 1].window = w)
  <1>1. PICK k \in Nat : k = n + 1
    OBVIOUS
  <1>2. /\ \A i \in 1..k : i \in 1..n \/ i = k
        /\ 1..n \subseteq 1..k /\ k \in 1..k /\ k + 1..k = {}
        /\ \A i \in 1..n : i + 1..n \subseteq i + 1..k
        /\ \A i \in 1..n : k \in i + 1..k
        /\ \A i \in 1..n : \A j \in i + 1..k : j \in i + 1..n \/ j = k
    BY <1>1
  <1>3. ASSUME s[k].kind \notin PhpKinds PROVE Current(s, k, w) <=> Current(s, n, w)
    BY ONLY <1>2, <1>3 DEF Current
  <1>4. ASSUME s[k].kind \in PhpKinds PROVE Current(s, k, w) <=> s[k].window = w
    BY ONLY <1>2, <1>4 DEF Current
  <1> QED
    BY <1>1, <1>3, <1>4

\* Only the frames themselves matter.
LEMMA InStepAgree ==
    ASSUME NEW s, NEW r, NEW n \in Nat,
           \A i \in 1..n : /\ r[i].kind = s[i].kind /\ r[i].window = s[i].window
                           /\ r[i].saved = s[i].saved,
           NEW w, NEW g, InStep(s, n, w, g)
    PROVE  InStep(r, n, w, g)
  <1>1. \A m \in 0..n : Current(r, m, w) <=> Current(s, m, w)
    BY CurrentAgree
  <1>2. n \in 0..n /\ \A i \in 1..n : i - 1 \in 0..n
    OBVIOUS
  <1> QED
    BY <1>1, <1>2 DEF InStep

\* A frame of PHP, or of another language, on top.
LEMMA InStepPush ==
    ASSUME NEW s, NEW n \in Nat, NEW w, NEW g, InStep(s, n, w, g), NEW h,
           \/ s[n + 1].kind \notin PhpKinds /\ h = g
           \/ s[n + 1].kind \in PhpKinds /\ s[n + 1].saved = g /\ s[n + 1].window = h
    PROVE  InStep(s, n + 1, w, h)
  <1>1. PICK k \in Nat : k = n + 1 /\ k - 1 = n /\ \A i \in 1..k : i \in 1..n \/ i = k
    OBVIOUS
  <1>2. /\ s[k].kind \notin PhpKinds => (Current(s, k, w) <=> Current(s, n, w))
        /\ s[k].kind \in PhpKinds => (Current(s, k, w) <=> s[k].window = w)
    BY <1>1, CurrentStep
  <1>3. \/ s[k].kind \notin PhpKinds /\ h = g
        \/ s[k].kind \in PhpKinds /\ s[k].saved = g /\ s[k].window = h
    BY <1>1
  <1>4. InStep(s, k, w, h)
    BY <1>1, <1>2, <1>3 DEF InStep
  <1> QED
    BY <1>1, <1>4

\* The stack cut back: to below a frame of PHP, which restores what it saved, or
\* by one frame of another language.
LEMMA InStepCut ==
    ASSUME NEW s, NEW n \in Nat, NEW w, NEW g, InStep(s, n, w, g), NEW k \in 1..n, NEW h,
           \/ s[k].kind \in PhpKinds /\ (h = w <=> s[k].saved = w)
           \/ k = n /\ s[n].kind \notin PhpKinds /\ h = g
    PROVE  InStep(s, k - 1, w, h)
  <1>1. PICK m \in Nat : m = k - 1 /\ m + 1 = k /\ 1..m \subseteq 1..n
    OBVIOUS
  <1>2. s[k].kind \notin PhpKinds => (Current(s, k, w) <=> Current(s, m, w))
    BY <1>1, CurrentStep
  <1>3. h = w <=> Current(s, m, w)
    BY <1>1, <1>2 DEF InStep
  <1>4. InStep(s, m, w, h)
    BY <1>1, <1>3 DEF InStep
  <1> QED
    BY <1>1, <1>4

\* One frame of another language than PHP is taken off.
LEMMA InStepPopped ==
    ASSUME NEW s, NEW n \in Nat, NEW w, NEW g, InStep(s, n + 1, w, g),
           s[n + 1].kind \notin PhpKinds
    PROVE  InStep(s, n, w, g)
  <1>1. PICK m \in Nat : m = n + 1 /\ m \in 1..m /\ m - 1 = n
    OBVIOUS
  <1>2. InStep(s, m, w, g) /\ s[m].kind \notin PhpKinds
    BY <1>1
  <1>3. InStep(s, m - 1, w, g)
    BY ONLY <1>1, <1>2, InStepCut
  <1> QED
    BY <1>1, <1>3

\* Only the frames themselves matter.
LEMMA ArrivesAgree ==
    ASSUME NEW s, NEW r, NEW n \in Nat, \A i \in 1..n : r[i] = s[i],
           NEW w, NEW g, NEW x, NEW p, NEW m, NEW l,
           Arrives(s, n, w, g, x, p, m, l)
    PROVE  Arrives(r, n, w, g, x, p, m, l)
  <1>1. ASSUME NEW i \in 1..n
        PROVE  /\ IsCopy(r, i, w, m) <=> IsCopy(s, i, w, m)
               /\ Written(r, i, m) = Written(s, i, m)
               /\ Current(r, i - 1, w) <=> Current(s, i - 1, w)
    <2>1. i - 1 \in 0..n
      OBVIOUS
    <2>2. Current(r, i - 1, w) <=> Current(s, i - 1, w)
      BY <2>1, CurrentAgree
    <2> QED
      BY <2>2 DEF IsCopy, Written
  <1>2. Copies(r, n, w, m) = Copies(s, n, w, m)
    BY <1>1 DEF Copies
  <1>3. \A i \in Copies(s, n, w, m) : Written(r, i, m) = Written(s, i, m)
    BY <1>1 DEF Copies
  <1> QED
    BY <1>1, <1>2, <1>3 DEF Arrives

\* Frames on top that will write nothing to the window change nothing.
LEMMA ArrivesCut ==
    ASSUME NEW s, NEW n \in Nat, NEW k \in 0..n, NEW w, NEW g, NEW x, NEW p, NEW m, NEW l,
           \A i \in k + 1..n : ~IsCopy(s, i, w, m)
    PROVE  Arrives(s, n, w, g, x, p, m, l) <=> Arrives(s, k, w, g, x, p, m, l)
  <1>1. \A i \in 1..n : i \in 1..k \/ i \in k + 1..n
    OBVIOUS
  <1>2. 1..k \subseteq 1..n
    OBVIOUS
  <1>3. Copies(s, n, w, m) = Copies(s, k, w, m)
    BY <1>1, <1>2 DEF Copies
  <1>4. (\A i \in 1..n : ~IsCopy(s, i, w, m)) <=> (\A i \in 1..k : ~IsCopy(s, i, w, m))
    BY <1>1, <1>2
  <1> QED
    BY <1>3, <1>4 DEF Arrives

\* A Python or Ruby script begins.
LEMMA ArrivesBegun ==
    ASSUME NEW s, NEW n \in Nat, NEW w, NEW g, NEW x, NEW p, NEW m, NEW l,
           Arrives(s, n, w, g, x, p, m, l), g = w <=> Current(s, n, w),
           IsCopy(s, n + 1, w, m), Written(s, n + 1, m) \in {p, l},
           Copies(s, n, w, m) = {} => p # 0
    PROVE  Arrives(s, n + 1, w, g, x, p, m, l)
  <1>1. PICK k \in Nat : k = n + 1 /\ k - 1 = n
    OBVIOUS
  <1>2. /\ \A i \in 1..k : i \in 1..n \/ i = k
        /\ k \in 1..k /\ 1..n \subseteq 1..k
        /\ \A i \in 1..n : ~(k <= i)
    BY <1>1
  <1>3. IsCopy(s, k, w, m) /\ Written(s, k, m) \in {p, l}
    BY <1>1
  <1>4. CASE g = w
    <2>1. Copies(s, k, w, m) = Copies(s, n, w, m)
      BY <1>1, <1>2, <1>4 DEF Copies
    <2>2. Arrives(s, k, w, g, x, p, m, l)
      BY <2>1 DEF Arrives
    <2> QED
      BY <1>1, <2>2
  <1>5. CASE g # w
    <2>1. k \in Copies(s, k, w, m) /\ Copies(s, n, w, m) \subseteq Copies(s, k, w, m)
      BY <1>1, <1>2, <1>3, <1>5 DEF Copies
    <2>2. ASSUME NEW i \in Copies(s, k, w, m), \A j \in Copies(s, k, w, m) : i <= j
          PROVE  Written(s, i, m) = l
      <3>1. CASE i = k
        <4>1. \A j \in Copies(s, n, w, m) : j \in 1..n /\ k <= j
          BY <2>1, <2>2, <3>1 DEF Copies
        <4>2. Copies(s, n, w, m) = {}
          BY <1>2, <4>1
        <4> QED
          BY <1>3, <1>5, <3>1, <4>2 DEF Arrives
      <3>2. CASE i # k
        <4>1. i \in Copies(s, n, w, m)
          BY <1>2, <2>2, <3>2 DEF Copies
        <4> QED
          BY <2>1, <2>2, <4>1 DEF Arrives
      <3> QED
        BY <3>1, <3>2
    <2>3. Arrives(s, k, w, g, x, p, m, l)
      BY <2>1, <2>2 DEF Arrives
    <2> QED
      BY <1>1, <2>3
  <1> QED
    BY <1>4, <1>5

\* A Python or Ruby script ends and writes what it has.
LEMMA ArrivesWritten ==
    ASSUME NEW s, NEW k \in Nat, NEW w, NEW g, NEW x, NEW p, NEW m, NEW l,
           Arrives(s, k + 1, w, g, x, p, m, l), g = w <=> Current(s, k, w),
           IsCopy(s, k + 1, w, m)
    PROVE  Arrives(s, k, w, g, x, Written(s, k + 1, m), m, l)
  <1>0. PICK n \in Nat : n = k + 1 /\ n - 1 = k
    OBVIOUS
  <1>1. /\ \A i \in 1..n : i \in 1..k \/ i = n
        /\ 1..k \subseteq 1..n /\ n \in 1..n /\ \A i \in 1..k : i <= n /\ i # n
        /\ n <= n
    BY <1>0
  <1>2. /\ Arrives(s, n, w, g, x, p, m, l) /\ IsCopy(s, n, w, m)
        /\ Written(s, n, m) # 0
    BY <1>0 DEF IsCopy, Written
  <1>3. CASE g = w
    <2>1. Copies(s, k, w, m) = Copies(s, n, w, m)
      BY <1>0, <1>1, <1>3 DEF Copies
    <2>2. Arrives(s, k, w, g, x, Written(s, n, m), m, l)
      BY ONLY <1>1, <1>2, <1>3, <2>1 DEF Arrives
    <2> QED
      BY <1>0, <2>2
  <1>4. CASE g # w
    <2>1. Copies(s, n, w, m) = Copies(s, k, w, m) \cup {n}
      BY <1>0, <1>1, <1>2, <1>4 DEF Copies
    <2>2. \A i \in Copies(s, k, w, m) : i <= n
      BY <1>1 DEF Copies
    <2>3. ASSUME NEW i \in Copies(s, k, w, m), \A j \in Copies(s, k, w, m) : i <= j
          PROVE  Written(s, i, m) = l
      BY <1>2, <2>1, <2>2, <2>3 DEF Arrives
    <2>4. Copies(s, k, w, m) = {} => Written(s, n, m) = l
      <3> SUFFICES ASSUME Copies(s, k, w, m) = {} PROVE Written(s, n, m) = l
        OBVIOUS
      <3>1. Copies(s, n, w, m) = {n}
        BY <2>1
      <3> QED
        BY <1>1, <1>2, <3>1 DEF Arrives
    <2>5. Arrives(s, k, w, g, x, Written(s, n, m), m, l)
      BY <1>2, <1>4, <2>3, <2>4 DEF Arrives
    <2> QED
      BY <1>0, <2>5
  <1> QED
    BY <1>3, <1>4

\* An assignment of which there is no second copy, to the window or to PHP's table ...
LEMMA ArrivesAssigned ==
    ASSUME NEW s, NEW n \in Nat, NEW w, NEW g, NEW x, NEW p, NEW l, l # 0,
           \A i \in 1..n : ~(s[i].kind = "python" /\ s[i].window = w),
           g = w => x = l, g # w => p = l
    PROVE  Arrives(s, n, w, g, x, p, 0, l)
  <1>1. \A i \in 1..n : ~IsCopy(s, i, w, 0)
    BY DEF IsCopy
  <1>2. Copies(s, n, w, 0) = {}
    BY <1>1 DEF Copies
  <1> QED
    BY <1>1, <1>2 DEF Arrives

\* ... or to what the innermost frame will write.
LEMMA ArrivesOnTop ==
    ASSUME NEW s, NEW k \in Nat, NEW w, NEW g, NEW x, NEW p, NEW m, NEW l, m \in {0, l},
           \A i \in 1..k : ~(s[i].kind = "python" /\ s[i].window = w),
           ~Current(s, k, w), IsCopy(s, k + 1, w, m), Written(s, k + 1, m) = l
    PROVE  Arrives(s, k + 1, w, g, x, p, m, l)
  <1>1. PICK n \in Nat : n = k + 1 /\ n - 1 = k
    OBVIOUS
  <1>2. n \in 1..n /\ \A i \in 1..n : i \in 1..k \/ i = n
    BY <1>1
  <1>3. n \in Copies(s, n, w, m)
    BY <1>1, <1>2 DEF Copies
  <1>4. \A i \in Copies(s, n, w, m) : Written(s, i, m) = l
    <2> SUFFICES ASSUME NEW i \in 1..n, IsCopy(s, i, w, m) PROVE Written(s, i, m) = l
      BY DEF Copies
    <2>1. CASE i = n
      BY <1>1, <2>1
    <2>2. CASE i \in 1..k
      BY <2>2 DEF IsCopy, Written
    <2> QED
      BY <1>2, <2>1, <2>2
  <1>5. Arrives(s, n, w, g, x, p, m, l)
    BY <1>3, <1>4 DEF Arrives
  <1> QED
    BY <1>1, <1>5

\* Code is entered: the stack below it, and the history if it is the outermost.
LEMMA ArrivesEntered ==
    ASSUME StackInv, ValuesInv, ArrivesInv, NEW f \in FrameRecords, Enter(f)
    PROVE  /\ latest' \in [Windows -> Nat]
           /\ Depth \in Nat /\ Depth' = Depth + 1 /\ frames'[Depth + 1] = f
           /\ \A w \in Windows \ contended' :
                 /\ InStep(frames', Depth, w, phpGlobal)
                 /\ Arrives(frames', Depth, w, phpGlobal, phpTable, property[w],
                            rubyMethod[w], latest'[w])
  <1>1. /\ frames \in Seq(FrameRecords) /\ Depth = Len(frames) /\ Depth \in Nat
        /\ frames' = Append(frames, f)
        /\ property \in [Windows -> 0..assigned] /\ assigned \in Nat
        /\ latest \in [Windows -> Nat]
    BY DEF StackInv, ValuesInv, ArrivesInv, Depth, Enter
  <1>2. /\ Len(frames') = Depth + 1 /\ frames'[Depth + 1] = f
        /\ \A i \in 1..Depth : frames'[i] = frames[i]
    BY <1>1
  <1>3. Depth' = Depth + 1
    BY <1>2 DEF Depth
  <1>4. latest' \in [Windows -> Nat]
    <2>1. CASE frames = <<>>
      BY <1>1, <2>1 DEF Enter
    <2>2. CASE frames # <<>>
      BY <1>1, <2>2 DEF Enter
    <2> QED
      BY <2>1, <2>2
  <1>5. ASSUME NEW w \in Windows \ contended'
        PROVE  /\ InStep(frames, Depth, w, phpGlobal)
               /\ Arrives(frames, Depth, w, phpGlobal, phpTable, property[w], rubyMethod[w],
                          latest'[w])
    <2>1. CASE frames = <<>>
      <3>1. /\ Depth = 0 /\ latest' = property /\ \A i \in 1..0 : FALSE
            /\ contended' = LeftBehind
        BY <1>1, <2>1 DEF Enter
      <3>2. phpGlobal # w /\ rubyMethod[w] \in {0, property[w]}
        BY <3>1 DEF LeftBehind
      <3>3. Copies(frames, 0, w, rubyMethod[w]) = {}
        BY <3>1 DEF Copies
      <3>4. InStep(frames, 0, w, phpGlobal)
        BY <3>1, <3>2 DEF InStep, Current
      <3> QED
        BY <3>1, <3>2, <3>3, <3>4 DEF Arrives
    <2>2. CASE frames # <<>>
      BY <2>2 DEF Enter, ArrivesInv
    <2> QED
      BY <2>1, <2>2
  <1>6. ASSUME NEW w \in Windows \ contended'
        PROVE  /\ InStep(frames', Depth, w, phpGlobal)
               /\ Arrives(frames', Depth, w, phpGlobal, phpTable, property[w], rubyMethod[w],
                          latest'[w])
    BY ONLY <1>1, <1>2, <1>5, <1>6, InStepAgree, ArrivesAgree
  <1> QED
    BY <1>1, <1>2, <1>3, <1>4, <1>6

\* What SwapGlobalObject does for one window.
LEMMA SwapMoves ==
    ASSUME ValuesInv, NEW new, SwapGlobalObject(new), NEW w \in Windows
    PROVE  /\ property'[w] = IF phpGlobal = w /\ phpTable # 0 THEN phpTable ELSE property[w]
           /\ phpGlobal' = new
           /\ new = w => phpTable' = property'[w]
  <1>1. property \in [Windows -> 0..assigned] /\ w # NoWindow
    BY ScriptsAssumption DEF ValuesInv
  <1>2. Pushed[w] = IF phpGlobal = w /\ phpTable # 0 THEN phpTable ELSE property[w]
    BY <1>1 DEF Pushed
  <1> QED
    BY <1>1, <1>2 DEF SwapGlobalObject

\* What it may do for one window when it fails: it pushes, and only then changes the
\* global object.
LEMMA SwapFails ==
    ASSUME ValuesInv, NEW new, PushThrows \/ FillThrows(new), NEW w \in Windows
    PROVE  /\ \/ property'[w] = property[w]
              \/ phpGlobal = w /\ phpTable # 0 /\ property'[w] = phpTable
           /\ \/ phpGlobal' = phpGlobal /\ phpTable' = phpTable
              \/ phpGlobal' = new
  <1>1. property \in [Windows -> 0..assigned] /\ w # NoWindow
    BY ScriptsAssumption DEF ValuesInv
  <1>2. Pushed[w] = IF phpGlobal = w /\ phpTable # 0 THEN phpTable ELSE property[w]
    BY <1>1 DEF Pushed
  <1> QED
    BY <1>1, <1>2 DEF PushThrows, FillThrows

\* PHP code is entered.
LEMMA ArrivesPhpEntered ==
    ASSUME StackInv, ValuesInv, ArrivesInv, NEW f \in FrameRecords, Enter(f),
           f.kind \in PhpKinds, f.saved = phpGlobal, SwapGlobalObject(f.window),
           rubyMethod' = rubyMethod
    PROVE  ArrivesInv'
  <1>1. /\ latest' \in [Windows -> Nat]
        /\ Depth \in Nat /\ Depth' = Depth + 1 /\ frames'[Depth + 1] = f
    BY ArrivesEntered
  <1>2. ASSUME NEW w \in Windows \ contended'
        PROVE  /\ InStep(frames', Depth + 1, w, phpGlobal')
               /\ Arrives(frames', Depth + 1, w, phpGlobal', phpTable', property'[w],
                          rubyMethod[w], latest'[w])
    <2>1. /\ InStep(frames', Depth, w, phpGlobal)
          /\ Arrives(frames', Depth, w, phpGlobal, phpTable, property[w], rubyMethod[w],
                     latest'[w])
      BY ArrivesEntered
    <2>2. /\ property'[w] = IF phpGlobal = w /\ phpTable # 0 THEN phpTable ELSE property[w]
          /\ phpGlobal' = w => phpTable' = property'[w]
          /\ phpGlobal' = f.window
      BY SwapMoves
    <2>3. Arrives(frames', Depth, w, phpGlobal', phpTable', property'[w], rubyMethod[w],
                  latest'[w])
      BY ONLY <2>1, <2>2 DEF Arrives
    <2>4. \A i \in Depth + 1..Depth + 1 : ~IsCopy(frames', i, w, rubyMethod[w])
      BY <1>1 DEF IsCopy, PhpKinds
    <2>5. Depth + 1 \in Nat /\ Depth \in 0..Depth + 1
      BY <1>1
    <2>6. InStep(frames', Depth + 1, w, phpGlobal')
      BY <1>1, <2>1, <2>2, InStepPush
    <2> QED
      BY <2>3, <2>4, <2>5, <2>6, ArrivesCut
  <1> QED
    BY <1>1, <1>2 DEF ArrivesInv

\* The stack is cut back to below frame k.
LEMMA ArrivesLeft ==
    ASSUME StackInv, ArrivesInv, NEW k \in 1..Depth, frames' = SubSeq(frames, 1, k - 1),
           latest' = latest, rubyMethod' = rubyMethod,
           \A w \in Windows \ contended' :
              /\ InStep(frames, k - 1, w, phpGlobal')
              /\ Arrives(frames, k - 1, w, phpGlobal', phpTable', property'[w],
                         rubyMethod[w], latest[w])
    PROVE  ArrivesInv'
  <1>1. /\ frames \in Seq(FrameRecords) /\ Depth = Len(frames) /\ Depth \in Nat
        /\ latest \in [Windows -> Nat]
    BY DEF StackInv, ArrivesInv, Depth
  <1>2. PICK n \in 0..Len(frames) : n = k - 1
    BY <1>1
  <1>3. n \in Nat /\ Len(frames') = n /\ \A i \in 1..n : frames'[i] = frames[i]
    BY <1>1, <1>2, Below
  <1>4. Depth' = n
    BY <1>3 DEF Depth
  <1>5. ASSUME NEW w \in Windows \ contended'
        PROVE  /\ InStep(frames', n, w, phpGlobal')
               /\ Arrives(frames', n, w, phpGlobal', phpTable', property'[w], rubyMethod'[w],
                          latest'[w])
    <2>1. /\ InStep(frames, n, w, phpGlobal')
          /\ Arrives(frames, n, w, phpGlobal', phpTable', property'[w], rubyMethod'[w],
                     latest'[w])
      BY <1>2
    <2> QED
      BY ONLY <1>3, <2>1, InStepAgree, ArrivesAgree
  <1> QED
    BY <1>1, <1>4, <1>5 DEF ArrivesInv

\* It is cut back after PHP has pushed its table: what the frames above k would write
\* is no longer asked for, or they are PHP's.
LEMMA ArrivesPhpLeft ==
    ASSUME StackInv, ValuesInv, ArrivesInv, NEW k \in 1..Depth, frames[k].kind \in PhpKinds,
           frames' = SubSeq(frames, 1, k - 1), SwapGlobalObject(frames[k].saved),
           latest' = latest, rubyMethod' = rubyMethod, contended \subseteq contended',
           \A i \in k + 1..Depth :
              frames[i].kind \in PhpKinds \/ frames[i].window \in contended'
    PROVE  ArrivesInv'
  <1>1. /\ Depth \in Nat /\ k - 1 \in 0..Depth
        /\ \A i \in k - 1 + 1..Depth : i = k \/ i \in k + 1..Depth
    BY DEF StackInv, Depth
  <1>2. ASSUME NEW w \in Windows \ contended'
        PROVE  /\ InStep(frames, k - 1, w, phpGlobal')
               /\ Arrives(frames, k - 1, w, phpGlobal', phpTable', property'[w], rubyMethod[w],
                          latest[w])
    <2>1. /\ InStep(frames, Depth, w, phpGlobal)
          /\ Arrives(frames, Depth, w, phpGlobal, phpTable, property[w], rubyMethod[w],
                     latest[w])
      BY DEF ArrivesInv
    <2>2. /\ property'[w] = IF phpGlobal = w /\ phpTable # 0 THEN phpTable ELSE property[w]
          /\ phpGlobal' = w => phpTable' = property'[w]
          /\ phpGlobal' = frames[k].saved
      BY SwapMoves
    <2>3. Arrives(frames, Depth, w, phpGlobal', phpTable', property'[w], rubyMethod[w],
                  latest[w])
      BY ONLY <2>1, <2>2 DEF Arrives
    <2>4. \A i \in k - 1 + 1..Depth : ~IsCopy(frames, i, w, rubyMethod[w])
      BY <1>1 DEF IsCopy, PhpKinds
    <2>5. Arrives(frames, k - 1, w, phpGlobal', phpTable', property'[w], rubyMethod[w],
                  latest[w])
      BY ONLY <1>1, <2>3, <2>4, ArrivesCut
    <2>6. InStep(frames, k - 1, w, phpGlobal')
      <3>1. k \in 1..Depth /\ frames[k].kind \in PhpKinds
        OBVIOUS
      <3> QED
        BY ONLY <1>1, <2>1, <2>2, <3>1, InStepCut
    <2> QED
      BY <2>5, <2>6
  <1> QED
    BY <1>2, ArrivesLeft

\* A step that changes no value and no frame.
LEMMA ArrivesAlone ==
    ASSUME ArrivesInv,
           UNCHANGED <<property, frames, phpGlobal, phpTable, rubyMethod, latest, contended>>
    PROVE  ArrivesInv'
  BY DEF ArrivesInv, Depth

\* The values of the other windows stay where they are.
LEMMA ArrivesElsewhere ==
    ASSUME ArrivesInv, NEW w \in Windows \ contended,
           frames' = frames, property'[w] = property[w], rubyMethod'[w] = rubyMethod[w],
           latest'[w] = latest[w],
           \/ phpGlobal' = phpGlobal /\ phpTable' = phpTable
           \/ phpGlobal # w /\ phpGlobal' # w
    PROVE  /\ InStep(frames', Depth', w, phpGlobal')
           /\ Arrives(frames', Depth', w, phpGlobal', phpTable', property'[w],
                      rubyMethod'[w], latest'[w])
  <1>1. /\ InStep(frames, Depth, w, phpGlobal)
        /\ Arrives(frames, Depth, w, phpGlobal, phpTable, property[w], rubyMethod[w], latest[w])
    BY DEF ArrivesInv
  <1>2. Depth' = Depth
    BY DEF Depth
  <1> QED
    BY <1>1, <1>2 DEF Arrives, InStep

\* Each window's last value is on its way to the window, whatever step is taken.
LEMMA ArrivesInvNext ==
    StackInv /\ ValuesInv /\ ArrivesInv /\ [ScriptsNext]_scriptVars => ArrivesInv'
  <1> SUFFICES ASSUME StackInv, ValuesInv, ArrivesInv, [ScriptsNext]_scriptVars
               PROVE  ArrivesInv'
    OBVIOUS
  <1>1. /\ frames \in Seq(FrameRecords) /\ Depth \in Nat /\ Len(frames) = Depth
        /\ HandlerBelow(frames, Depth, bailout)
        /\ phpGlobal \in AnyWindow
        /\ functions \subseteq [kind : {"method", "function"}, window : AnyWindow]
    BY DEF StackInv, Depth
  <1>2. /\ assigned \in Nat /\ property \in [Windows -> 0..assigned]
        /\ latest \in [Windows -> Nat] /\ 0 \in Nat
        /\ rubyMethod \in [Windows -> 0..assigned]
        /\ \A w \in Windows : property[w] \in Nat
        /\ \A w \in Windows \ contended :
              /\ InStep(frames, Depth, w, phpGlobal)
              /\ Arrives(frames, Depth, w, phpGlobal, phpTable, property[w], rubyMethod[w],
                         latest[w])
    BY DEF ValuesInv, ArrivesInv
  <1>3. /\ frames # <<>> => Depth \in 1..Depth /\ Depth - 1 \in 0..Depth /\ Depth - 1 \in Nat
        /\ \A i \in 1..Depth : frames[i] \in FrameRecords
        /\ \A i \in Depth - 1 + 1..Depth : i = Depth
        /\ NoWindow \in AnyWindow /\ Windows \subseteq AnyWindow
        /\ bailout \in (0..Depth) \cup {Gone} /\ Gone \in Nat
        /\ NoWindow \notin Windows
    BY <1>1, ScriptsAssumption DEF AnyWindow, HandlerBelow, Gone
  \* Python and Ruby scripts begin.
  <1>4. ASSUME NEW f \in FrameRecords, Enter(f),
               UNCHANGED <<property, phpGlobal, phpTable, rubyMethod>>,
               \/ f.kind = "python" /\ f.window \in Windows /\ f.copy = property[f.window]
               \/ f.kind = "ruby"
        PROVE  ArrivesInv'
    <2>1. /\ latest' \in [Windows -> Nat]
          /\ Depth' = Depth + 1 /\ frames'[Depth + 1] = f
      BY <1>4, ArrivesEntered
    <2>2. ASSUME NEW w \in Windows \ contended'
          PROVE  /\ InStep(frames', Depth + 1, w, phpGlobal)
                 /\ Arrives(frames', Depth + 1, w, phpGlobal, phpTable, property[w],
                            rubyMethod[w], latest'[w])
      <3>1. /\ InStep(frames', Depth, w, phpGlobal)
            /\ Arrives(frames', Depth, w, phpGlobal, phpTable, property[w], rubyMethod[w],
                       latest'[w])
        BY <1>4, ArrivesEntered
      <3>2. InStep(frames', Depth + 1, w, phpGlobal)
        <4>1. frames'[Depth + 1].kind \notin PhpKinds
          BY <1>4, <2>1 DEF PhpKinds
        <4> QED
          BY ONLY <1>1, <3>1, <4>1, InStepPush
      <3>3. CASE IsCopy(frames', Depth + 1, w, rubyMethod[w])
        <4>1. phpGlobal = w <=> Current(frames', Depth, w)
          BY <3>1 DEF InStep
        <4>2. /\ Written(frames', Depth + 1, rubyMethod[w]) \in {property[w], latest'[w]}
              /\ Copies(frames', Depth, w, rubyMethod[w]) = {} => property[w] # 0
          BY <1>4, <2>1, <3>1, <3>3 DEF IsCopy, Written, Arrives
        <4> QED
          BY ONLY <1>1, <3>1, <3>2, <3>3, <4>1, <4>2, ArrivesBegun
      <3>4. CASE ~IsCopy(frames', Depth + 1, w, rubyMethod[w])
        <4>1. \A i \in Depth + 1..Depth + 1 : ~IsCopy(frames', i, w, rubyMethod[w])
          BY <1>1, <3>4
        <4>2. Depth + 1 \in Nat /\ Depth \in 0..Depth + 1
          BY <1>1
        <4> QED
          BY <3>1, <3>2, <4>1, <4>2, ArrivesCut
      <3> QED
        BY <3>3, <3>4
    <2> QED
      BY <1>4, <2>1, <2>2 DEF ArrivesInv
  <1>5. ASSUME NEW v \in Windows, PythonEvaluate(v) \/ RubyEvaluate(v) PROVE ArrivesInv'
    <2>1. CASE PythonEvaluate(v)
      <3> DEFINE f == [kind |-> "python", window |-> v, copy |-> property[v],
                       saved |-> NoWindow, outer |-> 0]
      <3>1. f \in FrameRecords
        BY <1>2, <1>3 DEF FrameRecords, FrameKinds
      <3>2. Enter(f) /\ UNCHANGED <<property, phpGlobal, phpTable, rubyMethod>>
        BY <2>1 DEF PythonEvaluate
      <3>3. f.kind = "python" /\ f.window = v /\ f.copy = property[v]
        OBVIOUS
      <3> HIDE DEF f
      <3> QED
        BY <1>4, <3>1, <3>2, <3>3
    <2>2. CASE RubyEvaluate(v)
      <3> DEFINE f == [kind |-> "ruby", window |-> v, copy |-> 0, saved |-> NoWindow, outer |-> 0]
      <3>1. f \in FrameRecords
        BY <1>2, <1>3 DEF FrameRecords, FrameKinds
      <3>2. Enter(f) /\ UNCHANGED <<property, phpGlobal, phpTable, rubyMethod>>
        BY <2>2 DEF RubyEvaluate
      <3>3. f.kind = "ruby"
        OBVIOUS
      <3> HIDE DEF f
      <3> QED
        BY <1>4, <3>1, <3>2, <3>3
    <2> QED
      BY <1>5, <2>1, <2>2
  <1>6. ASSUME NEW v \in Windows, PHPEvaluate(v) PROVE ArrivesInv'
    <2> DEFINE f == [kind |-> "php", window |-> v, copy |-> 0, saved |-> phpGlobal, outer |-> 0]
    <2>1. f \in FrameRecords /\ f.kind \in PhpKinds /\ f.saved = phpGlobal /\ f.window = v
      BY <1>1, <1>2, <1>3 DEF FrameRecords, FrameKinds, PhpKinds
    <2>2. Enter(f) /\ SwapGlobalObject(v) /\ rubyMethod' = rubyMethod
      BY <1>6 DEF PHPEvaluate
    <2> HIDE DEF f
    <2> QED
      BY <2>1, <2>2, ArrivesPhpEntered
  <1>7. ASSUME NEW h \in functions, CallMethod(h) \/ CallFunction(h) PROVE ArrivesInv'
    <2>1. PICK kind \in {"method", "function"} : EnterPhp(kind, h.window)
      BY <1>7 DEF CallMethod, CallFunction
    <2> DEFINE f == [kind |-> kind, window |-> h.window, copy |-> 0, saved |-> phpGlobal,
                     outer |-> bailout]
    <2>2. h.window \in AnyWindow /\ bailout \in Nat
      BY <1>1, <1>3
    <2>3. f \in FrameRecords /\ f.kind \in PhpKinds /\ f.saved = phpGlobal /\ f.window = h.window
      BY <1>1, <1>2, <2>2 DEF FrameRecords, FrameKinds, PhpKinds
    <2>4. Enter(f) /\ SwapGlobalObject(h.window) /\ rubyMethod' = rubyMethod
      BY <2>1 DEF EnterPhp
    <2> HIDE DEF f
    <2> QED
      BY <2>3, <2>4, ArrivesPhpEntered
  \* A Python or Ruby script ends: it writes to its window or to none, and what it
  \* should have written is no longer asked for if it does not.
  <1>8. ASSUME frames # <<>>, frames' = SubSeq(frames, 1, Depth - 1),
               frames[Depth].kind \in {"python", "ruby"},
               UNCHANGED <<phpGlobal, phpTable, rubyMethod, latest>>,
               contended \subseteq contended',
               \A w \in Windows \ contended' :
                  property'[w] = IF IsCopy(frames, Depth, w, rubyMethod[w])
                                 THEN Written(frames, Depth, rubyMethod[w]) ELSE property[w]
        PROVE  ArrivesInv'
    <2>1. PICK k \in Nat : k = Depth - 1 /\ k + 1 = Depth /\ k \in 0..Depth
      BY <1>1, <1>3, <1>8
    <2>2. ASSUME NEW w \in Windows \ contended'
          PROVE  /\ InStep(frames, k, w, phpGlobal)
                 /\ Arrives(frames, k, w, phpGlobal, phpTable, property'[w], rubyMethod[w],
                            latest[w])
      <3>1. /\ InStep(frames, k + 1, w, phpGlobal)
            /\ Arrives(frames, k + 1, w, phpGlobal, phpTable, property[w], rubyMethod[w],
                       latest[w])
        BY <1>2, <1>8, <2>1
      <3>2. /\ frames[k + 1].kind \notin PhpKinds
            /\ k + 1 \in Nat /\ k + 1 \in 1..k + 1 /\ k + 1 - 1 = k
        BY <1>8, <2>1 DEF PhpKinds
      <3>3. InStep(frames, k, w, phpGlobal)
        BY ONLY <3>1, <3>2, InStepPopped
      <3>4. CASE IsCopy(frames, k + 1, w, rubyMethod[w])
        <4>1. phpGlobal = w <=> Current(frames, k, w)
          BY <3>3 DEF InStep
        <4>2. property'[w] = Written(frames, k + 1, rubyMethod[w])
          BY <1>8, <2>1, <3>4
        <4>3. Arrives(frames, k, w, phpGlobal, phpTable, Written(frames, k + 1, rubyMethod[w]),
                      rubyMethod[w], latest[w])
          BY ONLY <2>1, <3>1, <3>4, <4>1, ArrivesWritten
        <4> QED
          BY <3>3, <4>2, <4>3
      <3>5. CASE ~IsCopy(frames, k + 1, w, rubyMethod[w])
        <4>1. property'[w] = property[w]
          BY <1>8, <2>1, <3>5
        <4>2. k \in 0..k + 1 /\ \A i \in k + 1..k + 1 : ~IsCopy(frames, i, w, rubyMethod[w])
          BY <3>5
        <4>3. Arrives(frames, k, w, phpGlobal, phpTable, property[w], rubyMethod[w], latest[w])
          BY ONLY <3>1, <3>2, <4>2, ArrivesCut
        <4> QED
          BY <3>3, <4>1, <4>3
      <3> QED
        BY <3>4, <3>5
    <2> QED
      BY <1>3, <1>8, <2>1, <2>2, ArrivesLeft
  <1>9. ASSUME PythonLeave PROVE ArrivesInv'
    <2>1. /\ frames # <<>> /\ frames' = SubSeq(frames, 1, Depth - 1)
          /\ frames[Depth].kind = "python"
          /\ property' = IF frames[Depth].copy = 0 THEN property
                         ELSE [property EXCEPT ![frames[Depth].window] = frames[Depth].copy]
          /\ UNCHANGED <<phpGlobal, phpTable, rubyMethod, latest, contended>>
      BY <1>9 DEF PythonLeave, InPython, Innermost
    <2>2. \A w \in Windows :
             property'[w] = IF IsCopy(frames, Depth, w, rubyMethod[w])
                            THEN Written(frames, Depth, rubyMethod[w]) ELSE property[w]
      BY <1>2, <2>1 DEF IsCopy, Written
    <2> QED
      BY <1>8, <2>1, <2>2
  <1>10. ASSUME RubyLeave PROVE ArrivesInv'
    <2> DEFINE v == frames[Depth].window
    <2>1. /\ frames # <<>> /\ frames' = SubSeq(frames, 1, Depth - 1)
          /\ frames[Depth].kind = "ruby"
          /\ IF rubyMethod[v] = 0 THEN property' = property /\ contended' = contended
             ELSE /\ property' = [property EXCEPT ![rubyGlobal] = rubyMethod[v]]
                  /\ contended' = contended \cup Astray(v)
          /\ UNCHANGED <<phpGlobal, phpTable, rubyMethod, latest>>
      BY <1>10 DEF RubyLeave, InRuby, Innermost
    <2>2. \A w \in Windows \ contended' :
             property'[w] = IF IsCopy(frames, Depth, w, rubyMethod[w])
                            THEN Written(frames, Depth, rubyMethod[w]) ELSE property[w]
      BY <1>2, <2>1 DEF IsCopy, Written, Astray
    <2>3. contended \subseteq contended'
      BY <2>1
    <2> QED
      BY <1>8, <2>1, <2>2, <2>3
  <1>11. ASSUME LeaveThrows PROVE ArrivesInv'
    <2>1. /\ frames # <<>> /\ frames' = SubSeq(frames, 1, Depth - 1)
          /\ frames[Depth].kind \in {"python", "ruby"}
          /\ contended' = contended \cup {frames[Depth].window}
          /\ UNCHANGED <<property, phpGlobal, phpTable, rubyMethod, latest>>
      BY <1>11 DEF LeaveThrows, InPython, InRuby, Innermost
    <2>2. \A w \in Windows \ contended' :
             property'[w] = IF IsCopy(frames, Depth, w, rubyMethod[w])
                            THEN Written(frames, Depth, rubyMethod[w]) ELSE property[w]
      BY <2>1 DEF IsCopy
    <2> QED
      BY <1>8, <2>1, <2>2
  \* PHP code is left, ...
  <1>12. ASSUME PHPLeave PROVE ArrivesInv'
    <2>1. /\ frames # <<>> /\ frames' = SubSeq(frames, 1, Depth - 1)
          /\ frames[Depth].kind \in PhpKinds
          /\ SwapGlobalObject(frames[Depth].saved)
          /\ UNCHANGED <<latest, contended, rubyMethod>>
      BY <1>12 DEF PHPLeave, InPhp, Innermost
    <2>2. \A i \in Depth + 1..Depth : FALSE
      BY <1>1
    <2> QED
      BY <1>3, <2>1, <2>2, ArrivesPhpLeft
  <1>13. ASSUME FatalError PROVE ArrivesInv'
    <2>1. /\ bailout \notin {0, Gone} /\ frames' = SubSeq(frames, 1, bailout - 1)
          /\ SwapGlobalObject(frames[bailout].saved)
          /\ contended' = contended \cup {frames[i].window : i \in
                             {j \in bailout + 1 .. Depth : frames[j].kind \in {"python", "ruby"}}}
          /\ latest' = latest /\ rubyMethod' = rubyMethod
      BY <1>13 DEF FatalError, Uncaught
    <2>2. bailout \in 1..Depth /\ frames[bailout].kind \in PhpKinds
      BY <1>1, <1>3, <2>1 DEF HandlerBelow, Handlers
    <2>3. ASSUME NEW i \in bailout + 1..Depth
          PROVE  frames[i].kind \in PhpKinds \/ frames[i].window \in contended'
      <3>1. frames[i] \in FrameRecords
        BY <1>1, <1>3, <2>2
      <3>2. frames[i].kind \in PhpKinds \cup {"python", "ruby"}
        BY <3>1 DEF FrameRecords, FrameKinds
      <3> QED
        BY <2>1, <3>2
    <2> QED
      BY <2>1, <2>2, <2>3, ArrivesPhpLeft
  \* ... or left by an exception: nothing is asked any more of the two windows.
  <1>14. ASSUME PHPLeaveThrows \/ PHPThrows PROVE ArrivesInv'
    <2> DEFINE v == frames[Depth].saved
    <2>1. /\ frames # <<>> /\ frames' = SubSeq(frames, 1, Depth - 1)
          /\ frames[Depth].kind \in PhpKinds
          /\ \/ PushThrows \/ FillThrows(v)
             \/ UNCHANGED <<property, phpGlobal, phpTable>>
          /\ contended' = contended \cup Swapped(v)
          /\ UNCHANGED <<latest, rubyMethod>>
      BY <1>14 DEF PHPLeaveThrows, PHPThrows, InPhp, Innermost
    <2> HIDE DEF v
    <2>2. ASSUME NEW w \in Windows \ contended'
          PROVE  /\ InStep(frames, Depth - 1, w, phpGlobal')
                 /\ Arrives(frames, Depth - 1, w, phpGlobal', phpTable', property'[w],
                            rubyMethod[w], latest[w])
      <3>1. phpGlobal # w /\ v # w /\ w \notin contended
        BY <1>3, <2>1 DEF Swapped
      <3>2. property'[w] = property[w] /\ phpGlobal' # w
        BY <2>1, <3>1, SwapFails
      <3>3. /\ InStep(frames, Depth, w, phpGlobal)
            /\ Arrives(frames, Depth, w, phpGlobal, phpTable, property[w], rubyMethod[w],
                       latest[w])
        BY <1>2, <3>1
      <3>4. InStep(frames, Depth - 1, w, phpGlobal')
        <4>1. Depth \in 1..Depth /\ frames[Depth].kind \in PhpKinds /\ frames[Depth].saved # w
          BY <1>3, <2>1, <3>1 DEF v
        <4> QED
          BY ONLY <1>1, <3>2, <3>3, <4>1, InStepCut
      <3>5. Arrives(frames, Depth, w, phpGlobal', phpTable', property'[w], rubyMethod[w],
                    latest[w])
        BY ONLY <3>1, <3>2, <3>3 DEF Arrives
      <3>6. \A i \in Depth - 1 + 1..Depth : ~IsCopy(frames, i, w, rubyMethod[w])
        BY <1>3, <2>1 DEF IsCopy, PhpKinds
      <3>7. Depth - 1 \in 0..Depth
        BY <1>3, <2>1
      <3> QED
        BY ONLY <1>1, <3>4, <3>5, <3>6, <3>7, ArrivesCut
    <2> QED
      BY <1>3, <2>1, <2>2, ArrivesLeft
  \* No code is entered.
  <1>15. ASSUME NEW v, EnterThrows(v) PROVE ArrivesInv'
    <2>1. /\ frames' = frames /\ latest' = latest /\ rubyMethod' = rubyMethod
          /\ \/ PushThrows /\ contended' = contended
             \/ FillThrows(v) /\ contended' = contended \cup Swapped(v)
      BY <1>15 DEF EnterThrows
    <2>2. ASSUME NEW w \in Windows \ contended'
          PROVE  /\ InStep(frames', Depth', w, phpGlobal')
                 /\ Arrives(frames', Depth', w, phpGlobal', phpTable', property'[w],
                            rubyMethod'[w], latest'[w])
      <3>1. CASE PushThrows /\ contended' = contended
        <4>1. Depth' = Depth
          BY <2>1 DEF Depth
        <4>2. /\ \/ property'[w] = property[w]
                 \/ phpGlobal = w /\ phpTable # 0 /\ property'[w] = phpTable
              /\ phpGlobal' = phpGlobal /\ phpTable' = phpTable
          BY <3>1, SwapFails DEF PushThrows
        <4>3. Arrives(frames, Depth, w, phpGlobal, phpTable, property'[w], rubyMethod[w],
                      latest[w])
          BY <1>2, <3>1, <4>2 DEF Arrives
        <4> QED
          BY <1>2, <2>1, <3>1, <4>1, <4>2, <4>3
      <3>2. CASE FillThrows(v) /\ contended' = contended \cup Swapped(v)
        <4>1. phpGlobal # w /\ v # w /\ w \notin contended
          BY <1>3, <3>2 DEF Swapped
        <4>2. property'[w] = property[w] /\ phpGlobal' # w
          BY <3>2, <4>1, SwapFails
        <4> QED
          BY <2>1, <4>1, <4>2, ArrivesElsewhere
      <3> QED
        BY <2>1, <3>1, <3>2
    <2> QED
      BY <1>2, <2>1, <2>2 DEF ArrivesInv
  <1>16. ASSUME Preprocess PROVE ArrivesInv'
    <2>1. /\ UNCHANGED <<property, frames, phpGlobal, rubyMethod, latest>>
          /\ contended' = contended \cup Swapped(NoWindow)
      BY <1>16 DEF Preprocess
    <2>2. ASSUME NEW w \in Windows \ contended'
          PROVE  w \in Windows \ contended /\ phpGlobal # w
      BY <1>3, <2>1 DEF Swapped
    <2> QED
      BY <1>2, <2>1, <2>2, ArrivesElsewhere DEF ArrivesInv
  \* Assignments.
  <1>17. ASSUME NEW v \in AnyWindow, Assign(v)
         PROVE  /\ latest' \in [Windows -> Nat] /\ assigned + 1 \in Nat /\ assigned + 1 # 0
                /\ \A w \in Windows : latest'[w] = IF w = v THEN assigned + 1 ELSE latest[w]
                /\ phpGlobal' = phpGlobal
    <2>1. assigned + 1 \in Nat /\ assigned + 1 # 0
      BY <1>2
    <2>2. PICK a \in Nat : a = assigned + 1
      BY <2>1
    <2>3. /\ latest' = IF v = NoWindow THEN latest ELSE [latest EXCEPT ![v] = a]
          /\ phpGlobal' = phpGlobal
      BY <1>17, <2>2 DEF Assign
    <2>4. /\ latest' \in [Windows -> Nat]
          /\ \A w \in Windows : latest'[w] = IF w = v THEN a ELSE latest[w]
      BY ONLY <1>2, <1>3, <2>2, <2>3
    <2> QED
      BY <2>1, <2>2, <2>3, <2>4
  <1>18. ASSUME frames # <<>>
         PROVE  /\ frames[Depth] \in FrameRecords /\ frames[Depth].window \in AnyWindow
                /\ Innermost = frames[Depth]
    BY <1>3, <1>18 DEF FrameRecords, Innermost
  \* An assignment to a window, of which no frame has a copy.
  <1>19. ASSUME NEW w \in Windows, NEW l, l # 0, frames' = frames, rubyMethod' = rubyMethod,
                phpGlobal' = phpGlobal, w \notin contended, ~OtherCopies(w),
                ~(InPython /\ Innermost.window = w),
                phpGlobal = w => phpTable' = l, phpGlobal # w => property'[w] = l,
                latest'[w] = l
         PROVE  /\ InStep(frames', Depth', w, phpGlobal')
                /\ Arrives(frames', Depth', w, phpGlobal', phpTable', property'[w],
                           rubyMethod'[w], latest'[w])
    <2>1. Depth' = Depth /\ InStep(frames, Depth, w, phpGlobal)
      BY <1>2, <1>19 DEF Depth
    <2>2. /\ rubyMethod[w] = 0
          /\ \A i \in 1..Depth - 1 : ~(frames[i].kind = "python" /\ frames[i].window = w)
      BY <1>19 DEF OtherCopies
    <2>3. \A i \in 1..Depth : ~(frames[i].kind = "python" /\ frames[i].window = w)
      <3>1. \A i \in 1..Depth : i \in 1..Depth - 1 \/ (i = Depth /\ frames # <<>>)
        BY <1>1
      <3> QED
        BY <1>19, <2>2, <3>1 DEF InPython, Innermost
    <2>4. Arrives(frames, Depth, w, phpGlobal, phpTable', property'[w], 0, latest'[w])
      BY ONLY <1>1, <1>19, <2>3, ArrivesAssigned
    <2> QED
      BY <1>19, <2>1, <2>2, <2>4
  <1>20. ASSUME PythonAssigns PROVE ArrivesInv'
    <2> DEFINE a == assigned + 1
               v == frames[Depth].window
    <2>1. /\ frames # <<>> /\ frames[Depth].kind = "python"
          /\ frames' = [frames EXCEPT ![Depth].copy = a] /\ Assign(v)
          /\ contended' = contended \cup {w \in Windows : w = v /\ OtherCopies(w)}
          /\ UNCHANGED <<property, phpTable, rubyMethod>>
      BY <1>20 DEF PythonAssigns, InPython, Innermost
    <2>2. /\ latest' \in [Windows -> Nat] /\ a # 0
          /\ \A w \in Windows : latest'[w] = IF w = v THEN a ELSE latest[w]
          /\ phpGlobal' = phpGlobal
      BY <1>17, <1>18, <2>1
    <2>3. ~InPhp /\ frames[Depth] \in FrameRecords
      BY <1>18, <2>1 DEF InPhp, PhpKinds
    <2> HIDE DEF a
    <2>4. PICK k \in Nat : k = Depth - 1 /\ k + 1 = Depth /\ k \in 0..Depth
      BY <1>1, <1>3, <2>1
    <2>5. /\ Len(frames') = Depth
          /\ \A i \in 1..k : frames'[i] = frames[i]
          /\ frames'[Depth] = [frames[Depth] EXCEPT !.copy = a]
      BY <1>1, <1>3, <2>1, <2>4
    <2>6. /\ frames'[Depth].kind = "python" /\ frames'[Depth].window = v
          /\ frames'[Depth].copy = a /\ frames'[Depth].saved = frames[Depth].saved
      BY <2>1, <2>3, <2>5 DEF FrameRecords
    <2>7. Depth' = Depth
      BY <2>5 DEF Depth
    <2>8. \A i \in 1..Depth : /\ frames'[i].kind = frames[i].kind
                              /\ frames'[i].window = frames[i].window
                              /\ frames'[i].saved = frames[i].saved
      <3>1. \A i \in 1..Depth : i \in 1..k \/ i = Depth
        BY <2>4
      <3> QED
        BY <2>1, <2>5, <2>6, <3>1
    <2> HIDE DEF v
    <2>9. ASSUME NEW w \in Windows \ contended'
          PROVE  /\ InStep(frames', Depth, w, phpGlobal)
                 /\ Arrives(frames', k + 1, w, phpGlobal, phpTable, property[w],
                            rubyMethod[w], latest'[w])
      <3>1. /\ InStep(frames, Depth, w, phpGlobal)
            /\ Arrives(frames, Depth, w, phpGlobal, phpTable, property[w], rubyMethod[w],
                       latest[w])
        BY <1>2, <2>1
      <3>2. InStep(frames', Depth, w, phpGlobal)
        BY ONLY <1>1, <2>8, <3>1, InStepAgree
      <3>3. CASE w = v
        <4>1. ~OtherCopies(w)
          BY <2>1, <3>3
        <4>2. /\ \A i \in 1..k : ~(frames'[i].kind = "python" /\ frames'[i].window = w)
              /\ phpGlobal # w /\ rubyMethod[w] = 0
          BY <2>3, <2>4, <2>5, <4>1 DEF OtherCopies
        <4>3. latest'[w] = a
          BY <2>2, <3>3
        <4>4. ~Current(frames', k, w)
          <5>1. frames'[k + 1].kind \notin PhpKinds
            BY <2>4, <2>6 DEF PhpKinds
          <5>2. ~Current(frames', k + 1, w)
            BY <2>4, <3>2, <4>2 DEF InStep
          <5> QED
            BY ONLY <2>4, <5>1, <5>2, CurrentStep
        <4>5. IsCopy(frames', k + 1, w, 0) /\ Written(frames', k + 1, 0) = a
          BY <2>2, <2>4, <2>6, <3>3 DEF IsCopy, Written
        <4>6. Arrives(frames', k + 1, w, phpGlobal, phpTable, property[w], 0, a)
          BY ONLY <2>4, <4>2, <4>4, <4>5, ArrivesOnTop
        <4> QED
          BY <3>2, <4>2, <4>3, <4>6
      <3>4. CASE w # v
        <4>1. latest'[w] = latest[w]
          BY <2>2, <3>4
        <4>2. \A i \in k + 1..Depth : /\ ~IsCopy(frames, i, w, rubyMethod[w])
                                      /\ ~IsCopy(frames', i, w, rubyMethod[w])
          BY <1>1, <2>4, <2>6, <3>4 DEF IsCopy, v
        <4>3. Arrives(frames, k, w, phpGlobal, phpTable, property[w], rubyMethod[w], latest[w])
          BY ONLY <1>1, <2>4, <3>1, <4>2, ArrivesCut
        <4>4. Arrives(frames', k, w, phpGlobal, phpTable, property[w], rubyMethod[w], latest[w])
          BY ONLY <2>4, <2>5, <4>3, ArrivesAgree
        <4>5. Arrives(frames', Depth, w, phpGlobal, phpTable, property[w], rubyMethod[w],
                      latest[w])
          BY ONLY <1>1, <2>4, <4>2, <4>4, ArrivesCut
        <4> QED
          BY <2>4, <3>2, <4>1, <4>5
      <3> QED
        BY <3>3, <3>4
    <2> QED
      BY <2>1, <2>2, <2>4, <2>7, <2>9 DEF ArrivesInv
  <1>21. ASSUME PHPAssigns PROVE ArrivesInv'
    <2> DEFINE a == assigned + 1
               v == frames[Depth].window
    <2>1. /\ frames # <<>> /\ frames[Depth].kind \in PhpKinds /\ phpTable' = a /\ Assign(v)
          /\ contended' = contended \cup {w \in Windows \cap {v, phpGlobal} :
                                             OtherCopies(w) \/ phpGlobal # v}
          /\ UNCHANGED <<property, frames, rubyMethod>>
      BY <1>21 DEF PHPAssigns, InPhp, Innermost
    <2>2. /\ latest' \in [Windows -> Nat] /\ a # 0
          /\ \A w \in Windows : latest'[w] = IF w = v THEN a ELSE latest[w]
          /\ phpGlobal' = phpGlobal
      BY <1>17, <1>18, <2>1
    <2>3. ~InPython
      BY <2>1 DEF InPython, Innermost, PhpKinds
    <2> HIDE DEF a, v
    <2>4. ASSUME NEW w \in Windows \ contended'
          PROVE  /\ InStep(frames', Depth', w, phpGlobal')
                 /\ Arrives(frames', Depth', w, phpGlobal', phpTable', property'[w],
                            rubyMethod'[w], latest'[w])
      <3>1. CASE w = v
        <4>1. ~OtherCopies(w) /\ phpGlobal = w /\ w \notin contended /\ latest'[w] = a
          BY <2>1, <2>2, <3>1
        <4> QED
          BY <1>19, <2>1, <2>2, <2>3, <4>1
      <3>2. CASE w # v
        <4>1. latest'[w] = latest[w] /\ phpGlobal # w /\ w \notin contended
          BY <2>1, <2>2, <3>2
        <4> QED
          BY <2>1, <2>2, <4>1, ArrivesElsewhere
      <3> QED
        BY <3>1, <3>2
    <2> QED
      BY <2>2, <2>4 DEF ArrivesInv
  <1>22. ASSUME RubyAssigns PROVE ArrivesInv'
    <2> DEFINE a == assigned + 1
               v == frames[Depth].window
    <2>1. /\ frames # <<>> /\ frames[Depth].kind = "ruby" /\ Assign(v)
          /\ property' = [property EXCEPT ![rubyGlobal] = a]
          /\ contended' = contended \cup Astray(v) \cup {w \in {rubyGlobal} : OtherCopies(w)}
          /\ UNCHANGED <<phpTable, frames, rubyMethod>>
      BY <1>22 DEF RubyAssigns, InRuby, Innermost
    <2>2. /\ latest' \in [Windows -> Nat] /\ a # 0
          /\ \A w \in Windows : latest'[w] = IF w = v THEN a ELSE latest[w]
          /\ phpGlobal' = phpGlobal
      BY <1>17, <1>18, <2>1
    <2>3. ~InPhp /\ ~InPython
      BY <2>1 DEF InPhp, InPython, Innermost, PhpKinds
    <2> HIDE DEF a, v
    <2>4. ASSUME NEW w \in Windows \ contended'
          PROVE  /\ InStep(frames', Depth', w, phpGlobal')
                 /\ Arrives(frames', Depth', w, phpGlobal', phpTable', property'[w],
                            rubyMethod'[w], latest'[w])
      <3>1. CASE w \in {v, rubyGlobal}
        <4>1. ~OtherCopies(w) /\ rubyGlobal = v /\ w = v /\ w \notin contended
          BY <2>1, <3>1 DEF Astray
        <4>2. phpGlobal # w
          BY <2>3, <4>1 DEF OtherCopies
        <4>3. latest'[w] = a /\ property'[w] = a
          BY <1>2, <2>1, <2>2, <4>1
        <4> QED
          BY <1>19, <2>1, <2>2, <2>3, <4>1, <4>2, <4>3
      <3>2. CASE w \notin {v, rubyGlobal}
        <4>1. latest'[w] = latest[w] /\ property'[w] = property[w] /\ w \notin contended
          BY <1>2, <2>1, <2>2, <3>2
        <4> QED
          BY <2>1, <2>2, <4>1, ArrivesElsewhere
      <3> QED
        BY <3>1, <3>2
    <2> QED
      BY <2>2, <2>4 DEF ArrivesInv
  <1>23. ASSUME RubyDefines PROVE ArrivesInv'
    <2> DEFINE a == assigned + 1
               v == frames[Depth].window
    <2>1. /\ frames # <<>> /\ frames[Depth].kind = "ruby" /\ Assign(v)
          /\ rubyMethod' = [rubyMethod EXCEPT ![v] = a]
          /\ contended' = contended \cup {w \in {v} : OtherCopies(w)}
          /\ UNCHANGED <<property, phpTable, frames>>
      BY <1>23 DEF RubyDefines, InRuby, Innermost
    <2>2. /\ latest' \in [Windows -> Nat] /\ a # 0
          /\ \A w \in Windows : latest'[w] = IF w = v THEN a ELSE latest[w]
          /\ phpGlobal' = phpGlobal
      BY <1>17, <1>18, <2>1
    <2>3. ~InPhp /\ Depth' = Depth
      BY <2>1 DEF InPhp, Innermost, PhpKinds, Depth
    <2>4. PICK k \in Nat : k = Depth - 1 /\ k + 1 = Depth
      BY <1>1, <1>3, <2>1
    <2> HIDE DEF a
    <2>5. ASSUME NEW w \in Windows \ contended'
          PROVE  /\ InStep(frames', Depth', w, phpGlobal')
                 /\ Arrives(frames', Depth', w, phpGlobal', phpTable', property'[w],
                            rubyMethod'[w], latest'[w])
      <3>1. CASE w = v
        <4>1. ~OtherCopies(w) /\ w \notin contended
          BY <2>1, <3>1
        <4>2. /\ \A i \in 1..k : ~(frames[i].kind = "python" /\ frames[i].window = w)
              /\ phpGlobal # w
          BY <2>3, <2>4, <4>1 DEF OtherCopies
        <4>3. latest'[w] = a /\ rubyMethod'[w] = a
          BY <1>2, <2>1, <2>2, <3>1
        <4>4. ~Current(frames, k, w)
          <5>1. frames[k + 1].kind \notin PhpKinds
            BY <2>1, <2>4 DEF PhpKinds
          <5>2. ~Current(frames, k + 1, w)
            BY <1>2, <2>4, <4>1, <4>2 DEF InStep
          <5> QED
            BY ONLY <2>4, <5>1, <5>2, CurrentStep
        <4>5. IsCopy(frames, k + 1, w, a) /\ Written(frames, k + 1, a) = a
          BY <2>1, <2>2, <2>4, <3>1 DEF IsCopy, Written
        <4>6. Arrives(frames, k + 1, w, phpGlobal, phpTable, property[w], a, a)
          BY ONLY <2>4, <4>2, <4>4, <4>5, ArrivesOnTop
        <4> QED
          BY <1>2, <2>1, <2>2, <2>3, <2>4, <4>1, <4>3, <4>6
      <3>2. CASE w # v
        <4>1. latest'[w] = latest[w] /\ rubyMethod'[w] = rubyMethod[w] /\ w \notin contended
          BY <1>2, <2>1, <2>2, <3>2
        <4> QED
          BY <2>1, <2>2, <4>1, ArrivesElsewhere
      <3> QED
        BY <3>1, <3>2
    <2> QED
      BY <2>2, <2>5 DEF ArrivesInv
  <1>24. ASSUME NEW v \in Windows, WindowAssigns(v) PROVE ArrivesInv'
    <2> DEFINE a == assigned + 1
    <2>1. /\ property' = [property EXCEPT ![v] = a] /\ Assign(v)
          /\ contended' = IF \/ phpGlobal = v \/ OtherCopies(v)
                             \/ (InPython /\ Innermost.window = v)
                          THEN contended \cup {v} ELSE contended
          /\ UNCHANGED <<phpTable, frames, rubyMethod>>
      BY <1>24 DEF WindowAssigns
    <2>2. /\ latest' \in [Windows -> Nat] /\ a # 0
          /\ \A w \in Windows : latest'[w] = IF w = v THEN a ELSE latest[w]
          /\ phpGlobal' = phpGlobal
      BY <1>3, <1>17, <2>1
    <2> HIDE DEF a
    <2>3. ASSUME NEW w \in Windows \ contended'
          PROVE  /\ InStep(frames', Depth', w, phpGlobal')
                 /\ Arrives(frames', Depth', w, phpGlobal', phpTable', property'[w],
                            rubyMethod'[w], latest'[w])
      <3>1. CASE w = v
        <4>1. /\ phpGlobal # w /\ ~OtherCopies(w) /\ ~(InPython /\ Innermost.window = w)
              /\ w \notin contended
          BY <2>1, <3>1
        <4>2. latest'[w] = a /\ property'[w] = a
          BY <1>2, <2>1, <2>2, <3>1
        <4> QED
          BY <1>19, <2>1, <2>2, <4>1, <4>2
      <3>2. CASE w # v
        <4>1. latest'[w] = latest[w] /\ property'[w] = property[w] /\ w \notin contended
          BY <1>2, <2>1, <2>2, <3>2
        <4> QED
          BY <2>1, <2>2, <4>1, ArrivesElsewhere
      <3> QED
        BY <3>1, <3>2
    <2> QED
      BY <2>2, <2>3 DEF ArrivesInv
  <1>25. ASSUME NEW lang, AddScriptEvaluator(lang) \/ RemoveScriptEvaluator(lang)
         PROVE  ArrivesInv'
    BY <1>25, ArrivesAlone DEF AddScriptEvaluator, RemoveScriptEvaluator
  <1>26. ASSUME MakeMethod \/ KrollAddFunction PROVE ArrivesInv'
    BY <1>26, ArrivesAlone DEF MakeMethod, KrollAddFunction, Make
  <1>27. ASSUME FatalErrorExits PROVE ArrivesInv'
    BY <1>27, ArrivesAlone DEF FatalErrorExits
  <1>28. ASSUME UNCHANGED scriptVars PROVE ArrivesInv'
    BY <1>28, ArrivesAlone DEF scriptVars
  <1>29. CASE ScriptBegins
    BY <1>5, <1>6, <1>7, <1>16, <1>29 DEF ScriptBegins
  <1>30. CASE ScriptFails
    BY <1>11, <1>13, <1>14, <1>15, <1>27, <1>30 DEF ScriptFails, PHPEvaluateThrows, CallThrows
  <1>31. CASE ScriptRuns
    BY <1>9, <1>10, <1>12, <1>20, <1>21, <1>22, <1>23, <1>24, <1>25, <1>26, <1>31
       DEF ScriptRuns
  <1> QED
    BY <1>28, <1>29, <1>30, <1>31 DEF ScriptsNext

\* Before any script, a window has what it has.
LEMMA ArrivesInvInit == ScriptsInit => ArrivesInv
  <1> SUFFICES ASSUME ScriptsInit PROVE ArrivesInv
    OBVIOUS
  <1>1. /\ Depth = 0 /\ phpGlobal = NoWindow /\ latest = property
        /\ rubyMethod = [w \in Windows |-> 0]
        /\ property \in [Windows -> {0, 1}] /\ \A i \in 1..0 : FALSE
    BY DEF ScriptsInit, Depth
  <1>2. \A w : Copies(frames, 0, w, 0) = {}
    BY <1>1 DEF Copies
  <1>3. \A w \in Windows : InStep(frames, 0, w, NoWindow)
    BY <1>1, ScriptsAssumption DEF InStep, Current
  <1> QED
    BY <1>1, <1>2, <1>3, ScriptsAssumption DEF ArrivesInv, Arrives

\* When the outermost script has ended, the last value assigned to a window is the
\* window's, whatever scripts in three languages nested in it, Ruby's methods included
\* (KObjectPropsToDict and DictToKObjectProps around a Python script, ContextToGlobal
\* after a Ruby one, SwapGlobalObject around PHP code and in the handler of a fatal
\* error).  Not for windows of which a second copy existed at the assignment, or whose
\* copy was given up because an exception or a fatal error passed.
THEOREM ScriptWritesAreNotLost == ScriptsSpec => []ScriptWritesArrive
  <1>1. /\ StackInv /\ ValuesInv /\ ArrivesInv /\ [ScriptsNext]_scriptVars
        => (StackInv /\ ValuesInv /\ ArrivesInv)'
    BY StackInvNext, ValuesInvNext, ArrivesInvNext
  <1>2. ArrivesInv => ScriptWritesArrive
    <2> SUFFICES ASSUME ArrivesInv, frames = <<>>, NEW w \in Windows \ contended
                 PROVE  property[w] = latest[w]
      BY DEF ScriptWritesArrive
    <2>1. Depth = 0 /\ \A i \in 1..0 : FALSE
      BY DEF Depth
    <2>2. InStep(frames, 0, w, phpGlobal)
      BY <2>1 DEF ArrivesInv
    <2>3. phpGlobal # w
      BY <2>1, <2>2 DEF InStep, Current
    <2>4. Copies(frames, 0, w, rubyMethod[w]) = {}
      BY <2>1 DEF Copies
    <2> QED
      BY <2>1, <2>3, <2>4 DEF ArrivesInv, Arrives
  <1> QED
    BY ScriptsInvInit, ArrivesInvInit, <1>1, <1>2, PTL DEF ScriptsSpec

-----------------------------------------------------------------------------
(* Named properties.                                                        *)

OpRecords == [at : {"idle", "walk", "set", "assign"}, scope : Objects \cup {Undefined},
              path : Seq(Tokens), value : PropertyValues, binding : PropertyValues,
              plain : BOOLEAN, alone : BOOLEAN]

\* A thread in SetNS has a scope, tokens left and a value; what Set binds in the
\* middle of a name is an object, and Set assigns inside the scope's mutex.
ThreadInv(t) ==
    /\ op[t].at # "idle" => /\ op[t].scope \in Objects
                            /\ op[t].path # <<>>
                            /\ op[t].value \in Bindable
    /\ op[t].at \in {"set", "assign"} =>
         /\ op[t].binding # Undefined
         /\ Tail(op[t].path) # <<>> => op[t].binding \in Created
    /\ op[t].at = "assign" => mutex[op[t].scope] = t

\* A mutex is held by a thread between the two halves of Set on that object.
MutexInv ==
    \A o \in Objects : mutex[o] # Undefined =>
        op[mutex[o]].at = "assign" /\ op[mutex[o]].scope = o

\* A property that was set is missing only while its object's mutex is held by
\* the thread that is replacing it.
ErasedInv ==
    \A o \in Objects, n \in Tokens :
        <<o, n>> \in everSet /\ props[o][n] = Undefined =>
            mutex[o] # Undefined /\ Head(op[mutex[o]].path) = n

ObjectTypes ==
    /\ props \in [Objects -> [Tokens -> PropertyValues]]
    /\ made \subseteq Created
    /\ mutex \in [Objects -> Threads \cup {Undefined}]
    /\ op \in [Threads -> OpRecords]
    /\ writes \in 0..MaxWrites
    /\ wrecked \in BOOLEAN
    /\ last \in [path : Seq(Tokens), value : PropertyValues, plain : BOOLEAN]

ObjectInv ==
    /\ ObjectTypes
    /\ \A t \in Threads : ThreadInv(t)
    /\ MutexInv
    /\ ErasedInv
    /\ missed = FALSE

\* What a step leaves alone of a thread's SetNS.
Undisturbed(t) ==
    /\ op'[t].at = op[t].at /\ op'[t].scope = op[t].scope /\ op'[t].path = op[t].path
    /\ op'[t].value = op[t].value /\ op'[t].binding = op[t].binding

\* A thread outside every operation.
LEMMA IdleTyped ==
    /\ Idle \in OpRecords
    /\ Idle.at = "idle"
  BY DEF Idle, OpRecords, PropertyValues

\* Initially no thread is inside an operation.
LEMMA ObjectInvInit == BoundObjectsInit => ObjectInv
  <1> SUFFICES ASSUME BoundObjectsInit PROVE ObjectInv
    OBVIOUS
  <1>1. /\ props = [o \in Objects |-> [n \in Tokens |->
                      IF o = Global /\ n = ApiName THEN Api ELSE Undefined]]
        /\ made = {} /\ mutex = [o \in Objects |-> Undefined]
        /\ op = [t \in Threads |-> Idle] /\ writes = 0 /\ wrecked = FALSE
        /\ everSet = {<<Global, ApiName>>} /\ missed = FALSE
        /\ last = [path |-> <<>>, value |-> Undefined, plain |-> FALSE]
    BY DEF BoundObjectsInit
  <1>2. ObjectTypes
    <2>1. props \in [Objects -> [Tokens -> PropertyValues]]
      BY <1>1 DEF PropertyValues, Objects
    <2>2. op \in [Threads -> OpRecords]
      BY <1>1, IdleTyped
    <2>3. last \in [path : Seq(Tokens), value : PropertyValues, plain : BOOLEAN]
      BY <1>1 DEF PropertyValues
    <2>4. writes \in 0..MaxWrites /\ mutex \in [Objects -> Threads \cup {Undefined}]
      BY <1>1, BoundObjectsAssumption
    <2> QED
      BY <1>1, <2>1, <2>2, <2>3, <2>4 DEF ObjectTypes
  <1>3. \A t \in Threads : op[t].at = "idle"
    BY <1>1, IdleTyped
  <1>4. \A t \in Threads : ThreadInv(t)
    BY <1>3 DEF ThreadInv
  <1>5. MutexInv
    BY <1>1 DEF MutexInv
  <1>6. props[Global][ApiName] = Api /\ Api # Undefined
    BY <1>1, BoundObjectsAssumption DEF Objects
  <1>7. ErasedInv
    BY <1>1, <1>6 DEF ErasedInv
  <1> QED
    BY <1>1, <1>2, <1>4, <1>5, <1>7 DEF ObjectInv

\* A step of one thread outside any mutex.
LEMMA WalkStep ==
    ASSUME ObjectInv, NEW t \in Threads, UNCHANGED <<props, mutex, everSet>>,
           \A u \in Threads \ {t} : Undisturbed(u),
           op[t].at # "assign", op'[t].at # "assign", ThreadInv(t)'
    PROVE  /\ \A u \in Threads : ThreadInv(u)'
           /\ MutexInv'
           /\ ErasedInv'
  <1>1. /\ \A u \in Threads : ThreadInv(u)
        /\ MutexInv /\ ErasedInv /\ mutex \in [Objects -> Threads \cup {Undefined}]
    BY DEF ObjectInv, ObjectTypes
  <1>2. mutex' = mutex /\ props' = props /\ everSet' = everSet
    OBVIOUS
  <1>3. ASSUME NEW u \in Threads PROVE ThreadInv(u)'
    <2>1. CASE u # t
      <3>1. Undisturbed(u) /\ ThreadInv(u)
        BY <1>1, <2>1
      <3> QED
        BY <1>2, <3>1 DEF ThreadInv, Undisturbed
    <2> QED
      BY <2>1
  <1>4. ASSUME NEW o \in Objects, mutex[o] # Undefined
        PROVE  mutex[o] \in Threads \ {t} /\ Undisturbed(mutex[o])
    <2>1. mutex[o] \in Threads /\ op[mutex[o]].at = "assign"
      BY <1>1, <1>4 DEF MutexInv
    <2> QED
      BY <2>1
  <1>5. MutexInv'
    BY <1>1, <1>2, <1>4 DEF MutexInv, Undisturbed
  <1>6. ErasedInv'
    BY <1>1, <1>2, <1>4 DEF ErasedInv, Undisturbed
  <1> QED
    BY <1>3, <1>5, <1>6

\* Telling every thread that somebody wrote disturbs none of them.
LEMMA DisturbedKeeps ==
    ASSUME op \in [Threads -> OpRecords]
    PROVE  /\ Disturbed \in [Threads -> OpRecords]
           /\ \A u \in Threads :
                /\ Disturbed[u].at = op[u].at /\ Disturbed[u].scope = op[u].scope
                /\ Disturbed[u].path = op[u].path /\ Disturbed[u].value = op[u].value
                /\ Disturbed[u].binding = op[u].binding
  <1>1. ASSUME NEW r \in OpRecords, NEW s, s = [r EXCEPT !.alone = FALSE]
        PROVE  /\ s \in OpRecords
               /\ s.at = r.at /\ s.scope = r.scope /\ s.path = r.path /\ s.value = r.value
               /\ s.binding = r.binding
    BY <1>1 DEF OpRecords
  <1>2. /\ Disturbed = [t \in Threads |-> [op[t] EXCEPT !.alone = FALSE]]
        /\ \A u \in Threads : op[u] \in OpRecords
    BY DEF Disturbed
  <1> QED
    BY <1>1, <1>2

\* A name is a sequence of tokens, and so is what SetNS makes of it.
LEMMA NamesTokenized ==
    ASSUME NEW name \in Keys
    PROVE  name \in Seq(Tokens) /\ name # <<>> /\ Tokenize(name) \in Seq(Tokens)
  <1>1. name \in Seq(Tokens) /\ name # <<>>
    BY BoundObjectsAssumption
  <1>2. Without(name, {Empty}) \in Seq(Tokens)
    BY <1>1, WithoutElems
  <1> QED
    BY <1>1, <1>2 DEF Tokenize

\* A property that is set is never missing outside the mutex of its object.
LEMMA ObjectInvNext == ObjectInv /\ [BoundObjectsNext]_objectVars => ObjectInv'
  <1> SUFFICES ASSUME ObjectInv, [BoundObjectsNext]_objectVars
               PROVE  ObjectInv'
    OBVIOUS
  <1>1. /\ props \in [Objects -> [Tokens -> PropertyValues]] /\ made \subseteq Created
        /\ mutex \in [Objects -> Threads \cup {Undefined}] /\ op \in [Threads -> OpRecords]
        /\ writes \in 0..MaxWrites /\ wrecked \in BOOLEAN
        /\ last \in [path : Seq(Tokens), value : PropertyValues, plain : BOOLEAN]
        /\ missed = FALSE /\ MutexInv /\ ErasedInv
        /\ \A u \in Threads : ThreadInv(u) /\ op[u] \in OpRecords
    BY DEF ObjectInv, ObjectTypes
  <1>2. /\ Undefined \notin Threads \cup Objects \cup {Primitive} /\ Primitive \notin Objects
        /\ Bindable \subseteq PropertyValues /\ Objects \subseteq PropertyValues
        /\ Created \subseteq Objects /\ Undefined \notin Bindable
        /\ Undefined \in PropertyValues
    BY BoundObjectsAssumption DEF Objects, Bindable, PropertyValues
  \* A step that only one thread takes, outside any mutex, and its new record.
  <1>3. ASSUME NEW t \in Threads, NEW r \in OpRecords,
               op[t].at # "assign", r.at \in {"idle", "walk", "set"},
               op' \in [Threads -> OpRecords], op'[t] = r,
               \A u \in Threads \ {t} : Undisturbed(u),
               r.at # "idle" => r.scope \in Objects /\ r.path # <<>> /\ r.value \in Bindable,
               r.at = "set" => /\ r.binding # Undefined
                               /\ Tail(r.path) # <<>> => r.binding \in Created,
               UNCHANGED <<props, mutex, everSet, missed, wrecked>>,
               made' \subseteq Created, writes' \in 0..MaxWrites,
               last' \in [path : Seq(Tokens), value : PropertyValues, plain : BOOLEAN]
        PROVE  ObjectInv'
    <2>1. ThreadInv(t)' /\ op'[t].at # "assign"
      BY <1>3 DEF ThreadInv
    <2>2. (\A u \in Threads : ThreadInv(u)') /\ MutexInv' /\ ErasedInv'
      BY <1>3, <2>1, WalkStep
    <2>3. ObjectTypes'
      BY <1>1, <1>3 DEF ObjectTypes
    <2> QED
      BY <1>1, <1>3, <2>2, <2>3 DEF ObjectInv
  \* The record of one thread changed, the others as they were.
  <1>4. ASSUME NEW t \in Threads, NEW r \in OpRecords, op' = [op EXCEPT ![t] = r]
        PROVE  /\ op' \in [Threads -> OpRecords] /\ op'[t] = r
               /\ \A u \in Threads \ {t} : op'[u] = op[u] /\ Undisturbed(u)
    BY <1>1, <1>4 DEF Undisturbed
  \* What a walking thread knows.
  <1>5. ASSUME NEW t \in Threads, op[t].at # "idle"
        PROVE  /\ op[t].scope \in Objects /\ op[t].path \in Seq(Tokens) /\ op[t].path # <<>>
               /\ Head(op[t].path) \in Tokens /\ Tail(op[t].path) \in Seq(Tokens)
               /\ op[t].value \in Bindable
               /\ (Len(op[t].path) > 1) = (Tail(op[t].path) # <<>>)
    <2>1. /\ op[t].scope \in Objects /\ op[t].path \in Seq(Tokens) /\ op[t].path # <<>>
          /\ op[t].value \in Bindable
      BY <1>1, <1>5 DEF ThreadInv, OpRecords
    <2>2. Head(op[t].path) \in Tokens /\ Tail(op[t].path) \in Seq(Tokens)
      BY <2>1
    <2>3. (Len(op[t].path) > 1) = (Tail(op[t].path) # <<>>)
      <3>1. ASSUME NEW p \in Seq(Tokens), p # <<>> PROVE (Len(p) > 1) = (Tail(p) # <<>>)
        <4>1. Len(Tail(p)) = Len(p) - 1 /\ Tail(p) \in Seq(Tokens) /\ Len(p) \in Nat /\ Len(p) >= 1
          BY <3>1
        <4>2. CASE Tail(p) = <<>>
          BY <4>1, <4>2
        <4>3. CASE Tail(p) # <<>>
          <5>1. Len(Tail(p)) # 0
            BY <4>1, <4>3
          <5> QED
            BY <4>1, <4>3, <5>1
        <4> QED
          BY <4>2, <4>3
      <3> QED
        BY <2>1, <3>1
    <2> QED
      BY <2>1, <2>2, <2>3
  <1>6. ASSUME NEW t \in Threads, NEW name \in Keys, NEW v \in Bindable, APISet(t, name, v)
        PROVE  ObjectInv'
    <2>1. /\ op[t].at = "idle" /\ writes < MaxWrites /\ writes' = writes + 1
          /\ Tokenize(name) # <<>>
          /\ last' = [path |-> name, value |-> v, plain |-> FALSE]
          /\ UNCHANGED <<props, made, mutex, wrecked, everSet, missed>>
      BY <1>6 DEF APISet
    <2>2. PICK alone : alone = \A u \in Threads : op[u].at = "idle"
      OBVIOUS
    <2>3. alone \in BOOLEAN
      BY <2>2
    <2>4. PICK plain \in BOOLEAN : plain = (Tokenize(name) = name)
      OBVIOUS
    <2>5. PICK r : r = [Idle EXCEPT !.at = "walk", !.scope = StartOf(name),
                                    !.path = Tokenize(name), !.value = v,
                                    !.plain = plain, !.alone = alone]
      OBVIOUS
    <2>6. /\ name \in Seq(Tokens) /\ StartOf(name) \in Objects
          /\ Tokenize(name) \in Seq(Tokens)
      BY NamesTokenized DEF StartOf, Objects
    <2>7. /\ r.at = "walk" /\ r.scope = StartOf(name) /\ r.path = Tokenize(name) /\ r.value = v
          /\ r \in OpRecords
      BY <1>2, <2>3, <2>4, <2>5, <2>6 DEF Idle, OpRecords
    <2>8. op' = [Disturbed EXCEPT ![t] = r]
      BY <1>6, <2>2, <2>4, <2>5, Zenon DEF APISet
    <2>9. op' \in [Threads -> OpRecords] /\ op'[t] = r
      BY <1>1, <2>7, <2>8, DisturbedKeeps
    <2>10. \A u \in Threads \ {t} : op'[u] = Disturbed[u]
      BY <1>1, <2>8, DisturbedKeeps
    <2>11. \A u \in Threads \ {t} : Undisturbed(u)
      BY <1>1, <2>10, DisturbedKeeps DEF Undisturbed
    <2>12. /\ writes' \in 0..MaxWrites
           /\ last' \in [path : Seq(Tokens), value : PropertyValues, plain : BOOLEAN]
      BY <1>1, <1>2, <2>1, <2>6, BoundObjectsAssumption
    <2>13. /\ made' \subseteq Created /\ r.at \in {"idle", "walk", "set"} /\ op[t].at # "assign"
           /\ r.at # "set"
      BY <1>1, <2>1, <2>7
    <2>14. r.scope \in Objects /\ r.path # <<>> /\ r.value \in Bindable
      BY <2>1, <2>6, <2>7
    <2> QED
      BY <1>3, <2>1, <2>7, <2>9, <2>11, <2>12, <2>13, <2>14
  <1>7. ASSUME NEW t \in Threads, StepInto(t) PROVE ObjectInv'
    <2>1. /\ op[t].at = "walk" /\ Len(op[t].path) > 1
          /\ UNCHANGED <<props, made, mutex, writes, wrecked, everSet, missed, last>>
      BY <1>7 DEF StepInto, Walks
    <2>2. PICK v \in Objects :
             op' = [op EXCEPT ![t].scope = v, ![t].path = Tail(@),
                              ![t].plain = @ /\ IsObject(v) /\ ~Called(t)]
      BY <1>7 DEF StepInto, IsKObject
    <2>3. op[t] \in OpRecords /\ Tail(op[t].path) \in Seq(Tokens) /\ Tail(op[t].path) # <<>>
          /\ op[t].value \in Bindable
      BY <1>1, <1>5, <2>1
    <2>4. PICK b \in BOOLEAN : b = (op[t].plain /\ IsObject(v) /\ ~Called(t))
      OBVIOUS
    <2>5. PICK r : r = [op[t] EXCEPT !.scope = v, !.path = Tail(op[t].path), !.plain = b]
      OBVIOUS
    <2>6. op' = [op EXCEPT ![t] = r]
      BY <2>2, <2>4, <2>5
    <2>7. /\ r \in OpRecords /\ r.at = "walk" /\ r.scope = v /\ r.path = Tail(op[t].path)
          /\ r.value = op[t].value
      BY <2>1, <2>3, <2>5 DEF OpRecords
    <2>8. r.at \in {"idle", "walk", "set"} /\ op[t].at # "assign" /\ r.at # "set"
      BY <2>1, <2>7
    <2> QED
      BY <1>1, <1>3, <1>4, <2>1, <2>3, <2>6, <2>7, <2>8
  <1>8. ASSUME NEW t \in Threads, RefuseNamespace(t) PROVE ObjectInv'
    <2>1. /\ op[t].at = "walk" /\ op' = [op EXCEPT ![t] = Idle]
          /\ UNCHANGED <<props, made, mutex, writes, wrecked, everSet, missed, last>>
      BY <1>8 DEF RefuseNamespace, Walks
    <2>2. Idle \in OpRecords /\ Idle.at = "idle" /\ op[t].at # "assign"
      BY <2>1, IdleTyped
    <2> QED
      BY <1>1, <1>3, <1>4, <2>1, <2>2
  <1>9. ASSUME NEW t \in Threads, CreateNamespace(t) PROVE ObjectInv'
    <2>1. /\ op[t].at = "walk" /\ made # Created
          /\ UNCHANGED <<props, mutex, writes, wrecked, everSet, missed, last>>
      BY <1>9 DEF CreateNamespace, Walks
    <2>2. PICK next : next = CHOOSE o \in Created : o \notin made
      OBVIOUS
    <2>3. PICK b \in BOOLEAN : b = (op[t].plain /\ ~Called(t))
      OBVIOUS
    <2>4. next \in Created
      BY <1>1, <2>1, <2>2
    <2>5. PICK r : r = [op[t] EXCEPT !.at = "set", !.binding = next, !.plain = b]
      OBVIOUS
    <2>6. made' = made \cup {next} /\ op' = [op EXCEPT ![t] = r]
      <3>1. /\ made' = made \cup {next}
            /\ op' = [op EXCEPT ![t].at = "set", ![t].binding = next,
                                ![t].plain = @ /\ ~Called(t)]
        BY <1>9, <2>2, Zenon DEF CreateNamespace
      <3> QED
        BY <2>3, <2>5, <3>1
    <2>7. next \in PropertyValues /\ next # Undefined
      BY <1>2, <2>4
    <2>8. /\ r \in OpRecords /\ r.at = "set" /\ r.binding = next /\ r.scope = op[t].scope
          /\ r.path = op[t].path /\ r.value = op[t].value
      BY <1>1, <2>5, <2>7 DEF OpRecords
    <2>9. r.at \in {"idle", "walk", "set"} /\ op[t].at # "assign" /\ op[t].at # "idle"
      BY <2>1, <2>8
    <2>10. r.scope \in Objects /\ r.path # <<>> /\ r.value \in Bindable
      BY <1>5, <2>8, <2>9
    <2>11. made' \subseteq Created
      BY <1>1, <2>4, <2>6
    <2> QED
      BY <1>1, <1>3, <1>4, <2>1, <2>4, <2>6, <2>7, <2>8, <2>9, <2>10, <2>11
  <1>10. ASSUME NEW t \in Threads, BindValue(t) PROVE ObjectInv'
    <2>1. /\ op[t].at = "walk" /\ Len(op[t].path) = 1
          /\ UNCHANGED <<props, made, mutex, writes, wrecked, everSet, missed, last>>
      BY <1>10 DEF BindValue, Walks
    <2> PICK b \in BOOLEAN : b = (op[t].plain /\ ~Called(t))
      OBVIOUS
    <2>2. PICK r : r = [op[t] EXCEPT !.at = "set", !.binding = op[t].value, !.plain = b]
      OBVIOUS
    <2>3. op' = [op EXCEPT ![t] = r]
      BY <1>10, <2>2 DEF BindValue
    <2>4. op[t].value \in Bindable /\ op[t].value # Undefined /\ op[t].value \in PropertyValues
      BY <1>2, <1>5, <2>1
    <2>5. /\ r \in OpRecords /\ r.at = "set" /\ r.binding = op[t].value
          /\ r.scope = op[t].scope /\ r.path = op[t].path /\ r.value = op[t].value
      BY <1>1, <2>2, <2>4 DEF OpRecords
    <2>6. r.at \in {"idle", "walk", "set"} /\ op[t].at # "assign" /\ op[t].at # "idle"
      BY <2>1, <2>5
    <2>7. Tail(r.path) = <<>>
      <3>1. ~ (Len(op[t].path) > 1)
        BY <2>1
      <3> QED
        BY <1>5, <2>5, <2>6, <3>1
    <2>8. r.scope \in Objects /\ r.path # <<>> /\ r.value \in Bindable
      BY <1>5, <2>5, <2>6
    <2> QED
      BY <1>1, <1>3, <1>4, <2>1, <2>3, <2>4, <2>5, <2>6, <2>7, <2>8
  <1>11. ASSUME NEW t \in Threads, SetErase(t) PROVE ObjectInv'
    <2>1. PICK o : o = op[t].scope
      OBVIOUS
    <2>2. PICK n : n = Head(op[t].path)
      OBVIOUS
    <2>3. PICK r : r = [op[t] EXCEPT !.at = "assign"]
      OBVIOUS
    <2>4. /\ op[t].at = "set" /\ mutex[o] = Undefined /\ mutex' = [mutex EXCEPT ![o] = t]
          /\ props' = [props EXCEPT ![o][n] = Undefined] /\ op' = [op EXCEPT ![t] = r]
          /\ UNCHANGED <<made, writes, wrecked, everSet, missed, last>>
      BY <1>11, <2>1, <2>2, <2>3 DEF SetErase
    <2>5. o \in Objects /\ n \in Tokens
      BY <1>5, <2>1, <2>2, <2>4
    <2>6. /\ r \in OpRecords /\ r.at = "assign" /\ r.scope = o /\ r.path = op[t].path
          /\ r.value = op[t].value /\ r.binding = op[t].binding
      BY <1>1, <2>1, <2>3 DEF OpRecords
    <2>7. /\ op' \in [Threads -> OpRecords] /\ op'[t] = r
          /\ \A u \in Threads \ {t} : op'[u] = op[u]
      BY <1>4, <2>4, <2>6
    <2>8. /\ mutex' \in [Objects -> Threads \cup {Undefined}] /\ mutex'[o] = t
          /\ \A q \in Objects \ {o} : mutex'[q] = mutex[q]
      BY <1>1, <2>4, <2>5
    <2>9. /\ props' \in [Objects -> [Tokens -> PropertyValues]]
          /\ \A q \in Objects, m \in Tokens :
                q # o \/ m # n => props'[q][m] = props[q][m]
      BY <1>1, <1>2, <2>4, <2>5
    \* Nobody else is inside this mutex, and this thread is inside no other.
    <2>10. \A u \in Threads : op[u].at = "assign" => op[u].scope \in Objects \ {o}
      BY <1>1, <1>2, <2>4 DEF ThreadInv
    <2>11. \A q \in Objects : mutex[q] # Undefined => mutex[q] \in Threads \ {t} /\ q # o
      BY <1>1, <2>4 DEF MutexInv
    <2>12. ASSUME NEW u \in Threads PROVE ThreadInv(u)'
      <3>1. ThreadInv(u) /\ ThreadInv(t)
        BY <1>1
      <3>2. CASE u = t
        BY <2>4, <2>5, <2>6, <2>7, <2>8, <3>1, <3>2 DEF ThreadInv
      <3>3. CASE u # t
        <4>1. op'[u] = op[u]
          BY <2>7, <3>3
        <4>2. op[u].at = "assign" => mutex'[op[u].scope] = mutex[op[u].scope]
          BY <2>8, <2>10
        <4> QED
          BY <3>1, <4>1, <4>2 DEF ThreadInv
      <3> QED
        BY <3>2, <3>3
    <2>13. MutexInv'
      <3>1. ASSUME NEW q \in Objects, mutex'[q] # Undefined
            PROVE  op'[mutex'[q]].at = "assign" /\ op'[mutex'[q]].scope = q
        <4>1. CASE q = o
          BY <2>6, <2>7, <2>8, <4>1
        <4>2. CASE q # o
          <5>1. mutex'[q] = mutex[q] /\ op'[mutex[q]] = op[mutex[q]]
            BY <2>7, <2>8, <2>11, <3>1, <4>2
          <5> QED
            BY <1>1, <3>1, <5>1 DEF MutexInv
        <4> QED
          BY <4>1, <4>2
      <3> QED
        BY <3>1 DEF MutexInv
    <2>14. ErasedInv'
      <3>1. ASSUME NEW q \in Objects, NEW m \in Tokens, <<q, m>> \in everSet,
                   props'[q][m] = Undefined
            PROVE  mutex'[q] # Undefined /\ Head(op'[mutex'[q]].path) = m
        <4>1. CASE q = o /\ m = n
          BY <1>2, <2>2, <2>6, <2>7, <2>8, <4>1
        <4>2. CASE ~ (q = o /\ m = n)
          <5>1. props[q][m] = Undefined
            BY <2>9, <3>1, <4>2
          <5>2. mutex[q] # Undefined /\ Head(op[mutex[q]].path) = m
            BY <1>1, <3>1, <5>1 DEF ErasedInv
          <5>3. mutex'[q] = mutex[q] /\ op'[mutex[q]] = op[mutex[q]]
            BY <2>7, <2>8, <2>11, <5>2
          <5> QED
            BY <5>2, <5>3
        <4> QED
          BY <4>1, <4>2
      <3>2. everSet' = everSet
        BY <2>4
      <3> QED
        BY <3>1, <3>2 DEF ErasedInv
    <2>15. ObjectTypes'
      BY <1>1, <2>4, <2>7, <2>8, <2>9 DEF ObjectTypes
    <2> QED
      BY <1>1, <2>4, <2>12, <2>13, <2>14, <2>15 DEF ObjectInv
  <1>12. ASSUME NEW t \in Threads, SetAssign(t) PROVE ObjectInv'
    <2>1. PICK o : o = op[t].scope
      OBVIOUS
    <2>2. PICK n : n = Head(op[t].path)
      OBVIOUS
    <2>3. PICK v : v = op[t].binding
      OBVIOUS
    <2>4. /\ op[t].at = "assign" /\ mutex' = [mutex EXCEPT ![o] = Undefined]
          /\ props' = [props EXCEPT ![o][n] = v] /\ everSet' = everSet \cup {<<o, n>>}
          /\ UNCHANGED <<made, writes, wrecked, missed>>
      BY <1>12, <2>1, <2>2, <2>3 DEF SetAssign
    <2>5. /\ o \in Objects /\ n \in Tokens /\ v \in PropertyValues /\ v # Undefined
          /\ Tail(op[t].path) # <<>> => v \in Created
          /\ mutex[o] = t
      <3>1. op[t].binding \in PropertyValues
        BY <1>1 DEF OpRecords
      <3> QED
        BY <1>1, <1>5, <2>1, <2>2, <2>3, <2>4, <3>1 DEF ThreadInv
    \* The thread goes on in the object it bound, or is done.
    <2>6. \E r \in OpRecords :
            /\ op' = [op EXCEPT ![t] = r] /\ r.at \in {"idle", "walk"}
            /\ r.at # "idle" => r.scope \in Objects /\ r.path # <<>> /\ r.value \in Bindable
      <3>1. CASE Tail(op[t].path) # <<>>
        <4>1. op' = [op EXCEPT ![t].at = "walk", ![t].scope = v, ![t].path = Tail(op[t].path)]
          BY <1>12, <2>3, <3>1 DEF SetAssign
        <4>2. PICK r : r = [op[t] EXCEPT !.at = "walk", !.scope = v, !.path = Tail(op[t].path)]
          OBVIOUS
        <4>3. v \in Objects /\ Tail(op[t].path) \in Seq(Tokens) /\ op[t].value \in Bindable
          BY <1>2, <1>5, <2>4, <2>5, <3>1
        <4>4. /\ r \in OpRecords /\ r.at = "walk" /\ r.scope = v /\ r.path = Tail(op[t].path)
              /\ r.value = op[t].value
          BY <1>1, <4>2, <4>3 DEF OpRecords
        <4>5. op' = [op EXCEPT ![t] = r]
          BY <4>1, <4>2
        <4> QED
          BY <3>1, <4>3, <4>4, <4>5
      <3>2. CASE Tail(op[t].path) = <<>>
        <4>1. op' = [op EXCEPT ![t] = Idle]
          BY <1>12, <3>2 DEF SetAssign
        <4> QED
          BY <4>1, IdleTyped
      <3> QED
        BY <3>1, <3>2
    <2>7. PICK r \in OpRecords :
            /\ op' = [op EXCEPT ![t] = r] /\ r.at \in {"idle", "walk"}
            /\ r.at # "idle" => r.scope \in Objects /\ r.path # <<>> /\ r.value \in Bindable
      BY <2>6
    <2>8. /\ op' \in [Threads -> OpRecords] /\ op'[t] = r
          /\ \A u \in Threads \ {t} : op'[u] = op[u]
      BY <1>4, <2>7
    <2>9. /\ mutex' \in [Objects -> Threads \cup {Undefined}] /\ mutex'[o] = Undefined
          /\ \A q \in Objects \ {o} : mutex'[q] = mutex[q]
      BY <1>1, <2>4, <2>5
    <2>10. /\ props' \in [Objects -> [Tokens -> PropertyValues]] /\ props'[o][n] = v
           /\ \A q \in Objects, m \in Tokens :
                q # o \/ m # n => props'[q][m] = props[q][m]
      BY <1>1, <1>2, <2>4, <2>5
    <2>11. \A u \in Threads \ {t} : op[u].at = "assign" => op[u].scope \in Objects \ {o}
      BY <1>1, <2>5 DEF ThreadInv
    <2>12. \A q \in Objects \ {o} : mutex[q] # Undefined => mutex[q] \in Threads \ {t}
      BY <1>1, <2>1 DEF MutexInv
    <2>13. ASSUME NEW u \in Threads PROVE ThreadInv(u)'
      <3>1. CASE u = t
        <4>1. op'[u].at \notin {"set", "assign"} /\ op'[u] = r
          BY <2>7, <2>8, <3>1
        <4> QED
          BY <2>7, <4>1 DEF ThreadInv
      <3>2. CASE u # t
        <4>1. op'[u] = op[u] /\ ThreadInv(u)
          BY <1>1, <2>8, <3>2
        <4>2. op[u].at = "assign" => mutex'[op[u].scope] = mutex[op[u].scope]
          BY <2>9, <2>11, <3>2
        <4> QED
          BY <4>1, <4>2 DEF ThreadInv
      <3> QED
        BY <3>1, <3>2
    <2>14. MutexInv'
      <3>1. ASSUME NEW q \in Objects, mutex'[q] # Undefined
            PROVE  op'[mutex'[q]].at = "assign" /\ op'[mutex'[q]].scope = q
        <4>1. q # o
          BY <2>9, <3>1
        <4>2. mutex'[q] = mutex[q] /\ op'[mutex[q]] = op[mutex[q]]
          BY <2>8, <2>9, <2>12, <3>1, <4>1
        <4> QED
          BY <1>1, <3>1, <4>2 DEF MutexInv
      <3> QED
        BY <3>1 DEF MutexInv
    <2>15. ErasedInv'
      <3>1. ASSUME NEW q \in Objects, NEW m \in Tokens, <<q, m>> \in everSet',
                   props'[q][m] = Undefined
            PROVE  mutex'[q] # Undefined /\ Head(op'[mutex'[q]].path) = m
        <4>1. ~ (q = o /\ m = n)
          BY <2>5, <2>10, <3>1
        <4>2. <<q, m>> \in everSet /\ props[q][m] = Undefined
          BY <2>4, <2>10, <3>1, <4>1
        <4>3. mutex[q] # Undefined /\ Head(op[mutex[q]].path) = m
          BY <1>1, <4>2 DEF ErasedInv
        <4>4. q # o
          BY <2>2, <2>5, <4>1, <4>3
        <4>5. mutex'[q] = mutex[q] /\ op'[mutex[q]] = op[mutex[q]]
          BY <2>8, <2>9, <2>12, <4>3, <4>4
        <4> QED
          BY <4>3, <4>5
      <3> QED
        BY <3>1 DEF ErasedInv
    <2>16. last' \in [path : Seq(Tokens), value : PropertyValues, plain : BOOLEAN]
      <3>1. last' = last \/ last' = [last EXCEPT !.plain = op[t].plain /\ op[t].alone]
        BY <1>12 DEF SetAssign
      <3>2. PICK b : b = (op[t].plain /\ op[t].alone)
        OBVIOUS
      <3>3. b \in BOOLEAN
        BY <3>2
      <3>4. last' = last \/ last' = [last EXCEPT !.plain = b]
        BY <3>1, <3>2, Zenon
      <3> QED
        BY <1>1, <3>3, <3>4
    <2>17. ObjectTypes'
      BY <1>1, <2>4, <2>8, <2>9, <2>10, <2>16 DEF ObjectTypes
    <2> QED
      BY <1>1, <2>4, <2>13, <2>14, <2>15, <2>17 DEF ObjectInv
  <1>13. ASSUME NEW o \in Objects, NEW n \in Tokens, ReadProperty(o, n) PROVE ObjectInv'
    <2>1. /\ <<o, n>> \in everSet /\ mutex[o] = Undefined
          /\ missed' = (missed \/ props[o][n] = Undefined)
          /\ UNCHANGED <<props, made, mutex, op, writes, wrecked, everSet, last>>
      BY <1>13 DEF ReadProperty
    <2>2. props[o][n] # Undefined
      BY <1>1, <2>1 DEF ErasedInv
    <2>3. missed' = FALSE
      BY <1>1, <2>1, <2>2
    <2> QED
      BY <1>1, <2>1, <2>3 DEF ObjectInv, ObjectTypes, ThreadInv, MutexInv, ErasedInv
  <1>14. ASSUME NEW o \in Objects, NEW n \in Tokens, UnSet(o, n) PROVE ObjectInv'
    <2>1. /\ mutex[o] = Undefined /\ props' = [props EXCEPT ![o][n] = Undefined]
          /\ everSet' = everSet \ {<<o, n>>} /\ op' = Disturbed
          /\ last' = [last EXCEPT !.plain = FALSE]
          /\ UNCHANGED <<made, mutex, writes, wrecked, missed>>
      BY <1>14 DEF UnSet
    <2>2. op' \in [Threads -> OpRecords] /\ \A u \in Threads : Undisturbed(u)
      BY <1>1, <2>1, DisturbedKeeps DEF Undisturbed
    <2>3. /\ props' \in [Objects -> [Tokens -> PropertyValues]]
          /\ \A q \in Objects, m \in Tokens :
                q # o \/ m # n => props'[q][m] = props[q][m]
      BY <1>1, <1>2, <2>1
    <2>4. ASSUME NEW u \in Threads PROVE ThreadInv(u)'
      <3>1. ThreadInv(u) /\ Undisturbed(u) /\ mutex' = mutex
        BY <1>1, <2>1, <2>2
      <3> QED
        BY <3>1 DEF ThreadInv, Undisturbed
    <2>5. \A q \in Objects : mutex[q] # Undefined => mutex[q] \in Threads /\ Undisturbed(mutex[q])
      BY <1>1, <2>2
    <2>6. MutexInv'
      BY <1>1, <2>1, <2>5 DEF MutexInv, Undisturbed
    <2>7. ErasedInv'
      <3>1. ASSUME NEW q \in Objects, NEW m \in Tokens, <<q, m>> \in everSet',
                   props'[q][m] = Undefined
            PROVE  mutex'[q] # Undefined /\ Head(op'[mutex'[q]].path) = m
        <4>1. <<q, m>> \in everSet /\ props[q][m] = Undefined
          BY <2>1, <2>3, <3>1
        <4>2. mutex[q] # Undefined /\ Head(op[mutex[q]].path) = m
          BY <1>1, <4>1 DEF ErasedInv
        <4> QED
          BY <2>1, <2>5, <4>2 DEF Undisturbed
      <3> QED
        BY <3>1 DEF ErasedInv
    <2>8. last' \in [path : Seq(Tokens), value : PropertyValues, plain : BOOLEAN]
      BY <1>1, <2>1
    <2>9. ObjectTypes'
      BY <1>1, <2>1, <2>2, <2>3, <2>8 DEF ObjectTypes
    <2> QED
      BY <1>1, <2>1, <2>4, <2>6, <2>7, <2>9 DEF ObjectInv
  <1>15. ASSUME UNCHANGED <<props, made, mutex, op, writes, everSet, missed, last>>,
                wrecked' \in BOOLEAN
         PROVE  ObjectInv'
    BY <1>1, <1>15 DEF ObjectInv, ObjectTypes, ThreadInv, MutexInv, ErasedInv
  <1>16. ASSUME NEW t \in Threads, WalkInFreed(t) PROVE ObjectInv'
    BY <1>15, <1>16 DEF WalkInFreed
  <1>17. ASSUME NEW t \in Threads, NEW name \in Keys, SetNothing(t, name) PROVE ObjectInv'
    BY <1>15, <1>17 DEF SetNothing
  <1>18. ASSUME NEW t \in Threads, CallSetter(t) PROVE ObjectInv'
    <2>1. /\ op[t].at = "set" /\ op[t].at # "idle" /\ op[t].at # "assign"
          /\ UNCHANGED <<props, made, mutex, writes, wrecked, everSet, missed, last>>
      BY <1>18 DEF CallSetter, Intercepted
    <2>2. CASE Tail(op[t].path) # <<>>
      <3>1. PICK r : r = [op[t] EXCEPT !.at = "walk", !.scope = op[t].binding,
                                       !.path = Tail(op[t].path), !.plain = FALSE]
        OBVIOUS
      <3>2. op' = [op EXCEPT ![t] = r]
        BY <1>18, <2>2, <3>1 DEF CallSetter
      <3>3. op[t].binding \in Objects /\ Tail(op[t].path) \in Seq(Tokens) /\ op[t].value \in Bindable
        BY <1>1, <1>2, <1>5, <2>1, <2>2 DEF ThreadInv
      <3>4. /\ r \in OpRecords /\ r.at = "walk" /\ r.scope = op[t].binding
            /\ r.path = Tail(op[t].path) /\ r.value = op[t].value
        BY <1>1, <3>1, <3>3 DEF OpRecords
      <3> QED
        BY <1>1, <1>3, <1>4, <2>1, <2>2, <3>2, <3>3, <3>4
    <2>3. CASE Tail(op[t].path) = <<>>
      <3>1. op' = [op EXCEPT ![t] = Idle]
        BY <1>18, <2>3 DEF CallSetter
      <3> QED
        BY <1>1, <1>3, <1>4, <2>1, <3>1, IdleTyped
    <2> QED
      BY <2>2, <2>3
  <1>19. ASSUME NEW t \in Threads, AccessorThrows(t) PROVE ObjectInv'
    <2>1. /\ op[t].at # "assign" /\ op' = [op EXCEPT ![t] = Idle]
          /\ UNCHANGED <<props, made, mutex, writes, wrecked, everSet, missed, last>>
      BY <1>19 DEF AccessorThrows, Intercepted, Walks
    <2> QED
      BY <1>1, <1>3, <1>4, <2>1, IdleTyped
  <1>20. ASSUME UNCHANGED objectVars PROVE ObjectInv'
    BY <1>1, <1>15, <1>20 DEF objectVars
  <1> QED
    BY <1>6, <1>7, <1>8, <1>9, <1>10, <1>11, <1>12, <1>13, <1>14, <1>16, <1>17, <1>18, <1>19, <1>20
       DEF BoundObjectsNext

\* Set erases a property before it assigns it, and no reader ever finds a
\* property missing that was bound and not unset: for any number of threads
\* replacing the properties of any number of objects, each through its own walk
\* of a dotted name (StaticBoundObject::Set, Get and UnSet, KObject::SetNS).
THEOREM PropertiesReplacedAtomically ==
    BoundObjectsSpec => [](BoundObjectsTypeOK /\ BoundPropertyNeverMissing)
  <1>1. ObjectInv => BoundObjectsTypeOK /\ BoundPropertyNeverMissing
    <2> SUFFICES ASSUME ObjectInv PROVE BoundObjectsTypeOK /\ BoundPropertyNeverMissing
      OBVIOUS
    <2>1. ObjectTypes /\ missed = FALSE
      BY DEF ObjectInv
    <2>2. \A t \in Threads : op[t].at \in {"idle", "walk", "set", "assign"}
      BY <2>1 DEF ObjectTypes, OpRecords
    <2>3. last.plain \in BOOLEAN
      BY <2>1 DEF ObjectTypes
    <2> QED
      BY <2>1, <2>2, <2>3 DEF BoundObjectsTypeOK, BoundPropertyNeverMissing, ObjectTypes
  <1> QED
    BY ObjectInvInit, ObjectInvNext, <1>1, PTL DEF BoundObjectsSpec

-----------------------------------------------------------------------------
(* Dotted names.                                                            *)

\* Get calls no getter for the name n.
Free(p, o, n) == ~(o = Api /\ \E m \in Getters[n] : p[o][m] = AMethod)

\* The objects w[0], ..., w[k] on the way through the first k tokens of a name:
\* each is bound in the one before it, and none is met twice.
Chain(p, path, k, w) ==
    /\ w[0] = StartOf(path)
    /\ \A i \in 1..k : w[i] = p[w[i - 1]][path[i]]
    /\ \A i \in 1..k : Free(p, w[i - 1], path[i])
    /\ \A i \in 0..k : IsObject(w[i])
    /\ \A i, j \in 0..k : w[i] = w[j] => i = j

Binds(t) == op[t].at \in {"set", "assign"}

\* An object is bound in one place at most, so that what is bound forms a tree
\* under Global; what SetNS has created and not bound yet is bound nowhere.
BindInv ==
    /\ \A o, p \in Objects, m, n \in Tokens :
          props[o][m] = props[p][n] /\ IsObject(props[o][m]) => o = p /\ m = n
    /\ \A o \in Objects, n \in Tokens :
          props[o][n] # Global /\ (props[o][n] \in Created => props[o][n] \in made)
    /\ \A t \in Threads : Binds(t) =>
          /\ Len(op[t].path) = 1 => op[t].binding = op[t].value
          /\ op[t].binding \in Created =>
                /\ op[t].binding \in made
                /\ \A o \in Objects, n \in Tokens : props[o][n] # op[t].binding
    /\ \A t, u \in Threads :
          Binds(t) /\ Binds(u) /\ op[t].binding = op[u].binding /\ op[t].binding \in Created
             => t = u

\* SetNS has gone through the first k tokens, from object to object.
Way(t, k, w) ==
    /\ Len(last.path) = k + Len(op[t].path)
    /\ \A i \in 1..Len(op[t].path) : op[t].path[i] = last.path[k + i]
    /\ Chain(props, last.path, k, w)
    /\ w[k] = op[t].scope
    /\ Binds(t) => Free(props, op[t].scope, op[t].path[1])

\* A thread in SetNS that no other has disturbed.
WayOf(t) ==
    op[t].at # "idle" /\ op[t].alone =>
        /\ \A u \in Threads \ {t} : op[u].at = "idle"
        /\ last.value = op[t].value
        /\ op[t].plain => \E k \in Nat : \E w \in [0..k -> Objects] : Way(t, k, w)

\* What was set last is at the end of a chain of objects.
ReadsInv ==
    last.plain =>
        /\ \A t \in Threads : op[t].at = "idle"
        /\ last.path # <<>>
        /\ \E w \in [0..Len(last.path) - 1 -> Objects] :
              /\ Chain(props, last.path, Len(last.path) - 1, w)
              /\ Free(props, w[Len(last.path) - 1], last.path[Len(last.path)])
              /\ last.value = props[w[Len(last.path) - 1]][last.path[Len(last.path)]]

NameInv == BindInv /\ (\A t \in Threads : WayOf(t)) /\ ReadsInv

\* What has no properties is no object.
LEMMA ObjectsApart ==
    /\ ~IsObject(Undefined) /\ ~IsObject(AMethod) /\ ~IsObject(Primitive)
    /\ \A o : IsObject(o) => o \in Objects
    /\ \A o \in Created : IsObject(o) /\ o \notin Bindable /\ o # Global /\ o # Api
    /\ IsObject(Global) /\ IsObject(Api) /\ Global # Api
    /\ Bindable \cap Created = {} /\ Undefined \notin Created
  BY BoundObjectsAssumption DEF IsObject, Objects, Bindable

\* The object v is one token further than a chain's end, and not on it.
Further(p, path, k, w, v) ==
    /\ k \in Nat /\ w \in [0..k -> Objects] /\ Chain(p, path, k, w)
    /\ v \in Objects /\ v = p[w[k]][path[k + 1]] /\ IsObject(v)
    /\ Free(p, w[k], path[k + 1])
    /\ \A i \in 0..k : w[i] # v

ChainTo(p, path, k, v) ==
    \E w \in [0..k -> Objects] : Chain(p, path, k, w) /\ w[k] = v

\* One more token.
LEMMA ChainExtended ==
    ASSUME NEW p, NEW path, NEW k, NEW w, NEW v, Further(p, path, k, w, v)
    PROVE  ChainTo(p, path, k + 1, v)
  <1> USE DEF Further, ChainTo
  <1> DEFINE x == [i \in 0..k + 1 |-> IF i = k + 1 THEN v ELSE w[i]]
  <1>1. /\ \A i \in 0..k + 1 : i # k + 1 => i \in 0..k
        /\ \A i \in 0..k : i \in 0..k + 1 /\ i # k + 1
        /\ \A i \in 1..k + 1 : i \in 0..k + 1 /\ i - 1 \in 0..k /\ (i # k + 1 => i \in 1..k)
        /\ (k + 1) - 1 = k /\ k + 1 \in 0..k + 1 /\ 0 \in 0..k /\ k \in 0..k
    OBVIOUS
  <1>2. x \in [0..k + 1 -> Objects]
    BY <1>1
  <1>3. x[k + 1] = v /\ \A i \in 0..k : x[i] = w[i]
    BY <1>1
  <1> HIDE DEF x
  <1>4. x[0] = StartOf(path)
    BY <1>1, <1>3 DEF Chain
  <1>5. \A i \in 1..k + 1 : x[i] = p[x[i - 1]][path[i]] /\ Free(p, x[i - 1], path[i])
    <2> SUFFICES ASSUME NEW i \in 1..k + 1
                 PROVE  x[i] = p[x[i - 1]][path[i]] /\ Free(p, x[i - 1], path[i])
      OBVIOUS
    <2>1. CASE i = k + 1
      BY <1>1, <1>3, <2>1
    <2>2. CASE i # k + 1
      <3>1. i \in 1..k /\ i \in 0..k /\ i - 1 \in 0..k
        BY <1>1, <2>2
      <3> QED
        BY <1>3, <3>1 DEF Chain
    <2> QED
      BY <2>1, <2>2
  <1>6. \A i \in 0..k + 1 : IsObject(x[i])
    BY <1>1, <1>3 DEF Chain
  <1>7. ASSUME NEW i \in 0..k + 1, NEW j \in 0..k + 1, x[i] = x[j] PROVE i = j
    <2>1. CASE i = k + 1 /\ j # k + 1
      BY <1>1, <1>3, <1>7, <2>1
    <2>2. CASE j = k + 1 /\ i # k + 1
      BY <1>1, <1>3, <1>7, <2>2
    <2>3. CASE i # k + 1 /\ j # k + 1
      BY <1>1, <1>3, <1>7, <2>3 DEF Chain
    <2> QED
      BY <2>1, <2>2, <2>3
  <1> QED
    BY <1>2, <1>3, <1>4, <1>5, <1>6, <1>7 DEF Chain

\* A change in its last object does not break a chain.
LEMMA ChainKept ==
    ASSUME NEW p, NEW q, NEW path, NEW k \in Nat, NEW w \in [0..k -> Objects],
           Chain(p, path, k, w), \A o \in Objects : o # w[k] => q[o] = p[o]
    PROVE  Chain(q, path, k, w)
  <1>1. ASSUME NEW i \in 1..k
        PROVE  w[i] = q[w[i - 1]][path[i]] /\ Free(q, w[i - 1], path[i])
    <2>1. i - 1 \in 0..k /\ k \in 0..k /\ i - 1 # k
      OBVIOUS
    <2>2. w[i - 1] # w[k] /\ w[i - 1] \in Objects
      BY <2>1 DEF Chain
    <2>3. q[w[i - 1]] = p[w[i - 1]] /\ Free(p, w[i - 1], path[i])
      BY <2>2 DEF Chain
    <2>4. Free(q, w[i - 1], path[i])
      BY <2>3 DEF Free
    <2> QED
      BY <2>3, <2>4 DEF Chain
  <1> QED
    BY <1>1 DEF Chain

\* GetNS finds what lies at the end of a chain, and nothing else.
LEMMA ChainRead ==
    ASSUME NEW path \in Seq(Tokens), path # <<>>,
           NEW w \in [0..Len(path) - 1 -> Objects], Chain(props, path, Len(path) - 1, w),
           Free(props, w[Len(path) - 1], path[Len(path)])
    PROVE  GetNS(path) = {props[w[Len(path) - 1]][path[Len(path)]]}
  <1> DEFINE n == Len(path)
             v == props[w[n - 1]][path[n]]
             Next(o, i) == IF IsObject(o) THEN Answers(o, path[i]) ELSE {Undefined}
             Body(f) == [i \in 0..n |->
                           IF i = 0 THEN {StartOf(path)}
                           ELSE UNION {Next(o, i) : o \in f[i - 1]}]
             walk == CHOOSE f : f = Body(f)
             x == [i \in 0..n |-> IF i = n THEN v ELSE w[i]]
             y == [i \in 0..n |-> {x[i]}]
  <1>1. n \in Nat /\ n > 0
    OBVIOUS
  <1>2. GetNS(path) = walk[n]
    BY DEF GetNS
  <1>3. w \in [0..n - 1 -> Objects] /\ Chain(props, path, n - 1, w) /\ Free(props, w[n - 1], path[n])
    OBVIOUS
  <1> HIDE DEF n
  <1>4. /\ 0 \in 0..n /\ 0 \in 0..n - 1 /\ n \in 0..n /\ 0 # n
        /\ \A i \in 1..n : i \in 0..n /\ i # 0 /\ i - 1 \in 0..n - 1 /\ i - 1 \in 0..n /\ i - 1 # n
        /\ \A i \in 1..n : i # n => i \in 1..n - 1 /\ i \in 0..n - 1
        /\ \A i \in 0..n : i # 0 => i \in 1..n
    BY <1>1
  <1>5. x[0] = StartOf(path) /\ x[n] = v /\ \A i \in 1..n : x[i - 1] = w[i - 1]
    BY <1>3, <1>4 DEF Chain
  <1>6. ASSUME NEW i \in 1..n
        PROVE  /\ IsObject(x[i - 1]) /\ x[i] = props[x[i - 1]][path[i]]
               /\ Free(props, x[i - 1], path[i])
    <2>1. IsObject(w[i - 1]) /\ x[i - 1] = w[i - 1]
      BY <1>3, <1>4, <1>5 DEF Chain
    <2>2. CASE i = n
      BY <1>3, <1>5, <2>1, <2>2
    <2>3. CASE i # n
      <3>1. x[i] = w[i] /\ i \in 1..n - 1
        BY <1>4, <2>3
      <3> QED
        BY <1>3, <2>1, <3>1 DEF Chain
    <2> QED
      BY <2>1, <2>2, <2>3
  <1>7. \A i \in 0..n : y[i] = {x[i]}
    OBVIOUS
  <1>8. y = [i \in 0..n |-> y[i]]
    OBVIOUS
  <1> HIDE DEF x, y
  <1>9. ASSUME NEW i \in 1..n PROVE UNION {Next(o, i) : o \in {x[i - 1]}} = {x[i]}
    <2>1. Next(x[i - 1], i) = {x[i]}
      BY <1>6 DEF Answers, Accessed, Free
    <2> HIDE DEF Next
    <2> QED
      BY <2>1
  <1> HIDE DEF Next
  <1>10. y = Body(y)
    <2>1. ASSUME NEW i \in 0..n
          PROVE  y[i] = IF i = 0 THEN {StartOf(path)} ELSE UNION {Next(o, i) : o \in y[i - 1]}
      <3>1. CASE i = 0
        BY <1>4, <1>5, <1>7, <3>1
      <3>2. CASE i # 0
        <4>1. i \in 1..n /\ i - 1 \in 0..n
          BY <1>4, <3>2
        <4>2. y[i - 1] = {x[i - 1]} /\ y[i] = {x[i]}
          BY <1>7, <4>1
        <4> QED
          BY <1>9, <3>2, <4>1, <4>2
      <3> QED
        BY <3>1, <3>2
    <2> QED
      BY <1>8, <2>1
  <1>11. walk = Body(walk)
    BY <1>10
  <1> HIDE DEF walk
  <1>12. /\ walk[0] = {StartOf(path)}
         /\ \A i \in 1..n : walk[i] = UNION {Next(o, i) : o \in walk[i - 1]}
    BY <1>4, <1>11
  <1> DEFINE T == {i \in 0..n : walk[i] = {x[i]}}
  <1>13. 0 \in T
    BY <1>4, <1>5, <1>12
  <1>14. ASSUME NEW i \in 1..n, i - 1 \in T PROVE i \in T
    <2>1. walk[i - 1] = {x[i - 1]} /\ i \in 0..n
      BY <1>4, <1>14
    <2>2. walk[i] = UNION {Next(o, i) : o \in {x[i - 1]}}
      BY <1>12, <2>1
    <2> QED
      BY <1>9, <2>1, <2>2
  <1> HIDE DEF T
  <1>15. n \in T
    BY <1>1, <1>4, <1>13, <1>14, BoundedInduction
  <1>16. walk[n] = {x[n]}
    BY <1>15 DEF T
  <1> QED
    BY <1>2, <1>5, <1>16 DEF n

\* Steps that bind nothing.
LEMMA BindShrinks ==
    ASSUME BindInv, made \subseteq made',
           \A o \in Objects, n \in Tokens : props'[o][n] \in {props[o][n], Undefined},
           \A t \in Threads : Binds(t)' =>
              \/ /\ Binds(t) /\ op'[t].binding = op[t].binding /\ op'[t].path = op[t].path
                 /\ op'[t].value = op[t].value
              \/ op'[t].binding \in Bindable /\ op'[t].binding = op'[t].value
    PROVE  BindInv'
  <1>1. ~IsObject(Undefined) /\ Undefined # Global /\ Undefined \notin Created
        /\ Bindable \cap Created = {} /\ \A o \in Created : IsObject(o)
    BY ObjectsApart
  <1>2. ASSUME NEW o \in Objects, NEW p \in Objects, NEW m \in Tokens, NEW n \in Tokens,
               props'[o][m] = props'[p][n], IsObject(props'[o][m])
        PROVE  o = p /\ m = n
    <2>1. props'[o][m] = props[o][m] /\ props'[p][n] = props[p][n]
      BY <1>1, <1>2
    <2>2. props[o][m] = props[p][n] /\ IsObject(props[o][m])
      BY <1>2, <2>1
    <2>3. \A a, b \in Objects, i, j \in Tokens :
             props[a][i] = props[b][j] /\ IsObject(props[a][i]) => a = b /\ i = j
      BY DEF BindInv
    <2> QED
      BY <2>2, <2>3
  <1>3. ASSUME NEW o \in Objects, NEW n \in Tokens
        PROVE  /\ props'[o][n] # Global
               /\ props'[o][n] \in Created => props'[o][n] \in made'
    <2>1. props'[o][n] = props[o][n] \/ props'[o][n] = Undefined
      OBVIOUS
    <2> QED
      BY <1>1, <2>1 DEF BindInv
  <1>4. ASSUME NEW t \in Threads, Binds(t)'
        PROVE  /\ Len(op'[t].path) = 1 => op'[t].binding = op'[t].value
               /\ op'[t].binding \in Created =>
                     /\ op'[t].binding \in made'
                     /\ \A o \in Objects, n \in Tokens : props'[o][n] # op'[t].binding
    <2>1. CASE /\ Binds(t) /\ op'[t].binding = op[t].binding /\ op'[t].path = op[t].path
               /\ op'[t].value = op[t].value
      <3>1. Len(op'[t].path) = 1 => op'[t].binding = op'[t].value
        BY <2>1 DEF BindInv
      <3>2. ASSUME op[t].binding \in Created
            PROVE  /\ op[t].binding \in made
                   /\ \A o \in Objects, n \in Tokens : props[o][n] # op[t].binding
        BY <2>1, <3>2 DEF BindInv
      <3> QED
        BY <1>1, <2>1, <3>1, <3>2
    <2>2. CASE op'[t].binding \in Bindable /\ op'[t].binding = op'[t].value
      BY <1>1, <2>2
    <2> QED
      BY <1>4, <2>1, <2>2
  <1>5. ASSUME NEW t \in Threads, NEW u \in Threads, Binds(t)', Binds(u)',
               op'[t].binding = op'[u].binding, op'[t].binding \in Created
        PROVE  t = u
    <2>1. /\ Binds(t) /\ Binds(u) /\ op[t].binding = op'[t].binding
          /\ op[u].binding = op'[u].binding
      BY <1>1, <1>5
    <2> QED
      BY <1>5, <2>1 DEF BindInv
  <1> QED
    BY <1>2, <1>3, <1>4, <1>5 DEF BindInv, Binds, IsObject

\* A thread in SetNS has the others to itself only if it was not disturbed.
LEMMA OthersDisturbed ==
    ASSUME \A t \in Threads : WayOf(t), ReadsInv, NEW t \in Threads, op[t].at # "idle",
           \A u \in Threads \ {t} : op'[u] = op[u]
    PROVE  /\ \A u \in Threads \ {t} : WayOf(u)'
           /\ ~last.plain
           /\ op[t].alone => \A u \in Threads \ {t} : op'[u].at = "idle"
  <1>1. ASSUME NEW u \in Threads \ {t}, op[u].at # "idle", op[u].alone PROVE FALSE
    BY <1>1 DEF WayOf
  <1>2. \A u \in Threads \ {t} : WayOf(u)'
    BY <1>1 DEF WayOf
  <1>3. ~last.plain
    BY DEF ReadsInv
  <1>4. op[t].alone => \A u \in Threads \ {t} : op'[u].at = "idle"
    BY DEF WayOf
  <1> QED
    BY <1>2, <1>3, <1>4

\* Before any call.
LEMMA NameInvInit == BoundObjectsInit => NameInv
  <1> SUFFICES ASSUME BoundObjectsInit PROVE NameInv
    OBVIOUS
  <1>1. /\ props = [o \in Objects |-> [n \in Tokens |->
                      IF o = Global /\ n = ApiName THEN Api ELSE Undefined]]
        /\ op = [t \in Threads |-> Idle]
        /\ last = [path |-> <<>>, value |-> Undefined, plain |-> FALSE]
    BY DEF BoundObjectsInit
  <1>2. \A t \in Threads : op[t].at = "idle"
    BY <1>1, IdleTyped
  <1>3. \A o \in Objects, n \in Tokens :
           props[o][n] = IF o = Global /\ n = ApiName THEN Api ELSE Undefined
    BY <1>1
  <1>4. BindInv
    BY <1>2, <1>3, ObjectsApart DEF BindInv, Binds
  <1>5. last.plain = FALSE
    BY <1>1
  <1> QED
    BY <1>2, <1>4, <1>5 DEF NameInv, WayOf, ReadsInv

\* What a thread in SetNS has.
LEMMA WalkerKnows ==
    ASSUME ObjectInv, NEW t \in Threads, op[t].at # "idle"
    PROVE  /\ op[t] \in OpRecords /\ op[t].scope \in Objects /\ op[t].value \in Bindable
           /\ op[t].path \in Seq(Tokens) /\ Len(op[t].path) \in Nat /\ Len(op[t].path) >= 1
           /\ Head(op[t].path) = op[t].path[1] /\ op[t].path[1] \in Tokens
           /\ Tail(op[t].path) \in Seq(Tokens) /\ Len(Tail(op[t].path)) = Len(op[t].path) - 1
           /\ \A i \in 1..Len(op[t].path) - 1 : Tail(op[t].path)[i] = op[t].path[i + 1]
           /\ Tail(op[t].path) = <<>> <=> Len(op[t].path) = 1
           /\ ~Called(t) => /\ Here(t) = {props[op[t].scope][op[t].path[1]]}
                            /\ Free(props, op[t].scope, op[t].path[1])
  <1>1. /\ op[t] \in OpRecords /\ op[t].scope \in Objects /\ op[t].value \in Bindable
        /\ op[t].path # <<>>
    BY DEF ObjectInv, ObjectTypes, ThreadInv
  <1>2. op[t].path \in Seq(Tokens)
    BY <1>1 DEF OpRecords
  <1>3. ASSUME NEW p \in Seq(Tokens), p # <<>>
        PROVE  /\ Len(p) \in Nat /\ Len(p) >= 1 /\ Head(p) = p[1] /\ p[1] \in Tokens
               /\ Tail(p) \in Seq(Tokens) /\ Len(Tail(p)) = Len(p) - 1
               /\ \A i \in 1..Len(p) - 1 : Tail(p)[i] = p[i + 1]
    BY <1>3
  <1>4. ASSUME NEW p \in Seq(Tokens) PROVE p = <<>> <=> Len(p) = 0
    BY <1>4
  <1>5. Tail(op[t].path) = <<>> <=> Len(op[t].path) = 1
    <2>1. Tail(op[t].path) \in Seq(Tokens) /\ Len(Tail(op[t].path)) = Len(op[t].path) - 1
          /\ Len(op[t].path) \in Nat
      BY <1>1, <1>2, <1>3
    <2>2. Tail(op[t].path) = <<>> <=> Len(Tail(op[t].path)) = 0
      BY <1>4, <2>1
    <2> QED
      BY <2>1, <2>2
  <1>6. Head(op[t].path) = op[t].path[1]
    BY <1>1, <1>2, <1>3
  <1>7. ~Called(t) => /\ Here(t) = {props[op[t].scope][op[t].path[1]]}
                      /\ Free(props, op[t].scope, op[t].path[1])
    BY <1>6 DEF Here, Called, Answers, Accessed, Free
  <1> QED
    BY <1>1, <1>2, <1>3, <1>5, <1>7

\* One thread's record is replaced.
LEMMA RecordReplaced ==
    ASSUME ObjectInv, NEW t \in Threads, NEW r, op' = [op EXCEPT ![t] = r]
    PROVE  op'[t] = r /\ \A u \in Threads \ {t} : op'[u] = op[u]
  BY DEF ObjectInv, ObjectTypes

\* API.set begins: every other thread in SetNS is disturbed.
LEMMA APISetNames ==
    ASSUME ObjectInv, NameInv, NEW t \in Threads, NEW name \in Keys, NEW v \in Bindable,
           APISet(t, name, v)
    PROVE  NameInv'
  <1>1. /\ op[t].at = "idle"
        /\ last' = [path |-> name, value |-> v, plain |-> FALSE]
        /\ UNCHANGED <<props, made>>
    BY DEF APISet
  <1>2. PICK alone : alone = \A u \in Threads : op[u].at = "idle"
    OBVIOUS
  <1>3. alone \in BOOLEAN
    BY <1>2
  <1>4. PICK plain \in BOOLEAN : plain = (Tokenize(name) = name)
    OBVIOUS
  <1>5. PICK r : r = [Idle EXCEPT !.at = "walk", !.scope = StartOf(name),
                                  !.path = Tokenize(name), !.value = v,
                                  !.plain = plain, !.alone = alone]
    OBVIOUS
  <1>6. name \in Seq(Tokens) /\ StartOf(name) \in Objects /\ IsObject(StartOf(name))
    BY NamesTokenized, ObjectsApart DEF StartOf, Objects
  <1>7. /\ r.at = "walk" /\ r.scope = StartOf(name) /\ r.path = Tokenize(name) /\ r.value = v
        /\ r.alone = alone /\ r.plain = plain
    BY <1>5 DEF Idle
  <1>8. op \in [Threads -> OpRecords] /\ op' = [Disturbed EXCEPT ![t] = r]
    <2>1. op' = [Disturbed EXCEPT ![t] = r]
      BY <1>2, <1>4, <1>5, Zenon DEF APISet
    <2> QED
      BY <2>1 DEF ObjectInv, ObjectTypes
  <1>9. op'[t] = r /\ \A u \in Threads \ {t} : op'[u] = Disturbed[u]
    BY <1>8, DisturbedKeeps
  <1>10. \A u \in Threads : Disturbed[u].alone = FALSE
    <2>1. ASSUME NEW o \in OpRecords, NEW s, s = [o EXCEPT !.alone = FALSE]
          PROVE  s.alone = FALSE
      BY <2>1 DEF OpRecords
    <2> QED
      BY <1>8, <2>1 DEF Disturbed
  <1>11. BindInv'
    <2>1. \A u \in Threads : Binds(u)' =>
             /\ Binds(u) /\ op'[u].binding = op[u].binding /\ op'[u].path = op[u].path
             /\ op'[u].value = op[u].value
      <3> SUFFICES ASSUME NEW u \in Threads, Binds(u)'
                   PROVE  /\ Binds(u) /\ op'[u].binding = op[u].binding
                          /\ op'[u].path = op[u].path /\ op'[u].value = op[u].value
        OBVIOUS
      <3>1. u # t
        BY <1>7, <1>9 DEF Binds
      <3> QED
        BY <1>8, <1>9, <3>1, DisturbedKeeps DEF Binds
    <2> QED
      BY <1>1, <2>1, BindShrinks DEF NameInv
  <1>12. \A u \in Threads \ {t} : WayOf(u)'
    BY <1>9, <1>10 DEF WayOf
  <1>13. WayOf(t)'
    <2> SUFFICES ASSUME alone
                 PROVE  /\ \A u \in Threads \ {t} : op'[u].at = "idle"
                        /\ last'.value = v
                        /\ plain => \E k \in Nat : \E w \in [0..k -> Objects] : Way(t, k, w)'
      BY <1>7, <1>9 DEF WayOf
    <2>1. \A u \in Threads \ {t} : op'[u].at = "idle"
      BY <1>2, <1>8, <1>9, DisturbedKeeps
    <2>2. last'.value = v /\ last'.path = name
      BY <1>1
    <2> DEFINE w == [i \in 0..0 |-> StartOf(name)]
    <2>3. w \in [0..0 -> Objects] /\ w[0] = StartOf(name)
      BY <1>6
    <2> HIDE DEF w
    <2>4. Chain(props', name, 0, w)
      <3>1. \A i \in 0..0 : i = 0
        OBVIOUS
      <3>2. \A i \in 1..0 : FALSE
        OBVIOUS
      <3> QED
        BY <1>6, <2>3, <3>1, <3>2 DEF Chain
    <2>5. Len(name) \in Nat /\ \A i \in 1..Len(name) : 0 + i = i
      BY <1>6
    <2>6. ASSUME plain PROVE Way(t, 0, w)'
      <3>1. op'[t].path = name /\ ~Binds(t)' /\ op'[t].scope = StartOf(name)
        BY <1>4, <1>7, <1>9, <2>6 DEF Binds
      <3>2. Len(last'.path) = 0 + Len(op'[t].path)
        BY <2>2, <2>5, <3>1
      <3>3. \A i \in 1..Len(op'[t].path) : op'[t].path[i] = last'.path[0 + i]
        BY <2>2, <2>5, <3>1
      <3>4. Chain(props', last'.path, 0, w) /\ w[0] = op'[t].scope
        BY <2>2, <2>3, <2>4, <3>1
      <3>5. Chain(props, last.path, 0, w)' <=> Chain(props', last'.path, 0, w)
        BY DEF Chain, Free, StartOf, IsObject
      <3> QED
        BY <3>1, <3>2, <3>3, <3>4, <3>5 DEF Way
    <2> QED
      BY <2>1, <2>2, <2>3, <2>6
  <1>14. ReadsInv'
    BY <1>1 DEF ReadsInv
  <1> QED
    BY <1>11, <1>12, <1>13, <1>14 DEF NameInv

\* SetNS goes one object further: it has not been there before.
LEMMA StepIntoNames ==
    ASSUME ObjectInv, NameInv, NEW t \in Threads, StepInto(t)
    PROVE  NameInv'
  <1>1. /\ op[t].at = "walk" /\ op[t].at # "idle" /\ Len(op[t].path) > 1
        /\ UNCHANGED <<props, made, last>>
    BY DEF StepInto, Walks
  <1>2. /\ op[t] \in OpRecords /\ op[t].scope \in Objects
        /\ op[t].path \in Seq(Tokens) /\ Len(op[t].path) \in Nat /\ op[t].path[1] \in Tokens
        /\ Tail(op[t].path) \in Seq(Tokens) /\ Len(Tail(op[t].path)) = Len(op[t].path) - 1
        /\ \A i \in 1..Len(op[t].path) - 1 : Tail(op[t].path)[i] = op[t].path[i + 1]
        /\ ~Called(t) => /\ Here(t) = {props[op[t].scope][op[t].path[1]]}
                         /\ Free(props, op[t].scope, op[t].path[1])
    BY <1>1, WalkerKnows
  <1> PICK v \in Here(t) :
         /\ IsKObject(v)
         /\ op' = [op EXCEPT ![t].scope = v, ![t].path = Tail(@),
                             ![t].plain = @ /\ IsObject(v) /\ ~Called(t)]
    BY DEF StepInto
  <1>3. PICK b \in BOOLEAN : b = (op[t].plain /\ IsObject(v) /\ ~Called(t))
    OBVIOUS
  <1>4. PICK r : r = [op[t] EXCEPT !.scope = v, !.path = Tail(op[t].path), !.plain = b]
    OBVIOUS
  <1>5. op' = [op EXCEPT ![t] = r]
    BY <1>3, <1>4
  <1>6. /\ r.at = "walk" /\ r.scope = v /\ r.path = Tail(op[t].path)
        /\ r.value = op[t].value /\ r.alone = op[t].alone /\ r.plain = b
    BY <1>1, <1>2, <1>4 DEF OpRecords
  <1>7. op'[t] = r /\ \A u \in Threads \ {t} : op'[u] = op[u]
    BY <1>5, RecordReplaced
  <1>8. /\ \A u \in Threads \ {t} : WayOf(u)'
        /\ ~last.plain
        /\ op[t].alone => \A u \in Threads \ {t} : op'[u].at = "idle"
    BY <1>1, <1>7, OthersDisturbed DEF NameInv
  <1>9. BindInv'
    <2>1. \A u \in Threads : Binds(u)' =>
             /\ Binds(u) /\ op'[u].binding = op[u].binding /\ op'[u].path = op[u].path
             /\ op'[u].value = op[u].value
      BY <1>6, <1>7 DEF Binds
    <2> QED
      BY <1>1, <2>1, BindShrinks DEF NameInv
  <1>10. ASSUME op[t].alone, b
         PROVE  \E k \in Nat : \E w \in [0..k -> Objects] : Way(t, k, w)'
    <2>1. PICK k \in Nat : \E w \in [0..k -> Objects] : Way(t, k, w)
      BY <1>1, <1>3, <1>10 DEF NameInv, WayOf
    <2>2. PICK w \in [0..k -> Objects] : Way(t, k, w)
      BY <2>1
    <2>3. /\ Len(last.path) = k + Len(op[t].path)
          /\ \A i \in 1..Len(op[t].path) : op[t].path[i] = last.path[k + i]
          /\ Chain(props, last.path, k, w)
          /\ w[k] = op[t].scope
      BY <2>2 DEF Way
    <2>4. /\ v \in Objects /\ v = props[op[t].scope][op[t].path[1]]
          /\ Free(props, op[t].scope, op[t].path[1])
      <3>1. ~Called(t)
        BY <1>3, <1>10
      <3>2. v \in {props[op[t].scope][op[t].path[1]]} /\ Free(props, op[t].scope, op[t].path[1])
        BY <1>2, <3>1, Zenon
      <3> QED
        BY <3>2 DEF IsKObject
    <2>5. op[t].path[1] = last.path[k + 1]
      <3>1. 1 \in 1..Len(op[t].path)
        BY <1>1, <1>2
      <3> QED
        BY ONLY <2>3, <3>1
    <2>6. /\ v = props[w[k]][last.path[k + 1]] /\ last.path[k + 1] \in Tokens /\ IsObject(v)
          /\ Free(props, w[k], last.path[k + 1])
      <3>1. w[k] = op[t].scope /\ last.path[k + 1] = op[t].path[1]
        BY <2>3, <2>5
      <3>2. op[t].path[1] \in Tokens /\ IsObject(v)
        BY <1>2, <1>3, <1>10
      <3> QED
        BY ONLY <2>4, <3>1, <3>2, Zenon
    <2>7. /\ \A a, c \in Objects, i, j \in Tokens :
                props[a][i] = props[c][j] /\ IsObject(props[a][i]) => a = c /\ i = j
          /\ \A a \in Objects, i \in Tokens : props[a][i] # Global
      BY DEF NameInv, BindInv
    <2>8. ASSUME NEW i \in 0..k, w[i] = v PROVE FALSE
      <3>1. CASE i = 0
        <4>1. Len(last.path) # 1
          BY <1>1, <1>2, <2>3
        <4>2. w[0] = Global
          BY <2>3, <4>1 DEF Chain, StartOf
        <4>3. v = Global
          BY <2>8, <3>1, <4>2
        <4>4. v = props[op[t].scope][op[t].path[1]]
          BY <1>2, <2>4
        <4>5. props[op[t].scope][op[t].path[1]] # Global
          BY <1>2, <2>7
        <4> QED
          BY <4>3, <4>4, <4>5
      <3>2. CASE i # 0
        <4>1. i \in 1..k /\ i - 1 \in 0..k /\ k \in 0..k /\ i - 1 # k
          BY <2>1, <2>8, <3>2
        <4>2. w[i] = props[w[i - 1]][last.path[i]]
          BY <2>3, <4>1 DEF Chain
        <4>3. w[i - 1] \in Objects /\ w[k] \in Objects
          BY <4>1
        <4>4. last.path[i] \in Tokens
          <5>1. last.path \in Seq(Tokens)
            BY DEF ObjectInv, ObjectTypes
          <5>2. i \in 1..Len(last.path)
            BY <1>2, <2>3, <4>1
          <5> QED
            BY <5>1, <5>2
        <4>5. w[i - 1] = w[k]
          <5>1. props[w[i - 1]][last.path[i]] = props[w[k]][last.path[k + 1]]
            BY <2>6, <2>8, <4>2
          <5>2. IsObject(props[w[i - 1]][last.path[i]])
            BY <2>6, <2>8, <4>2
          <5>3. \A a, c \in Objects, m, n \in Tokens :
                   props[a][m] = props[c][n] /\ IsObject(props[a][m]) => a = c
            BY <2>7
          <5> QED
            BY ONLY <2>6, <4>3, <4>4, <5>1, <5>2, <5>3, Zenon
        <4> QED
          BY <2>3, <4>1, <4>5 DEF Chain
      <3> QED
        BY <3>1, <3>2
    <2>9. PICK x \in [0..k + 1 -> Objects] : Chain(props, last.path, k + 1, x) /\ x[k + 1] = v
      <3>1. \A i \in 0..k : w[i] # v
        BY <2>8
      <3>2. PICK p, path : p = props /\ path = last.path
        OBVIOUS
      <3>3. /\ k \in Nat /\ w \in [0..k -> Objects] /\ v \in Objects /\ IsObject(v)
            /\ Chain(p, path, k, w) /\ v = p[w[k]][path[k + 1]] /\ Free(p, w[k], path[k + 1])
        BY <2>1, <2>2, <2>3, <2>4, <2>6, <3>2
      <3>4. Further(p, path, k, w, v)
        BY <3>1, <3>3 DEF Further
      <3>5. ChainTo(p, path, k + 1, v)
        BY <3>4, ChainExtended
      <3> QED
        BY <3>2, <3>5 DEF ChainTo
    <2>10. Len(last.path) = (k + 1) + Len(r.path)
      <3>1. PICK m, n, l : m = Len(r.path) /\ n = Len(op[t].path) /\ l = Len(last.path)
        OBVIOUS
      <3>2. r.path = Tail(op[t].path)
        BY <1>6
      <3>3. m = n - 1 /\ n \in Nat
        BY <1>2, <3>1, <3>2
      <3>4. l = k + n
        BY <2>3, <3>1
      <3>5. l = (k + 1) + m
        BY <3>3, <3>4
      <3> QED
        BY <3>1, <3>5
    <2>11. ASSUME NEW i \in 1..Len(r.path) PROVE r.path[i] = last.path[(k + 1) + i]
      <3>1. i \in 1..Len(op[t].path) - 1 /\ i + 1 \in 1..Len(op[t].path) /\ (k + 1) + i = k + (i + 1)
        BY <1>2, <1>6, <2>11
      <3> QED
        BY <1>2, <1>6, <2>3, <3>1
    <2>12. Chain(props, last.path, k + 1, x)'
      <3>1. Chain(props', last'.path, k + 1, x)
        BY <1>1, <2>9
      <3> QED
        BY <3>1 DEF Chain, Free, StartOf, IsObject
    <2>13. Way(t, k + 1, x)'
      <3>1. last' = last /\ op'[t] = r /\ x[k + 1] = r.scope /\ ~Binds(t)'
        BY <1>1, <1>6, <1>7, <2>4, <2>9 DEF Binds
      <3> QED
        BY <2>10, <2>11, <2>12, <3>1 DEF Way
    <2> QED
      BY <2>13
  <1>11. WayOf(t)'
    <2>1. op[t].alone => last.value = op[t].value
      BY <1>1 DEF NameInv, WayOf
    <2> QED
      BY <1>1, <1>6, <1>7, <1>8, <1>10, <2>1 DEF WayOf
  <1>12. ReadsInv'
    BY <1>1, <1>8 DEF ReadsInv
  <1> QED
    BY <1>8, <1>9, <1>11, <1>12 DEF NameInv

\* A thread stays where it is on its way, about to bind something.
LEMMA StaysNames ==
    ASSUME ObjectInv, NameInv, BindInv', NEW t \in Threads, op[t].at # "idle",
           UNCHANGED <<props, last>>,
           \A u \in Threads \ {t} : op'[u] = op[u],
           op'[t].scope = op[t].scope, op'[t].path = op[t].path, op'[t].value = op[t].value,
           op'[t].alone = op[t].alone,
           op'[t].plain => op[t].plain /\ Free(props, op[t].scope, op[t].path[1])
    PROVE  NameInv'
  <1>1. /\ \A u \in Threads \ {t} : WayOf(u)'
        /\ ~last.plain
        /\ op[t].alone => \A u \in Threads \ {t} : op'[u].at = "idle"
    BY OthersDisturbed DEF NameInv
  <1>2. WayOf(t)'
    <2>1. WayOf(t)
      BY DEF NameInv
    <2>2. ASSUME op'[t].plain, NEW k, NEW w, Way(t, k, w) PROVE Way(t, k, w)'
      BY <2>2 DEF Way, Chain, Free, StartOf, IsObject
    <2> QED
      BY <1>1, <2>1, <2>2 DEF WayOf
  <1>3. ReadsInv'
    BY <1>1 DEF ReadsInv
  <1> QED
    BY <1>1, <1>2, <1>3 DEF NameInv

\* SetNS throws, or is done without a binding.
LEMMA ThrowNames ==
    ASSUME ObjectInv, NameInv, NEW t \in Threads, op[t].at # "idle",
           op' = [op EXCEPT ![t] = Idle], UNCHANGED <<props, made, last>>
    PROVE  NameInv'
  <1>1. /\ op[t].at # "idle" /\ op' = [op EXCEPT ![t] = Idle]
        /\ UNCHANGED <<props, made, last>>
    OBVIOUS
  <1>2. op'[t] = Idle /\ \A u \in Threads \ {t} : op'[u] = op[u]
    BY <1>1, RecordReplaced
  <1>3. op'[t].at = "idle"
    BY <1>2, IdleTyped
  <1>4. /\ \A u \in Threads \ {t} : WayOf(u)'
        /\ ~last.plain
    BY <1>1, <1>2, OthersDisturbed DEF NameInv
  <1>5. BindInv'
    <2>1. \A u \in Threads : Binds(u)' =>
             /\ Binds(u) /\ op'[u].binding = op[u].binding /\ op'[u].path = op[u].path
             /\ op'[u].value = op[u].value
      BY <1>2, <1>3 DEF Binds
    <2> QED
      BY <1>1, <2>1, BindShrinks DEF NameInv
  <1>6. WayOf(t)' /\ ReadsInv'
    BY <1>1, <1>3, <1>4 DEF WayOf, ReadsInv
  <1> QED
    BY <1>4, <1>5, <1>6 DEF NameInv

\* The last token: the value is no object.
LEMMA BindValueNames ==
    ASSUME ObjectInv, NameInv, NEW t \in Threads, BindValue(t)
    PROVE  NameInv'
  <1>1. /\ op[t].at # "idle" /\ UNCHANGED <<props, made, last>>
    BY DEF BindValue, Walks
  <1> PICK b \in BOOLEAN : b = (op[t].plain /\ ~Called(t))
    OBVIOUS
  <1>2. PICK r : r = [op[t] EXCEPT !.at = "set", !.binding = op[t].value, !.plain = b]
    OBVIOUS
  <1>3. op' = [op EXCEPT ![t] = r]
    BY <1>2 DEF BindValue
  <1>4. /\ op[t] \in OpRecords /\ op[t].value \in Bindable
        /\ ~Called(t) => Free(props, op[t].scope, op[t].path[1])
    BY <1>1, WalkerKnows
  <1>5. /\ r.binding = op[t].value /\ r.scope = op[t].scope /\ r.path = op[t].path
        /\ r.value = op[t].value /\ r.alone = op[t].alone /\ r.plain = b
    BY <1>2, <1>4 DEF OpRecords
  <1>6. op'[t] = r /\ \A u \in Threads \ {t} : op'[u] = op[u]
    BY <1>3, RecordReplaced
  <1>7. BindInv'
    <2>1. \A u \in Threads : Binds(u)' =>
             \/ /\ Binds(u) /\ op'[u].binding = op[u].binding /\ op'[u].path = op[u].path
                /\ op'[u].value = op[u].value
             \/ op'[u].binding \in Bindable /\ op'[u].binding = op'[u].value
      BY <1>4, <1>5, <1>6 DEF Binds
    <2> QED
      BY <1>1, <2>1, BindShrinks DEF NameInv
  <1>8. op'[t].plain => op[t].plain /\ Free(props, op[t].scope, op[t].path[1])
    BY <1>4, <1>5, <1>6
  <1> QED
    BY <1>1, <1>5, <1>6, <1>7, <1>8, StaysNames

\* SetNS creates an object: nobody has bound it.
LEMMA CreateNames ==
    ASSUME ObjectInv, NameInv, NEW t \in Threads, CreateNamespace(t)
    PROVE  NameInv'
  <1>1. /\ op[t].at # "idle" /\ Len(op[t].path) > 1 /\ made # Created
        /\ UNCHANGED <<props, last>>
    BY DEF CreateNamespace, Walks
  <1>2. PICK v : v = CHOOSE o \in Created : o \notin made
    OBVIOUS
  <1>3. v \in Created /\ v \notin made
    <2>1. \E o \in Created : o \notin made
      BY <1>1 DEF ObjectInv, ObjectTypes
    <2> QED
      BY <1>2, <2>1
  <1> PICK b \in BOOLEAN : b = (op[t].plain /\ ~Called(t))
    OBVIOUS
  <1>4. PICK r : r = [op[t] EXCEPT !.at = "set", !.binding = v, !.plain = b]
    OBVIOUS
  <1>5. made' = made \cup {v} /\ op' = [op EXCEPT ![t] = r]
    <2>1. made' = made \cup {v}
      BY <1>2 DEF CreateNamespace
    <2>2. op' = [op EXCEPT ![t].at = "set", ![t].binding = v, ![t].plain = @ /\ ~Called(t)]
      BY <1>2, Zenon DEF CreateNamespace
    <2> QED
      BY <1>4, <2>1, <2>2
  <1>6. /\ op[t] \in OpRecords /\ Len(op[t].path) \in Nat
        /\ ~Called(t) => Free(props, op[t].scope, op[t].path[1])
    BY <1>1, WalkerKnows
  <1>7. /\ r.binding = v /\ r.scope = op[t].scope /\ r.path = op[t].path
        /\ r.value = op[t].value /\ r.alone = op[t].alone /\ r.plain = b
    BY <1>4, <1>6 DEF OpRecords
  <1>8. op'[t] = r /\ \A u \in Threads \ {t} : op'[u] = op[u]
    BY <1>5, RecordReplaced
  <1>9. \A o \in Objects, n \in Tokens : props[o][n] # v
    BY <1>3 DEF NameInv, BindInv
  <1>10. BindInv'
    <2>1. \A o, p \in Objects, m, n \in Tokens :
             props'[o][m] = props'[p][n] /\ IsObject(props'[o][m]) => o = p /\ m = n
      <3>1. \A o, p \in Objects, m, n \in Tokens :
               props[o][m] = props[p][n] /\ IsObject(props[o][m]) => o = p /\ m = n
        BY DEF NameInv, BindInv
      <3> QED
        BY <1>1, <3>1
    <2>2. \A o \in Objects, n \in Tokens :
             props'[o][n] # Global /\ (props'[o][n] \in Created => props'[o][n] \in made')
      BY <1>1, <1>5 DEF NameInv, BindInv
    <2>3. ASSUME NEW u \in Threads, Binds(u)'
          PROVE  /\ Len(op'[u].path) = 1 => op'[u].binding = op'[u].value
                 /\ op'[u].binding \in Created =>
                       /\ op'[u].binding \in made'
                       /\ \A o \in Objects, n \in Tokens : props'[o][n] # op'[u].binding
      <3>1. CASE u = t
        <4>1. op'[u] = r
          BY <1>8, <3>1
        <4>2. op'[u].binding = v /\ op'[u].path = op[t].path
          BY <1>7, <4>1
        <4>3. Len(op[t].path) # 1
          <5>1. PICK n \in Nat : n = Len(op[t].path)
            BY <1>6
          <5>2. n > 1
            BY <1>1, <5>1
          <5>3. n # 1
            BY <5>2
          <5> QED
            BY <5>1, <5>3
        <4>4. Len(op'[u].path) # 1
          BY <4>2, <4>3
        <4> QED
          BY <1>1, <1>5, <1>9, <4>2, <4>4
      <3>2. CASE u # t
        <4>1. op'[u] = op[u] /\ Binds(u)
          BY <1>8, <2>3, <3>2 DEF Binds
        <4> QED
          BY <1>1, <1>5, <4>1 DEF NameInv, BindInv
      <3> QED
        BY <3>1, <3>2
    <2>4. ASSUME NEW u \in Threads \ {t}, Binds(u)' PROVE op'[u].binding # v
      <3>1. op'[u] = op[u] /\ Binds(u)
        BY <1>8, <2>4 DEF Binds
      <3> QED
        BY <1>3, <3>1 DEF NameInv, BindInv
    <2>5. ASSUME NEW u \in Threads, NEW x \in Threads, Binds(u)', Binds(x)',
                 op'[u].binding = op'[x].binding, op'[u].binding \in Created
          PROVE  u = x
      <3>1. CASE u = t \/ x = t
        BY <1>7, <1>8, <2>4, <2>5, <3>1
      <3>2. CASE u # t /\ x # t
        <4>1. op'[u] = op[u] /\ op'[x] = op[x] /\ Binds(u) /\ Binds(x)
          BY <1>8, <2>5, <3>2 DEF Binds
        <4> QED
          BY <2>5, <4>1 DEF NameInv, BindInv
      <3> QED
        BY <3>1, <3>2
    <2> QED
      BY <2>1, <2>2, <2>3, <2>5 DEF BindInv, Binds, IsObject
  <1>11. op'[t].plain => op[t].plain /\ Free(props, op[t].scope, op[t].path[1])
    BY <1>6, <1>7, <1>8
  <1> QED
    BY <1>1, <1>7, <1>8, <1>10, <1>11, StaysNames

\* Set erases: in the last object on the way.
LEMMA SetEraseNames ==
    ASSUME ObjectInv, NameInv, NEW t \in Threads, SetErase(t)
    PROVE  NameInv'
  <1>1. /\ op[t].at = "set" /\ op[t].at # "idle" /\ UNCHANGED <<made, last>>
        /\ props' = [props EXCEPT ![op[t].scope][Head(op[t].path)] = Undefined]
    BY DEF SetErase
  <1>2. PICK r : r = [op[t] EXCEPT !.at = "assign"]
    OBVIOUS
  <1>3. op' = [op EXCEPT ![t] = r]
    BY <1>2 DEF SetErase
  <1>4. op[t] \in OpRecords /\ op[t].scope \in Objects /\ Head(op[t].path) \in Tokens
    BY <1>1, WalkerKnows
  <1>5. /\ r.at = "assign" /\ r.binding = op[t].binding /\ r.scope = op[t].scope
        /\ r.path = op[t].path /\ r.value = op[t].value /\ r.alone = op[t].alone
        /\ r.plain = op[t].plain
    BY <1>2, <1>4 DEF OpRecords
  <1>6. op'[t] = r /\ \A u \in Threads \ {t} : op'[u] = op[u]
    BY <1>3, RecordReplaced
  <1>7. /\ \A o \in Objects : o # op[t].scope => props'[o] = props[o]
        /\ \A o \in Objects, n \in Tokens : props'[o][n] \in {props[o][n], Undefined}
    <2>1. props \in [Objects -> [Tokens -> PropertyValues]]
      BY DEF ObjectInv, ObjectTypes
    <2> QED
      BY <1>1, <1>4, <2>1
  <1>8. BindInv'
    <2>1. \A u \in Threads : Binds(u)' =>
             /\ Binds(u) /\ op'[u].binding = op[u].binding /\ op'[u].path = op[u].path
             /\ op'[u].value = op[u].value
      BY <1>1, <1>5, <1>6 DEF Binds
    <2> QED
      BY <1>1, <1>7, <2>1, BindShrinks DEF NameInv
  <1>9. /\ \A u \in Threads \ {t} : WayOf(u)'
        /\ ~last.plain
        /\ op[t].alone => \A u \in Threads \ {t} : op'[u].at = "idle"
    BY <1>1, <1>6, OthersDisturbed DEF NameInv
  <1>10. ASSUME NEW k \in Nat, NEW w \in [0..k -> Objects], Way(t, k, w) PROVE Way(t, k, w)'
    <2>1. Chain(props, last.path, k, w) /\ w[k] = op[t].scope
      BY <1>10 DEF Way
    <2>2. PICK p, q, path : p = props /\ q = props' /\ path = last.path
      OBVIOUS
    <2>3. Chain(p, path, k, w) /\ \A o \in Objects : o # w[k] => q[o] = p[o]
      BY <1>7, <2>1, <2>2
    <2>4. Chain(q, path, k, w)
      BY <1>10, <2>3, ChainKept
    <2>5. Chain(props, last.path, k, w)'
      BY <1>1, <2>2, <2>4 DEF Chain, Free, StartOf, IsObject
    <2>6. Free(props, op[t].scope, op[t].path[1])
      BY <1>1, <1>10 DEF Way, Binds
    <2>7. Free(props', op[t].scope, op[t].path[1])
      <3>1. op[t].path[1] \in Tokens
        BY <1>1, WalkerKnows
      <3>2. Getters[op[t].path[1]] \subseteq Tokens /\ Undefined # AMethod
        BY <3>1, BoundObjectsAssumption
      <3>3. \A m \in Tokens : props'[op[t].scope][m] = AMethod => props[op[t].scope][m] = AMethod
        BY <1>4, <1>7, <3>2
      <3> QED
        BY <2>6, <3>2, <3>3 DEF Free
    <2> QED
      BY <1>1, <1>5, <1>6, <1>10, <2>5, <2>7 DEF Way, Free
  <1>11. WayOf(t)'
    <2>1. WayOf(t)
      BY DEF NameInv
    <2> QED
      BY <1>1, <1>5, <1>6, <1>9, <1>10, <2>1 DEF WayOf
  <1>12. ReadsInv'
    BY <1>1, <1>9 DEF ReadsInv
  <1> QED
    BY <1>8, <1>9, <1>11, <1>12 DEF NameInv

\* The owner of an object takes a property out: every thread in SetNS is disturbed.
LEMMA UnSetNames ==
    ASSUME ObjectInv, NameInv, NEW o \in Objects, NEW n \in Tokens, UnSet(o, n)
    PROVE  NameInv'
  <1>1. /\ props' = [props EXCEPT ![o][n] = Undefined]
        /\ op' = Disturbed /\ last' = [last EXCEPT !.plain = FALSE] /\ UNCHANGED made
    BY DEF UnSet
  <1>2. /\ props \in [Objects -> [Tokens -> PropertyValues]] /\ op \in [Threads -> OpRecords]
        /\ last \in [path : Seq(Tokens), value : PropertyValues, plain : BOOLEAN]
    BY DEF ObjectInv, ObjectTypes
  <1>3. \A a \in Objects, m \in Tokens : props'[a][m] \in {props[a][m], Undefined}
    BY <1>1, <1>2
  <1>4. \A u \in Threads : Disturbed[u].alone = FALSE
    <2>1. ASSUME NEW a \in OpRecords, NEW s, s = [a EXCEPT !.alone = FALSE]
          PROVE  s.alone = FALSE
      BY <2>1 DEF OpRecords
    <2> QED
      BY <1>2, <2>1 DEF Disturbed
  <1>5. BindInv'
    <2>1. \A u \in Threads : Binds(u)' =>
             /\ Binds(u) /\ op'[u].binding = op[u].binding /\ op'[u].path = op[u].path
             /\ op'[u].value = op[u].value
      BY <1>1, <1>2, DisturbedKeeps DEF Binds
    <2> QED
      BY <1>1, <1>3, <2>1, BindShrinks DEF NameInv
  <1>6. \A u \in Threads : WayOf(u)'
    BY <1>1, <1>4 DEF WayOf
  <1>7. ReadsInv'
    BY <1>1, <1>2 DEF ReadsInv
  <1> QED
    BY <1>5, <1>6, <1>7 DEF NameInv

\* What Set binds is bound in that one place.
LEMMA BindsOnce ==
    ASSUME ObjectInv, BindInv, NEW t \in Threads, op[t].at = "assign", NEW n \in Tokens,
           props' = [props EXCEPT ![op[t].scope][n] = op[t].binding], made' = made,
           op[t].binding \in Bindable \cup Created,
           ~Binds(t)', \A u \in Threads \ {t} : op'[u] = op[u]
    PROVE  BindInv'
  <1> DEFINE o == op[t].scope
             v == op[t].binding
  <1>1. /\ o \in Objects /\ props \in [Objects -> [Tokens -> PropertyValues]]
    BY WalkerKnows DEF ObjectInv, ObjectTypes
  <1>2. /\ props'[o][n] = v
        /\ \A p \in Objects, m \in Tokens : p # o \/ m # n => props'[p][m] = props[p][m]
    BY <1>1
  <1>3. ASSUME v \in Created
        PROVE  v \in made /\ \A p \in Objects, m \in Tokens : props[p][m] # v
    BY <1>3 DEF BindInv, Binds
  <1>4. /\ \A a : a \in Bindable => ~IsObject(a) /\ a \notin Created /\ a # Global
        /\ \A a : a \in Created => IsObject(a) /\ a # Global
    BY ObjectsApart DEF Bindable
  <1>5. v \in Bindable \cup Created
    OBVIOUS
  <1> HIDE DEF o, v
  <1>6. ASSUME NEW p \in Objects, NEW q \in Objects, NEW m \in Tokens, NEW l \in Tokens,
               props'[p][m] = props'[q][l], IsObject(props'[p][m])
        PROVE  p = q /\ m = l
    <2>1. CASE p = o /\ m = n
      <3>1. v \in Created
        BY <1>2, <1>4, <1>5, <1>6, <2>1
      <3> QED
        BY <1>2, <1>3, <1>6, <2>1, <3>1
    <2>2. CASE q = o /\ l = n
      <3>1. v \in Created
        BY <1>2, <1>4, <1>5, <1>6, <2>2
      <3> QED
        BY <1>2, <1>3, <1>6, <2>2, <3>1
    <2>3. CASE ~(p = o /\ m = n) /\ ~(q = o /\ l = n)
      <3>1. props'[p][m] = props[p][m] /\ props'[q][l] = props[q][l]
        BY <1>2, <2>3
      <3> QED
        BY <1>6, <3>1 DEF BindInv
    <2> QED
      BY <2>1, <2>2, <2>3
  <1>7. ASSUME NEW p \in Objects, NEW m \in Tokens
        PROVE  /\ props'[p][m] # Global
               /\ props'[p][m] \in Created => props'[p][m] \in made'
    <2>1. CASE p = o /\ m = n
      BY <1>2, <1>3, <1>4, <1>5, <2>1
    <2>2. CASE ~(p = o /\ m = n)
      <3>1. props'[p][m] = props[p][m]
        BY <1>2, <2>2
      <3> QED
        BY <3>1 DEF BindInv
    <2> QED
      BY <2>1, <2>2
  <1>8. ASSUME NEW u \in Threads, Binds(u)'
        PROVE  op'[u] = op[u] /\ Binds(u) /\ u # t
    BY <1>8 DEF Binds
  <1>9. ASSUME NEW u \in Threads, Binds(u)'
        PROVE  /\ Len(op'[u].path) = 1 => op'[u].binding = op'[u].value
               /\ op'[u].binding \in Created =>
                     /\ op'[u].binding \in made'
                     /\ \A p \in Objects, m \in Tokens : props'[p][m] # op'[u].binding
    <2>1. op'[u] = op[u] /\ Binds(u) /\ u # t
      BY <1>8, <1>9
    <2>2. Len(op[u].path) = 1 => op[u].binding = op[u].value
      BY <2>1 DEF BindInv
    <2>3. ASSUME op[u].binding \in Created
          PROVE  /\ op[u].binding \in made /\ op[u].binding # v
                 /\ \A p \in Objects, m \in Tokens : props[p][m] # op[u].binding
      <3>1. Binds(t)
        BY DEF Binds
      <3> QED
        BY <2>1, <2>3, <3>1 DEF BindInv, v
    <2>4. ASSUME op[u].binding \in Created, NEW p \in Objects, NEW m \in Tokens
          PROVE  props'[p][m] # op[u].binding
      BY <1>2, <2>3, <2>4
    <2> QED
      BY <2>1, <2>2, <2>3, <2>4
  <1>10. ASSUME NEW u \in Threads, NEW x \in Threads, Binds(u)', Binds(x)',
                op'[u].binding = op'[x].binding, op'[u].binding \in Created
         PROVE  u = x
    <2>1. op'[u] = op[u] /\ Binds(u) /\ op'[x] = op[x] /\ Binds(x)
      BY <1>8, <1>10
    <2> QED
      BY <1>10, <2>1 DEF BindInv
  <1> QED
    BY <1>6, <1>7, <1>9, <1>10 DEF BindInv, Binds, IsObject

\* An object that is bound nowhere is not on anybody's way.
LEMMA UnboundOffChain ==
    ASSUME ObjectInv, NEW k \in Nat, NEW w \in [0..k -> Objects], k < Len(last.path),
           Chain(props, last.path, k, w), NEW v \in Created,
           \A p \in Objects, m \in Tokens : props[p][m] # v
    PROVE  \A i \in 0..k : w[i] # v
  <1> SUFFICES ASSUME NEW i \in 0..k PROVE w[i] # v
    OBVIOUS
  <1>1. CASE i = 0
    BY <1>1, ObjectsApart DEF Chain, StartOf
  <1>2. CASE i # 0
    <2>1. i \in 1..k /\ i - 1 \in 0..k
      BY <1>2
    <2>2. w[i] = props[w[i - 1]][last.path[i]] /\ w[i - 1] \in Objects
      BY <2>1 DEF Chain
    <2>3. last.path \in Seq(Tokens)
      BY DEF ObjectInv, ObjectTypes
    <2>4. i \in 1..Len(last.path)
      <3>1. PICK l \in Nat : l = Len(last.path)
        BY <2>3
      <3>2. k < l
        BY <3>1
      <3>3. i \in 1..l
        BY <2>1, <3>2
      <3> QED
        BY <3>1, <3>3
    <2>5. last.path[i] \in Tokens
      BY <2>3, <2>4
    <2> QED
      BY <2>2, <2>5
  <1> QED
    BY <1>1, <1>2

\* Set binds: SetNS goes on in the object it created, or is done.
LEMMA SetAssignNames ==
    ASSUME ObjectInv, NameInv, NEW t \in Threads, SetAssign(t)
    PROVE  NameInv'
  <1>1. /\ op[t].at = "assign" /\ op[t].at # "idle" /\ made' = made
        /\ props' = [props EXCEPT ![op[t].scope][Head(op[t].path)] = op[t].binding]
    BY DEF SetAssign
  <1>2. /\ op[t] \in OpRecords /\ op[t].scope \in Objects /\ op[t].value \in Bindable
        /\ op[t].path \in Seq(Tokens) /\ Len(op[t].path) \in Nat
        /\ Head(op[t].path) = op[t].path[1] /\ op[t].path[1] \in Tokens
        /\ Len(Tail(op[t].path)) = Len(op[t].path) - 1
        /\ \A i \in 1..Len(op[t].path) - 1 : Tail(op[t].path)[i] = op[t].path[i + 1]
        /\ Tail(op[t].path) = <<>> <=> Len(op[t].path) = 1
    BY <1>1, WalkerKnows
  <1>3. PICK l \in Nat : l = Len(op[t].path) /\ l >= 1
    BY <1>1, WalkerKnows
  <1>4. /\ Binds(t) /\ props \in [Objects -> [Tokens -> PropertyValues]]
        /\ last \in [path : Seq(Tokens), value : PropertyValues, plain : BOOLEAN]
    BY <1>1 DEF Binds, ObjectInv, ObjectTypes
  <1>5. /\ \A o \in Objects : o # op[t].scope => props'[o] = props[o]
        /\ props'[op[t].scope][op[t].path[1]] = op[t].binding
    BY <1>1, <1>2, <1>4
  <1>6. /\ op[t].alone => last.value = op[t].value
        /\ op[t].alone /\ op[t].plain =>
              \E k \in Nat : \E w \in [0..k -> Objects] : Way(t, k, w)
    BY <1>1 DEF NameInv, WayOf
  \* The way so far is still there, and the property just bound is at its end.
  <1>7. ASSUME NEW k \in Nat, NEW w \in [0..k -> Objects], Way(t, k, w)
        PROVE  /\ Chain(props, last.path, k, w) /\ Chain(props', last.path, k, w)
               /\ Len(last.path) = k + l /\ op[t].path[1] = last.path[k + 1]
               /\ op[t].binding = props'[w[k]][last.path[k + 1]]
               /\ Free(props', w[k], last.path[k + 1])
    <2>1. /\ Chain(props, last.path, k, w) /\ w[k] = op[t].scope /\ Len(last.path) = k + l
          /\ \A i \in 1..l : op[t].path[i] = last.path[k + i]
      BY <1>3, <1>7 DEF Way
    <2>2. PICK p, q, path : p = props /\ q = props' /\ path = last.path
      OBVIOUS
    <2>3. Chain(p, path, k, w) /\ \A o \in Objects : o # w[k] => q[o] = p[o]
      BY <1>5, <2>1, <2>2
    <2>4. Chain(q, path, k, w)
      BY <1>7, <2>3, ChainKept
    <2>5. op[t].path[1] = last.path[k + 1]
      BY <1>3, <2>1
    <2>6. Free(props', op[t].scope, op[t].path[1])
      <3>1. Free(props, op[t].scope, op[t].path[1])
        BY <1>4, <1>7 DEF Way
      <3>2. /\ Getters[op[t].path[1]] \subseteq Tokens
            /\ op[t].path[1] \notin Getters[op[t].path[1]]
        BY <1>2, BoundObjectsAssumption
      <3>3. \A m \in Tokens : m # op[t].path[1] => props'[op[t].scope][m] = props[op[t].scope][m]
        BY <1>1, <1>2, <1>4
      <3> QED
        BY <3>1, <3>2, <3>3 DEF Free
    <2> QED
      BY <1>5, <2>1, <2>2, <2>4, <2>5, <2>6
  <1>8. CASE Tail(op[t].path) # <<>>
    <2>1. op[t].binding \in Created
      BY <1>1, <1>8 DEF ObjectInv, ThreadInv
    <2>2. PICK r : r = [op[t] EXCEPT !.at = "walk", !.scope = op[t].binding,
                                     !.path = Tail(op[t].path)]
      OBVIOUS
    <2>3. op' = [op EXCEPT ![t] = r] /\ last' = last
      BY <1>8, <2>2 DEF SetAssign
    <2>4. /\ r.at = "walk" /\ r.scope = op[t].binding /\ r.path = Tail(op[t].path)
          /\ r.value = op[t].value /\ r.alone = op[t].alone /\ r.plain = op[t].plain
      BY <1>2, <2>2 DEF OpRecords
    <2>5. op'[t] = r /\ \A u \in Threads \ {t} : op'[u] = op[u]
      BY <2>3, RecordReplaced
    <2>6. ~Binds(t)'
      BY <2>4, <2>5 DEF Binds
    <2>7. BindInv'
      BY <1>1, <1>2, <2>1, <2>5, <2>6, BindsOnce DEF NameInv
    <2>8. /\ \A u \in Threads \ {t} : WayOf(u)'
          /\ ~last.plain
          /\ op[t].alone => \A u \in Threads \ {t} : op'[u].at = "idle"
      BY <1>1, <2>5, OthersDisturbed DEF NameInv
    <2>9. ASSUME op[t].alone, op[t].plain
          PROVE  \E k \in Nat : \E w \in [0..k -> Objects] : Way(t, k, w)'
      <3>1. PICK k \in Nat : \E w \in [0..k -> Objects] : Way(t, k, w)
        BY <1>6, <2>9
      <3>2. PICK w \in [0..k -> Objects] : Way(t, k, w)
        BY <3>1
      <3>3. PICK v \in Created : v = op[t].binding
        BY <2>1
      <3>4. /\ Chain(props, last.path, k, w) /\ Chain(props', last.path, k, w)
            /\ Len(last.path) = k + l
            /\ v = props'[w[k]][last.path[k + 1]] /\ Free(props', w[k], last.path[k + 1])
        BY <1>7, <3>2, <3>3
      <3>5. \A p \in Objects, m \in Tokens : props[p][m] # v
        BY <1>4, <3>3 DEF NameInv, BindInv
      <3>6. k < Len(last.path)
        <4>1. k < k + l
          BY <1>3, <3>1
        <4> QED
          BY <3>4, <4>1
      <3>7. \A i \in 0..k : w[i] # v
        BY <3>1, <3>2, <3>4, <3>5, <3>6, UnboundOffChain
      <3>8. PICK q, path : q = props' /\ path = last.path
        OBVIOUS
      <3>9. Further(q, path, k, w, v)
        BY <3>1, <3>2, <3>4, <3>7, <3>8, ObjectsApart DEF Further
      <3>10. ChainTo(q, path, k + 1, v)
        BY <3>9, ChainExtended
      <3>11. PICK x \in [0..k + 1 -> Objects] : Chain(q, path, k + 1, x) /\ x[k + 1] = v
        BY <3>10 DEF ChainTo
      <3>12. Chain(props, last.path, k + 1, x)'
        BY <2>3, <3>8, <3>11 DEF Chain, Free, StartOf, IsObject
      <3>13. PICK m \in Nat : m = Len(r.path) /\ m = l - 1 /\ k + l = (k + 1) + m
        <4>1. l >= 1
          BY <1>3
        <4>2. l - 1 \in Nat /\ k + l = (k + 1) + (l - 1)
          BY <4>1
        <4>3. Len(r.path) = l - 1
          BY <1>2, <1>3, <2>4
        <4> QED
          BY <4>2, <4>3
      <3>14. Len(last.path) = (k + 1) + Len(r.path)
        BY <3>4, <3>13
      <3>15. ASSUME NEW i \in 1..Len(r.path) PROVE r.path[i] = last.path[(k + 1) + i]
        <4>1. i \in 1..l - 1 /\ i + 1 \in 1..l /\ (k + 1) + i = k + (i + 1)
          BY <1>3, <3>1, <3>13, <3>15
        <4>2. r.path[i] = op[t].path[i + 1]
          BY <1>2, <1>3, <2>4, <4>1
        <4>3. op[t].path[i + 1] = last.path[k + (i + 1)]
          BY <1>3, <3>2, <4>1 DEF Way
        <4> QED
          BY <4>1, <4>2, <4>3
      <3>16. Way(t, k + 1, x)'
        <4>1. x[k + 1] = op'[t].scope
          BY <2>4, <2>5, <3>3, <3>11
        <4> QED
          BY <2>3, <2>5, <2>6, <3>12, <3>14, <3>15, <4>1 DEF Way
      <3> QED
        BY <3>1, <3>16
    <2>10. WayOf(t)'
      BY <1>6, <2>3, <2>4, <2>5, <2>8, <2>9 DEF WayOf
    <2>11. ReadsInv'
      BY <2>3, <2>8 DEF ReadsInv
    <2> QED
      BY <2>7, <2>8, <2>10, <2>11 DEF NameInv
  <1>9. CASE Tail(op[t].path) = <<>>
    <2>1. PICK b \in BOOLEAN : b = (op[t].plain /\ op[t].alone)
      OBVIOUS
    <2>2. op' = [op EXCEPT ![t] = Idle] /\ last' = [last EXCEPT !.plain = b]
      BY <1>9, <2>1 DEF SetAssign
    <2>3. op'[t] = Idle /\ \A u \in Threads \ {t} : op'[u] = op[u]
      BY <2>2, RecordReplaced
    <2>4. op'[t].at = "idle"
      BY <2>3, IdleTyped
    <2>5. op[t].binding = op[t].value
      BY <1>2, <1>4, <1>9 DEF NameInv, BindInv
    <2>6. BindInv'
      <3>1. ~Binds(t)' /\ op[t].binding \in Bindable
        BY <1>2, <2>4, <2>5 DEF Binds
      <3> QED
        BY <1>1, <1>2, <2>3, <3>1, BindsOnce DEF NameInv
    <2>7. /\ \A u \in Threads \ {t} : WayOf(u)'
          /\ op[t].alone => \A u \in Threads \ {t} : op'[u].at = "idle"
      BY <1>1, <2>3, OthersDisturbed DEF NameInv
    <2>8. WayOf(t)'
      BY <2>4 DEF WayOf
    <2>9. last'.path = last.path /\ last'.value = last.value /\ last'.plain = b
      BY <1>4, <2>2
    <2>10. ASSUME b PROVE ReadsInv'
      <3>1. op[t].alone /\ op[t].plain
        BY <2>1, <2>10
      <3>2. PICK k \in Nat : \E w \in [0..k -> Objects] : Way(t, k, w)
        BY <1>6, <3>1
      <3>3. PICK w \in [0..k -> Objects] : Way(t, k, w)
        BY <3>2
      <3>4. /\ Chain(props', last.path, k, w) /\ Len(last.path) = k + l
            /\ op[t].binding = props'[w[k]][last.path[k + 1]]
            /\ Free(props', w[k], last.path[k + 1])
        BY <1>7, <3>3
      <3>5. l = 1
        BY <1>2, <1>3, <1>9
      <3>6. Len(last.path) = k + 1 /\ Len(last.path) - 1 = k
        BY <3>2, <3>4, <3>5
      <3>7. last.path # <<>>
        <4>1. Len(last.path) # 0
          BY <3>2, <3>6
        <4> QED
          BY <4>1
      <3>8. last.value = op[t].binding
        BY <1>6, <2>5, <3>1
      <3>9. \A u \in Threads : op'[u].at = "idle"
        BY <2>4, <2>7, <3>1
      <3>10. /\ w \in [0..Len(last'.path) - 1 -> Objects]
             /\ Chain(props', last'.path, Len(last'.path) - 1, w)
             /\ Free(props', w[Len(last'.path) - 1], last'.path[Len(last'.path)])
             /\ last'.value = props'[w[Len(last'.path) - 1]][last'.path[Len(last'.path)]]
        BY <2>9, <3>3, <3>4, <3>6, <3>8
      <3>11. /\ Chain(props, last.path, Len(last.path) - 1, w)'
             /\ Free(props, w[Len(last.path) - 1], last.path[Len(last.path)])'
        BY <3>10 DEF Chain, Free, StartOf, IsObject
      <3> QED
        BY <2>9, <3>7, <3>9, <3>10, <3>11 DEF ReadsInv
    <2>11. ASSUME ~b PROVE ReadsInv'
      BY <2>9, <2>11 DEF ReadsInv
    <2> QED
      BY <2>6, <2>7, <2>8, <2>10, <2>11 DEF NameInv
  <1> QED
    BY <1>8, <1>9

\* A setter is called: SetNS goes on in an object that it did not bind.
LEMMA CallSetterNames ==
    ASSUME ObjectInv, NameInv, NEW t \in Threads, CallSetter(t)
    PROVE  NameInv'
  <1>1. op[t].at # "idle" /\ UNCHANGED <<props, made, last>>
    BY DEF CallSetter, Intercepted
  <1>2. CASE Tail(op[t].path) = <<>>
    <2>1. op' = [op EXCEPT ![t] = Idle]
      BY <1>2 DEF CallSetter
    <2> QED
      BY <1>1, <2>1, ThrowNames
  <1>3. CASE Tail(op[t].path) # <<>>
    <2>1. PICK r : r = [op[t] EXCEPT !.at = "walk", !.scope = op[t].binding,
                                     !.path = Tail(op[t].path), !.plain = FALSE]
      OBVIOUS
    <2>2. op' = [op EXCEPT ![t] = r]
      BY <1>3, <2>1 DEF CallSetter
    <2>3. op[t] \in OpRecords
      BY <1>1, WalkerKnows
    <2>4. r.at = "walk" /\ r.plain = FALSE /\ r.alone = op[t].alone /\ r.value = op[t].value
      BY <2>1, <2>3 DEF OpRecords
    <2>5. op'[t] = r /\ \A u \in Threads \ {t} : op'[u] = op[u]
      BY <2>2, RecordReplaced
    <2>6. /\ \A u \in Threads \ {t} : WayOf(u)'
          /\ ~last.plain
          /\ op[t].alone => \A u \in Threads \ {t} : op'[u].at = "idle"
      BY <1>1, <2>5, OthersDisturbed DEF NameInv
    <2>7. BindInv'
      <3>1. \A u \in Threads : Binds(u)' =>
               /\ Binds(u) /\ op'[u].binding = op[u].binding /\ op'[u].path = op[u].path
               /\ op'[u].value = op[u].value
        BY <2>4, <2>5 DEF Binds
      <3> QED
        BY <1>1, <3>1, BindShrinks DEF NameInv
    <2>8. op[t].alone => last.value = op[t].value
      BY <1>1 DEF NameInv, WayOf
    <2>9. WayOf(t)' /\ ReadsInv'
      BY <1>1, <2>4, <2>5, <2>6, <2>8 DEF WayOf, ReadsInv
    <2> QED
      BY <2>6, <2>7, <2>9 DEF NameInv
  <1> QED
    BY <1>2, <1>3

\* Every step keeps what is bound a tree, and the way of an undisturbed SetNS.
LEMMA NameInvNext == ObjectInv /\ NameInv /\ [BoundObjectsNext]_objectVars => NameInv'
  <1> SUFFICES ASSUME ObjectInv, NameInv, [BoundObjectsNext]_objectVars
               PROVE  NameInv'
    OBVIOUS
  <1>1. ASSUME UNCHANGED <<props, made, op, last>> PROVE NameInv'
    <2>1. BindInv'
      BY <1>1, BindShrinks DEF NameInv, Binds
    <2>2. \A t, k, w : Way(t, k, w)' <=> Way(t, k, w)
      BY <1>1 DEF Way, Binds, Chain, Free, StartOf, IsObject
    <2>3. ASSUME NEW t \in Threads PROVE WayOf(t)'
      <3>1. WayOf(t)
        BY DEF NameInv
      <3> QED
        BY <1>1, <2>2, <3>1 DEF WayOf
    <2>4. /\ \A k, w : Chain(props, last.path, k, w)' <=> Chain(props, last.path, k, w)
          /\ \A o, n : Free(props, o, n)' <=> Free(props, o, n)
      BY <1>1 DEF Chain, Free, StartOf, IsObject
    <2>5. ReadsInv'
      BY <1>1, <2>4 DEF NameInv, ReadsInv
    <2> QED
      BY <2>1, <2>3, <2>5 DEF NameInv
  <1>2. ASSUME NEW t \in Threads, NEW name \in Keys, NEW v \in Bindable, APISet(t, name, v)
        PROVE  NameInv'
    BY <1>2, APISetNames
  <1>3. ASSUME NEW t \in Threads, StepInto(t) PROVE NameInv'
    BY <1>3, StepIntoNames
  <1>4. ASSUME NEW t \in Threads, RefuseNamespace(t) PROVE NameInv'
    BY <1>4, ThrowNames DEF RefuseNamespace, Walks
  <1>5. ASSUME NEW t \in Threads, CreateNamespace(t) PROVE NameInv'
    BY <1>5, CreateNames
  <1>6. ASSUME NEW t \in Threads, BindValue(t) PROVE NameInv'
    BY <1>6, BindValueNames
  <1>7. ASSUME NEW t \in Threads, SetErase(t) PROVE NameInv'
    BY <1>7, SetEraseNames
  <1>8. ASSUME NEW t \in Threads, SetAssign(t) PROVE NameInv'
    BY <1>8, SetAssignNames
  <1>9. ASSUME NEW t \in Threads, WalkInFreed(t) PROVE NameInv'
    BY <1>1, <1>9 DEF WalkInFreed
  <1>10. ASSUME NEW o \in Objects, NEW n \in Tokens, ReadProperty(o, n) PROVE NameInv'
    BY <1>1, <1>10 DEF ReadProperty
  <1>11. ASSUME NEW o \in Objects, NEW n \in Tokens, UnSet(o, n) PROVE NameInv'
    BY <1>11, UnSetNames
  <1>12. ASSUME NEW t \in Threads, NEW name \in Keys, SetNothing(t, name) PROVE NameInv'
    BY <1>1, <1>12 DEF SetNothing
  <1>13. ASSUME NEW t \in Threads, CallSetter(t) PROVE NameInv'
    BY <1>13, CallSetterNames
  <1>14. ASSUME NEW t \in Threads, AccessorThrows(t) PROVE NameInv'
    BY <1>14, ThrowNames DEF AccessorThrows, Intercepted, Walks
  <1>15. ASSUME UNCHANGED objectVars PROVE NameInv'
    BY <1>1, <1>15 DEF objectVars
  <1> QED
    BY <1>2, <1>3, <1>4, <1>5, <1>6, <1>7, <1>8, <1>9, <1>10, <1>11, <1>12, <1>13, <1>14, <1>15
    DEF BoundObjectsNext

\* What API.set bound, API.get finds under the same dotted name, and nothing else,
\* if nobody else was writing, the name has no empty token, only objects were on
\* the way and no accessor of API was called: no object that SetNS writes into is
\* one it came through, and no property it binds is an accessor for its own name.
THEOREM NamesReadBack == BoundObjectsSpec => []NamespaceReadsBack
  <1>1. ObjectInv /\ NameInv => NamespaceReadsBack
    <2> SUFFICES ASSUME ObjectInv, NameInv, last.plain
                 PROVE  GetNS(last.path) = {last.value}
      BY DEF NamespaceReadsBack
    <2>1. last.path \in Seq(Tokens)
      BY DEF ObjectInv, ObjectTypes
    <2>2. last.path # <<>>
      BY DEF NameInv, ReadsInv
    <2>3. PICK w \in [0..Len(last.path) - 1 -> Objects] :
             /\ Chain(props, last.path, Len(last.path) - 1, w)
             /\ Free(props, w[Len(last.path) - 1], last.path[Len(last.path)])
             /\ last.value = props[w[Len(last.path) - 1]][last.path[Len(last.path)]]
      BY DEF NameInv, ReadsInv
    <2>4. GetNS(last.path) = {props[w[Len(last.path) - 1]][last.path[Len(last.path)]]}
      <3>1. PICK path \in Seq(Tokens) : path = last.path
        BY <2>1
      <3>2. /\ path # <<>> /\ w \in [0..Len(path) - 1 -> Objects]
            /\ Chain(props, path, Len(path) - 1, w)
            /\ Free(props, w[Len(path) - 1], path[Len(path)])
        BY <2>2, <2>3, <3>1
      <3>3. GetNS(path) = {props[w[Len(path) - 1]][path[Len(path)]]}
        BY <3>2, ChainRead
      <3> QED
        BY <3>1, <3>3
    <2> QED
      BY <2>3, <2>4
  <1> QED
    BY ObjectInvInit, ObjectInvNext, NameInvInit, NameInvNext, <1>1, PTL DEF BoundObjectsSpec

-----------------------------------------------------------------------------
(* Language bridges.                                                        *)

Standing == {p \in Proxies : stands[p] # NoValue}
LiveWrappers == {w \in Wrappers : heap[w] = "live"}
WrappersOf(v) == {w \in Wrappers : heap[w] = "live" /\ wraps[w] = v}

\* Sharper types: a proxy never stands for a wrapper, the script objects that
\* Kroll knows of exist or existed, and a wrapper has a value while it lives.
BridgeTypes ==
    /\ bridge \in Languages
    /\ class \in [Natives -> Classes(bridge)]
    /\ heap \in [ScriptObjects -> {"absent", "live", "collected"}]
    /\ \A x \in Natives : heap[x] # "absent"
    /\ reached \subseteq {x \in ScriptObjects : heap[x] = "live"} \X open
    /\ pins \in [ScriptObjects -> Nat]
    /\ leaked \subseteq {x \in ScriptObjects : heap[x] = "live"}
    /\ wraps \in [Wrappers -> KrollValues \cup {NoValue}]
    /\ \A w \in Wrappers : heap[w] = "live" <=> wraps[w] # NoValue
    /\ place \in [Wrappers -> Contexts \cup {NoValue}]
    /\ stands \in [Proxies -> Natives \cup {NoValue}]
    /\ origin \in [Proxies -> Contexts \cup {NoValue}]
    /\ \A p \in Proxies : stands[p] # NoValue => origin[p] \in Contexts
    /\ refs \in [KrollValues -> Nat]
    /\ kept \subseteq KrollValues
    /\ open \subseteq Contexts
    /\ bridge # "js" => open = {Interpreter}
    /\ retained \in [Contexts -> Nat]
    /\ lost \in BOOLEAN

\* A value's count is the number of its holders, and a proxy stands for an
\* object exactly while it is counted.
RefsCounted ==
    /\ IsFiniteSet(LiveWrappers)
    /\ \A v \in KrollValues :
          refs[v] = (IF v \in kept THEN 1 ELSE 0) + Cardinality(WrappersOf(v))
    /\ \A p \in Proxies : stands[p] # NoValue <=> refs[p] > 0

\* The proxies of the objects in S, made in the contexts in C, that protect their
\* object i times or more, and their protections: no proxy protects more than twice.
Protectors(S, C, i) ==
    {p \in Proxies : stands[p] \in S /\ origin[p] \in C /\ Pins(class[stands[p]]) >= i}
Protections(S, C) ==
    Cardinality(Protectors(S, C, 1)) + Cardinality(Protectors(S, C, 2))

\* An object is protected as often as its proxies protect it, a context as often
\* as the proxies made in it do.
ProtectionsCounted ==
    /\ IsFiniteSet(Standing)
    /\ \A x \in Natives : pins[x] = Protections({x}, Contexts)
    /\ \A c \in Contexts :
          retained[c] = IF bridge = "js" THEN Protections(Natives, {c}) ELSE 0

\* Objects with a proxy are not collected.
StandingAlive == bridge # "ruby" => \A p \in Standing : heap[stands[p]] = "live"

\* The wrappers of proxies are in contexts of other groups than the proxies.
Unwrapped ==
    \A w \in LiveWrappers : wraps[w] \in Proxies =>
       \/ bridge = "php"
       \/ bridge = "js" /\ ContextGroup[origin[wraps[w]]] # ContextGroup[place[w]]

BridgeInv == BridgeTypes /\ RefsCounted /\ ProtectionsCounted /\ StandingAlive /\ Unwrapped

-----------------------------------------------------------------------------
(* Protections.                                                             *)

\* A constructor protects its object once or twice, in Ruby not at all.
LEMMA PinsRange ==
    ASSUME BridgeTypes, NEW x \in Natives
    PROVE  /\ Pins(class[x]) \in 0..2
           /\ bridge # "ruby" => Pins(class[x]) >= 1
  <1>1. bridge \in Languages /\ class[x] \in Classes(bridge)
    BY DEF BridgeTypes
  <1> USE DEF Languages, Classes, Pins
  <1>2. CASE bridge = "js"
    BY <1>1, <1>2 DEF JsClasses, JsPins, JsObjectPins, JsListPins, JsMethodPins
  <1>3. CASE bridge = "python"
    BY <1>1, <1>3 DEF PythonClasses, PythonPins, PythonObjectPins, PythonListPins, PythonMethodPins
  <1>4. CASE bridge = "ruby"
    BY <1>1, <1>4 DEF RubyPins
  <1>5. CASE bridge = "php"
    BY <1>1, <1>5 DEF PhpPins
  <1> QED
    BY <1>1, <1>2, <1>3, <1>4, <1>5

\* What a class protects does not change with the state.
LEMMA PinsSame ==
    ASSUME bridge' = bridge, NEW k
    PROVE  Pins(k)' = Pins(k)
  BY DEF Pins, JsPins, PythonPins, RubyPins, PhpPins

\* The proxies that protect an object are finitely many.
LEMMA ProtectorsFinite ==
    ASSUME BridgeTypes, IsFiniteSet(Standing), NEW S \in SUBSET Natives, NEW C, NEW i
    PROVE  IsFiniteSet(Protectors(S, C, i)) /\ Cardinality(Protectors(S, C, i)) \in Nat
  <1>1. Protectors(S, C, i) \subseteq Standing
    BY LanguageBridgesAssumption DEF Protectors, Standing
  <1> QED
    BY <1>1, FS_Subset, FS_CardinalityType

\* An object with no proxy has no protection, and the proxies of a language other
\* than Ruby give some.
LEMMA ProtectionsZero ==
    ASSUME BridgeTypes, IsFiniteSet(Standing), NEW S \in SUBSET Natives, NEW C
    PROVE  /\ (\A p \in Standing : stands[p] \notin S \/ origin[p] \notin C) =>
                 Protections(S, C) = 0
           /\ Protections(S, C) \in Nat
           /\ bridge # "ruby" =>
                 \A p \in Proxies : stands[p] \in S /\ origin[p] \in C =>
                    Protections(S, C) > 0
  <1>1. /\ IsFiniteSet(Protectors(S, C, 1)) /\ Cardinality(Protectors(S, C, 1)) \in Nat
        /\ IsFiniteSet(Protectors(S, C, 2)) /\ Cardinality(Protectors(S, C, 2)) \in Nat
    BY ProtectorsFinite
  <1>2. (\A p \in Standing : stands[p] \notin S \/ origin[p] \notin C) => Protections(S, C) = 0
    <2> SUFFICES ASSUME \A p \in Standing : stands[p] \notin S \/ origin[p] \notin C
                 PROVE  Protections(S, C) = 0
      OBVIOUS
    <2>1. NoValue \notin S
      BY LanguageBridgesAssumption
    <2>2. Protectors(S, C, 1) = {} /\ Protectors(S, C, 2) = {}
      BY <2>1 DEF Protectors, Standing
    <2> QED
      BY <2>2, FS_EmptySet DEF Protections
  <1>3. ASSUME bridge # "ruby", NEW p \in Proxies, stands[p] \in S, origin[p] \in C
        PROVE  Protections(S, C) > 0
    <2>1. Pins(class[stands[p]]) >= 1
      BY <1>3, PinsRange
    <2>2. p \in Protectors(S, C, 1)
      BY <1>3, <2>1 DEF Protectors
    <2>3. Cardinality(Protectors(S, C, 1)) # 0
      BY <1>1, <2>2, FS_EmptySet
    <2> QED
      BY <1>1, <2>3 DEF Protections
  <1> QED
    BY <1>1, <1>2, <1>3 DEF Protections

\* A new proxy adds its protections.
LEMMA ProtectionsAdded ==
    ASSUME BridgeTypes, IsFiniteSet(Standing), UNCHANGED <<bridge, class>>,
           NEW S \in SUBSET Natives, NEW C, NEW p \in Proxies, NEW x \in Natives, NEW c,
           stands[p] = NoValue,
           stands' = [stands EXCEPT ![p] = x], origin' = [origin EXCEPT ![p] = c]
    PROVE  Protections(S, C)' = Protections(S, C) + (IF x \in S /\ c \in C THEN Pins(class[x]) ELSE 0)
  <1>1. ASSUME NEW i \in 1..2
        PROVE  /\ Cardinality(Protectors(S, C, i)) \in Nat
               /\ Cardinality(Protectors(S, C, i)') = Cardinality(Protectors(S, C, i))
                    + (IF x \in S /\ c \in C /\ Pins(class[x]) >= i THEN 1 ELSE 0)
    <2>1. IsFiniteSet(Protectors(S, C, i)) /\ Cardinality(Protectors(S, C, i)) \in Nat
      BY ProtectorsFinite
    <2>2. p \notin Protectors(S, C, i)
      BY LanguageBridgesAssumption DEF Protectors
    <2>3. /\ stands'[p] = x /\ origin'[p] = c
          /\ \A q \in Proxies : q # p => stands'[q] = stands[q] /\ origin'[q] = origin[q]
      BY DEF BridgeTypes
    <2>4. \A y : Pins(class[y])' = Pins(class[y])
      BY PinsSame
    <2>5. Protectors(S, C, i)' = {q \in Proxies : /\ stands'[q] \in S /\ origin'[q] \in C
                                                /\ Pins(class[stands'[q]]) >= i}
      BY <2>4 DEF Protectors
    <2>6. CASE x \in S /\ c \in C /\ Pins(class[x]) >= i
      <3>1. Protectors(S, C, i)' = Protectors(S, C, i) \cup {p}
        BY <2>3, <2>5, <2>6 DEF Protectors
      <3> QED
        BY <2>1, <2>2, <2>6, <3>1, FS_AddElement
    <2>7. CASE ~ (x \in S /\ c \in C /\ Pins(class[x]) >= i)
      <3>1. Protectors(S, C, i)' = Protectors(S, C, i)
        BY <2>2, <2>3, <2>5, <2>7 DEF Protectors
      <3> QED
        BY <2>1, <2>7, <3>1
    <2> QED
      BY <2>6, <2>7
  <1>2. Pins(class[x]) \in 0..2
    BY PinsRange
  <1>3. 1 \in 1..2 /\ 2 \in 1..2
    OBVIOUS
  <1>4. /\ Cardinality(Protectors(S, C, 1)') = Cardinality(Protectors(S, C, 1))
              + (IF x \in S /\ c \in C /\ Pins(class[x]) >= 1 THEN 1 ELSE 0)
        /\ Cardinality(Protectors(S, C, 2)') = Cardinality(Protectors(S, C, 2))
              + (IF x \in S /\ c \in C /\ Pins(class[x]) >= 2 THEN 1 ELSE 0)
        /\ Cardinality(Protectors(S, C, 1)) \in Nat /\ Cardinality(Protectors(S, C, 2)) \in Nat
    BY <1>1, <1>3
  <1>5. Protections(S, C)' = Cardinality(Protectors(S, C, 1)') + Cardinality(Protectors(S, C, 2)')
    BY DEF Protections
  <1> QED
    BY <1>2, <1>4, <1>5 DEF Protections

\* A deleted proxy takes them away.
LEMMA ProtectionsRemoved ==
    ASSUME BridgeTypes, IsFiniteSet(Standing), UNCHANGED <<bridge, class>>,
           NEW S \in SUBSET Natives, NEW C, NEW p \in Proxies, NEW x \in Natives, NEW c,
           stands[p] = x, origin[p] = c,
           stands' = [stands EXCEPT ![p] = NoValue], origin' = [origin EXCEPT ![p] = NoValue]
    PROVE  Protections(S, C)' = Protections(S, C) - (IF x \in S /\ c \in C THEN Pins(class[x]) ELSE 0)
  <1>1. ASSUME NEW i \in 1..2
        PROVE  /\ Cardinality(Protectors(S, C, i)) \in Nat
               /\ Cardinality(Protectors(S, C, i)') = Cardinality(Protectors(S, C, i))
                    - (IF x \in S /\ c \in C /\ Pins(class[x]) >= i THEN 1 ELSE 0)
    <2>1. IsFiniteSet(Protectors(S, C, i)) /\ Cardinality(Protectors(S, C, i)) \in Nat
      BY ProtectorsFinite
    <2>2. NoValue \notin S
      BY LanguageBridgesAssumption
    <2>3. /\ stands'[p] = NoValue
          /\ \A q \in Proxies : q # p => stands'[q] = stands[q] /\ origin'[q] = origin[q]
      BY DEF BridgeTypes
    <2>4. \A y : Pins(class[y])' = Pins(class[y])
      BY PinsSame
    <2>5. Protectors(S, C, i)' = {q \in Proxies : /\ stands'[q] \in S /\ origin'[q] \in C
                                                /\ Pins(class[stands'[q]]) >= i}
      BY <2>4 DEF Protectors
    <2>6. Protectors(S, C, i)' = Protectors(S, C, i) \ {p}
      BY <2>2, <2>3, <2>5 DEF Protectors
    <2>7. p \in Protectors(S, C, i) <=> x \in S /\ c \in C /\ Pins(class[x]) >= i
      BY DEF Protectors
    <2>8. Cardinality(Protectors(S, C, i) \ {p}) =
             IF p \in Protectors(S, C, i) THEN Cardinality(Protectors(S, C, i)) - 1
                                      ELSE Cardinality(Protectors(S, C, i))
      BY <2>1, FS_RemoveElement
    <2>9. CASE p \in Protectors(S, C, i)
      BY <2>1, <2>6, <2>7, <2>8, <2>9
    <2>10. CASE p \notin Protectors(S, C, i)
      BY <2>1, <2>6, <2>7, <2>8, <2>10
    <2> QED
      BY <2>9, <2>10
  <1>2. Pins(class[x]) \in 0..2
    BY PinsRange
  <1>3. 1 \in 1..2 /\ 2 \in 1..2
    OBVIOUS
  <1>4. /\ Cardinality(Protectors(S, C, 1)') = Cardinality(Protectors(S, C, 1))
              - (IF x \in S /\ c \in C /\ Pins(class[x]) >= 1 THEN 1 ELSE 0)
        /\ Cardinality(Protectors(S, C, 2)') = Cardinality(Protectors(S, C, 2))
              - (IF x \in S /\ c \in C /\ Pins(class[x]) >= 2 THEN 1 ELSE 0)
        /\ Cardinality(Protectors(S, C, 1)) \in Nat /\ Cardinality(Protectors(S, C, 2)) \in Nat
    BY <1>1, <1>3
  <1>5. Protections(S, C)' = Cardinality(Protectors(S, C, 1)') + Cardinality(Protectors(S, C, 2)')
    BY DEF Protections
  <1> QED
    BY <1>2, <1>4, <1>5 DEF Protections

\* Steps that make and delete no proxy leave the protections alone.
LEMMA ProtectionsSame ==
    ASSUME UNCHANGED <<bridge, class, stands, origin>>, NEW S, NEW C
    PROVE  Protections(S, C)' = Protections(S, C)
  <1>1. \A y : Pins(class[y])' = Pins(class[y])
    BY PinsSame
  <1>2. \A i : Protectors(S, C, i)' = Protectors(S, C, i)
    BY <1>1 DEF Protectors
  <1> QED
    BY <1>2 DEF Protections

-----------------------------------------------------------------------------
(* References.                                                              *)

\* A set with an element is not empty, and its size is positive.
LEMMA Inhabited ==
    ASSUME NEW S, IsFiniteSet(S), NEW x \in S
    PROVE  Cardinality(S) \in Nat /\ Cardinality(S) >= 1
  <1>1. Cardinality(S) \in Nat
    BY FS_CardinalityType
  <1>2. Cardinality(S) # 0
    BY FS_EmptySet
  <1> QED
    BY <1>1, <1>2

\* The wrappers of a Kroll value are finitely many.
LEMMA WrappersFinite ==
    ASSUME IsFiniteSet(LiveWrappers), NEW v
    PROVE  IsFiniteSet(WrappersOf(v)) /\ Cardinality(WrappersOf(v)) \in Nat
  <1>1. WrappersOf(v) \subseteq LiveWrappers
    BY DEF WrappersOf, LiveWrappers
  <1> QED
    BY <1>1, FS_Subset, FS_CardinalityType

\* Whoever holds a value counts.
LEMMA HoldersCount ==
    ASSUME BridgeTypes, RefsCounted, NEW v \in KrollValues
    PROVE  /\ refs[v] \in Nat /\ Cardinality(WrappersOf(v)) \in Nat
           /\ v \in kept => refs[v] >= 1
           /\ \A w \in LiveWrappers : wraps[w] = v => refs[v] >= 1
  <1>1. IsFiniteSet(WrappersOf(v)) /\ Cardinality(WrappersOf(v)) \in Nat
    BY WrappersFinite DEF RefsCounted
  <1>2. refs[v] = (IF v \in kept THEN 1 ELSE 0) + Cardinality(WrappersOf(v))
    BY DEF RefsCounted
  <1>3. ASSUME NEW w \in LiveWrappers, wraps[w] = v
        PROVE  Cardinality(WrappersOf(v)) >= 1
    <2>1. w \in WrappersOf(v)
      BY <1>3 DEF WrappersOf, LiveWrappers
    <2> QED
      BY <1>1, <2>1, Inhabited
  <1> QED
    BY <1>1, <1>2, <1>3

\* A new wrapper.
LEMMA WrapperMade ==
    ASSUME BridgeTypes, IsFiniteSet(LiveWrappers), NEW w \in Wrappers, NEW v,
           heap[w] # "live", heap' = [heap EXCEPT ![w] = "live"],
           wraps' = [wraps EXCEPT ![w] = v]
    PROVE  /\ IsFiniteSet(LiveWrappers')
           /\ \A u : Cardinality(WrappersOf(u)') =
                       Cardinality(WrappersOf(u)) + (IF u = v THEN 1 ELSE 0)
  <1>1. /\ heap'[w] = "live" /\ wraps'[w] = v
        /\ \A y \in Wrappers : y # w => heap'[y] = heap[y] /\ wraps'[y] = wraps[y]
    BY DEF BridgeTypes, ScriptObjects
  <1>2. LiveWrappers' = LiveWrappers \cup {w}
    BY <1>1 DEF LiveWrappers
  <1>3. ASSUME NEW u
        PROVE  Cardinality(WrappersOf(u)') =
                  Cardinality(WrappersOf(u)) + (IF u = v THEN 1 ELSE 0)
    <2>1. IsFiniteSet(WrappersOf(u)) /\ Cardinality(WrappersOf(u)) \in Nat
      BY WrappersFinite
    <2>2. w \notin WrappersOf(u)
      BY DEF WrappersOf
    <2>3. CASE u = v
      <3>1. WrappersOf(u)' = WrappersOf(u) \cup {w}
        BY <1>1, <2>3 DEF WrappersOf
      <3> QED
        BY <2>1, <2>2, <2>3, <3>1, FS_AddElement
    <2>4. CASE u # v
      <3>1. WrappersOf(u)' = WrappersOf(u)
        BY <1>1, <2>2, <2>4 DEF WrappersOf
      <3> QED
        BY <2>1, <2>4, <3>1
    <2> QED
      BY <2>3, <2>4
  <1> QED
    BY <1>2, <1>3, FS_AddElement

\* A wrapper is collected.
LEMMA WrapperGone ==
    ASSUME BridgeTypes, IsFiniteSet(LiveWrappers), NEW w \in LiveWrappers,
           heap' = [heap EXCEPT ![w] = "collected"],
           wraps' = [wraps EXCEPT ![w] = NoValue]
    PROVE  /\ IsFiniteSet(LiveWrappers')
           /\ \A u : Cardinality(WrappersOf(u)') =
                       Cardinality(WrappersOf(u)) - (IF u = wraps[w] THEN 1 ELSE 0)
  <1>0. w \in Wrappers /\ heap[w] = "live"
    BY DEF LiveWrappers
  <1>1. /\ heap'[w] = "collected"
        /\ \A y \in Wrappers : y # w => heap'[y] = heap[y] /\ wraps'[y] = wraps[y]
    BY <1>0 DEF BridgeTypes, ScriptObjects
  <1>2. LiveWrappers' = LiveWrappers \ {w}
    BY <1>0, <1>1 DEF LiveWrappers
  <1>3. ASSUME NEW u
        PROVE  Cardinality(WrappersOf(u)') =
                  Cardinality(WrappersOf(u)) - (IF u = wraps[w] THEN 1 ELSE 0)
    <2>1. IsFiniteSet(WrappersOf(u)) /\ Cardinality(WrappersOf(u)) \in Nat
      BY WrappersFinite
    <2>2. WrappersOf(u)' = WrappersOf(u) \ {w}
      BY <1>0, <1>1 DEF WrappersOf
    <2>3. w \in WrappersOf(u) <=> u = wraps[w]
      BY <1>0 DEF WrappersOf
    <2>4. Cardinality(WrappersOf(u) \ {w}) =
             IF w \in WrappersOf(u) THEN Cardinality(WrappersOf(u)) - 1
                                    ELSE Cardinality(WrappersOf(u))
      BY <2>1, FS_RemoveElement
    <2>5. CASE w \in WrappersOf(u)
      BY <2>1, <2>2, <2>3, <2>4, <2>5
    <2>6. CASE w \notin WrappersOf(u)
      BY <2>1, <2>2, <2>3, <2>4, <2>6
    <2> QED
      BY <2>5, <2>6
  <1> QED
    BY <1>2, <1>3, FS_RemoveElement

\* What a release does to a value, its object and its context.
LEMMA Released ==
    ASSUME BridgeTypes, RefsCounted, ProtectionsCounted, NEW v \in KrollValues,
           StandingAlive, refs[v] >= 1, Release(v), UNCHANGED <<bridge, class>>
    PROVE  /\ refs' = [refs EXCEPT ![v] = refs[v] - 1]
           /\ refs' \in [KrollValues -> Nat]
           /\ stands' \in [Proxies -> Natives \cup {NoValue}]
           /\ pins' \in [ScriptObjects -> Nat]
           /\ retained' \in [Contexts -> Nat]
           /\ ProtectionsCounted'
           /\ \A p \in Proxies : stands'[p] # NoValue <=> refs'[p] > 0
           /\ \A p \in Proxies :
                 stands'[p] # NoValue => stands'[p] = stands[p] /\ origin'[p] = origin[p]
           /\ origin' \in [Proxies -> Contexts \cup {NoValue}]
           /\ leaked' \subseteq leaked \cup {y \in Natives : heap[y] = "live"}
  <1>1. refs' = [refs EXCEPT ![v] = refs[v] - 1]
    BY DEF Release
  <1>2. refs[v] \in Nat /\ refs \in [KrollValues -> Nat]
    BY DEF BridgeTypes
  <1>3. /\ refs' \in [KrollValues -> Nat]
        /\ refs'[v] = refs[v] - 1
        /\ \A u \in KrollValues : u # v => refs'[u] = refs[u]
    BY <1>1, <1>2
  <1>4. IsFiniteSet(Standing)
    BY DEF ProtectionsCounted
  <1>5. CASE v \in Proxies /\ refs[v] = 1
    <2>1. stands[v] # NoValue
      BY <1>5 DEF RefsCounted
    <2>2. PICK x \in Natives : x = stands[v]
      BY <1>5, <2>1 DEF BridgeTypes
    <2>c. PICK k \in Contexts : k = origin[v]
      BY <1>5, <2>1 DEF BridgeTypes
    <2>3. /\ stands' = [stands EXCEPT ![v] = NoValue]
          /\ origin' = [origin EXCEPT ![v] = NoValue]
          /\ pins' = [pins EXCEPT ![x] = @ - Pins(class[x])]
          /\ retained' = IF bridge # "js" THEN retained
                         ELSE [retained EXCEPT ![k] = @ - Pins(class[x])]
          /\ \A y \in leaked' : y \in leaked \/ (y = x /\ bridge = "php")
      BY <1>5, <2>2, <2>c DEF Release, Unpins
    <2>l. leaked' \subseteq leaked \cup {y \in Natives : heap[y] = "live"}
      <3>1. bridge = "php" => heap[x] = "live"
        BY <1>5, <2>1, <2>2 DEF StandingAlive, Standing
      <3> QED
        BY <2>3, <3>1
    <2>4. /\ stands' \in [Proxies -> Natives \cup {NoValue}]
          /\ origin' \in [Proxies -> Contexts \cup {NoValue}]
          /\ stands'[v] = NoValue
          /\ \A p \in Proxies : p # v => stands'[p] = stands[p] /\ origin'[p] = origin[p]
      BY <1>5, <2>3 DEF BridgeTypes
    <2>5. \A p \in Proxies : stands'[p] # NoValue <=> refs'[p] > 0
      <3>1. refs'[v] = 0
        BY <1>3, <1>5
      <3> QED
        BY <1>3, <2>4, <3>1 DEF RefsCounted, KrollValues
    <2>6. IsFiniteSet(Standing')
      <3>1. Standing' = Standing \ {v}
        BY <1>5, <2>4 DEF Standing
      <3> QED
        BY <1>4, <3>1, FS_RemoveElement
    <2>7. ASSUME NEW S \in SUBSET Natives, NEW C
          PROVE  /\ Protections(S, C)' =
                       Protections(S, C) - (IF x \in S /\ k \in C THEN Pins(class[x]) ELSE 0)
                 /\ Protections(S, C)' \in Nat /\ Protections(S, C) \in Nat
      <3>1. Protections(S, C)' =
               Protections(S, C) - (IF x \in S /\ k \in C THEN Pins(class[x]) ELSE 0)
        <4>1. /\ v \in Proxies /\ stands[v] = x /\ origin[v] = k
              /\ stands' = [stands EXCEPT ![v] = NoValue]
              /\ origin' = [origin EXCEPT ![v] = NoValue]
              /\ IsFiniteSet(Standing) /\ BridgeTypes
              /\ bridge' = bridge /\ class' = class
          BY <1>4, <1>5, <2>2, <2>c, <2>3
        <4> QED
          BY <4>1, ProtectionsRemoved
      <3>2. \A i : IsFiniteSet(Protectors(S, C, i)') /\ Cardinality(Protectors(S, C, i)') \in Nat
        <4> TAKE i
        <4>1. Protectors(S, C, i)' \subseteq Standing'
          BY LanguageBridgesAssumption DEF Protectors, Standing
        <4> QED
          BY <2>6, <4>1, FS_Subset, FS_CardinalityType
      <3>3. Protections(S, C)' = Cardinality(Protectors(S, C, 1)') + Cardinality(Protectors(S, C, 2)')
        BY DEF Protections
      <3>4. Protections(S, C)' \in Nat
        BY <3>2, <3>3
      <3> QED
        BY <1>4, <3>1, <3>4, ProtectionsZero
    <2>8. ASSUME NEW y \in Natives
          PROVE  pins'[y] = Protections({y}, Contexts)' /\ pins'[y] \in Nat
      <3>1. {y} \in SUBSET Natives /\ (x \in {y} <=> x = y)
        OBVIOUS
      <3>2. pins[y] = Protections({y}, Contexts)
        BY DEF ProtectionsCounted
      <3>3. pins'[y] = pins[y] - (IF x = y THEN Pins(class[x]) ELSE 0)
        <4>1. CASE x = y
          BY <2>3, <4>1 DEF BridgeTypes, ScriptObjects
        <4>2. CASE x # y
          <5>1. pins'[y] = pins[y] /\ pins[y] \in Nat
            BY <2>3, <4>2 DEF BridgeTypes, ScriptObjects
          <5> QED
            BY <4>2, <5>1
        <4> QED
          BY <4>1, <4>2
      <3>4. /\ Protections({y}, Contexts)' = Protections({y}, Contexts)
                   - (IF x \in {y} /\ k \in Contexts THEN Pins(class[x]) ELSE 0)
            /\ Protections({y}, Contexts)' \in Nat
        BY <2>7, <3>1
      <3> QED
        BY <3>1, <3>2, <3>3, <3>4
    <2>9. pins' \in [ScriptObjects -> Nat]
      <3>1. \A y \in ScriptObjects : pins'[y] \in Nat
        <4>1. \A y \in ScriptObjects : y # x => pins'[y] = pins[y] /\ pins[y] \in Nat
          BY <2>3 DEF BridgeTypes
        <4> QED
          BY <2>8, <4>1
      <3>2. pins' = [y \in ScriptObjects |-> pins'[y]]
        BY <2>3 DEF BridgeTypes
      <3> QED
        BY <3>1, <3>2
    <2>10. ASSUME NEW c \in Contexts
           PROVE  /\ retained'[c] = IF bridge = "js" THEN Protections(Natives, {c})' ELSE 0
                  /\ retained'[c] \in Nat
      <3>1. retained[c] = (IF bridge = "js" THEN Protections(Natives, {c}) ELSE 0)
            /\ retained[c] \in Nat
        BY DEF ProtectionsCounted, BridgeTypes
      <3>2. CASE bridge # "js"
        BY <2>3, <3>1, <3>2
      <3>3. CASE bridge = "js"
        <4>2. retained'[c] = retained[c] - (IF k = c THEN Pins(class[x]) ELSE 0)
          <5>1. retained' = [retained EXCEPT ![k] = @ - Pins(class[x])]
            BY <2>3, <3>3
          <5>2. CASE k = c
            BY <5>1, <5>2 DEF BridgeTypes
          <5>3. CASE k # c
            <6>1. retained'[c] = retained[c]
              BY <5>1, <5>3 DEF BridgeTypes
            <6> QED
              BY <3>1, <5>3, <6>1
          <5> QED
            BY <5>2, <5>3
        <4>3. /\ Protections(Natives, {c})' = Protections(Natives, {c})
                     - (IF x \in Natives /\ k \in {c} THEN Pins(class[x]) ELSE 0)
              /\ Protections(Natives, {c})' \in Nat
          BY <2>7
        <4>4. k \in {c} <=> k = c
          OBVIOUS
        <4> QED
          BY <3>1, <3>3, <4>2, <4>3, <4>4
      <3> QED
        BY <3>2, <3>3
    <2>11. retained' \in [Contexts -> Nat]
      <3>1. retained' = [c \in Contexts |-> retained'[c]]
        BY <2>3 DEF BridgeTypes
      <3> QED
        BY <2>10, <3>1
    <2>12. ProtectionsCounted'
      BY <2>6, <2>8, <2>10 DEF ProtectionsCounted
    <2> QED
      BY <1>1, <1>3, <2>l, <2>4, <2>5, <2>9, <2>11, <2>12
  <1>6. CASE ~ (v \in Proxies /\ refs[v] = 1)
    <2>1. UNCHANGED <<stands, origin, pins, retained, leaked>>
      BY <1>6 DEF Release
    <2>2. \A S, C : Protections(S, C)' = Protections(S, C)
      BY <2>1, ProtectionsSame
    <2>3. ProtectionsCounted'
      BY <2>1, <2>2 DEF ProtectionsCounted, Standing
    <2>4. \A p \in Proxies : stands'[p] # NoValue <=> refs'[p] > 0
      <3> SUFFICES ASSUME NEW p \in Proxies
                   PROVE  stands[p] # NoValue <=> refs'[p] > 0
        BY <2>1
      <3>1. stands[p] # NoValue <=> refs[p] > 0
        BY DEF RefsCounted
      <3>2. refs[p] > 0 <=> refs'[p] > 0
        BY <1>2, <1>3, <1>6 DEF KrollValues
      <3> QED
        BY <3>1, <3>2
    <2> QED
      BY <1>1, <1>3, <2>1, <2>3, <2>4 DEF BridgeTypes
  <1> QED
    BY <1>5, <1>6

-----------------------------------------------------------------------------
(* The invariant holds initially and is kept by every step.                 *)

\* Initially nothing has crossed.
LEMMA BridgeInvInit == LanguageBridgesInit => BridgeInv
  <1> SUFFICES ASSUME LanguageBridgesInit PROVE BridgeInv
    OBVIOUS
  <1>1. Interpreter \in Contexts
    BY LanguageBridgesAssumption DEF Interpreter
  <1>2. BridgeTypes
    <2>1. /\ heap \in [ScriptObjects -> {"absent", "live", "collected"}]
          /\ \A x \in Natives : heap[x] = "live"
          /\ \A w \in Wrappers : heap[w] = "absent" /\ wraps[w] = NoValue
      BY LanguageBridgesAssumption DEF LanguageBridgesInit, ScriptObjects
    <2>2. open \subseteq Contexts /\ (bridge # "js" => open = {Interpreter})
      BY <1>1 DEF LanguageBridgesInit
    <2>3. /\ bridge \in Languages /\ class \in [Natives -> Classes(bridge)]
          /\ pins \in [ScriptObjects -> Nat]
          /\ refs \in [KrollValues -> Nat]
          /\ retained \in [Contexts -> Nat]
          /\ lost \in BOOLEAN
      BY DEF LanguageBridgesInit
    <2>4. /\ wraps \in [Wrappers -> KrollValues \cup {NoValue}]
          /\ place \in [Wrappers -> Contexts \cup {NoValue}]
          /\ stands \in [Proxies -> Natives \cup {NoValue}]
          /\ origin \in [Proxies -> Contexts \cup {NoValue}]
          /\ \A p \in Proxies : stands[p] = NoValue
          /\ leaked = {}
      BY DEF LanguageBridgesInit
    <2>5. reached \subseteq Natives \X open /\ kept \subseteq KrollValues
      <3>1. \A x \in Natives : Home(x) \in open
        BY LanguageBridgesAssumption DEF LanguageBridgesInit, Home
      <3> QED
        BY <3>1 DEF LanguageBridgesInit, KrollValues
    <2> QED
      BY <2>1, <2>2, <2>3, <2>4, <2>5 DEF BridgeTypes, ScriptObjects
  <1>3. RefsCounted
    <2>1. \A w \in Wrappers : heap[w] # "live"
      BY LanguageBridgesAssumption DEF LanguageBridgesInit, ScriptObjects
    <2>2. LiveWrappers = {} /\ \A v : WrappersOf(v) = {}
      BY <2>1 DEF LiveWrappers, WrappersOf
    <2>3. IsFiniteSet({}) /\ Cardinality({}) = 0
      BY FS_EmptySet
    <2>4. \A v \in KrollValues :
             /\ refs[v] = IF v \in KObjects THEN 1 ELSE 0
             /\ v \in kept <=> v \in KObjects
      BY DEF LanguageBridgesInit
    <2>5. \A p \in Proxies : stands[p] = NoValue /\ refs[p] = 0
      BY LanguageBridgesAssumption DEF LanguageBridgesInit, KrollValues
    <2> QED
      BY <2>2, <2>3, <2>4, <2>5 DEF RefsCounted
  <1>4. Standing = {}
    BY DEF LanguageBridgesInit, Standing
  <1>5. ProtectionsCounted
    <2>1. IsFiniteSet(Standing)
      BY <1>4, FS_EmptySet
    <2>2. \A S \in SUBSET Natives : \A C : Protections(S, C) = 0
      BY <1>2, <1>4, <2>1, ProtectionsZero
    <2>3. \A x \in Natives : pins[x] = 0 /\ {x} \in SUBSET Natives
      BY DEF LanguageBridgesInit, ScriptObjects
    <2>4. \A c \in Contexts : retained[c] = 0
      BY DEF LanguageBridgesInit
    <2>5. \A x \in Natives : pins[x] = Protections({x}, Contexts)
      BY <2>2, <2>3
    <2>6. \A c \in Contexts : Protections(Natives, {c}) = 0
      BY <2>2, <2>4
    <2> QED
      BY <2>1, <2>4, <2>5, <2>6 DEF ProtectionsCounted
  <1>6. StandingAlive
    BY <1>4 DEF StandingAlive
  <1>7. Unwrapped
    <2>1. LiveWrappers = {}
      BY LanguageBridgesAssumption DEF LanguageBridgesInit, ScriptObjects, LiveWrappers
    <2> QED
      BY <2>1 DEF Unwrapped
  <1> QED
    BY <1>2, <1>3, <1>5, <1>6, <1>7 DEF BridgeInv

\* Steps that make and delete no representative.
LEMMA BridgeInvQuiet ==
    ASSUME BridgeInv,
           UNCHANGED <<bridge, class, pins, wraps, place, stands, origin, refs, kept, retained>>,
           heap' \in [ScriptObjects -> {"absent", "live", "collected"}],
           \A w \in Wrappers : heap'[w] = heap[w],
           \A x \in Natives : heap'[x] # "absent",
           \A x \in Natives : heap'[x] # heap[x] => pins[x] = 0,
           reached' \subseteq {x \in ScriptObjects : heap'[x] = "live"} \X open',
           leaked' \subseteq {x \in ScriptObjects : heap'[x] = "live"},
           open' \subseteq open, bridge # "js" => open' = open,
           lost' \in BOOLEAN
    PROVE  BridgeInv'
  <1>1. BridgeTypes'
    BY DEF BridgeInv, BridgeTypes
  <1>2. LiveWrappers' = LiveWrappers /\ \A v : WrappersOf(v)' = WrappersOf(v)
    BY DEF LiveWrappers, WrappersOf
  <1>3. RefsCounted'
    BY <1>2 DEF BridgeInv, RefsCounted
  <1>4. \A S, C : Protections(S, C)' = Protections(S, C)
    BY ProtectionsSame
  <1>5. ProtectionsCounted'
    BY <1>4 DEF BridgeInv, ProtectionsCounted, Standing
  <1>6. StandingAlive'
    <2> SUFFICES ASSUME bridge # "ruby", NEW p \in Standing
                 PROVE  heap'[stands[p]] = "live"
      BY DEF StandingAlive, Standing
    <2>1. PICK x \in Natives : x = stands[p]
      BY DEF Standing, BridgeInv, BridgeTypes
    <2>2. heap[x] = "live"
      BY <2>1 DEF BridgeInv, StandingAlive
    <2>3. pins[x] > 0
      <3>1. /\ p \in Proxies /\ stands[p] \in {x} /\ {x} \in SUBSET Natives
            /\ origin[p] \in Contexts
        BY <2>1 DEF Standing, BridgeInv, BridgeTypes
      <3>2. pins[x] = Protections({x}, Contexts) /\ IsFiniteSet(Standing) /\ BridgeTypes
        BY DEF BridgeInv, ProtectionsCounted
      <3>3. Protections({x}, Contexts) > 0
        BY <3>1, <3>2, ProtectionsZero
      <3> QED
        BY <3>2, <3>3
    <2> QED
      BY <2>1, <2>2, <2>3
  <1>7. Unwrapped'
    BY <1>2 DEF BridgeInv, Unwrapped
  <1> QED
    BY <1>1, <1>3, <1>5, <1>6, <1>7 DEF BridgeInv

\* A new proxy.
LEMMA BridgeInvExportNative ==
    ASSUME BridgeInv, NEW x \in Natives, NEW k \in Contexts, ExportNative(x, k)
    PROVE  BridgeInv'
  <1>1. PICK p \in Proxies :
           /\ stands[p] = NoValue
           /\ stands' = [stands EXCEPT ![p] = x]
           /\ origin' = [origin EXCEPT ![p] = k]
           /\ refs' = [refs EXCEPT ![p] = 1]
           /\ kept' = kept \cup {p}
    BY DEF ExportNative
  <1>2. /\ <<x, k>> \in reached
        /\ pins' = [pins EXCEPT ![x] = @ + Pins(class[x])]
        /\ retained' = [retained EXCEPT ![k] = @ + Retains(class[x])]
        /\ UNCHANGED <<bridge, class, heap, reached, leaked, wraps, place, open, lost>>
    BY DEF ExportNative
  <1>3. BridgeTypes /\ RefsCounted /\ ProtectionsCounted /\ StandingAlive /\ Unwrapped
    BY DEF BridgeInv
  <1>4. /\ stands' \in [Proxies -> Natives \cup {NoValue}]
        /\ origin' \in [Proxies -> Contexts \cup {NoValue}]
        /\ stands'[p] = x /\ origin'[p] = k
        /\ \A q \in Proxies : q # p => stands'[q] = stands[q] /\ origin'[q] = origin[q]
        /\ refs' \in [KrollValues -> Nat]
        /\ refs'[p] = 1
        /\ \A v \in KrollValues : v # p => refs'[v] = refs[v]
        /\ kept' \subseteq KrollValues
    BY <1>1, <1>3 DEF BridgeTypes, KrollValues
  <1>5. p \in KrollValues /\ refs[p] = 0 /\ p \notin kept /\ Cardinality(WrappersOf(p)) = 0
    <2>1. p \in KrollValues
      BY DEF KrollValues
    <2>2. refs[p] \in Nat /\ ~ (refs[p] > 0) /\ Cardinality(WrappersOf(p)) \in Nat
          /\ (p \in kept => refs[p] >= 1)
      BY <1>1, <1>3, <2>1, HoldersCount DEF RefsCounted
    <2>3. refs[p] = (IF p \in kept THEN 1 ELSE 0) + Cardinality(WrappersOf(p))
      BY <1>3, <2>1 DEF RefsCounted
    <2> QED
      BY <2>1, <2>2, <2>3
  <1>6. RefsCounted'
    <2>1. LiveWrappers' = LiveWrappers /\ \A v : WrappersOf(v)' = WrappersOf(v)
      BY <1>2 DEF LiveWrappers, WrappersOf
    <2>2. \A v \in KrollValues :
             refs'[v] = (IF v \in kept' THEN 1 ELSE 0) + Cardinality(WrappersOf(v))
      <3> TAKE v \in KrollValues
      <3>1. refs[v] = (IF v \in kept THEN 1 ELSE 0) + Cardinality(WrappersOf(v))
        BY <1>3 DEF RefsCounted
      <3>2. CASE v = p
        BY <1>1, <1>4, <1>5, <3>2
      <3>3. CASE v # p
        BY <1>1, <1>4, <3>1, <3>3
      <3> QED
        BY <3>2, <3>3
    <2>3. \A q \in Proxies : stands'[q] # NoValue <=> refs'[q] > 0
      <3>1. x # NoValue /\ 1 > 0
        BY LanguageBridgesAssumption
      <3> QED
        BY <1>3, <1>4, <3>1 DEF RefsCounted, KrollValues
    <2> QED
      BY <1>3, <2>1, <2>2, <2>3 DEF RefsCounted
  <1>7. IsFiniteSet(Standing)
    BY <1>3 DEF ProtectionsCounted
  <1>8. \A S \in SUBSET Natives : \A C :
           /\ Protections(S, C)' =
                 Protections(S, C) + (IF x \in S /\ k \in C THEN Pins(class[x]) ELSE 0)
           /\ Protections(S, C) \in Nat
    BY <1>1, <1>2, <1>3, <1>7, ProtectionsAdded, ProtectionsZero
  <1>9. Pins(class[x]) \in Nat
    <2>1. Pins(class[x]) \in 0..2
      BY <1>3, PinsRange
    <2> QED
      BY <2>1
  <1>10. IsFiniteSet(Standing')
    <2>1. Standing' = Standing \cup {p}
      BY <1>4, LanguageBridgesAssumption DEF Standing
    <2> QED
      BY <1>7, <2>1, FS_AddElement
  <1>11. pins' \in [ScriptObjects -> Nat]
    BY <1>2, <1>3, <1>9 DEF BridgeTypes, ScriptObjects
  <1>12. ASSUME NEW y \in Natives
         PROVE  pins'[y] = Protections({y}, Contexts)'
    <2>1. {y} \in SUBSET Natives /\ (x \in {y} <=> x = y)
      OBVIOUS
    <2>2. pins[y] = Protections({y}, Contexts)
      BY <1>3 DEF ProtectionsCounted
    <2>3. /\ Protections({y}, Contexts)' = Protections({y}, Contexts)
                 + (IF x \in {y} /\ k \in Contexts THEN Pins(class[x]) ELSE 0)
          /\ Protections({y}, Contexts) \in Nat
      BY <1>8, <2>1
    <2>4. CASE x = y
      <3>1. pins'[y] = pins[y] + Pins(class[x])
        BY <1>2, <1>3, <2>4 DEF BridgeTypes, ScriptObjects
      <3> QED
        BY <2>1, <2>2, <2>3, <2>4, <3>1
    <2>5. CASE x # y
      <3>1. pins'[y] = pins[y]
        BY <1>2, <1>3, <2>5 DEF BridgeTypes, ScriptObjects
      <3> QED
        BY <2>1, <2>2, <2>3, <2>5, <3>1
    <2> QED
      BY <2>4, <2>5
  <1>13. ASSUME NEW c \in Contexts
         PROVE  /\ retained'[c] = IF bridge = "js" THEN Protections(Natives, {c})' ELSE 0
                /\ retained'[c] \in Nat
    <2>1. retained[c] = (IF bridge = "js" THEN Protections(Natives, {c}) ELSE 0)
          /\ retained[c] \in Nat
      BY <1>3 DEF ProtectionsCounted, BridgeTypes
    <2>2. CASE bridge # "js"
      <3>1. retained'[c] = retained[c]
        BY <1>2, <1>3, <2>1, <2>2 DEF Retains, BridgeTypes
      <3> QED
        BY <2>1, <2>2, <3>1
    <2>3. CASE bridge = "js"
      <3>1. x \in Natives /\ (k \in {c} <=> k = c)
        OBVIOUS
      <3>2. /\ Protections(Natives, {c})' = Protections(Natives, {c})
                   + (IF x \in Natives /\ k \in {c} THEN Pins(class[x]) ELSE 0)
            /\ Protections(Natives, {c}) \in Nat
        BY <1>8
      <3>3. retained' = [retained EXCEPT ![k] = @ + Pins(class[x])]
        BY <1>2, <2>3 DEF Retains
      <3>4. CASE k = c
        <4>1. retained'[c] = retained[c] + Pins(class[x])
          BY <1>3, <3>3, <3>4 DEF BridgeTypes
        <4> QED
          BY <1>9, <2>1, <2>3, <3>1, <3>2, <3>4, <4>1
      <3>5. CASE k # c
        <4>1. retained'[c] = retained[c]
          BY <1>3, <3>3, <3>5 DEF BridgeTypes
        <4> QED
          BY <2>1, <2>3, <3>1, <3>2, <3>5, <4>1
      <3> QED
        BY <3>4, <3>5
    <2> QED
      BY <2>2, <2>3
  <1>14. retained' \in [Contexts -> Nat]
    <2>1. retained' = [c \in Contexts |-> retained'[c]]
      BY <1>2, <1>3 DEF BridgeTypes
    <2> QED
      BY <1>13, <2>1
  <1>15. ProtectionsCounted'
    BY <1>2, <1>10, <1>12, <1>13 DEF ProtectionsCounted
  <1>16. BridgeTypes'
    BY <1>2, <1>3, <1>4, <1>11, <1>14 DEF BridgeTypes
  <1>17. StandingAlive'
    <2> SUFFICES ASSUME bridge # "ruby", NEW q \in Proxies, stands'[q] # NoValue
                 PROVE  heap[stands'[q]] = "live"
      BY <1>2 DEF StandingAlive, Standing
    <2>1. heap[x] = "live"
      BY <1>2, <1>3 DEF BridgeTypes
    <2> QED
      BY <1>3, <1>4, <2>1 DEF StandingAlive, Standing
  <1>18. Unwrapped'
    <2>1. \A w \in LiveWrappers : wraps[w] # p
      BY <1>3, <1>5, HoldersCount
    <2>2. \A w \in LiveWrappers : wraps[w] \in Proxies => origin'[wraps[w]] = origin[wraps[w]]
      BY <1>4, <2>1
    <2>3. LiveWrappers' = LiveWrappers
      BY <1>2 DEF LiveWrappers
    <2> QED
      BY <1>2, <1>3, <2>2, <2>3 DEF Unwrapped
  <1> QED
    BY <1>6, <1>15, <1>16, <1>17, <1>18 DEF BridgeInv

\* A wrapper comes back to Kroll, which keeps its value.
LEMMA BridgeInvExportWrapper ==
    ASSUME BridgeInv, NEW w \in Wrappers, NEW c \in Contexts, ExportWrapper(w, c)
    PROVE  BridgeInv'
  <1>1. BridgeTypes /\ RefsCounted /\ ProtectionsCounted /\ StandingAlive /\ Unwrapped
    BY DEF BridgeInv
  <1>2. w \in LiveWrappers
    BY <1>1 DEF ExportWrapper, BridgeTypes, LiveWrappers
  <1>3. PICK v \in KrollValues : v = wraps[w]
    BY <1>1, <1>2 DEF BridgeTypes, LiveWrappers
  <1>4. /\ v \notin kept
        /\ refs' = [refs EXCEPT ![v] = @ + 1]
        /\ kept' = kept \cup {v}
        /\ UNCHANGED <<bridge, class, heap, reached, pins, leaked, wraps, place, stands,
                       origin, open, retained, lost>>
    BY <1>3 DEF ExportWrapper
  <1>5. refs[v] \in Nat /\ refs[v] >= 1
    BY <1>1, <1>2, <1>3, HoldersCount
  <1>6. /\ refs' \in [KrollValues -> Nat]
        /\ refs'[v] = refs[v] + 1
        /\ \A u \in KrollValues : u # v => refs'[u] = refs[u]
    BY <1>1, <1>4, <1>5 DEF BridgeTypes
  <1>7. BridgeTypes'
    BY <1>1, <1>4, <1>6 DEF BridgeTypes
  <1>8. RefsCounted'
    <2>1. LiveWrappers' = LiveWrappers /\ \A u : WrappersOf(u)' = WrappersOf(u)
      BY <1>4 DEF LiveWrappers, WrappersOf
    <2>2. \A u \in KrollValues :
             refs'[u] = (IF u \in kept' THEN 1 ELSE 0) + Cardinality(WrappersOf(u))
      <3> TAKE u \in KrollValues
      <3>1. refs[u] = (IF u \in kept THEN 1 ELSE 0) + Cardinality(WrappersOf(u))
            /\ Cardinality(WrappersOf(u)) \in Nat
        BY <1>1, HoldersCount DEF RefsCounted
      <3>2. CASE u = v
        BY <1>4, <1>6, <3>1, <3>2
      <3>3. CASE u # v
        BY <1>4, <1>6, <3>1, <3>3
      <3> QED
        BY <3>2, <3>3
    <2>3. \A q \in Proxies : stands'[q] # NoValue <=> refs'[q] > 0
      <3>1. \A q \in KrollValues : refs[q] > 0 <=> refs'[q] > 0
        BY <1>5, <1>6
      <3> QED
        BY <1>1, <1>4, <3>1 DEF RefsCounted, KrollValues
    <2> QED
      BY <1>1, <2>1, <2>2, <2>3 DEF RefsCounted
  <1>9. \A S, C : Protections(S, C)' = Protections(S, C)
    BY <1>4, ProtectionsSame
  <1>10. ProtectionsCounted'
    BY <1>1, <1>4, <1>9 DEF ProtectionsCounted, Standing
  <1>11. StandingAlive' /\ Unwrapped'
    <2>1. StandingAlive'
      BY <1>1, <1>4 DEF StandingAlive, Standing
    <2>2. Unwrapped'
      BY <1>1, <1>4 DEF Unwrapped, LiveWrappers
    <2> QED
      BY <2>1, <2>2
  <1> QED
    BY <1>7, <1>8, <1>10, <1>11 DEF BridgeInv

\* A value crosses to a script: a new wrapper.
LEMMA BridgeInvImportWrapped ==
    ASSUME BridgeInv, NEW v \in KrollValues, NEW c \in Contexts, ImportWrapped(v, c)
    PROVE  BridgeInv'
  <1>1. BridgeTypes /\ RefsCounted /\ ProtectionsCounted /\ StandingAlive /\ Unwrapped
    BY DEF BridgeInv
  <1>2. PICK w \in Wrappers :
           /\ heap[w] = "absent"
           /\ heap' = [heap EXCEPT ![w] = "live"]
           /\ reached' = reached \cup {<<w, c>>}
           /\ leaked' \in Converted(w)
           /\ wraps' = [wraps EXCEPT ![w] = v]
           /\ place' = [place EXCEPT ![w] = c]
    BY DEF ImportWrapped
  <1>3. /\ v \in kept /\ c \in open /\ ~ Own(v, c)
        /\ refs' = [refs EXCEPT ![v] = @ + 1]
        /\ UNCHANGED <<bridge, class, pins, stands, origin, kept, open, retained, lost>>
    BY DEF ImportWrapped
  <1>4. /\ w \in ScriptObjects /\ w \notin Natives
        /\ heap' \in [ScriptObjects -> {"absent", "live", "collected"}]
        /\ heap'[w] = "live" /\ wraps'[w] = v /\ place'[w] = c
        /\ \A y \in ScriptObjects : y # w => heap'[y] = heap[y]
        /\ \A y \in Wrappers : y # w => wraps'[y] = wraps[y] /\ place'[y] = place[y]
        /\ wraps' \in [Wrappers -> KrollValues \cup {NoValue}]
        /\ place' \in [Wrappers -> Contexts \cup {NoValue}]
    BY <1>1, <1>2, LanguageBridgesAssumption DEF BridgeTypes, ScriptObjects
  <1>5. refs[v] \in Nat /\ refs[v] >= 1
    BY <1>1, <1>3, HoldersCount
  <1>6. /\ refs' \in [KrollValues -> Nat]
        /\ refs'[v] = refs[v] + 1
        /\ \A u \in KrollValues : u # v => refs'[u] = refs[u]
    BY <1>1, <1>3, <1>5 DEF BridgeTypes
  <1>7. v # NoValue /\ \A x \in Natives : heap'[x] = heap[x]
    BY <1>4, LanguageBridgesAssumption DEF KrollValues, ScriptObjects
  <1>8. BridgeTypes'
    <2>1. \A y \in Wrappers : heap'[y] = "live" <=> wraps'[y] # NoValue
      BY <1>1, <1>4, <1>7 DEF BridgeTypes, ScriptObjects
    <2>2. \A x \in ScriptObjects : heap[x] = "live" => heap'[x] = "live"
      BY <1>4
    <2>3. reached' \subseteq {x \in ScriptObjects : heap'[x] = "live"} \X open'
      BY <1>1, <1>2, <1>3, <1>4, <2>2 DEF BridgeTypes
    <2>4. leaked' \subseteq {x \in ScriptObjects : heap'[x] = "live"}
      BY <1>1, <1>2, <1>4, <2>2 DEF BridgeTypes, Converted
    <2> QED
      BY <1>1, <1>3, <1>4, <1>6, <1>7, <2>1, <2>3, <2>4 DEF BridgeTypes
  <1>9. RefsCounted'
    <2>1. /\ IsFiniteSet(LiveWrappers')
          /\ \A u : Cardinality(WrappersOf(u)') =
                       Cardinality(WrappersOf(u)) + (IF u = v THEN 1 ELSE 0)
      BY <1>1, <1>2, WrapperMade DEF RefsCounted
    <2>2. \A u \in KrollValues :
             refs'[u] = (IF u \in kept' THEN 1 ELSE 0) + Cardinality(WrappersOf(u)')
      <3> TAKE u \in KrollValues
      <3>1. refs[u] = (IF u \in kept THEN 1 ELSE 0) + Cardinality(WrappersOf(u))
            /\ Cardinality(WrappersOf(u)) \in Nat
        BY <1>1, HoldersCount DEF RefsCounted
      <3>2. CASE u = v
        BY <1>3, <1>6, <2>1, <3>1, <3>2
      <3>3. CASE u # v
        BY <1>3, <1>6, <2>1, <3>1, <3>3
      <3> QED
        BY <3>2, <3>3
    <2>3. \A q \in Proxies : stands'[q] # NoValue <=> refs'[q] > 0
      <3>1. \A q \in KrollValues : refs[q] > 0 <=> refs'[q] > 0
        BY <1>5, <1>6
      <3> QED
        BY <1>1, <1>3, <3>1 DEF RefsCounted, KrollValues
    <2> QED
      BY <2>1, <2>2, <2>3 DEF RefsCounted
  <1>10. \A S, C : Protections(S, C)' = Protections(S, C)
    BY <1>3, ProtectionsSame
  <1>11. ProtectionsCounted'
    BY <1>1, <1>3, <1>10 DEF ProtectionsCounted, Standing
  <1>12. StandingAlive'
    <2> SUFFICES ASSUME bridge # "ruby", NEW p \in Standing
                 PROVE  heap'[stands[p]] = "live"
      BY <1>3 DEF StandingAlive, Standing
    <2>1. stands[p] \in Natives /\ heap[stands[p]] = "live"
      BY <1>1 DEF StandingAlive, Standing, BridgeTypes
    <2> QED
      BY <1>7, <2>1
  <1>13. Unwrapped'
    <2> SUFFICES ASSUME NEW y \in LiveWrappers', wraps'[y] \in Proxies
                 PROVE  \/ bridge = "php"
                        \/ /\ bridge = "js"
                           /\ ContextGroup[origin[wraps'[y]]] # ContextGroup[place'[y]]
      BY <1>3 DEF Unwrapped
    <2>1. y \in Wrappers
      BY DEF LiveWrappers
    <2>2. CASE y = w
      <3>1. v \in Proxies
        BY <1>4, <2>2
      <3>2. bridge \in {"js", "php"}
        BY <1>1, <1>3, <3>1 DEF Own, PythonOwn, RubyOwn, BridgeTypes, Languages
      <3>3. bridge = "js" => ContextGroup[origin[v]] # ContextGroup[c]
        BY <1>3, <3>1 DEF Own, JsOwn
      <3> QED
        BY <1>4, <2>2, <3>2, <3>3
    <2>3. CASE y # w
      <3>1. y \in LiveWrappers /\ wraps'[y] = wraps[y] /\ place'[y] = place[y]
        BY <1>4, <2>1, <2>3 DEF LiveWrappers, ScriptObjects
      <3> QED
        BY <1>1, <3>1 DEF Unwrapped
    <2> QED
      BY <2>2, <2>3
  <1> QED
    BY <1>8, <1>9, <1>11, <1>12, <1>13 DEF BridgeInv

\* A holder of a value lets it go: Kroll code, or a collected wrapper.
LEMMA BridgeInvReleased ==
    ASSUME BridgeInv, NEW v \in KrollValues, refs[v] >= 1, Release(v),
           UNCHANGED <<bridge, class, place, reached, open, lost>>,
           heap' \in [ScriptObjects -> {"absent", "live", "collected"}],
           \A x \in Natives : heap'[x] = heap[x],
           \A x \in ScriptObjects : Reached(x) \/ x \in leaked => heap'[x] = "live",
           wraps' \in [Wrappers -> KrollValues \cup {NoValue}],
           \A w \in Wrappers : heap'[w] = "live" <=> wraps'[w] # NoValue,
           \A w \in Wrappers : heap'[w] = "live" => heap[w] = "live" /\ wraps'[w] = wraps[w],
           kept' \subseteq KrollValues,
           IsFiniteSet(LiveWrappers'),
           \A u \in KrollValues :
              refs[u] - (IF u = v THEN 1 ELSE 0) =
                 (IF u \in kept' THEN 1 ELSE 0) + Cardinality(WrappersOf(u)')
    PROVE  BridgeInv'
  <1>1. BridgeTypes /\ RefsCounted /\ ProtectionsCounted /\ StandingAlive /\ Unwrapped
    BY DEF BridgeInv
  <1>2. /\ refs' = [refs EXCEPT ![v] = refs[v] - 1]
        /\ refs' \in [KrollValues -> Nat]
        /\ stands' \in [Proxies -> Natives \cup {NoValue}]
        /\ pins' \in [ScriptObjects -> Nat]
        /\ retained' \in [Contexts -> Nat]
        /\ ProtectionsCounted'
        /\ \A p \in Proxies : stands'[p] # NoValue <=> refs'[p] > 0
        /\ \A p \in Proxies :
              stands'[p] # NoValue => stands'[p] = stands[p] /\ origin'[p] = origin[p]
        /\ origin' \in [Proxies -> Contexts \cup {NoValue}]
        /\ leaked' \subseteq leaked \cup {y \in Natives : heap[y] = "live"}
    BY <1>1, Released
  <1>3. BridgeTypes'
    <2>1. reached' \subseteq {x \in ScriptObjects : heap'[x] = "live"} \X open'
      <3> SUFFICES ASSUME NEW r \in reached
                   PROVE  r \in {x \in ScriptObjects : heap'[x] = "live"} \X open
        OBVIOUS
      <3>1. PICK x \in ScriptObjects, c \in open : r = <<x, c>>
        BY <1>1 DEF BridgeTypes
      <3>2. Reached(x)
        BY <1>1, <3>1 DEF BridgeTypes, Reached
      <3> QED
        BY <3>1, <3>2
    <2>2. leaked' \subseteq {x \in ScriptObjects : heap'[x] = "live"}
      BY <1>1, <1>2 DEF BridgeTypes, ScriptObjects
    <2> QED
      BY <1>1, <1>2, <2>1, <2>2 DEF BridgeTypes
  <1>4. RefsCounted'
    <2>1. \A u \in KrollValues :
             refs'[u] = (IF u \in kept' THEN 1 ELSE 0) + Cardinality(WrappersOf(u)')
      <3> TAKE u \in KrollValues
      <3>1. refs[u] \in Nat /\ refs'[u] = refs[u] - (IF u = v THEN 1 ELSE 0)
        BY <1>1, <1>2 DEF BridgeTypes
      <3> QED
        BY <3>1
    <2> QED
      BY <1>2, <2>1 DEF RefsCounted
  <1>5. StandingAlive'
    <2> SUFFICES ASSUME bridge # "ruby", NEW p \in Proxies, stands'[p] # NoValue
                 PROVE  heap'[stands'[p]] = "live"
      BY DEF StandingAlive, Standing
    <2>1. stands'[p] = stands[p] /\ p \in Standing
      BY <1>2 DEF Standing
    <2>2. stands[p] \in Natives /\ heap[stands[p]] = "live"
      BY <1>1, <2>1 DEF StandingAlive, Standing, BridgeTypes
    <2> QED
      BY <2>1, <2>2
  <1>6. Unwrapped'
    <2> SUFFICES ASSUME NEW w \in LiveWrappers', wraps'[w] \in Proxies
                 PROVE  \/ bridge = "php"
                        \/ /\ bridge = "js"
                           /\ ContextGroup[origin'[wraps'[w]]] # ContextGroup[place[w]]
      BY DEF Unwrapped
    <2>1. w \in LiveWrappers /\ wraps'[w] = wraps[w] /\ w \in Wrappers /\ heap'[w] = "live"
      BY DEF LiveWrappers
    <2>2. \/ bridge = "php"
          \/ bridge = "js" /\ ContextGroup[origin[wraps[w]]] # ContextGroup[place[w]]
      BY <1>1, <2>1 DEF Unwrapped
    <2>3. refs'[wraps[w]] > 0
      <3>1. w \in WrappersOf(wraps[w])'
        BY <2>1 DEF WrappersOf
      <3>2. IsFiniteSet(WrappersOf(wraps[w])')
        <4>1. WrappersOf(wraps[w])' \subseteq LiveWrappers'
          BY DEF WrappersOf, LiveWrappers
        <4> QED
          BY <4>1, FS_Subset
      <3>3. Cardinality(WrappersOf(wraps[w])') \in Nat /\ Cardinality(WrappersOf(wraps[w])') >= 1
        BY <3>1, <3>2, Inhabited
      <3>4. wraps'[w] \in KrollValues
        BY DEF KrollValues
      <3>5. refs'[wraps'[w]] = (IF wraps'[w] \in kept' THEN 1 ELSE 0)
                                  + Cardinality(WrappersOf(wraps[w])')
        BY <1>4, <3>4 DEF RefsCounted
      <3> QED
        BY <2>1, <3>3, <3>5
    <2>4. origin'[wraps[w]] = origin[wraps[w]]
      BY <1>2, <2>1, <2>3
    <2> QED
      BY <2>1, <2>2, <2>4
  <1> QED
    BY <1>2, <1>3, <1>4, <1>5, <1>6 DEF BridgeInv

\* Kroll lets go of a value.
LEMMA BridgeInvKrollDrops ==
    ASSUME BridgeInv, NEW v \in KrollValues, KrollDrops(v)
    PROVE  BridgeInv'
  <1>1. BridgeTypes /\ RefsCounted
    BY DEF BridgeInv
  <1>2. /\ v \in kept /\ kept' = kept \ {v} /\ Release(v)
        /\ UNCHANGED <<bridge, class, heap, reached, wraps, place, open, lost>>
    BY DEF KrollDrops
  <1>3. refs[v] >= 1
    BY <1>1, <1>2, HoldersCount
  <1>4. LiveWrappers' = LiveWrappers /\ \A u : WrappersOf(u)' = WrappersOf(u)
    BY <1>2 DEF LiveWrappers, WrappersOf
  <1>5. ASSUME NEW u \in KrollValues
        PROVE  refs[u] - (IF u = v THEN 1 ELSE 0) =
                  (IF u \in kept' THEN 1 ELSE 0) + Cardinality(WrappersOf(u)')
    <2>1. refs[u] = (IF u \in kept THEN 1 ELSE 0) + Cardinality(WrappersOf(u))
          /\ Cardinality(WrappersOf(u)) \in Nat
      BY <1>1, HoldersCount DEF RefsCounted
    <2>2. CASE u = v
      BY <1>2, <1>4, <2>1, <2>2
    <2>3. CASE u # v
      BY <1>2, <1>4, <2>1, <2>3
    <2> QED
      BY <2>2, <2>3
  <1>6. /\ heap' \in [ScriptObjects -> {"absent", "live", "collected"}]
        /\ \A x \in ScriptObjects : Reached(x) \/ x \in leaked => heap'[x] = "live"
        /\ wraps' \in [Wrappers -> KrollValues \cup {NoValue}]
        /\ \A w \in Wrappers : heap'[w] = "live" <=> wraps'[w] # NoValue
        /\ kept' \subseteq KrollValues
        /\ IsFiniteSet(LiveWrappers')
    BY <1>1, <1>2, <1>4 DEF BridgeTypes, RefsCounted, Reached
  <1> QED
    BY <1>2, <1>3, <1>5, <1>6, BridgeInvReleased

\* A wrapper is finalized.
LEMMA BridgeInvFinalize ==
    ASSUME BridgeInv, NEW w \in Wrappers, FinalizeWrapper(w)
    PROVE  BridgeInv'
  <1>1. BridgeTypes /\ RefsCounted
    BY DEF BridgeInv
  <1>2. /\ heap[w] = "live" /\ ~ Reached(w) /\ w \notin leaked
        /\ heap' = [heap EXCEPT ![w] = "collected"]
        /\ wraps' = [wraps EXCEPT ![w] = NoValue]
        /\ Release(wraps[w])
        /\ UNCHANGED <<bridge, class, reached, place, kept, open, lost>>
    BY DEF FinalizeWrapper
  <1>3. w \in LiveWrappers
    BY <1>2 DEF LiveWrappers
  <1>4. PICK v \in KrollValues : v = wraps[w]
    BY <1>1, <1>2 DEF BridgeTypes
  <1>5. refs[v] >= 1
    BY <1>1, <1>3, <1>4, HoldersCount
  <1>6. /\ IsFiniteSet(LiveWrappers')
        /\ \A u : Cardinality(WrappersOf(u)') =
                     Cardinality(WrappersOf(u)) - (IF u = wraps[w] THEN 1 ELSE 0)
    BY <1>1, <1>2, <1>3, WrapperGone DEF RefsCounted
  <1>7. ASSUME NEW u \in KrollValues
        PROVE  refs[u] - (IF u = v THEN 1 ELSE 0) =
                  (IF u \in kept' THEN 1 ELSE 0) + Cardinality(WrappersOf(u)')
    <2>1. refs[u] = (IF u \in kept THEN 1 ELSE 0) + Cardinality(WrappersOf(u))
          /\ Cardinality(WrappersOf(u)) \in Nat
      BY <1>1, HoldersCount DEF RefsCounted
    <2>2. CASE u = v
      BY <1>2, <1>4, <1>6, <2>1, <2>2
    <2>3. CASE u # v
      BY <1>2, <1>4, <1>6, <2>1, <2>3
    <2> QED
      BY <2>2, <2>3
  <1>8. /\ heap' \in [ScriptObjects -> {"absent", "live", "collected"}]
        /\ \A x \in ScriptObjects : x # w => heap'[x] = heap[x]
        /\ heap'[w] = "collected" /\ wraps'[w] = NoValue
        /\ \A y \in Wrappers : y # w => wraps'[y] = wraps[y]
        /\ wraps' \in [Wrappers -> KrollValues \cup {NoValue}]
    BY <1>1, <1>2 DEF BridgeTypes, ScriptObjects
  <1>9. \A x \in Natives : heap'[x] = heap[x]
    BY <1>8, LanguageBridgesAssumption DEF ScriptObjects
  <1>10. \A x \in ScriptObjects : Reached(x) \/ x \in leaked => heap'[x] = "live"
    BY <1>1, <1>2, <1>8 DEF BridgeTypes, Reached
  <1>11. /\ \A y \in Wrappers : heap'[y] = "live" <=> wraps'[y] # NoValue
         /\ \A y \in Wrappers : heap'[y] = "live" => heap[y] = "live" /\ wraps'[y] = wraps[y]
    BY <1>1, <1>8 DEF BridgeTypes, ScriptObjects
  <1>12. kept' \subseteq KrollValues /\ Release(v)
    BY <1>1, <1>2, <1>4 DEF BridgeTypes
  <1> QED
    BY <1>2, <1>5, <1>6, <1>7, <1>8, <1>9, <1>10, <1>11, <1>12, BridgeInvReleased

\* Every step keeps counts and protections exact.
LEMMA BridgeInvNext == BridgeInv /\ [LanguageBridgesNext]_bridgeVars => BridgeInv'
  <1> SUFFICES ASSUME BridgeInv, [LanguageBridgesNext]_bridgeVars
               PROVE  BridgeInv'
    OBVIOUS
  <1>1. BridgeTypes /\ RefsCounted /\ Unwrapped
    BY DEF BridgeInv
  <1>2. /\ heap \in [ScriptObjects -> {"absent", "live", "collected"}]
        /\ \A x \in Natives : heap[x] # "absent"
        /\ reached \subseteq {x \in ScriptObjects : heap[x] = "live"} \X open
        /\ leaked \subseteq {x \in ScriptObjects : heap[x] = "live"}
        /\ open \subseteq Contexts /\ lost \in BOOLEAN
    BY <1>1 DEF BridgeTypes
  \* Only what scripts reach and leak, and whether something was lost.
  <1>3. CASE /\ UNCHANGED <<bridge, class, pins, wraps, place, stands, origin, refs, kept,
                            retained, heap, open>>
             /\ reached' \subseteq {x \in ScriptObjects : heap[x] = "live"} \X open
             /\ leaked' \subseteq {x \in ScriptObjects : heap[x] = "live"}
             /\ lost' \in BOOLEAN
    BY <1>2, <1>3, BridgeInvQuiet
  <1>4. ASSUME NEW x \in Natives, NEW c \in Contexts, ExportUnregistered(x, c)
        PROVE  BridgeInv'
    BY <1>2, <1>3, <1>4 DEF ExportUnregistered
  <1>5. ASSUME NEW v \in KrollValues, NEW c \in Contexts, ImportOwn(v, c)
        PROVE  BridgeInv'
    <2>1. /\ v \in kept /\ c \in open /\ Own(v, c) /\ heap[stands[v]] = "live"
          /\ reached' = reached \cup {<<stands[v], c>>}
          /\ leaked' \in Converted(stands[v])
          /\ UNCHANGED <<bridge, class, heap, pins, wraps, place, stands, origin, refs, kept,
                         open, retained, lost>>
      BY <1>5 DEF ImportOwn
    <2>2. stands[v] \in Natives
      <3>1. v \in Proxies /\ refs[v] >= 1 /\ refs[v] \in Nat
        BY <1>1, <2>1, HoldersCount DEF Own
      <3>2. stands[v] # NoValue
        BY <1>1, <3>1 DEF RefsCounted
      <3> QED
        BY <1>1, <3>1, <3>2 DEF BridgeTypes
    <2>3. leaked' \subseteq {x \in ScriptObjects : heap[x] = "live"}
      BY <1>2, <2>1, <2>2 DEF ScriptObjects, Converted
    <2> QED
      BY <1>2, <1>3, <2>1, <2>2, <2>3 DEF ScriptObjects
  <1>6. ASSUME NEW v \in KrollValues, NEW c \in Contexts, ImportCollected(v, c)
        PROVE  BridgeInv'
    BY <1>2, <1>3, <1>6 DEF ImportCollected
  <1>7. ASSUME NEW x \in ScriptObjects, NEW c \in Contexts, ScriptDrops(x, c)
        PROVE  BridgeInv'
    BY <1>2, <1>3, <1>7 DEF ScriptDrops
  <1>8. ASSUME NEW x \in Natives, CollectNative(x)
        PROVE  BridgeInv'
    <2>1. /\ ~ Reached(x) /\ x \notin leaked /\ pins[x] = 0
          /\ heap' = [heap EXCEPT ![x] = "collected"]
          /\ UNCHANGED <<bridge, class, reached, pins, leaked, wraps, place, stands, origin,
                         refs, kept, open, retained, lost>>
      BY <1>8 DEF CollectNative
    <2>2. /\ heap' \in [ScriptObjects -> {"absent", "live", "collected"}]
          /\ \A y \in ScriptObjects : y # x => heap'[y] = heap[y]
          /\ heap'[x] = "collected"
      BY <1>2, <2>1 DEF ScriptObjects
    <2>3. \A w \in Wrappers : heap'[w] = heap[w]
      BY <2>2, LanguageBridgesAssumption DEF ScriptObjects
    <2>4. \A y \in Natives : heap'[y] # "absent" /\ (heap'[y] # heap[y] => pins[y] = 0)
      BY <1>2, <2>1, <2>2 DEF ScriptObjects
    <2>5. reached' \subseteq {y \in ScriptObjects : heap'[y] = "live"} \X open'
      BY <1>2, <2>1, <2>2 DEF Reached
    <2>6. leaked' \subseteq {y \in ScriptObjects : heap'[y] = "live"}
      BY <1>2, <2>1, <2>2
    <2> QED
      BY <1>2, <2>1, <2>2, <2>3, <2>4, <2>5, <2>6, BridgeInvQuiet
  <1>9. ASSUME NEW c \in Contexts, CloseContext(c)
        PROVE  BridgeInv'
    <2>1. /\ bridge = "js" /\ open' = open \ {c}
          /\ reached' = {r \in reached : r[2] # c}
          /\ UNCHANGED <<bridge, class, heap, pins, leaked, wraps, place, stands, origin,
                         refs, kept, retained, lost>>
      BY <1>9 DEF CloseContext
    <2>2. reached' \subseteq {x \in ScriptObjects : heap'[x] = "live"} \X open'
      BY <1>2, <2>1
    <2> QED
      BY <1>2, <2>1, <2>2, BridgeInvQuiet
  <1>10. CASE UNCHANGED bridgeVars
    BY <1>2, <1>3, <1>10 DEF bridgeVars
  <1>11. CASE LanguageBridgesNext
    BY <1>4, <1>5, <1>6, <1>7, <1>8, <1>9, <1>11, BridgeInvExportNative, BridgeInvExportWrapper,
       BridgeInvImportWrapped, BridgeInvKrollDrops, BridgeInvFinalize DEF LanguageBridgesNext
  <1> QED
    BY <1>10, <1>11

\* The inductive invariant holds in every state.
LEMMA BridgeInvHolds == LanguageBridgesSpec => []BridgeInv
  <1> QED
    BY BridgeInvInit, BridgeInvNext, PTL DEF LanguageBridgesSpec

-----------------------------------------------------------------------------
(* What the runs check, for any number of objects and contexts.             *)

\* Type correctness: no count of references, protections or contexts goes below
\* zero, and scripts only reach objects that are there.
THEOREM LanguageBridgesTypeCorrect == LanguageBridgesSpec => []LanguageBridgesTypeOK
  <1>1. BridgeInv => LanguageBridgesTypeOK
    BY DEF BridgeInv, BridgeTypes, LanguageBridgesTypeOK, ScriptObjects
  <1> QED
    BY <1>1, BridgeInvHolds, PTL

\* The live proxies are the ones that stand for an object.
LEMMA LiveProxiesStand == BridgeInv => LiveProxies = Standing
  BY DEF BridgeInv, RefsCounted, LiveProxies, Standing

\* While Kroll or a wrapper has a proxy, the script object it stands for is not
\* collected and its context is registered or retained (constructors and
\* destructors of k_kjs_*.cpp, k_python_*.cpp, k_php_*.cpp), in every order in
\* which scripts, Kroll, the collectors and closing pages let go.
THEOREM ProxiesKeepTheirObjects == LanguageBridgesSpec => []ProxiedObjectsExist
  <1>1. BridgeInv => ProxiedObjectsExist
    <2> SUFFICES ASSUME BridgeInv, bridge # "ruby", NEW p \in Standing
                 PROVE  /\ heap[stands[p]] = "live"
                        /\ origin[p] \in open \/ bridge # "js" \/ retained[origin[p]] > 0
      BY LiveProxiesStand DEF ProxiedObjectsExist
    <2>1. heap[stands[p]] = "live"
      BY DEF BridgeInv, StandingAlive
    <2>2. ASSUME bridge = "js" PROVE retained[origin[p]] > 0
      <3>1. PICK c \in Contexts : c = origin[p]
        BY DEF Standing, BridgeInv, BridgeTypes
      <3>2. stands[p] \in Natives /\ p \in Proxies /\ origin[p] \in {c}
        BY <3>1 DEF Standing, BridgeInv, BridgeTypes
      <3>3. /\ retained[c] = Protections(Natives, {c})
            /\ IsFiniteSet(Standing) /\ BridgeTypes
        BY <2>2 DEF BridgeInv, ProtectionsCounted
      <3>4. Protections(Natives, {c}) > 0
        BY <2>2, <3>2, <3>3, ProtectionsZero
      <3> QED
        BY <3>1, <3>3, <3>4
    <2> QED
      BY <2>1, <2>2
  <1> QED
    BY <1>1, BridgeInvHolds, PTL

\* What the proxies' constructors take their destructors give back (k_kjs_*.cpp,
\* k_python_*.cpp, k_php_*.cpp), in every order in which scripts, Kroll and pages let
\* go: without proxies an object is not protected and a context not retained, and
\* every reference to a Kroll value has a holder.  References that no holder will
\* release, Python's and PHP's, are not the proxies' and stay.
THEOREM ProtectionsReturned == LanguageBridgesSpec => []ProtectionsBalance
  <1>1. BridgeInv => ProtectionsBalance
    <2> SUFFICES ASSUME BridgeInv
                 PROVE  ProtectionsBalance
      OBVIOUS
    <2>1. BridgeTypes /\ RefsCounted /\ ProtectionsCounted /\ LiveProxies = Standing
      BY LiveProxiesStand DEF BridgeInv
    <2>2. ASSUME NEW S \in SUBSET Natives, NEW C,
                 \A p \in LiveProxies : stands[p] \notin S \/ origin[p] \notin C
          PROVE  Protections(S, C) = 0
      BY <2>1, <2>2, ProtectionsZero DEF ProtectionsCounted
    <2>3. ASSUME NEW x \in Natives, \A p \in LiveProxies : stands[p] # x
          PROVE  pins[x] = 0
      <3>1. {x} \in SUBSET Natives /\ \A p \in LiveProxies : stands[p] \notin {x}
        BY <2>3
      <3>2. Protections({x}, Contexts) = 0
        BY <2>2, <3>1
      <3> QED
        BY <2>1, <3>2 DEF ProtectionsCounted
    <2>4. ASSUME NEW c \in Contexts, \A p \in LiveProxies : origin[p] # c
          PROVE  retained[c] = 0
      <3>1. \A p \in LiveProxies : origin[p] \notin {c}
        BY <2>4
      <3>2. Protections(Natives, {c}) = 0
        BY <2>2, <3>1
      <3> QED
        BY <2>1, <3>2 DEF ProtectionsCounted
    <2>5. ASSUME NEW v \in KrollValues
          PROVE  refs[v] = Cardinality(kept \cap {v})
                    + Cardinality({w \in Wrappers : heap[w] = "live" /\ wraps[w] = v})
      <3>1. refs[v] = (IF v \in kept THEN 1 ELSE 0) + Cardinality(WrappersOf(v))
        BY <2>1 DEF RefsCounted
      <3>2. CASE v \in kept
        <4>1. kept \cap {v} = {v} /\ Cardinality({v}) = 1
          BY <3>2, FS_Singleton
        <4> QED
          BY <3>1, <3>2, <4>1 DEF WrappersOf
      <3>3. CASE v \notin kept
        <4>1. kept \cap {v} = {} /\ Cardinality({}) = 0
          BY <3>3, FS_EmptySet
        <4> QED
          BY <3>1, <3>3, <4>1 DEF WrappersOf
      <3> QED
        BY <3>2, <3>3
    <2> QED
      BY <2>3, <2>4, <2>5 DEF ProtectionsBalance
  <1> QED
    BY <1>1, BridgeInvHolds, PTL

\* A representative is never represented again (ToKrollValue, ToJSValue and their
\* like): proxies stand for scripts' own objects, and a wrapper of a proxy is in a
\* context of another group than the proxy's (k_kjs_object.cpp's SameContextGroup),
\* or in PHP, which never unwraps.
THEOREM RepresentativesUnwrap == LanguageBridgesSpec => []CrossingBackUnwraps
  <1>1. BridgeInv => CrossingBackUnwraps
    <2> SUFFICES ASSUME BridgeInv
                 PROVE  CrossingBackUnwraps
      OBVIOUS
    <2>1. LiveProxies = Standing
      BY LiveProxiesStand
    <2>2. \A p \in Standing : stands[p] \in Natives
      BY DEF BridgeInv, BridgeTypes, Standing
    <2> QED
      BY <2>1, <2>2 DEF CrossingBackUnwraps, BridgeInv, Unwrapped, LiveWrappers
  <1> QED
    BY <1>1, BridgeInvHolds, PTL
=============================================================================
