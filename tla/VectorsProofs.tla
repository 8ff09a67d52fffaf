--------------------------- MODULE VectorsProofs ----------------------------
(***************************************************************************)
(* Induction over data, and what the recursive function of Vectors          *)
(* computes.                                                                *)
(*                                                                         *)
(* The induction theorems of the library are about an operator; these are   *)
(* about a set: every set of numbers has a least element, because < is well *)
(* founded on the natural numbers, and so a set that contains 0, and n + 1  *)
(* with every n, contains all of them.                                      *)
(***************************************************************************)
EXTENDS Vectors, WellFoundedInduction, TLAPS

\* A set of natural numbers has a least element.
LEMMA LeastNatural ==
    ASSUME NEW T \in SUBSET Nat, T # {}
    PROVE  \E x \in T : \A y \in T : x <= y
  <1> DEFINE R == {ss \in Nat \X Nat : ss[1] < ss[2]}
  <1>1. IsWellFoundedOn(R, Nat)
    BY NatLessThanWellFounded DEF OpToRel
  <1> HIDE DEF R
  <1>2. PICK x \in T : \A y \in T : ~ (<<y, x>> \in R)
    BY <1>1, WFMin
  <1>3. ASSUME NEW y \in T
        PROVE  x <= y
    <2>1. ~ (<<y, x>> \in R)
      BY <1>2
    <2>2. ~ (y < x)
      BY <2>1 DEF R
    <2> QED
      BY <2>2
  <1> QED
    BY <1>3

\* Induction over the natural numbers up to a bound.
LEMMA BoundedInduction ==
    ASSUME NEW n \in Nat, NEW T, 0 \in T,
           \A i \in 1..n : i - 1 \in T => i \in T
    PROVE  \A i \in 0..n : i \in T
  <1> SUFFICES ASSUME NEW k \in 0..n, k \notin T
               PROVE  FALSE
    OBVIOUS
  <1> DEFINE rest == {i \in 0..n : i \notin T}
  <1>1. rest \in SUBSET Nat /\ rest # {}
    OBVIOUS
  <1>2. PICK x \in rest : \A y \in rest : x <= y
    BY <1>1, LeastNatural
  <1>3. x \in 1..n /\ x - 1 \in 0..n /\ ~ (x <= x - 1)
    OBVIOUS
  <1>4. x - 1 \notin rest
    BY <1>2, <1>3
  <1>5. x - 1 \in T
    BY <1>3, <1>4
  <1> QED
    BY <1>3, <1>5

\* A function given by its value at 0 and a step from each value to the next.
Follows(f, a, n, H) ==
    /\ f[0] = a
    /\ \A i \in 1..n : f[i] = H[i][f[i - 1]]

\* There is one.
LEMMA StepByStep ==
    ASSUME NEW S, NEW a \in S, NEW n \in Nat, NEW H \in [1..n -> [S -> S]]
    PROVE  \E f \in [0..n -> S] : Follows(f, a, n, H)
  <1> DEFINE Upto(m, f) == /\ f \in [0..m -> S]
                           /\ f[0] = a
                           /\ \A i \in 1..m : f[i] = H[i][f[i - 1]]
             T == {m \in 0..n : \E f : Upto(m, f)}
  <1>1. 0 \in T
    <2>1. Upto(0, [i \in 0..0 |-> a])
      OBVIOUS
    <2>2. 0 \in 0..n
      OBVIOUS
    <2> QED
      BY <2>1, <2>2
  <1>2. ASSUME NEW m \in 1..n, m - 1 \in T
        PROVE  m \in T
    <2>1. PICK f : Upto(m - 1, f)
      BY <1>2
    <2> DEFINE g == [i \in 0..m |-> IF i = m THEN H[m][f[m - 1]] ELSE f[i]]
    <2>2. /\ m - 1 \in Nat /\ m \in Nat /\ m \in 0..n /\ m - 1 \in 0..m - 1
          /\ \A i \in 0..m : i # m => i \in 0..m - 1
          /\ \A i \in 1..m : i - 1 \in 0..m /\ i - 1 # m /\ i \in 0..m
          /\ \A i \in 1..m : i # m => i \in 1..m - 1
          /\ 0 \in 0..m /\ 0 # m
      OBVIOUS
    <2>3. f[m - 1] \in S /\ H[m] \in [S -> S]
      BY <2>1, <2>2
    <2>4. H[m][f[m - 1]] \in S
      BY <2>3
    <2>5. g \in [0..m -> S]
      BY <2>1, <2>2, <2>4
    <2>6. g[0] = a
      BY <2>1, <2>2
    <2>7. ASSUME NEW i \in 1..m
          PROVE  g[i] = H[i][g[i - 1]]
      <3>1. g[i - 1] = f[i - 1]
        BY <2>2
      <3>2. CASE i = m
        BY <2>2, <3>1, <3>2
      <3>3. CASE i # m
        <4>1. g[i] = f[i] /\ i \in 1..m - 1
          BY <2>2, <3>3
        <4> QED
          BY <2>1, <3>1, <4>1
      <3> QED
        BY <3>2, <3>3
    <2> HIDE DEF g
    <2>8. Upto(m, g)
      BY <2>5, <2>6, <2>7
    <2> QED
      BY <2>2, <2>8
  <1> HIDE DEF T
  <1>3. n \in T
    <2>1. \A m \in 1..n : m - 1 \in T => m \in T
      BY <1>2
    <2>2. \A i \in 0..n : i \in T
      BY <1>1, <2>1, BoundedInduction
    <2> QED
      BY <2>2
  <1> QED
    BY <1>3 DEF T, Follows

\* The function that Without(s, gone) is computed with.
Keeps(kept, s, gone) ==
    /\ kept[0] = <<>>
    /\ \A i \in 1..Len(s) :
          kept[i] = IF s[i] \in gone THEN kept[i - 1] ELSE Append(kept[i - 1], s[i])
    /\ Without(s, gone) = kept[Len(s)]

\* There is one, and it yields sequences.
LEMMA WithoutSteps ==
    ASSUME NEW S, NEW s \in Seq(S), NEW gone
    PROVE  \E kept \in [0..Len(s) -> Seq(S)] : Keeps(kept, s, gone)
  <1> DEFINE n == Len(s)
             H == [i \in 1..n |-> [q \in Seq(S) |-> IF s[i] \in gone THEN q ELSE Append(q, s[i])]]
             Body(f) == [i \in 0..n |->
                           IF i = 0 THEN <<>>
                           ELSE IF s[i] \in gone THEN f[i - 1] ELSE Append(f[i - 1], s[i])]
             kept == CHOOSE f : f = Body(f)
  <1>1. n \in Nat /\ <<>> \in Seq(S) /\ \A i \in 1..n : s[i] \in S
    OBVIOUS
  <1>2. \A i \in 1..n, q \in Seq(S) : Append(q, s[i]) \in Seq(S)
    BY <1>1
  <1>3. H \in [1..n -> [Seq(S) -> Seq(S)]]
    BY <1>2
  <1>4. /\ \A i \in 1..n, q \in Seq(S) : H[i][q] = IF s[i] \in gone THEN q ELSE Append(q, s[i])
    OBVIOUS
  <1> HIDE DEF n, H
  <1>5. PICK f \in [0..n -> Seq(S)] : f[0] = <<>> /\ \A i \in 1..n : f[i] = H[i][f[i - 1]]
    <2>1. PICK Q : Q = Seq(S)
      OBVIOUS
    <2>2. PICK e \in Q : e = <<>>
      BY <1>1, <2>1
    <2>3. H \in [1..n -> [Q -> Q]]
      BY <1>3, <2>1
    <2>4. \E f \in [0..n -> Q] : Follows(f, e, n, H)
      BY <1>1, <2>3, StepByStep
    <2> QED
      BY <2>1, <2>2, <2>4 DEF Follows
  <1>6. \A i \in 1..n : i \in 0..n /\ i - 1 \in 0..n /\ i # 0
    BY <1>1
  <1>7. \A i \in 1..n : f[i] = IF s[i] \in gone THEN f[i - 1] ELSE Append(f[i - 1], s[i])
    BY <1>4, <1>5, <1>6
  <1>8. \A i \in 0..n : i # 0 => i \in 1..n
    BY <1>1
  <1>9. f = Body(f)
    BY <1>5, <1>7, <1>8
  <1>10. kept = Body(kept)
    BY <1>9
  <1>11. Without(s, gone) = kept[n]
    BY DEF Without, n
  <1> HIDE DEF kept
  <1>12. /\ kept[0] = <<>>
         /\ \A i \in 1..n : kept[i] = IF s[i] \in gone THEN kept[i - 1]
                                       ELSE Append(kept[i - 1], s[i])
    <2>1. 0 \in 0..n
      BY <1>1
    <2>2. \A i \in 0..n : kept[i] = IF i = 0 THEN <<>>
                                     ELSE IF s[i] \in gone THEN kept[i - 1]
                                     ELSE Append(kept[i - 1], s[i])
      BY <1>10
    <2> QED
      BY <1>6, <2>1, <2>2
  <1>13. kept = [i \in 0..n |-> kept[i]]
    BY <1>10
  <1> DEFINE T == {i \in 0..n : kept[i] \in Seq(S)}
  <1>14. 0 \in T
    <2>1. 0 \in 0..n
      BY <1>1
    <2> QED
      BY <1>1, <1>12, <2>1
  <1>15. \A i \in 1..n : i - 1 \in T => i \in T
    BY <1>2, <1>6, <1>12
  <1> HIDE DEF T
  <1>16. \A i \in 0..n : i \in T
    BY <1>1, <1>14, <1>15, BoundedInduction
  <1>17. kept \in [0..n -> Seq(S)]
    BY <1>13, <1>16 DEF T
  <1> QED
    BY <1>11, <1>12, <1>17 DEF n, Keeps

\* What is left of a vector: the elements that do not go, each once if each was
\* there once.
LEMMA WithoutElems ==
    ASSUME NEW S, NEW s \in Seq(S), NEW gone
    PROVE  /\ Without(s, gone) \in Seq(S)
           /\ Elems(Without(s, gone)) = Elems(s) \ gone
           /\ (\A i, k \in 1..Len(s) : s[i] = s[k] => i = k) =>
                 \A i, k \in 1..Len(Without(s, gone)) :
                    Without(s, gone)[i] = Without(s, gone)[k] => i = k
  <1> DEFINE n == Len(s)
             Once(q) == \A i, k \in 1..Len(q) : q[i] = q[k] => i = k
             First(m) == {s[j] : j \in 1..m}
  <1>1. PICK kept \in [0..n -> Seq(S)] :
              /\ kept[0] = <<>>
              /\ \A i \in 1..n :
                    kept[i] = IF s[i] \in gone THEN kept[i - 1] ELSE Append(kept[i - 1], s[i])
              /\ Without(s, gone) = kept[n]
    <2>1. PICK kept \in [0..n -> Seq(S)] : Keeps(kept, s, gone)
      BY WithoutSteps
    <2> QED
      BY <2>1 DEF Keeps
  <1> DEFINE Good(m) == /\ Elems(kept[m]) = First(m) \ gone
                        /\ Once(s) => Once(kept[m])
             T == {m \in 0..n : Good(m)}
  <1>2. n \in Nat /\ 0 \in 0..n /\ n \in 0..n
    OBVIOUS
  <1>3. 0 \in T
    <2>1. Elems(<<>>) = {} /\ First(0) = {} /\ Once(<<>>)
      BY DEF Elems
    <2> QED
      BY <1>1, <1>2, <2>1
  <1>4. ASSUME NEW m \in 1..n, m - 1 \in T
        PROVE  m \in T
    <2>1. PICK q \in Seq(S) : q = kept[m - 1]
      <3>1. m - 1 \in 0..n
        OBVIOUS
      <3> QED
        BY <1>1, <3>1
    <2>2. m \in 0..n /\ Elems(q) = First(m - 1) \ gone /\ (Once(s) => Once(q))
      BY <1>4, <2>1
    <2>3. First(m) = First(m - 1) \cup {s[m]}
      <3>1. 1..m = (1..m - 1) \cup {m}
        OBVIOUS
      <3> QED
        BY <3>1
    <2>4. CASE s[m] \in gone
      <3>1. kept[m] = q
        BY <1>1, <2>1, <2>4
      <3> QED
        BY <2>2, <2>3, <2>4, <3>1
    <2>5. CASE s[m] \notin gone
      <3>1. kept[m] = Append(q, s[m])
        BY <1>1, <2>1, <2>5
      <3>2. PICK a : a = Append(q, s[m])
        OBVIOUS
      <3>3. /\ Len(q) \in Nat /\ Len(a) = Len(q) + 1 /\ a[Len(q) + 1] = s[m]
            /\ \A i \in 1..Len(q) : a[i] = q[i]
            /\ DOMAIN a = 1..Len(q) + 1 /\ DOMAIN q = 1..Len(q)
        BY <3>2
      <3>4. Elems(a) = Elems(q) \cup {s[m]}
        <4>1. 1..Len(q) + 1 = (1..Len(q)) \cup {Len(q) + 1}
          BY <3>3
        <4>2. Elems(a) = {a[i] : i \in 1..Len(q)} \cup {a[Len(q) + 1]}
          BY <3>3, <4>1 DEF Elems
        <4>3. Elems(q) = {a[i] : i \in 1..Len(q)}
          BY <3>3 DEF Elems
        <4> QED
          BY <3>3, <4>2, <4>3
      <3>5. Elems(kept[m]) = First(m) \ gone
        BY <2>2, <2>3, <2>5, <3>1, <3>2, <3>4
      <3>6. ASSUME Once(s) PROVE Once(a)
        <4>1. s[m] \notin Elems(q)
          <5>1. \A j \in 1..m - 1 : j \in 1..n /\ j # m
            OBVIOUS
          <5>2. s[m] \notin First(m - 1)
            BY <3>6, <5>1
          <5> QED
            BY <2>2, <5>2
        <4>2. ASSUME NEW i \in 1..Len(q) + 1, NEW k \in 1..Len(q) + 1, a[i] = a[k]
              PROVE  i = k
          <5>1. \A j \in 1..Len(q) + 1 : j \in 1..Len(q) \/ j = Len(q) + 1
            BY <3>3
          <5>2. \A j \in 1..Len(q) : a[j] = q[j] /\ q[j] # s[m]
            BY <3>3, <4>1 DEF Elems
          <5>3. CASE i \in 1..Len(q) /\ k \in 1..Len(q)
            BY <2>2, <3>6, <4>2, <5>2, <5>3
          <5>4. CASE i = Len(q) + 1 /\ k \in 1..Len(q)
            BY <3>3, <4>2, <5>2, <5>4
          <5>5. CASE i \in 1..Len(q) /\ k = Len(q) + 1
            BY <3>3, <4>2, <5>2, <5>5
          <5> QED
            BY <5>1, <5>3, <5>4, <5>5
        <4> QED
          BY <3>3, <4>2
      <3> QED
        BY <2>2, <3>1, <3>2, <3>5, <3>6
    <2> QED
      BY <2>4, <2>5
  <1> HIDE DEF T
  <1>5. \A m \in 1..n : m - 1 \in T => m \in T
    BY <1>4
  <1>6. n \in T
    <2>1. \A m \in 0..n : m \in T
      BY <1>2, <1>3, <1>5, BoundedInduction
    <2> QED
      BY <1>2, <2>1
  <1>7. Good(n)
    BY <1>6 DEF T
  <1>8. First(n) = Elems(s) /\ kept[n] \in Seq(S)
    BY <1>1, <1>2 DEF Elems
  <1> QED
    BY <1>1, <1>7, <1>8
=============================================================================
