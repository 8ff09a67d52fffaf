--------------------------- MODULE BootstrapProofs ---------------------------
(***************************************************************************)
(* Theorems about Components and Bootstrap for every search path, every set *)
(* of manifests, updates, bundles and installable components and every      *)
(* bound: versions are totally ordered, so a finite set of components has a *)
(* first and a dependency that can be met is met; and from that what the    *)
(* boot program promises the host, whatever happens while it boots.         *)
(***************************************************************************)
EXTENDS Bootstrap, VectorsProofs, FiniteSetTheorems

-----------------------------------------------------------------------------
(* Versions.  Both comparisons are lexicographic; the order of their         *)
(* elements decides at the first difference, if there is one.                *)

\* Two sequences are equal, have a first difference, or one is longer.
LEMMA FirstDifference ==
    ASSUME NEW S, NEW s \in Seq(S), NEW t \in Seq(S)
    PROVE  \/ s = t
           \/ \E i \in DOMAIN s \cap DOMAIN t :
                 s[i] # t[i] /\ \A k \in 1..(i - 1) : s[k] = t[k]
           \/ Len(s) < Len(t) /\ \A k \in DOMAIN s : s[k] = t[k]
           \/ Len(t) < Len(s) /\ \A k \in DOMAIN t : t[k] = s[k]
  <1> DEFINE D == {i \in DOMAIN s \cap DOMAIN t : s[i] # t[i]}
  <1>1. /\ DOMAIN s = 1..Len(s) /\ DOMAIN t = 1..Len(t)
        /\ Len(s) \in Nat /\ Len(t) \in Nat
    OBVIOUS
  <1>2. CASE D # {}
    <2>1. D \in SUBSET Nat
      BY <1>1
    <2>2. PICK x \in D : \A y \in D : x <= y
      BY <1>2, <2>1, LeastNatural
    <2>3. ASSUME NEW k \in 1..(x - 1) PROVE s[k] = t[k]
      <3>1. k \in DOMAIN s \cap DOMAIN t /\ ~ (x <= k)
        BY <1>1
      <3> QED
        BY <2>2, <3>1
    <2> QED
      BY <2>3
  <1>3. CASE D = {}
    <2>1. \A k \in DOMAIN s \cap DOMAIN t : s[k] = t[k]
      BY <1>3
    <2>2. CASE Len(s) = Len(t)
      <3>1. DOMAIN s = DOMAIN t /\ \A k \in 1..Len(s) : s[k] = t[k]
        BY <1>1, <2>1, <2>2
      <3>2. s = t
        BY <1>1, <2>2, <3>1
      <3> QED
        BY <3>2
    <2>3. CASE Len(s) < Len(t)
      BY <1>1, <2>1, <2>3
    <2>4. CASE Len(t) < Len(s)
      BY <1>1, <2>1, <2>4
    <2>5. Len(s) = Len(t) \/ Len(s) < Len(t) \/ Len(t) < Len(s)
      <3>1. \A m, n \in Nat : m = n \/ m < n \/ n < m
        OBVIOUS
      <3> QED
        BY <1>1, <3>1, Zenon
    <2> QED
      BY <2>2, <2>3, <2>4, <2>5
  <1> QED
    BY <1>2, <1>3

AllTokens == Seq(Nat)

\* std::string::compare orders tokens totally.
LEMMA TokensOrdered ==
    /\ \A u, v \in AllTokens : u = v \/ TokenBefore(u, v) \/ TokenBefore(v, u)
    /\ \A u \in AllTokens : ~TokenBefore(u, u)
    /\ \A u, v, w \in AllTokens : TokenBefore(u, v) /\ TokenBefore(v, w) => TokenBefore(u, w)
  <1>1. ASSUME NEW u \in AllTokens, NEW v \in AllTokens
        PROVE  u = v \/ TokenBefore(u, v) \/ TokenBefore(v, u)
    <2>1. u \in Seq(Nat) /\ v \in Seq(Nat)
      BY DEF AllTokens
    <2>2. CASE \E i \in DOMAIN u \cap DOMAIN v :
                  u[i] # v[i] /\ \A k \in 1..(i - 1) : u[k] = v[k]
      <3>1. PICK i \in DOMAIN u \cap DOMAIN v :
                   u[i] # v[i] /\ \A k \in 1..(i - 1) : u[k] = v[k]
        BY <2>2
      <3>2. u[i] \in Nat /\ v[i] \in Nat
        BY <2>1
      <3>3. u[i] < v[i] \/ v[i] < u[i]
        BY <3>1, <3>2
      <3> QED
        BY <3>1, <3>3 DEF TokenBefore
    <2> QED
      BY <2>1, <2>2, FirstDifference DEF TokenBefore
  <1>2. ASSUME NEW u \in AllTokens, TokenBefore(u, u) PROVE FALSE
    <2>1. /\ u \in Seq(Nat) /\ Len(u) \in Nat
          /\ \A i \in DOMAIN u : u[i] \in Nat
      BY DEF AllTokens
    <2> QED
      BY <1>2, <2>1 DEF TokenBefore
  <1>3. ASSUME NEW u \in AllTokens, NEW v \in AllTokens, NEW w \in AllTokens,
               TokenBefore(u, v), TokenBefore(v, w)
        PROVE  TokenBefore(u, w)
    <2>1. /\ DOMAIN u = 1..Len(u) /\ DOMAIN v = 1..Len(v) /\ DOMAIN w = 1..Len(w)
          /\ Len(u) \in Nat /\ Len(v) \in Nat /\ Len(w) \in Nat
          /\ \A i \in DOMAIN u : u[i] \in Nat
          /\ \A i \in DOMAIN v : v[i] \in Nat
          /\ \A i \in DOMAIN w : w[i] \in Nat
      BY DEF AllTokens
    <2>2. CASE Len(u) < Len(v) /\ \A k \in DOMAIN u : u[k] = v[k]
      <3>1. CASE Len(v) < Len(w) /\ \A k \in DOMAIN v : v[k] = w[k]
        BY <2>1, <2>2, <3>1 DEF TokenBefore
      <3>2. ASSUME NEW j \in DOMAIN v \cap DOMAIN w,
                   v[j] < w[j] /\ \A k \in 1..(j - 1) : v[k] = w[k]
            PROVE  TokenBefore(u, w)
        <4>1. CASE j <= Len(u)
          <5>1. /\ j \in DOMAIN u \cap DOMAIN w
                /\ u[j] < w[j]
                /\ \A k \in 1..(j - 1) : u[k] = w[k]
            BY <2>1, <2>2, <3>2, <4>1
          <5> QED
            BY <5>1 DEF TokenBefore
        <4>2. CASE j > Len(u)
          <5>1. Len(u) < Len(w) /\ \A k \in DOMAIN u : u[k] = w[k]
            BY <2>1, <2>2, <3>2, <4>2
          <5> QED
            BY <5>1 DEF TokenBefore
        <4> QED
          BY <2>1, <4>1, <4>2
      <3> QED
        BY <1>3, <3>1, <3>2 DEF TokenBefore
    <2>3. ASSUME NEW i \in DOMAIN u \cap DOMAIN v,
                 u[i] < v[i] /\ \A k \in 1..(i - 1) : u[k] = v[k]
          PROVE  TokenBefore(u, w)
      <3>1. CASE Len(v) < Len(w) /\ \A k \in DOMAIN v : v[k] = w[k]
        <4>1. /\ i \in DOMAIN u \cap DOMAIN w /\ u[i] < w[i]
              /\ \A k \in 1..(i - 1) : u[k] = w[k]
          BY <2>1, <2>3, <3>1
        <4> QED
          BY <4>1 DEF TokenBefore
      <3>2. ASSUME NEW j \in DOMAIN v \cap DOMAIN w,
                   v[j] < w[j] /\ \A k \in 1..(j - 1) : v[k] = w[k]
            PROVE  TokenBefore(u, w)
        <4>1. CASE i <= j
          <5>1. /\ i \in DOMAIN u \cap DOMAIN w /\ u[i] < w[i]
                /\ \A k \in 1..(i - 1) : u[k] = w[k]
            BY <2>1, <2>3, <3>2, <4>1
          <5> QED
            BY <5>1 DEF TokenBefore
        <4>2. CASE j < i
          <5>1. /\ j \in DOMAIN u \cap DOMAIN w /\ u[j] < w[j]
                /\ \A k \in 1..(j - 1) : u[k] = w[k]
            BY <2>1, <2>3, <3>2, <4>2
          <5> QED
            BY <5>1 DEF TokenBefore
        <4> QED
          BY <2>1, <4>1, <4>2
      <3> QED
        BY <1>3, <3>1, <3>2 DEF TokenBefore
    <2> QED
      BY <1>3, <2>2, <2>3 DEF TokenBefore
  <1> QED
    BY <1>1, <1>2, <1>3

\* CompareVersions orders versions totally, the order of tokens deciding.
LEMMA VersionsOrdered ==
    /\ \A u, v \in Versions : u = v \/ VersionBefore(u, v) \/ VersionBefore(v, u)
    /\ \A u \in Versions : ~VersionBefore(u, u)
    /\ \A u, v, w \in Versions : VersionBefore(u, v) /\ VersionBefore(v, w) => VersionBefore(u, w)
  <1>1. ASSUME NEW u \in Versions, NEW v \in Versions
        PROVE  u = v \/ VersionBefore(u, v) \/ VersionBefore(v, u)
    <2>1. u \in Seq(AllTokens) /\ v \in Seq(AllTokens)
      BY DEF Versions, AllTokens
    <2>2. CASE \E i \in DOMAIN u \cap DOMAIN v :
                  u[i] # v[i] /\ \A k \in 1..(i - 1) : u[k] = v[k]
      <3>1. PICK i \in DOMAIN u \cap DOMAIN v :
                   u[i] # v[i] /\ \A k \in 1..(i - 1) : u[k] = v[k]
        BY <2>2
      <3>2. u[i] \in AllTokens /\ v[i] \in AllTokens
        BY <2>1
      <3>3. TokenBefore(u[i], v[i]) \/ TokenBefore(v[i], u[i])
        BY <3>1, <3>2, TokensOrdered
      <3> QED
        BY <3>1, <3>3 DEF VersionBefore
    <2> QED
      BY <2>1, <2>2, FirstDifference DEF VersionBefore
  <1>2. ASSUME NEW u \in Versions, VersionBefore(u, u) PROVE FALSE
    <2>1. /\ u \in Seq(AllTokens) /\ Len(u) \in Nat
          /\ \A i \in DOMAIN u : u[i] \in AllTokens
      BY DEF Versions, AllTokens
    <2> QED
      BY <1>2, <2>1, TokensOrdered DEF VersionBefore
  <1>3. ASSUME NEW u \in Versions, NEW v \in Versions, NEW w \in Versions,
               VersionBefore(u, v), VersionBefore(v, w)
        PROVE  VersionBefore(u, w)
    <2>1. /\ DOMAIN u = 1..Len(u) /\ DOMAIN v = 1..Len(v) /\ DOMAIN w = 1..Len(w)
          /\ Len(u) \in Nat /\ Len(v) \in Nat /\ Len(w) \in Nat
          /\ \A i \in DOMAIN u : u[i] \in AllTokens
          /\ \A i \in DOMAIN v : v[i] \in AllTokens
          /\ \A i \in DOMAIN w : w[i] \in AllTokens
      BY DEF Versions, AllTokens
    <2>2. CASE Len(u) < Len(v) /\ \A k \in DOMAIN u : u[k] = v[k]
      <3>1. CASE Len(v) < Len(w) /\ \A k \in DOMAIN v : v[k] = w[k]
        BY <2>1, <2>2, <3>1 DEF VersionBefore
      <3>2. ASSUME NEW j \in DOMAIN v \cap DOMAIN w,
                   TokenBefore(v[j], w[j]) /\ \A k \in 1..(j - 1) : v[k] = w[k]
            PROVE  VersionBefore(u, w)
        <4>1. CASE j <= Len(u)
          <5>1. /\ j \in DOMAIN u \cap DOMAIN w
                /\ TokenBefore(u[j], w[j])
                /\ \A k \in 1..(j - 1) : u[k] = w[k]
            BY <2>1, <2>2, <3>2, <4>1
          <5> QED
            BY <5>1 DEF VersionBefore
        <4>2. CASE j > Len(u)
          <5>1. Len(u) < Len(w) /\ \A k \in DOMAIN u : u[k] = w[k]
            BY <2>1, <2>2, <3>2, <4>2
          <5> QED
            BY <5>1 DEF VersionBefore
        <4> QED
          BY <2>1, <4>1, <4>2
      <3> QED
        BY <1>3, <3>1, <3>2 DEF VersionBefore
    <2>3. ASSUME NEW i \in DOMAIN u \cap DOMAIN v,
                 TokenBefore(u[i], v[i]) /\ \A k \in 1..(i - 1) : u[k] = v[k]
          PROVE  VersionBefore(u, w)
      <3>1. CASE Len(v) < Len(w) /\ \A k \in DOMAIN v : v[k] = w[k]
        <4>1. /\ i \in DOMAIN u \cap DOMAIN w /\ TokenBefore(u[i], w[i])
              /\ \A k \in 1..(i - 1) : u[k] = w[k]
          BY <2>1, <2>3, <3>1
        <4> QED
          BY <4>1 DEF VersionBefore
      <3>2. ASSUME NEW j \in DOMAIN v \cap DOMAIN w,
                   TokenBefore(v[j], w[j]) /\ \A k \in 1..(j - 1) : v[k] = w[k]
            PROVE  VersionBefore(u, w)
        <4>1. CASE i <= j
          <5>1. /\ i \in DOMAIN u \cap DOMAIN w
                /\ \A k \in 1..(i - 1) : u[k] = w[k]
                /\ i = j \/ v[i] = w[i]
            BY <2>1, <2>3, <3>2, <4>1
          <5>2. u[i] \in AllTokens /\ v[i] \in AllTokens /\ w[i] \in AllTokens
            BY <2>1, <5>1
          <5>3. TokenBefore(u[i], w[i])
            BY <2>3, <3>2, <5>1, <5>2, TokensOrdered
          <5> QED
            BY <5>1, <5>3 DEF VersionBefore
        <4>2. CASE j < i
          <5>1. /\ j \in DOMAIN u \cap DOMAIN w /\ TokenBefore(u[j], w[j])
                /\ \A k \in 1..(j - 1) : u[k] = w[k]
            BY <2>1, <2>3, <3>2, <4>2
          <5> QED
            BY <5>1 DEF VersionBefore
        <4> QED
          BY <2>1, <4>1, <4>2
      <3> QED
        BY <1>3, <3>1, <3>2 DEF VersionBefore
    <2> QED
      BY <1>3, <2>2, <2>3 DEF VersionBefore
  <1> QED
    BY <1>1, <1>2, <1>3

\* The value that CompareVersions returns says how two versions are ordered.
LEMMA Comparison ==
    ASSUME NEW u \in Versions, NEW v \in Versions
    PROVE  /\ CompareVersions(u, v) \in {-1, 0, 1}
           /\ CompareVersions(u, v) > 0 <=> VersionBefore(v, u)
           /\ CompareVersions(u, v) < 0 <=> VersionBefore(u, v)
           /\ CompareVersions(u, v) = 0 <=> u = v
  <1>1. /\ u = v \/ VersionBefore(u, v) \/ VersionBefore(v, u)
        /\ ~ (VersionBefore(u, v) /\ VersionBefore(v, u))
        /\ u = v => ~VersionBefore(u, v) /\ ~VersionBefore(v, u)
    BY VersionsOrdered
  <1> QED
    BY <1>1 DEF CompareVersions

-----------------------------------------------------------------------------
(* The first of a set of components.                                        *)

InstalledType == [name : STRING, version : Versions, root : Roots]
ComponentType == [name : STRING, version : Versions, root : BundleRoots \cup Roots]

\* Different roots have different places on the search path.
LEMMA Ranks ==
    ASSUME NEW r \in Roots
    PROVE  PathRank(r) \in DOMAIN SearchPaths /\ SearchPaths[PathRank(r)] = r
                /\ PathRank(r) \in Nat
  <1> DEFINE T == {i \in DOMAIN SearchPaths : SearchPaths[i] = r}
  <1>1. DOMAIN SearchPaths = 1..Len(SearchPaths) /\ Len(SearchPaths) \in Nat
    BY ComponentsAssumption
  <1>2. T \in SUBSET Nat /\ T # {}
    BY <1>1 DEF Roots
  <1>3. PICK x \in T : \A y \in T : x <= y
    BY <1>2, LeastNatural
  <1>4. \A k \in 1..(x - 1) : SearchPaths[k] # r
    <2>1. ASSUME NEW k \in 1..(x - 1), SearchPaths[k] = r PROVE FALSE
      <3>1. k \in DOMAIN SearchPaths /\ ~ (x <= k)
        BY <1>1
      <3> QED
        BY <1>3, <2>1, <3>1
    <2> QED
      BY <2>1
  <1>5. x \in DOMAIN SearchPaths /\ SearchPaths[x] = r
    BY <1>3
  <1>6. /\ PathRank(r) \in DOMAIN SearchPaths
        /\ SearchPaths[PathRank(r)] = r
    BY <1>4, <1>5 DEF PathRank
  <1> QED
    BY <1>1, <1>6

\* Installed components come in the order of their versions, newest first, and
\* equal ones in the order of the search path.
LEMMA PrecedesMeans ==
    ASSUME NEW c \in InstalledType, NEW d \in InstalledType
    PROVE  Precedes(c, d) <=>
              \/ VersionBefore(d.version, c.version)
              \/ c.version = d.version /\ PathRank(c.root) < PathRank(d.root)
  <1>1. c.version \in Versions /\ d.version \in Versions /\ c.root \in Roots /\ d.root \in Roots
    BY DEF InstalledType
  <1>2. ~Bundled(c) /\ ~Bundled(d)
    BY <1>1, ComponentsAssumption DEF Bundled
  <1>3. /\ WeakCompareComponents(c, d) <=> VersionBefore(d.version, c.version)
        /\ WeakCompareComponents(d, c) <=> VersionBefore(c.version, d.version)
    BY <1>1, Comparison DEF WeakCompareComponents
  <1>4. /\ c.version = d.version \/ VersionBefore(c.version, d.version)
                                 \/ VersionBefore(d.version, c.version)
        /\ c.version = d.version => ~VersionBefore(c.version, d.version)
    BY <1>1, VersionsOrdered
  <1> QED
    BY <1>2, <1>3, <1>4 DEF Precedes

\* On the components of one name this order is strict and total.
LEMMA PrecedesOrders ==
    ASSUME NEW n
    PROVE  /\ \A c \in InstalledType : ~Precedes(c, c)
           /\ \A c, d \in InstalledType :
                 c.name = n /\ d.name = n => c = d \/ Precedes(c, d) \/ Precedes(d, c)
           /\ \A c, d, e \in InstalledType :
                 Precedes(c, d) /\ Precedes(d, e) => Precedes(c, e)
  <1>1. ASSUME NEW c \in InstalledType PROVE ~Precedes(c, c)
    <2>1. c.version \in Versions /\ PathRank(c.root) \in Nat
      BY Ranks DEF InstalledType
    <2>2. ~VersionBefore(c.version, c.version) /\ ~ (PathRank(c.root) < PathRank(c.root))
      BY <2>1, VersionsOrdered
    <2> QED
      BY <2>2, PrecedesMeans
  <1>2. ASSUME NEW c \in InstalledType, NEW d \in InstalledType, c.name = n, d.name = n, c # d
        PROVE  Precedes(c, d) \/ Precedes(d, c)
    <2>1. /\ c.version \in Versions /\ d.version \in Versions
          /\ c.root \in Roots /\ d.root \in Roots
      BY DEF InstalledType
    <2>2. CASE c.version # d.version
      <3>1. VersionBefore(c.version, d.version) \/ VersionBefore(d.version, c.version)
        BY <2>1, <2>2, VersionsOrdered
      <3> QED
        BY <3>1, PrecedesMeans
    <2>3. CASE c.version = d.version
      <3>1. c.root # d.root
        BY <1>2, <2>3 DEF InstalledType
      <3>2. /\ SearchPaths[PathRank(c.root)] = c.root /\ PathRank(c.root) \in Nat
            /\ SearchPaths[PathRank(d.root)] = d.root /\ PathRank(d.root) \in Nat
        BY <2>1, Ranks
      <3>3. PathRank(c.root) # PathRank(d.root)
        BY <3>1, <3>2
      <3>4. PathRank(c.root) < PathRank(d.root) \/ PathRank(d.root) < PathRank(c.root)
        BY <3>2, <3>3
      <3> QED
        BY <2>3, <3>4, PrecedesMeans
    <2> QED
      BY <2>2, <2>3
  <1>3. ASSUME NEW c \in InstalledType, NEW d \in InstalledType, NEW e \in InstalledType,
               Precedes(c, d), Precedes(d, e)
        PROVE  Precedes(c, e)
    <2>1. /\ c.version \in Versions /\ d.version \in Versions /\ e.version \in Versions
          /\ PathRank(c.root) \in Nat /\ PathRank(d.root) \in Nat /\ PathRank(e.root) \in Nat
      BY Ranks DEF InstalledType
    <2>2. /\ \/ VersionBefore(d.version, c.version)
             \/ c.version = d.version /\ PathRank(c.root) < PathRank(d.root)
          /\ \/ VersionBefore(e.version, d.version)
             \/ d.version = e.version /\ PathRank(d.root) < PathRank(e.root)
      BY <1>3, PrecedesMeans
    <2>3. \/ VersionBefore(e.version, c.version)
          \/ c.version = e.version /\ PathRank(c.root) < PathRank(e.root)
      BY <2>1, <2>2, VersionsOrdered
    <2> QED
      BY <2>3, PrecedesMeans
  <1> QED
    BY <1>1, <1>2, <1>3

\* A finite set of components of one name has one that precedes the others: a
\* component with the fewest predecessors has none.
LEMMA FirstExists ==
    ASSUME NEW comps \in SUBSET InstalledType, IsFiniteSet(comps), comps # {},
           NEW n, \A c \in comps : c.name = n
    PROVE  \E c \in comps : \A d \in comps \ {c} : Precedes(c, d)
  <1> DEFINE before(c) == {d \in comps : Precedes(d, c)}
             T == {before(c) : c \in comps}
             R == StrictSubsetOrdering(comps)
  <1>1. IsWellFoundedOn(R, FiniteSubsetsOf(comps))
    BY FS_StrictSubsetOrderingWellFounded
  <1>2. FiniteSubsetsOf(comps) = SUBSET comps
    BY FS_FiniteSubsetsOfFinite
  <1>3. T \subseteq SUBSET comps /\ T # {}
    OBVIOUS
  <1> HIDE DEF R, T
  <1>4. PICK x \in T : \A y \in T : ~ (<<y, x>> \in R)
    BY <1>1, <1>2, <1>3, WFMin
  <1>5. PICK c \in comps : x = before(c)
    BY <1>4 DEF T
  <1>6. before(c) = {}
    <2>1. SUFFICES ASSUME NEW d \in before(c) PROVE FALSE
      OBVIOUS
    <2>2. d \in comps /\ Precedes(d, c)
      BY <2>1
    <2>3. before(d) \subseteq before(c)
      BY <2>2, PrecedesOrders
    <2>4. d \notin before(d)
      BY <2>2, PrecedesOrders
    <2>5. before(d) # before(c)
      BY <2>1, <2>4
    <2>6. before(d) \in SUBSET comps /\ before(c) \in SUBSET comps /\ before(d) \in T
      BY <2>2 DEF T
    <2> HIDE DEF before
    <2>7. <<before(d), before(c)>> \in R
      BY <2>3, <2>5, <2>6 DEF R, StrictSubsetOrdering
    <2> QED
      BY <1>4, <1>5, <2>6, <2>7
  <1>7. ASSUME NEW d \in comps, d # c PROVE Precedes(c, d)
    <2>1. ~Precedes(d, c)
      BY <1>6
    <2>2. c \in InstalledType /\ d \in InstalledType /\ c.name = n /\ d.name = n
      OBVIOUS
    <2> QED
      BY <1>7, <2>1, <2>2, PrecedesOrders
  <1> QED
    BY <1>7

\* First returns a member of a set of components of one name, bundled in at
\* most one place; never the null component.
LEMMA FirstIsMember ==
    ASSUME NEW root \in BundleRoots, NEW comps, comps # {}, NEW n \in STRING,
           NEW installed \in SUBSET InstalledType, IsFiniteSet(installed),
           \A c \in comps :
              /\ c.name = n
              /\ c \in installed \/ c = [name |-> n, version |-> <<>>, root |-> root]
    PROVE  First(comps) \in comps /\ First(comps) # NoComponent
  <1> DEFINE b == [name |-> n, version |-> <<>>, root |-> root]
  <1>1. Bundled(b) /\ \A c \in InstalledType : ~Bundled(c)
    BY ComponentsAssumption DEF Bundled, InstalledType
  <1>2. \E c \in comps : \A d \in comps \ {c} : Precedes(c, d)
    <2>1. CASE b \in comps
      <3>1. \A d \in comps \ {b} : d \in InstalledType
        OBVIOUS
      <3>2. \A d \in comps \ {b} : Precedes(b, d)
        BY <1>1, <3>1 DEF Precedes
      <3> QED
        BY <2>1, <3>2
    <2>2. CASE b \notin comps
      <3>1. comps \in SUBSET installed
        BY <2>2
      <3>2. IsFiniteSet(comps)
        BY <3>1, FS_Subset
      <3> QED
        BY <3>1, <3>2, FirstExists
    <2> QED
      BY <2>1, <2>2
  <1>3. First(comps) \in comps
    BY <1>2 DEF First
  <1>4. NoComponent.root = "none"
    BY DEF NoComponent
  <1>5. \A c \in InstalledType \cup {b} : c.root # "none"
    BY ComponentsAssumption DEF InstalledType, BundleRoots, Places
  <1> QED
    BY <1>3, <1>4, <1>5

-----------------------------------------------------------------------------
(* The inductive invariant.                                                 *)

DependencyLists == Manifests \cup {{}}
ManifestFiles == [kind : {"absent", "unreadable", "ok"}, deps : DependencyLists]
Options == {"force-install", "override"}
Applications == [deps : DependencyLists, place : Places, args : SUBSET Options]
Lines == {"off", "main", "manifest", "findUpdate", "resolve", "decide",
          "installing", "returned", "resolveAgain", "check", "export",
          "blastoff", "startHost", "host", "failed"}

DiskTypes ==
    /\ setup \in [platform : {"linux", "win32"}, bundled : SUBSET STRING]
    /\ disk \in [manifest : ManifestFiles, update : ManifestFiles,
                 installed : SUBSET InstalledType,
                 markers : SUBSET ({"data"} \cup Places),
                 installedTo : {"absent", "unreadable", "broken", "there"}]
    /\ IsFiniteSet(disk.installed)

ProcType == [app : Applications, updateFile : BOOLEAN, missing : SUBSET Dependencies,
             asked : SUBSET Dependencies, resolved : SUBSET ComponentType, code : {0, 1}]
EnvType == [bootstrapped : BOOLEAN, home : Places,
            runtime : ComponentType \cup {NoComponent},
            modules : SUBSET ComponentType, needs : DependencyLists]
HostType == [app : SUBSET ComponentType, runtime : ComponentType \cup {NoComponent},
             loads : SUBSET ComponentType]
LaunchType == [args : SUBSET Options, place : Places, complete : BOOLEAN, idle : BOOLEAN]
GhostType == [launches : Nat, foreign : Nat, startedAt : SUBSET Places]

BootTypes ==
    /\ DiskTypes
    /\ pc \in Lines
    /\ proc \in ProcType
    /\ env \in EnvType
    /\ host \in HostType
    /\ launch \in LaunchType
    /\ ghost \in GhostType

\* A component among these has the dependency's name and fits it.
Meets(c, d) == c.name = d.name /\ Fits(c, d)
MetBy(d, comps) == \E c \in comps : Meets(c, d)

\* What an application at that place finds without an override.
Around(place) == BundledComponents(place) \cup disk.installed

\* A process that has not read its manifest knows nothing, and the flag that
\* tells the second time round is there only between the two.
FreshInv ==
    /\ pc \in {"off", "failed", "main", "manifest"} => proc = NoProc
    /\ pc \in {"off", "failed"} => env.bootstrapped = FALSE
    /\ pc = "main" /\ env.bootstrapped => setup.platform = "linux"
    /\ pc = "main" /\ ~env.bootstrapped => ~launch.complete
    /\ pc \in {"manifest", "findUpdate", "resolve", "decide", "installing"}
          => ~launch.complete
    /\ pc = "blastoff" => env.bootstrapped

\* Which file the dependencies of the boot program's application came from.
SourceInv ==
    /\ pc = "findUpdate" => ~proc.updateFile
    /\ pc \in {"findUpdate", "resolve", "decide"} => proc.asked = {}
    /\ pc \in {"findUpdate", "resolve", "decide", "installing", "returned",
               "resolveAgain", "check", "export"} => proc.app.args \subseteq launch.args
    /\ pc \in {"findUpdate", "resolve", "decide", "installing", "returned"} =>
          proc.app.deps = IF proc.updateFile /\ disk.update.kind = "ok"
                          THEN disk.update.deps ELSE disk.manifest.deps
    /\ proc.asked \subseteq proc.app.deps \/ proc.app.place = "there"

\* A resolution stays true while it is used: what was found is still there, and
\* what was not found is on the list of missing dependencies.
ResolutionHolds ==
    /\ proc.missing \subseteq proc.app.deps
    /\ proc.resolved \subseteq GetAvailableComponents(proc.app)
    /\ \A d \in proc.app.deps : d \in proc.missing \/ MetBy(d, proc.resolved)
    /\ \A c \in proc.resolved : \E d \in proc.app.deps : Meets(c, d)

ResolvedInv ==
    pc \in {"decide", "installing", "returned", "check", "export"} => ResolutionHolds

\* What was checked before the host was started.
CheckedInv ==
    pc = "export" => proc.missing = {} /\ IsInstalled(proc.app)

\* What the environment tells the host is true, in both of its processes.
EnvHolds ==
    /\ env.runtime # NoComponent
    /\ \A d \in env.needs :
          \E c \in {env.runtime} \cup env.modules \cup SDKsOnDisk : Meets(c, d) /\ OnDisk(c)
    /\ disk.markers \cap {"data", env.home} # {}
    /\ "override" \notin launch.args => \A d \in env.needs : MetBy(d, Around(env.home))

EnvInv ==
    /\ pc \in {"blastoff", "startHost", "host"} \/ (pc = "main" /\ env.bootstrapped)
          => EnvHolds
    /\ pc = "host" => host.runtime = env.runtime /\ host.loads = env.modules

\* Where the application ran once, all it needs is there.
StartedHolds ==
    \A p \in ghost.startedAt :
        /\ disk.markers \cap {"data", p} # {}
        /\ \A d \in disk.manifest.deps : MetBy(d, Around(p))

StartedInv ==
    /\ StartedHolds
    /\ /\ pc = "decide"
       /\ ~proc.updateFile
       /\ proc.app.args = {}
       /\ proc.app.place \in ghost.startedAt
       => proc.missing = {}

\* Only Win32 installs an application elsewhere, and marks it there.
InstalledToInv ==
    /\ setup.platform = "linux" => disk.installedTo = "absent"
    /\ disk.installedTo = "there" => "there" \in disk.markers

\* All a manifest asks for can be met by installing what it names.
Exactly(deps) ==
    \A d \in deps : d.requirement \in {"EQ", "GTE"} /\ TypeOf(d.name) \notin {SDK, MOBILESDK}

AllMet == \A d \in proc.app.deps : MetBy(d, Around(proc.app.place))

\* What a complete installation leaves behind, up to the check.
CompleteInv ==
    /\ pc \in {"installing", "returned"} => proc.asked = FilterForSDKInstall(proc.missing)
    /\ pc = "returned" /\ launch.complete => proc.code = 0 /\ InstallerDone
    /\ pc \in {"resolveAgain", "check"} /\ launch.complete => IsInstalled(proc.app)
    /\ /\ pc \in {"resolveAgain", "check"}
       /\ launch.complete
       /\ "override" \notin launch.args
       /\ Exactly(proc.app.deps)
       => AllMet /\ (pc = "check" => proc.missing = {})

BootInv ==
    /\ BootTypes
    /\ FreshInv
    /\ SourceInv
    /\ ResolvedInv
    /\ CheckedInv
    /\ EnvInv
    /\ StartedInv
    /\ InstalledToInv
    /\ CompleteInv
    /\ InstalledStaysInstalled

-----------------------------------------------------------------------------
(* Resolution.                                                              *)

\* The lists of dependencies are lists of dependencies.
LEMMA ListsTyped == DependencyLists \subseteq SUBSET Dependencies
  BY BootstrapAssumption DEF DependencyLists

\* Components that may be bundled.
LEMMA BundledTyped ==
    ASSUME DiskTypes, NEW root \in BundleRoots
    PROVE  BundledComponents(root) \subseteq ComponentType
  <1>1. setup.bundled \subseteq STRING
    BY DEF DiskTypes
  <1>2. <<>> \in Versions
    BY DEF Versions
  <1> QED
    BY <1>1, <1>2 DEF BundledComponents, ComponentType

\* What an application finds is there, and without an override that is all
\* that lies around it.
LEMMA AvailableThere ==
    ASSUME DiskTypes, NEW app \in Applications
    PROVE  /\ GetAvailableComponents(app) \subseteq ComponentType
           /\ \A c \in GetAvailableComponents(app) : OnDisk(c)
           /\ "override" \notin app.args => GetAvailableComponents(app) = Around(app.place)
  <1>1. app.place \in BundleRoots /\ "override" \in BundleRoots
    BY DEF Applications, BundleRoots
  <1>2. disk.installed \subseteq ComponentType
    BY DEF DiskTypes, InstalledType, ComponentType
  <1>3. /\ BundledComponents(app.place) \subseteq ComponentType
        /\ BundledComponents("override") \subseteq ComponentType
    BY <1>1, BundledTyped
  <1> QED
    BY <1>1, <1>2, <1>3 DEF GetAvailableComponents, InstalledComponents, OnDisk, Around

\* A dependency that something available meets is resolved to such a component,
\* any other to none (Application::ResolveDependency).
LEMMA Resolution ==
    ASSUME DiskTypes, NEW app \in Applications, NEW d \in Dependencies
    PROVE  LET comps == GetAvailableComponents(app)
               r == ResolveDependency(d, comps)
           IN  /\ MetBy(d, comps) => r \in comps /\ Meets(r, d) /\ r # NoComponent
               /\ ~MetBy(d, comps) => r = NoComponent
  <1> DEFINE comps == GetAvailableComponents(app)
             fitting == {c \in comps : c.name = d.name /\ Fits(c, d)}
             root == IF "override" \in app.args THEN "override" ELSE app.place
  <1>1. ResolveDependency(d, comps) = First(fitting)
    BY DEF ResolveDependency
  <1>2. root \in BundleRoots
    BY DEF Applications, BundleRoots
  <1>3. d.name \in STRING
    BY DEF Dependencies
  <1>4. disk.installed \in SUBSET InstalledType /\ IsFiniteSet(disk.installed)
    BY DEF DiskTypes
  <1>5. \A c \in fitting :
           /\ c.name = d.name
           /\ \/ c \in disk.installed
              \/ c = [name |-> d.name, version |-> <<>>, root |-> root]
    BY DEF GetAvailableComponents, InstalledComponents, BundledComponents
  <1>6. MetBy(d, comps) <=> fitting # {}
    BY DEF MetBy, Meets
  <1> HIDE DEF root
  <1>7. CASE fitting # {}
    <2> HIDE DEF fitting
    <2>1. First(fitting) \in fitting /\ First(fitting) # NoComponent
      BY <1>2, <1>3, <1>4, <1>5, <1>7, FirstIsMember
    <2> QED
      BY <1>1, <1>6, <1>7, <2>1 DEF fitting, Meets
  <1>8. CASE fitting = {}
    BY <1>1, <1>6, <1>8 DEF First
  <1> QED
    BY <1>7, <1>8

\* What ResolveDependencies leaves in the application.
LEMMA Resolutions ==
    ASSUME DiskTypes, NEW app \in Applications
    PROVE  /\ Missing(app) \subseteq app.deps
           /\ Resolved(app) \subseteq GetAvailableComponents(app)
           /\ \A d \in app.deps : d \in Missing(app) \/ MetBy(d, Resolved(app))
           /\ \A d \in app.deps :
                 MetBy(d, GetAvailableComponents(app)) => d \notin Missing(app)
           /\ \A c \in Resolved(app) : \E d \in app.deps : Meets(c, d)
  <1> DEFINE comps == GetAvailableComponents(app)
  <1>1. app.deps \subseteq Dependencies
    BY ListsTyped DEF Applications
  <1>2. \A d \in app.deps :
           /\ MetBy(d, comps) => /\ ResolveDependency(d, comps) \in comps
                                 /\ Meets(ResolveDependency(d, comps), d)
                                 /\ ResolveDependency(d, comps) # NoComponent
           /\ ~MetBy(d, comps) => ResolveDependency(d, comps) = NoComponent
    BY <1>1, Resolution
  <1>3. /\ Missing(app) = {d \in app.deps : ResolveDependency(d, comps) = NoComponent}
        /\ Resolved(app) = {ResolveDependency(d, comps) : d \in app.deps} \ {NoComponent}
    BY DEF Missing, Resolved
  <1> HIDE DEF comps
  <1>4. \A d \in app.deps : d \in Missing(app) \/ MetBy(d, Resolved(app))
    <2>1. ASSUME NEW d \in app.deps, d \notin Missing(app) PROVE MetBy(d, Resolved(app))
      <3>1. ResolveDependency(d, comps) # NoComponent
        BY <1>3, <2>1
      <3>2. ResolveDependency(d, comps) \in Resolved(app) /\ Meets(ResolveDependency(d, comps), d)
        BY <1>2, <1>3, <3>1
      <3> QED
        BY <3>2 DEF MetBy
    <2> QED
      BY <2>1
  <1>5. \A c \in Resolved(app) : c \in comps /\ \E d \in app.deps : Meets(c, d)
    <2>1. ASSUME NEW c \in Resolved(app) PROVE c \in comps /\ \E d \in app.deps : Meets(c, d)
      <3>1. PICK d \in app.deps : c = ResolveDependency(d, comps) /\ c # NoComponent
        BY <1>3
      <3> QED
        BY <1>2, <3>1
    <2> QED
      BY <2>1
  <1>6. \A d \in app.deps : MetBy(d, comps) => d \notin Missing(app)
    BY <1>2, <1>3
  <1> QED
    BY <1>3, <1>4, <1>5, <1>6 DEF comps

\* WeakCompareComponents is a strict weak order on all versions, however many
\* tokens they have: what std::stable_sort requires of the comparison it is
\* given, whatever components the search path holds (boot_utils.cpp:62-65).
THEOREM SortWellDefined == Spec => []SortIsWellDefined
  <1>1. VersionsWeaklyOrdered
    <2> SUFFICES ASSUME NEW u \in SampleVersions, NEW v \in SampleVersions,
                        NEW w \in SampleVersions
                 PROVE  LET before(x, y) ==
                                WeakCompareComponents([version |-> x], [version |-> y])
                            same(x, y) == ~before(x, y) /\ ~before(y, x)
                        IN  /\ ~(before(u, v) /\ before(v, u))
                            /\ before(u, v) /\ before(v, w) => before(u, w)
                            /\ same(u, v) /\ same(v, w) => same(u, w)
      BY DEF VersionsWeaklyOrdered
    <2> DEFINE before(x, y) == WeakCompareComponents([version |-> x], [version |-> y])
    <2>1. u \in Versions /\ v \in Versions /\ w \in Versions
      BY BootstrapAssumption
    <2>2. \A x, y \in Versions : before(x, y) <=> VersionBefore(y, x)
      BY Comparison DEF WeakCompareComponents
    <2> HIDE DEF before
    <2>3. /\ ~ (before(u, v) /\ before(v, u))
          /\ before(u, v) /\ before(v, w) => before(u, w)
      BY <2>1, <2>2, VersionsOrdered
    <2>4. (~before(u, v) /\ ~before(v, u)) /\ (~before(v, w) /\ ~before(w, v))
             => ~before(u, w) /\ ~before(w, u)
      BY <2>1, <2>2, VersionsOrdered
    <2> QED
      BY <2>3, <2>4 DEF before
  <1>2. SortIsWellDefined
    BY <1>1 DEF SortIsWellDefined
  <1> QED
    BY <1>2, PTL

-----------------------------------------------------------------------------
(* The invariant holds in the first state.                                  *)

\* The memory of a process that has just begun has its types.
LEMMA NothingTyped ==
    /\ NoProc \in ProcType
    /\ NoEnv \in EnvType
    /\ NoHost \in HostType
    /\ NoLaunch \in LaunchType
  <1>1. NoApplication \in Applications
    BY DEF NoApplication, Applications, DependencyLists, Places
  <1> QED
    BY <1>1 DEF NoProc, ProcType, NoEnv, EnvType, NoHost, HostType, NoLaunch, LaunchType,
                DependencyLists, Places

\* Nothing was launched yet, whatever is on disk.
LEMMA BootInvInit == Init => BootInv
  <1> SUFFICES ASSUME Init PROVE BootInv
    OBVIOUS
  <1>1. PICK file \in FilesOf(Manifests) \cup {Absent}, comps \in SUBSET Installable,
             marks \in {{}, {"data"}} :
          disk = [manifest |-> file, update |-> Absent, installed |-> comps,
                  markers |-> marks, installedTo |-> "absent"]
    BY DEF Init
  <1>2. /\ pc = "off" /\ proc = NoProc /\ env = NoEnv /\ host = NoHost /\ launch = NoLaunch
        /\ ghost = [launches |-> 0, foreign |-> 0, startedAt |-> {}]
        /\ setup \in [platform : Platforms, bundled : Bundles]
    BY DEF Init
  <1>3. file \in ManifestFiles /\ Absent \in ManifestFiles
    BY DEF FilesOf, Readable, Unreadable, Absent, ManifestFiles, DependencyLists
  <1>4. comps \in SUBSET InstalledType /\ IsFiniteSet(comps)
    BY ComponentsAssumption, FS_Subset DEF InstalledType
  <1>5. setup \in [platform : {"linux", "win32"}, bundled : SUBSET STRING]
    BY <1>2, BootstrapAssumption
  <1>6. DiskTypes
    BY <1>1, <1>3, <1>4, <1>5 DEF DiskTypes
  <1>7. BootTypes
    BY <1>2, <1>6, NothingTyped DEF BootTypes, Lines, GhostType
  <1>8. FreshInv /\ SourceInv
    BY <1>2 DEF FreshInv, SourceInv, NoEnv, NoProc
  <1>9. ResolvedInv /\ CheckedInv /\ EnvInv
    BY <1>2 DEF ResolvedInv, CheckedInv, EnvInv
  <1>10. StartedInv /\ CompleteInv /\ InstalledStaysInstalled
    BY <1>2 DEF StartedInv, StartedHolds, CompleteInv, InstalledStaysInstalled
  <1>11. InstalledToInv
    BY <1>1 DEF InstalledToInv
  <1> QED
    BY <1>7, <1>8, <1>9, <1>10, <1>11 DEF BootInv

-----------------------------------------------------------------------------
(* What stays true while components and markers are only added.             *)

\* More components on disk.
LEMMA Growth ==
    ASSUME setup' = setup, disk.installed \subseteq disk'.installed
    PROVE  /\ \A p : Around(p) \subseteq Around(p)'
           /\ \A app : GetAvailableComponents(app) \subseteq GetAvailableComponents(app)'
           /\ \A c : OnDisk(c) => OnDisk(c)'
           /\ SDKsOnDisk \subseteq SDKsOnDisk'
  <1>1. \A root : BundledComponents(root)' = BundledComponents(root)
    BY DEF BundledComponents
  <1>2. \A p : Around(p) \subseteq Around(p)'
    BY <1>1 DEF Around
  <1>3. \A app : GetAvailableComponents(app) \subseteq GetAvailableComponents(app)'
    BY <1>1 DEF GetAvailableComponents, InstalledComponents
  <1>4. \A c : OnDisk(c) => OnDisk(c)'
    BY <1>1 DEF OnDisk
  <1>5. SDKsOnDisk \subseteq SDKsOnDisk'
    BY <1>1 DEF SDKsOnDisk
  <1> QED
    BY <1>2, <1>3, <1>4, <1>5

\* More components to choose from meet what fewer meet.
LEMMA MetByMore ==
    ASSUME NEW d, NEW S, NEW T, S \subseteq T, MetBy(d, S)
    PROVE  MetBy(d, T)
  BY DEF MetBy

\* The parts of the invariant that speak of the disk.
LEMMA Kept ==
    ASSUME setup' = setup, disk.installed \subseteq disk'.installed,
           disk.markers \subseteq disk'.markers
    PROVE  /\ EnvHolds /\ launch'.args = launch.args /\ env'.runtime = env.runtime
              /\ env'.modules = env.modules /\ env'.needs = env.needs /\ env'.home = env.home
              => EnvHolds'
           /\ ResolutionHolds /\ proc'.app = proc.app /\ proc'.missing = proc.missing
              /\ proc'.resolved = proc.resolved => ResolutionHolds'
           /\ StartedHolds /\ disk'.manifest = disk.manifest
              /\ ghost'.startedAt \subseteq ghost.startedAt => StartedHolds'
           /\ AllMet /\ proc'.app = proc.app => AllMet'
           /\ IsInstalled(proc.app) /\ proc'.app = proc.app => IsInstalled(proc.app)'
  <1>1. /\ \A p : Around(p) \subseteq Around(p)'
        /\ \A app : GetAvailableComponents(app) \subseteq GetAvailableComponents(app)'
        /\ \A c : OnDisk(c) => OnDisk(c)'
        /\ SDKsOnDisk \subseteq SDKsOnDisk'
    BY Growth
  <1>2. ASSUME EnvHolds, launch'.args = launch.args, env'.runtime = env.runtime,
               env'.modules = env.modules, env'.needs = env.needs, env'.home = env.home
        PROVE  EnvHolds'
    <2>1. \A d \in env.needs :
             \E c \in {env.runtime} \cup env.modules \cup SDKsOnDisk' : Meets(c, d) /\ OnDisk(c)'
      BY <1>1, <1>2 DEF EnvHolds
    <2>2. "override" \notin launch.args => \A d \in env.needs : MetBy(d, Around(env.home)')
      BY <1>1, <1>2, MetByMore DEF EnvHolds
    <2> QED
      BY <1>2, <2>1, <2>2 DEF EnvHolds
  <1>3. ASSUME ResolutionHolds, proc'.app = proc.app, proc'.missing = proc.missing,
               proc'.resolved = proc.resolved
        PROVE  ResolutionHolds'
    BY <1>1, <1>3 DEF ResolutionHolds
  <1>4. ASSUME StartedHolds, disk'.manifest = disk.manifest,
               ghost'.startedAt \subseteq ghost.startedAt
        PROVE  StartedHolds'
    <2>1. ASSUME NEW p \in ghost'.startedAt
          PROVE  /\ disk'.markers \cap {"data", p} # {}
                 /\ \A d \in disk'.manifest.deps : MetBy(d, Around(p)')
      <3>1. /\ disk.markers \cap {"data", p} # {}
            /\ \A d \in disk.manifest.deps : MetBy(d, Around(p))
        BY <1>4, <2>1 DEF StartedHolds
      <3>2. Around(p) \subseteq Around(p)'
        BY <1>1
      <3> QED
        BY <1>4, <3>1, <3>2, MetByMore
    <2> QED
      BY <2>1 DEF StartedHolds
  <1>5. ASSUME AllMet, proc'.app = proc.app PROVE AllMet'
    BY <1>1, <1>5, MetByMore DEF AllMet
  <1>6. ASSUME IsInstalled(proc.app), proc'.app = proc.app PROVE IsInstalled(proc.app)'
    BY <1>6 DEF IsInstalled
  <1> QED
    BY <1>2, <1>3, <1>4, <1>5, <1>6

-----------------------------------------------------------------------------
(* Every action keeps the invariant.                                        *)

\* The process is gone, whatever it had done; .installedto may be gone too.
LEMMA EndKeeps ==
    ASSUME BootInv, NEW how \in {"off", "failed"}, End(how), UNCHANGED <<setup, ghost>>,
           disk' = disk \/ disk' = [disk EXCEPT !.installedTo = "absent"]
    PROVE  BootInv'
  <1>1. /\ pc' = how /\ proc' = NoProc /\ env' = NoEnv /\ host' = NoHost /\ launch' = NoLaunch
    BY DEF End
  <1>2. /\ disk'.installed = disk.installed /\ disk'.markers = disk.markers
        /\ disk'.manifest = disk.manifest
        /\ disk'.installedTo \in {"absent", disk.installedTo}
        /\ DiskTypes'
    BY DEF BootInv, BootTypes, DiskTypes
  <1>3. BootTypes'
    BY <1>1, <1>2, NothingTyped DEF BootInv, BootTypes, Lines
  <1>4. FreshInv' /\ SourceInv'
    BY <1>1 DEF FreshInv, SourceInv, NoEnv, NoProc
  <1>5. ResolvedInv' /\ CheckedInv' /\ EnvInv' /\ CompleteInv' /\ InstalledStaysInstalled'
    BY <1>1 DEF ResolvedInv, CheckedInv, EnvInv, CompleteInv, InstalledStaysInstalled
  <1>6. StartedHolds'
    BY <1>2, Kept DEF BootInv, StartedInv
  <1>7. StartedInv'
    BY <1>1, <1>6 DEF StartedInv
  <1>8. InstalledToInv'
    BY <1>2 DEF BootInv, InstalledToInv
  <1> QED
    BY <1>3, <1>4, <1>5, <1>7, <1>8 DEF BootInv

\* A launch begins with an empty memory and no flag in the environment.
LEMMA LaunchKeeps == ASSUME BootInv, Launch PROVE BootInv'
  <1>1. /\ pc \in {"off", "failed"} /\ pc' = "main"
        /\ ghost' = [ghost EXCEPT !.launches = @ + 1]
        /\ UNCHANGED <<setup, disk, proc, env, host>>
    BY DEF Launch
  <1>2. PICK args \in Arguments, place \in {"here"} \cup (disk.markers \cap Places) :
           launch' = [NoLaunch EXCEPT !.args = args, !.place = place]
    BY DEF Launch
  <1>3. launch' \in LaunchType /\ launch'.complete = FALSE
    <2>1. args \in SUBSET Options /\ place \in Places
      BY BootstrapAssumption DEF Options, Places
    <2> QED
      BY <1>2, <2>1 DEF LaunchType, NoLaunch
  <1>4. ghost' \in GhostType /\ ghost'.startedAt = ghost.startedAt
    BY <1>1 DEF BootInv, BootTypes, GhostType
  <1>5. BootTypes'
    BY <1>1, <1>3, <1>4 DEF BootInv, BootTypes, DiskTypes, Lines
  <1>6. proc' = NoProc /\ env'.bootstrapped = FALSE
    BY <1>1 DEF BootInv, FreshInv
  <1>7. FreshInv' /\ SourceInv'
    BY <1>1, <1>3, <1>6 DEF FreshInv, SourceInv, NoProc
  <1>8. ResolvedInv' /\ CheckedInv' /\ EnvInv' /\ CompleteInv' /\ InstalledStaysInstalled'
    BY <1>1, <1>6 DEF ResolvedInv, CheckedInv, EnvInv, CompleteInv, InstalledStaysInstalled
  <1>9. StartedHolds'
    BY <1>1, <1>4, Kept DEF BootInv, StartedInv
  <1>10. StartedInv' /\ InstalledToInv'
    BY <1>1, <1>9 DEF BootInv, StartedInv, InstalledToInv
  <1> QED
    BY <1>5, <1>7, <1>8, <1>10 DEF BootInv

\* The second time round there is an environment to trust.
LEMMA MainKeeps == ASSUME BootInv, Main PROVE BootInv'
  <1>1. pc = "main" /\ UNCHANGED <<setup, disk, proc, host, launch, ghost>>
    BY DEF Main
  <1>2. proc = NoProc
    BY <1>1 DEF BootInv, FreshInv
  <1>3. StartedHolds'
    BY <1>1, Kept DEF BootInv, StartedInv
  <1>4. InstalledToInv'
    BY <1>1 DEF BootInv, InstalledToInv
  <1>5. CASE setup.platform = "linux" /\ env.bootstrapped
    <2>1. pc' = "startHost" /\ env' = [env EXCEPT !.bootstrapped = FALSE]
      BY <1>5 DEF Main
    <2>2. /\ env' \in EnvType /\ env'.runtime = env.runtime /\ env'.modules = env.modules
          /\ env'.needs = env.needs /\ env'.home = env.home
      BY <2>1 DEF BootInv, BootTypes, EnvType
    <2>3. BootTypes'
      BY <1>1, <2>1, <2>2 DEF BootInv, BootTypes, DiskTypes, Lines
    <2>4. EnvHolds'
      BY <1>1, <1>5, <2>2, Kept DEF BootInv, EnvInv
    <2>5. FreshInv' /\ SourceInv' /\ EnvInv'
      BY <1>1, <1>2, <2>1, <2>4 DEF FreshInv, SourceInv, EnvInv, NoProc
    <2>6. ResolvedInv' /\ CheckedInv' /\ CompleteInv' /\ InstalledStaysInstalled' /\ StartedInv'
      BY <1>3, <2>1 DEF ResolvedInv, CheckedInv, CompleteInv, InstalledStaysInstalled, StartedInv
    <2> QED
      BY <1>4, <2>3, <2>5, <2>6 DEF BootInv
  <1>6. CASE ~ (setup.platform = "linux" /\ env.bootstrapped)
    <2>1. pc' = "manifest" /\ env' = env
      BY <1>6 DEF Main
    <2>2. ~env.bootstrapped /\ ~launch.complete
      BY <1>1, <1>6 DEF BootInv, FreshInv
    <2>3. BootTypes'
      BY <1>1, <2>1 DEF BootInv, BootTypes, DiskTypes, Lines
    <2>4. FreshInv' /\ SourceInv' /\ EnvInv'
      BY <1>1, <1>2, <2>1, <2>2 DEF FreshInv, SourceInv, EnvInv, NoProc
    <2>5. ResolvedInv' /\ CheckedInv' /\ CompleteInv' /\ InstalledStaysInstalled' /\ StartedInv'
      BY <1>3, <2>1 DEF ResolvedInv, CheckedInv, CompleteInv, InstalledStaysInstalled, StartedInv
    <2> QED
      BY <1>4, <2>3, <2>4, <2>5 DEF BootInv
  <1> QED
    BY <1>5, <1>6

\* The application read from the manifest.
LEMMA ReadManifestKeeps == ASSUME BootInv, ReadManifest PROVE BootInv'
  <1>1. pc = "manifest" /\ UNCHANGED <<setup, disk, ghost>>
    BY DEF ReadManifest
  <1>2. CASE disk.manifest.kind # "ok"
    BY <1>1, <1>2, EndKeeps DEF ReadManifest, Fail
  <1>3. CASE disk.manifest.kind = "ok"
    <2> DEFINE app == NewApplication(disk.manifest, launch.place, launch.args)
    <2>1. /\ pc' = "findUpdate" /\ proc' = [proc EXCEPT !.app = app]
          /\ UNCHANGED <<env, host, launch>>
      BY <1>3 DEF ReadManifest
    <2>2. /\ app \in Applications /\ app.deps = disk.manifest.deps /\ app.args = launch.args
      BY DEF NewApplication, BootInv, BootTypes, DiskTypes, ManifestFiles, LaunchType, Applications
    <2>3. proc = NoProc /\ proc \in ProcType
      BY <1>1 DEF BootInv, BootTypes, FreshInv
    <2> HIDE DEF app
    <2>4. /\ proc' \in ProcType /\ proc'.app = app /\ proc'.asked = {} /\ proc'.updateFile = FALSE
      BY <2>1, <2>2, <2>3 DEF ProcType, NoProc
    <2>5. BootTypes'
      BY <1>1, <2>1, <2>4 DEF BootInv, BootTypes, DiskTypes, Lines
    <2>6. FreshInv' /\ SourceInv' /\ EnvInv'
      BY <1>1, <2>1, <2>2, <2>4 DEF BootInv, FreshInv, SourceInv, EnvInv
    <2>7. StartedHolds' /\ InstalledToInv'
      BY <1>1, Kept DEF BootInv, StartedInv, InstalledToInv
    <2>8. ResolvedInv' /\ CheckedInv' /\ CompleteInv' /\ InstalledStaysInstalled' /\ StartedInv'
      BY <2>1, <2>7 DEF ResolvedInv, CheckedInv, CompleteInv, InstalledStaysInstalled, StartedInv
    <2> QED
      BY <2>5, <2>6, <2>7, <2>8 DEF BootInv
  <1> QED
    BY <1>2, <1>3

\* The manifest of an update takes its place.
LEMMA FindUpdateKeeps == ASSUME BootInv, FindUpdate PROVE BootInv'
  <1>1. /\ pc = "findUpdate" /\ pc' = "resolve"
        /\ UNCHANGED <<setup, disk, env, host, launch, ghost>>
    BY DEF FindUpdate
  <1> DEFINE app == NewApplication(disk.update, proc.app.place, launch.args)
  <1>2. proc' = IF disk.update.kind = "ok"
                THEN [proc EXCEPT !.app = app, !.updateFile = TRUE] ELSE proc
    BY DEF FindUpdate
  <1>3. proc \in ProcType /\ ~proc.updateFile /\ proc.asked = {}
    BY <1>1 DEF BootInv, BootTypes, SourceInv
  <1>4. app \in Applications /\ app.deps = disk.update.deps /\ app.args = launch.args
    BY <1>3 DEF NewApplication, BootInv, BootTypes, DiskTypes, ManifestFiles, LaunchType,
                Applications, ProcType
  <1> HIDE DEF app
  <1>5. /\ proc' \in ProcType /\ proc'.asked = {}
        /\ disk.update.kind = "ok" => proc'.app = app /\ proc'.updateFile = TRUE
        /\ disk.update.kind # "ok" => proc' = proc
    BY <1>2, <1>3, <1>4 DEF ProcType
  <1>6. BootTypes'
    BY <1>1, <1>5 DEF BootInv, BootTypes, DiskTypes, Lines
  <1>7. SourceInv'
    BY <1>1, <1>3, <1>4, <1>5 DEF BootInv, SourceInv
  <1>8. FreshInv' /\ EnvInv'
    BY <1>1 DEF BootInv, FreshInv, EnvInv
  <1>9. StartedHolds' /\ InstalledToInv'
    BY <1>1, Kept DEF BootInv, StartedInv, InstalledToInv
  <1>10. ResolvedInv' /\ CheckedInv' /\ CompleteInv' /\ InstalledStaysInstalled' /\ StartedInv'
    BY <1>1, <1>9 DEF ResolvedInv, CheckedInv, CompleteInv, InstalledStaysInstalled, StartedInv
  <1> QED
    BY <1>6, <1>7, <1>8, <1>9, <1>10 DEF BootInv

\* A resolution, at one of the two lines where the boot program makes one.
LEMMA ResolveKeeps ==
    ASSUME BootInv,
           \/ pc = "resolve" /\ Resolve("decide")
           \/ pc = "resolveAgain" /\ Resolve("check")
    PROVE  BootInv'
  <1>1. /\ \/ pc = "resolve" /\ pc' = "decide"
           \/ pc = "resolveAgain" /\ pc' = "check"
        /\ proc' = [proc EXCEPT !.missing = Missing(proc.app), !.resolved = Resolved(proc.app)]
        /\ UNCHANGED <<setup, disk, env, host, launch, ghost>>
    BY DEF Resolve
  <1>2. DiskTypes /\ proc \in ProcType /\ proc.app \in Applications
    BY DEF BootInv, BootTypes, ProcType
  <1>3. /\ Missing(proc.app) \subseteq proc.app.deps
        /\ Resolved(proc.app) \subseteq GetAvailableComponents(proc.app)
        /\ \A d \in proc.app.deps : d \in Missing(proc.app) \/ MetBy(d, Resolved(proc.app))
        /\ \A d \in proc.app.deps :
              MetBy(d, GetAvailableComponents(proc.app)) => d \notin Missing(proc.app)
        /\ \A c \in Resolved(proc.app) : \E d \in proc.app.deps : Meets(c, d)
    BY <1>2, Resolutions
  <1>4. /\ GetAvailableComponents(proc.app) \subseteq ComponentType
        /\ "override" \notin proc.app.args
              => GetAvailableComponents(proc.app) = Around(proc.app.place)
    BY <1>2, AvailableThere
  <1>5. proc.app.deps \subseteq Dependencies
    BY <1>2, ListsTyped DEF Applications
  <1>6. /\ proc' \in ProcType
        /\ proc'.app = proc.app /\ proc'.updateFile = proc.updateFile
        /\ proc'.asked = proc.asked
        /\ proc'.missing = Missing(proc.app) /\ proc'.resolved = Resolved(proc.app)
    BY <1>1, <1>2, <1>3, <1>4, <1>5 DEF ProcType
  <1>7. BootTypes'
    BY <1>1, <1>6 DEF BootInv, BootTypes, DiskTypes, Lines
  <1>8. FreshInv' /\ EnvInv' /\ CheckedInv' /\ InstalledStaysInstalled'
    BY <1>1 DEF BootInv, FreshInv, EnvInv, CheckedInv, InstalledStaysInstalled
  <1>9. SourceInv'
    BY <1>1, <1>6 DEF BootInv, SourceInv
  <1>10. GetAvailableComponents(proc.app)' = GetAvailableComponents(proc.app)
    BY <1>1, <1>6 DEF GetAvailableComponents, InstalledComponents, BundledComponents
  <1>11. ResolvedInv'
    BY <1>3, <1>6, <1>10 DEF ResolvedInv, ResolutionHolds
  <1>12. StartedHolds' /\ InstalledToInv'
    BY <1>1, Kept DEF BootInv, StartedInv, InstalledToInv
  <1>13. StartedInv'
    <2>1. SUFFICES ASSUME pc' = "decide", ~proc'.updateFile, proc'.app.args = {},
                          proc'.app.place \in ghost'.startedAt
                   PROVE  proc'.missing = {}
      BY <1>12 DEF StartedInv
    <2>2. pc = "resolve" /\ ~proc.updateFile /\ proc.app.place \in ghost.startedAt
      BY <1>1, <1>6, <2>1
    <2>3. proc.app.deps = disk.manifest.deps
      BY <2>2 DEF BootInv, SourceInv
    <2>4. \A d \in proc.app.deps : MetBy(d, Around(proc.app.place))
      BY <2>2, <2>3 DEF BootInv, StartedInv, StartedHolds
    <2>5. \A d \in proc.app.deps : d \notin Missing(proc.app)
      BY <1>3, <1>4, <1>6, <2>1, <2>4
    <2> QED
      BY <1>3, <1>6, <2>5
  <1>14. CompleteInv'
    <2>1. CASE pc' = "decide"
      BY <2>1 DEF CompleteInv
    <2>2. CASE pc = "resolveAgain" /\ pc' = "check"
      <3>1. launch'.complete => IsInstalled(proc.app)'
        BY <1>1, <1>6, <2>2, Kept DEF BootInv, CompleteInv
      <3>2. ASSUME launch'.complete, "override" \notin launch'.args, Exactly(proc'.app.deps)
            PROVE  AllMet' /\ proc'.missing = {}
        <4>1. AllMet /\ "override" \notin proc.app.args
          BY <1>1, <1>6, <2>2, <3>2 DEF BootInv, CompleteInv, SourceInv
        <4>2. AllMet'
          BY <1>1, <1>6, <4>1, Kept
        <4>3. \A d \in proc.app.deps : d \notin Missing(proc.app)
          BY <1>3, <1>4, <4>1 DEF AllMet
        <4> QED
          BY <1>3, <1>6, <4>2, <4>3
      <3> QED
        BY <2>2, <3>1, <3>2 DEF CompleteInv
    <2> QED
      BY <1>1, <2>1, <2>2
  <1> QED
    BY <1>7, <1>8, <1>9, <1>11, <1>12, <1>13, <1>14 DEF BootInv

\* The installer is started only for a reason; for an application that has run
\* before, the reason is an update or an argument.
LEMMA DecideKeeps == ASSUME BootInv, Decide PROVE BootInv'
  <1>1. pc = "decide" /\ UNCHANGED <<setup, disk, ghost>>
    BY DEF Decide
  <1>2. StartedHolds' /\ InstalledToInv'
    BY <1>1, Kept DEF BootInv, StartedInv, InstalledToInv
  <1>3. ResolutionHolds /\ proc \in ProcType /\ ~launch.complete
    BY <1>1 DEF BootInv, BootTypes, ResolvedInv, FreshInv
  <1>4. CASE MustInstall
    <2>1. /\ pc' = "installing"
          /\ proc' = [proc EXCEPT !.asked = FilterForSDKInstall(proc.missing)]
          /\ launch' = [launch EXCEPT !.idle = TRUE]
          /\ UNCHANGED <<env, host>>
      BY <1>4 DEF Decide
    <2>2. FilterForSDKInstall(proc.missing) \subseteq proc.missing
      BY DEF FilterForSDKInstall
    <2>3. /\ proc' \in ProcType /\ proc'.app = proc.app /\ proc'.missing = proc.missing
          /\ proc'.resolved = proc.resolved /\ proc'.updateFile = proc.updateFile
          /\ proc'.asked = FilterForSDKInstall(proc.missing)
      BY <1>3, <2>1, <2>2 DEF ProcType
    <2>4. /\ launch' \in LaunchType /\ launch'.args = launch.args
          /\ launch'.complete = launch.complete
      BY <2>1 DEF BootInv, BootTypes, LaunchType
    <2>5. BootTypes'
      BY <1>1, <2>1, <2>3, <2>4 DEF BootInv, BootTypes, DiskTypes, Lines
    <2>6. proc'.asked \subseteq proc'.app.deps
      BY <1>3, <2>2, <2>3 DEF ResolutionHolds
    <2>7. SourceInv'
      BY <1>1, <2>1, <2>3, <2>4, <2>6 DEF BootInv, SourceInv
    <2>8. FreshInv' /\ EnvInv' /\ CheckedInv' /\ StartedInv'
      BY <1>1, <1>2, <1>3, <2>1, <2>4 DEF FreshInv, EnvInv, CheckedInv, StartedInv
    <2>9. ResolvedInv'
      BY <1>1, <1>3, <2>3, Kept DEF ResolvedInv
    <2>10. CompleteInv'
      BY <2>1, <2>3 DEF CompleteInv
    <2>11. InstalledStaysInstalled'
      <3>1. SUFFICES ASSUME proc'.app.place \in ghost'.startedAt, ~proc'.updateFile,
                            proc'.app.args = {}
                     PROVE  FALSE
        BY DEF InstalledStaysInstalled
      <3>2. proc.app.place \in ghost.startedAt /\ ~proc.updateFile /\ proc.app.args = {}
        BY <1>1, <2>3, <3>1
      <3>3. proc.missing = {} /\ IsInstalled(proc.app)
        BY <1>1, <3>2 DEF BootInv, StartedInv, StartedHolds, IsInstalled
      <3> QED
        BY <1>4, <3>2, <3>3 DEF MustInstall
    <2> QED
      BY <1>2, <2>5, <2>7, <2>8, <2>9, <2>10, <2>11 DEF BootInv
  <1>5. CASE ~MustInstall
    <2>1. pc' = "check" /\ UNCHANGED <<proc, env, host, launch>>
      BY <1>5 DEF Decide
    <2>2. BootTypes'
      BY <1>1, <2>1 DEF BootInv, BootTypes, DiskTypes, Lines
    <2>3. SourceInv'
      BY <1>1, <2>1 DEF BootInv, SourceInv
    <2>4. FreshInv' /\ EnvInv' /\ CheckedInv' /\ StartedInv' /\ InstalledStaysInstalled'
      BY <1>2, <2>1 DEF FreshInv, EnvInv, CheckedInv, StartedInv, InstalledStaysInstalled
    <2>5. ResolvedInv'
      BY <1>1, <1>3, <2>1, Kept DEF ResolvedInv
    <2>6. CompleteInv'
      BY <1>3, <2>1 DEF CompleteInv
    <2> QED
      BY <1>2, <2>2, <2>3, <2>4, <2>5, <2>6 DEF BootInv
  <1> QED
    BY <1>4, <1>5

\* Nothing is missing and the application is marked as installed.
LEMMA CheckKeeps == ASSUME BootInv, Check PROVE BootInv'
  <1>1. pc = "check" /\ UNCHANGED <<setup, disk, ghost>>
    BY DEF Check
  <1>2. CASE proc.missing # {} \/ ~IsInstalled(proc.app)
    BY <1>1, <1>2, EndKeeps DEF Check, Fail
  <1>3. CASE proc.missing = {} /\ IsInstalled(proc.app)
    <2>1. pc' = "export" /\ UNCHANGED <<proc, env, host, launch>>
      BY <1>3 DEF Check
    <2>2. StartedHolds' /\ InstalledToInv' /\ IsInstalled(proc.app)' /\ ResolutionHolds'
      BY <1>1, <1>3, <2>1, Kept DEF BootInv, StartedInv, InstalledToInv, ResolvedInv
    <2>3. BootTypes'
      BY <1>1, <2>1 DEF BootInv, BootTypes, DiskTypes, Lines
    <2>4. SourceInv'
      BY <1>1, <2>1 DEF BootInv, SourceInv
    <2>5. FreshInv' /\ EnvInv' /\ StartedInv' /\ InstalledStaysInstalled' /\ CompleteInv'
      BY <2>1, <2>2 DEF FreshInv, EnvInv, StartedInv, InstalledStaysInstalled, CompleteInv
    <2>6. ResolvedInv' /\ CheckedInv'
      BY <1>3, <2>1, <2>2 DEF ResolvedInv, CheckedInv
    <2> QED
      BY <2>2, <2>3, <2>4, <2>5, <2>6 DEF BootInv
  <1> QED
    BY <1>2, <1>3

\* The types of components are told by their names.
LEMMA TypesOfNames ==
    ASSUME NEW n
    PROVE  /\ TypeOf(n) = RUNTIME <=> n = RUNTIME
           /\ TypeOf(n) \in {RUNTIME, MODULE_, SDK, MOBILESDK}
  BY DEF TypeOf, RUNTIME, SDK, MOBILESDK, MODULE_

\* The environment of the host: each dependency was resolved to the runtime, to
\* a module or to an SDK, and a manifest names one runtime.
LEMMA ExportKeeps == ASSUME BootInv, Export PROVE BootInv'
  <1>1. pc = "export" /\ UNCHANGED <<setup, disk, ghost>>
    BY DEF Export
  <1>2. CASE RuntimeOf(proc.resolved) = NoComponent
    BY <1>1, <1>2, EndKeeps DEF Export, Fail
  <1>3. CASE RuntimeOf(proc.resolved) # NoComponent
    <2> DEFINE r == RuntimeOf(proc.resolved)
               ms == ModulesOf(proc.resolved)
               comps == GetAvailableComponents(proc.app)
    <2>1. /\ pc' = "blastoff" /\ UNCHANGED <<proc, host, launch>>
          /\ env' = [bootstrapped |-> TRUE, home |-> proc.app.place, runtime |-> r,
                     modules |-> ms, needs |-> proc.app.deps]
      BY <1>3 DEF Export, Exported
    <2>2. /\ proc \in ProcType /\ proc.app \in Applications /\ DiskTypes
          /\ ResolutionHolds /\ proc.missing = {} /\ IsInstalled(proc.app)
          /\ proc.app.args \subseteq launch.args
      BY <1>1 DEF BootInv, BootTypes, ProcType, ResolvedInv, CheckedInv, SourceInv
    <2>3. r \in proc.resolved /\ TypeOf(r.name) = RUNTIME
      BY <1>3 DEF RuntimeOf
    <2>4. ms = {c \in proc.resolved : TypeOf(c.name) = MODULE_}
      BY DEF ModulesOf
    <2>5. /\ proc.resolved \subseteq comps /\ comps \subseteq ComponentType
          /\ \A c \in comps : OnDisk(c)
          /\ "override" \notin proc.app.args => comps = Around(proc.app.place)
      BY <2>2, AvailableThere DEF ResolutionHolds
    <2>6. /\ \A d \in proc.app.deps : MetBy(d, proc.resolved)
          /\ \A c \in proc.resolved : \E d \in proc.app.deps : Meets(c, d)
      BY <2>2 DEF ResolutionHolds
    <2>7. \A d, e \in proc.app.deps : d.name = RUNTIME /\ e.name = RUNTIME => d = e
      BY <2>2, BootstrapAssumption DEF Applications, DependencyLists
    <2> HIDE DEF r, ms, comps
    <2>8. env' \in EnvType
      <3>1. proc.app.place \in Places /\ proc.app.deps \in DependencyLists
        BY <2>2 DEF Applications
      <3>2. r \in ComponentType /\ ms \in SUBSET ComponentType
        BY <2>3, <2>4, <2>5
      <3> QED
        BY <2>1, <3>1, <3>2 DEF EnvType
    <2>9. BootTypes'
      BY <1>1, <2>1, <2>8 DEF BootInv, BootTypes, DiskTypes, Lines
    <2>10. ASSUME NEW d \in proc.app.deps
           PROVE  \E c \in {r} \cup ms \cup SDKsOnDisk : Meets(c, d) /\ OnDisk(c)
      <3>1. PICK c \in proc.resolved : Meets(c, d)
        BY <2>6 DEF MetBy
      <3>2. OnDisk(c)
        BY <2>5
      <3>3. CASE TypeOf(c.name) = RUNTIME
        <4>1. PICK e \in proc.app.deps : Meets(r, e)
          BY <2>3, <2>6
        <4>2. d.name = RUNTIME /\ e.name = RUNTIME
          BY <2>3, <3>1, <3>3, <4>1, TypesOfNames DEF Meets
        <4>3. d = e
          BY <2>7, <4>2
        <4>4. OnDisk(r)
          BY <2>3, <2>5
        <4> QED
          BY <4>1, <4>3, <4>4
      <3>4. CASE TypeOf(c.name) = MODULE_
        BY <2>4, <3>1, <3>2, <3>4
      <3>5. CASE TypeOf(c.name) \in {SDK, MOBILESDK}
        <4>1. c \in SDKsOnDisk
          BY <3>2, <3>5 DEF OnDisk, SDKsOnDisk
        <4> QED
          BY <3>1, <3>2, <4>1
      <3> QED
        BY <3>3, <3>4, <3>5, TypesOfNames
    <2>11. "override" \notin launch.args
              => \A d \in proc.app.deps : MetBy(d, Around(proc.app.place))
      BY <2>2, <2>5, <2>6, MetByMore
    <2>12. /\ \A c : OnDisk(c) => OnDisk(c)'
           /\ SDKsOnDisk \subseteq SDKsOnDisk'
           /\ \A p : Around(p) \subseteq Around(p)'
      BY <1>1, Growth
    <2>13. EnvHolds'
      <3>1. /\ env'.runtime = r /\ env'.modules = ms /\ env'.needs = proc.app.deps
            /\ env'.home = proc.app.place
        BY <2>1
      <3>2. r # NoComponent
        BY <1>3 DEF r
      <3>3. \A d \in proc.app.deps :
               \E c \in {r} \cup ms \cup SDKsOnDisk' : Meets(c, d) /\ OnDisk(c)'
        BY <2>10, <2>12
      <3>4. disk'.markers \cap {"data", proc.app.place} # {}
        BY <1>1, <2>2 DEF IsInstalled
      <3>5. "override" \notin launch.args
              => \A d \in proc.app.deps : MetBy(d, Around(proc.app.place)')
        BY <2>1, <2>11, <2>12, MetByMore
      <3>6. Around(env.home)' = Around(proc.app.place)'
        BY <2>1, <3>1
      <3> QED
        BY <2>1, <3>1, <3>2, <3>3, <3>4, <3>5, <3>6 DEF EnvHolds
    <2>14. EnvInv' /\ FreshInv'
      BY <2>1, <2>13 DEF EnvInv, FreshInv
    <2>15. SourceInv'
      BY <1>1, <2>1 DEF BootInv, SourceInv
    <2>16. StartedHolds' /\ InstalledToInv'
      BY <1>1, Kept DEF BootInv, StartedInv, InstalledToInv
    <2>17. ResolvedInv' /\ CheckedInv' /\ CompleteInv' /\ InstalledStaysInstalled' /\ StartedInv'
      BY <2>1, <2>16 DEF ResolvedInv, CheckedInv, CompleteInv, InstalledStaysInstalled, StartedInv
    <2> QED
      BY <2>9, <2>14, <2>15, <2>16, <2>17 DEF BootInv
  <1> QED
    BY <1>2, <1>3

\* execv keeps the environment.
LEMMA BlastoffKeeps == ASSUME BootInv, Blastoff PROVE BootInv'
  <1>1. pc = "blastoff" /\ UNCHANGED <<setup, disk, env, host, launch, ghost>>
    BY DEF Blastoff
  <1>2. \/ setup.platform = "win32" /\ pc' = "startHost" /\ proc' = proc
        \/ setup.platform = "linux" /\ pc' = "main" /\ proc' = NoProc
    BY DEF Blastoff
  <1>3. env.bootstrapped /\ EnvHolds
    BY <1>1 DEF BootInv, FreshInv, EnvInv
  <1>4. EnvHolds' /\ StartedHolds' /\ InstalledToInv'
    BY <1>1, <1>3, Kept DEF BootInv, StartedInv, InstalledToInv
  <1>5. BootTypes'
    BY <1>1, <1>2, NothingTyped DEF BootInv, BootTypes, DiskTypes, Lines
  <1>6. FreshInv' /\ EnvInv'
    BY <1>1, <1>2, <1>3, <1>4 DEF FreshInv, EnvInv
  <1>7. SourceInv'
    BY <1>1, <1>2 DEF BootInv, SourceInv, NoProc
  <1>8. ResolvedInv' /\ CheckedInv' /\ CompleteInv' /\ InstalledStaysInstalled' /\ StartedInv'
    BY <1>2, <1>4 DEF ResolvedInv, CheckedInv, CompleteInv, InstalledStaysInstalled, StartedInv
  <1> QED
    BY <1>4, <1>5, <1>6, <1>7, <1>8 DEF BootInv

\* The host runs: what it was told is what the application needs, so the same
\* application can start there again.
LEMMA StartHostKeeps == ASSUME BootInv, StartHost PROVE BootInv'
  <1>1. /\ pc = "startHost" /\ pc' = "host"
        /\ host' = [app |-> Resolved(HostApplication), runtime |-> env.runtime,
                    loads |-> env.modules]
        /\ UNCHANGED <<setup, disk, proc, env, launch>>
    BY DEF StartHost
  <1>2. EnvHolds /\ DiskTypes /\ env \in EnvType /\ launch \in LaunchType /\ ghost \in GhostType
    BY <1>1 DEF BootInv, BootTypes, EnvInv
  <1>3. HostApplication \in Applications
    BY <1>2 DEF HostApplication, NewApplication, DiskTypes, ManifestFiles, EnvType, LaunchType,
                Applications
  <1>4. Resolved(HostApplication) \subseteq ComponentType
    BY <1>2, <1>3, Resolutions, AvailableThere
  <1>5. host' \in HostType /\ host'.runtime = env.runtime /\ host'.loads = env.modules
    BY <1>1, <1>2, <1>4 DEF HostType, EnvType
  <1>6. \/ ghost' = ghost
        \/ /\ ghost' = [ghost EXCEPT !.startedAt = @ \cup {env.home}]
           /\ env.needs = disk.manifest.deps
           /\ "override" \notin launch.args
    BY <1>2 DEF StartHost, GhostType
  <1>7. ghost' \in GhostType /\ \A p \in ghost'.startedAt :
           p \in ghost.startedAt \/ /\ p = env.home
                                    /\ env.needs = disk.manifest.deps
                                    /\ "override" \notin launch.args
    <2>1. env.home \in Places
      BY <1>2 DEF EnvType
    <2> QED
      BY <1>2, <1>6, <2>1 DEF GhostType
  <1>8. StartedHolds'
    <2>1. ASSUME NEW p \in ghost'.startedAt
          PROVE  /\ disk.markers \cap {"data", p} # {}
                 /\ \A d \in disk.manifest.deps : MetBy(d, Around(p))
      BY <1>2, <1>7, <2>1 DEF BootInv, StartedInv, StartedHolds, EnvHolds
    <2>2. \A p : Around(p) \subseteq Around(p)'
      BY <1>1, Growth
    <2> QED
      BY <1>1, <2>1, <2>2, MetByMore DEF StartedHolds
  <1>9. BootTypes'
    BY <1>1, <1>5, <1>7 DEF BootInv, BootTypes, DiskTypes, Lines
  <1>10. EnvHolds' /\ InstalledToInv'
    BY <1>1, <1>2, Kept DEF BootInv, InstalledToInv
  <1>11. FreshInv' /\ EnvInv'
    BY <1>1, <1>5, <1>10 DEF FreshInv, EnvInv
  <1>12. SourceInv'
    BY <1>1 DEF BootInv, SourceInv
  <1>13. ResolvedInv' /\ CheckedInv' /\ CompleteInv' /\ InstalledStaysInstalled' /\ StartedInv'
    BY <1>1, <1>8 DEF ResolvedInv, CheckedInv, CompleteInv, InstalledStaysInstalled, StartedInv
  <1> QED
    BY <1>9, <1>10, <1>11, <1>12, <1>13 DEF BootInv

\* Something is installed, here or by another application's installer, while
\* the process stays where it is.
LEMMA GrowthKeeps ==
    ASSUME BootInv, UNCHANGED <<setup, pc, proc, env, host>>,
           launch' \in LaunchType, launch'.args = launch.args, launch'.complete = launch.complete,
           ghost' \in GhostType, ghost'.startedAt = ghost.startedAt,
           DiskTypes', disk.installed \subseteq disk'.installed,
           disk.markers \subseteq disk'.markers,
           disk'.manifest = disk.manifest, disk'.update = disk.update,
           disk'.installedTo = disk.installedTo \/ pc = "installing",
           InstalledToInv'
    PROVE  BootInv'
  <1>1. BootTypes'
    BY DEF BootInv, BootTypes
  <1>2. /\ EnvHolds => EnvHolds'
        /\ ResolutionHolds => ResolutionHolds'
        /\ StartedHolds'
        /\ AllMet => AllMet'
        /\ IsInstalled(proc.app) => IsInstalled(proc.app)'
    BY Kept DEF BootInv, StartedInv
  <1>3. FreshInv' /\ SourceInv'
    BY DEF BootInv, FreshInv, SourceInv
  <1>4. ResolvedInv' /\ CheckedInv' /\ EnvInv'
    BY <1>2 DEF BootInv, ResolvedInv, CheckedInv, EnvInv
  <1>5. StartedInv' /\ InstalledStaysInstalled'
    BY <1>2 DEF BootInv, StartedInv, InstalledStaysInstalled
  <1>6. pc = "returned" /\ InstallerDone => InstallerDone'
    BY <1>2 DEF InstallerDone
  <1>7. CompleteInv'
    BY <1>2, <1>6 DEF BootInv, CompleteInv
  <1> QED
    BY <1>1, <1>3, <1>4, <1>5, <1>7 DEF BootInv

\* A component is a directory of the search path.
LEMMA ExactTyped == \A d \in Dependencies : Exact(d) \in InstalledType
  <1>1. SearchPaths[1] \in Roots
    BY ComponentsAssumption DEF Roots
  <1> QED
    BY <1>1 DEF Dependencies, Exact, InstalledType

\* The installer puts a component where it was not: the set of components grows.
LEMMA InstallComponentKeeps == ASSUME BootInv, InstallComponent PROVE BootInv'
  <1>1. /\ pc = "installing" /\ launch' = [launch EXCEPT !.idle = FALSE]
        /\ UNCHANGED <<setup, pc, proc, env, host, ghost>>
    BY DEF InstallComponent
  <1>2. PICK d \in proc.asked \cup {e \in proc.missing : proc.asked # proc.missing} :
           disk' = [disk EXCEPT !.installed = @ \cup {Exact(d)}]
    BY DEF InstallComponent
  <1>3. Exact(d) \in InstalledType
    BY ExactTyped DEF BootInv, BootTypes, ProcType
  <1>4. DiskTypes
    BY DEF BootInv, BootTypes
  <1>5. IsFiniteSet(disk.installed \cup {Exact(d)})
    BY <1>4, FS_AddElement DEF DiskTypes
  <1>6. /\ disk'.installed = disk.installed \cup {Exact(d)}
        /\ disk'.markers = disk.markers /\ disk'.manifest = disk.manifest
        /\ disk'.update = disk.update /\ disk'.installedTo = disk.installedTo
        /\ DiskTypes'
    BY <1>1, <1>2, <1>3, <1>4, <1>5 DEF DiskTypes
  <1>7. /\ launch' \in LaunchType /\ launch'.args = launch.args
        /\ launch'.complete = launch.complete
    BY <1>1 DEF BootInv, BootTypes, LaunchType
  <1>8. InstalledToInv' /\ ghost \in GhostType
    BY <1>1, <1>6 DEF BootInv, BootTypes, InstalledToInv
  <1> QED
    BY <1>1, <1>6, <1>7, <1>8, GrowthKeeps

\* The installer marks the application, on Win32 perhaps at another place.
LEMMA InstallApplicationKeeps == ASSUME BootInv, InstallApplication PROVE BootInv'
  <1>1. /\ pc = "installing" /\ launch' = [launch EXCEPT !.idle = FALSE]
        /\ UNCHANGED <<setup, pc, proc, env, host, ghost>>
    BY DEF InstallApplication
  <1>2. PICK m \in {"data"} \cup Places, to \in {"absent", "unreadable", "broken", "there"} :
           /\ \/ disk' = [disk EXCEPT !.markers = @ \cup {m}]
              \/ /\ setup.platform = "win32"
                 /\ disk' = [disk EXCEPT
                      !.installedTo = to,
                      !.markers = IF to = "there" THEN @ \cup {"there"} ELSE @]
    <2>1. proc.app.place \in Places
      BY DEF BootInv, BootTypes, ProcType, Applications
    <2>2. \/ \E m \in {"data", proc.app.place} : disk' = [disk EXCEPT !.markers = @ \cup {m}]
          \/ \E to \in {"unreadable", "broken", "there"} :
                /\ setup.platform = "win32"
                /\ disk' = [disk EXCEPT
                      !.installedTo = to,
                      !.markers = IF to = "there" THEN @ \cup {"there"} ELSE @]
      BY DEF InstallApplication
    <2> QED
      BY <2>1, <2>2
  <1>3. DiskTypes
    BY DEF BootInv, BootTypes
  <1>4. /\ disk'.installed = disk.installed
        /\ disk.markers \subseteq disk'.markers /\ disk'.manifest = disk.manifest
        /\ disk'.update = disk.update
        /\ DiskTypes'
    <2> DEFINE marks == disk'.markers
    <2>1. \/ disk' = [disk EXCEPT !.markers = marks]
          \/ disk' = [disk EXCEPT !.installedTo = to, !.markers = marks]
      BY <1>2, <1>3 DEF DiskTypes
    <2>2. disk.markers \subseteq marks /\ marks \in SUBSET ({"data"} \cup Places)
      <3>1. \/ marks = disk.markers \cup {m}
            \/ marks = disk.markers \cup {"there"}
            \/ marks = disk.markers
        BY <1>2, <1>3 DEF DiskTypes
      <3>2. disk.markers \in SUBSET ({"data"} \cup Places) /\ "there" \in Places
        BY <1>3 DEF DiskTypes, Places
      <3> HIDE DEF marks
      <3> QED
        BY <3>1, <3>2
    <2> HIDE DEF marks
    <2>3. /\ disk'.installed = disk.installed /\ disk'.manifest = disk.manifest
          /\ disk'.update = disk.update /\ DiskTypes'
      BY <1>1, <1>3, <2>1, <2>2 DEF DiskTypes
    <2> QED
      BY <2>2, <2>3 DEF marks
  <1>5. /\ launch' \in LaunchType /\ launch'.args = launch.args
        /\ launch'.complete = launch.complete
    BY <1>1 DEF BootInv, BootTypes, LaunchType
  <1>6. InstalledToInv' /\ ghost \in GhostType
    BY <1>1, <1>2, <1>3 DEF BootInv, BootTypes, DiskTypes, InstalledToInv
  <1> QED
    BY <1>1, <1>4, <1>5, <1>6, GrowthKeeps

\* Another application's components are added beside those that are used.
LEMMA ForeignInstallKeeps == ASSUME BootInv, ForeignInstall PROVE BootInv'
  <1>1. /\ ghost' = [ghost EXCEPT !.foreign = @ + 1]
        /\ UNCHANGED <<setup, pc, proc, env, host, launch>>
    BY DEF ForeignInstall
  <1>2. PICK c \in Installable : disk' = [disk EXCEPT !.installed = @ \cup {c}]
    BY DEF ForeignInstall
  <1>3. c \in InstalledType
    BY ComponentsAssumption DEF InstalledType
  <1>4. DiskTypes
    BY DEF BootInv, BootTypes
  <1>5. IsFiniteSet(disk.installed \cup {c})
    BY <1>4, FS_AddElement DEF DiskTypes
  <1>6. /\ disk'.installed = disk.installed \cup {c}
        /\ disk'.markers = disk.markers /\ disk'.manifest = disk.manifest
        /\ disk'.update = disk.update /\ disk'.installedTo = disk.installedTo
        /\ DiskTypes'
    BY <1>1, <1>2, <1>3, <1>4, <1>5 DEF DiskTypes
  <1>7. ghost' \in GhostType /\ ghost'.startedAt = ghost.startedAt
    BY <1>1 DEF BootInv, BootTypes, GhostType
  <1>8. InstalledToInv' /\ launch \in LaunchType
    BY <1>1, <1>6 DEF BootInv, BootTypes, InstalledToInv
  <1> QED
    BY <1>1, <1>6, <1>7, <1>8, GrowthKeeps

\* An update's manifest does not change the one the application has run with.
LEMMA UpdateArrivesKeeps == ASSUME BootInv, UpdateArrives PROVE BootInv'
  <1>1. pc = "host" /\ UNCHANGED <<setup, pc, proc, env, host, launch, ghost>>
    BY DEF UpdateArrives
  <1>2. PICK file \in FilesOf(Updates) : disk' = [disk EXCEPT !.update = file]
    BY DEF UpdateArrives
  <1>3. file \in ManifestFiles
    BY BootstrapAssumption DEF FilesOf, Readable, Unreadable, ManifestFiles, DependencyLists
  <1>4. /\ disk'.installed = disk.installed /\ disk'.markers = disk.markers
        /\ disk'.manifest = disk.manifest /\ disk'.installedTo = disk.installedTo
        /\ DiskTypes'
    BY <1>1, <1>2, <1>3 DEF BootInv, BootTypes, DiskTypes
  <1>5. /\ EnvHolds' /\ StartedHolds'
    BY <1>1, <1>4, Kept DEF BootInv, StartedInv, EnvInv
  <1>6. BootTypes'
    BY <1>1, <1>4 DEF BootInv, BootTypes
  <1>7. FreshInv' /\ SourceInv' /\ EnvInv' /\ InstalledToInv'
    BY <1>1, <1>4, <1>5 DEF BootInv, FreshInv, SourceInv, EnvInv, InstalledToInv
  <1>8. ResolvedInv' /\ CheckedInv' /\ CompleteInv' /\ InstalledStaysInstalled' /\ StartedInv'
    BY <1>1, <1>5 DEF ResolvedInv, CheckedInv, CompleteInv, InstalledStaysInstalled, StartedInv
  <1> QED
    BY <1>6, <1>7, <1>8 DEF BootInv

\* The update becomes the application, which has not run yet.
LEMMA InstallUpdateKeeps == ASSUME BootInv, InstallUpdate PROVE BootInv'
  <1>1. /\ pc = "installing" /\ proc.updateFile /\ disk.update.kind = "ok"
        /\ disk' = [disk EXCEPT !.manifest = disk.update, !.update = Absent]
        /\ launch' = [launch EXCEPT !.idle = FALSE]
        /\ ghost' = [ghost EXCEPT !.startedAt = {}]
        /\ UNCHANGED <<setup, pc, proc, env, host>>
    BY DEF InstallUpdate
  <1>2. Absent \in ManifestFiles /\ Absent.kind # "ok"
    BY DEF Absent, ManifestFiles, DependencyLists
  <1>3. /\ disk'.installed = disk.installed /\ disk'.markers = disk.markers
        /\ disk'.manifest = disk.update /\ disk'.update = Absent
        /\ disk'.installedTo = disk.installedTo
        /\ DiskTypes'
    BY <1>1, <1>2 DEF BootInv, BootTypes, DiskTypes
  <1>4. /\ launch' \in LaunchType /\ launch'.args = launch.args
        /\ launch'.complete = launch.complete
        /\ ghost' \in GhostType /\ ghost'.startedAt = {}
    BY <1>1 DEF BootInv, BootTypes, LaunchType, GhostType
  <1>5. BootTypes'
    BY <1>1, <1>3, <1>4 DEF BootInv, BootTypes
  <1>6. ResolutionHolds'
    BY <1>1, <1>3, Kept DEF BootInv, ResolvedInv
  <1>7. FreshInv' /\ SourceInv'
    BY <1>1, <1>2, <1>3, <1>4 DEF BootInv, FreshInv, SourceInv
  <1>8. ResolvedInv' /\ CheckedInv' /\ EnvInv' /\ StartedInv' /\ InstalledToInv'
    BY <1>1, <1>3, <1>4, <1>6
       DEF BootInv, ResolvedInv, CheckedInv, EnvInv, StartedInv, StartedHolds, InstalledToInv
  <1>9. CompleteInv' /\ InstalledStaysInstalled'
    BY <1>1, <1>4 DEF BootInv, CompleteInv, InstalledStaysInstalled
  <1> QED
    BY <1>5, <1>7, <1>8, <1>9 DEF BootInv

\* The installer ends, done or not; only a complete one is said to be complete.
LEMMA InstallerExitsKeeps == ASSUME BootInv, InstallerExits PROVE BootInv'
  <1>1. /\ pc = "installing" /\ pc' = "returned"
        /\ launch' = [launch EXCEPT !.complete = InstallerDone]
        /\ UNCHANGED <<setup, disk, env, host, ghost>>
    BY DEF InstallerExits
  <1>2. PICK code \in {0, 1} :
           /\ proc' = [proc EXCEPT !.code = code]
           /\ InstallerDone => code = 0
    BY DEF InstallerExits
  <1>3. PICK done \in BOOLEAN : done = InstallerDone
    BY DEF InstallerDone
  <1>4. launch' = [launch EXCEPT !.complete = done]
    BY <1>1, <1>3, Zenon
  <1>5. /\ launch' \in LaunchType /\ launch'.args = launch.args /\ launch'.complete = done
    BY <1>4 DEF BootInv, BootTypes, LaunchType
  <1>6. /\ proc' \in ProcType /\ proc'.app = proc.app /\ proc'.missing = proc.missing
        /\ proc'.asked = proc.asked /\ proc'.resolved = proc.resolved
        /\ proc'.updateFile = proc.updateFile /\ proc'.code = code
    BY <1>2 DEF BootInv, BootTypes, ProcType
  <1>7. BootTypes'
    BY <1>1, <1>5, <1>6 DEF BootInv, BootTypes, DiskTypes, Lines
  <1>8. ResolutionHolds' /\ StartedHolds'
    BY <1>1, <1>6, Kept DEF BootInv, ResolvedInv, StartedInv
  <1>9. done => InstallerDone'
    BY <1>1, <1>3, <1>6 DEF InstallerDone, IsInstalled
  <1>10. FreshInv' /\ EnvInv' /\ CheckedInv' /\ InstalledStaysInstalled' /\ StartedInv'
    BY <1>1, <1>8 DEF FreshInv, EnvInv, CheckedInv, InstalledStaysInstalled, StartedInv
  <1>11. SourceInv' /\ InstalledToInv' /\ ResolvedInv'
    BY <1>1, <1>5, <1>6, <1>8 DEF BootInv, SourceInv, InstalledToInv, ResolvedInv
  <1>12. CompleteInv'
    BY <1>1, <1>2, <1>3, <1>5, <1>6, <1>9 DEF BootInv, CompleteInv
  <1> QED
    BY <1>7, <1>10, <1>11, <1>12 DEF BootInv

\* What is bundled in one place is bundled in the other.
LEMMA MetElsewhere ==
    ASSUME NEW p, NEW q \in BundleRoots, NEW d, MetBy(d, Around(p))
    PROVE  MetBy(d, Around(q))
  <1>1. PICK c \in Around(p) : Meets(c, d)
    BY DEF MetBy
  <1>2. CASE c \in disk.installed
    BY <1>1, <1>2 DEF MetBy, Around
  <1>3. CASE c \in BundledComponents(p)
    <2>1. PICK n \in setup.bundled : c = [name |-> n, version |-> <<>>, root |-> p]
      BY <1>3 DEF BundledComponents
    <2> DEFINE e == [name |-> n, version |-> <<>>, root |-> q]
    <2>2. e \in Around(q) /\ e.name = c.name /\ Bundled(e)
      BY <2>1 DEF Around, BundledComponents, Bundled
    <2>3. Meets(e, d)
      BY <1>1, <2>2 DEF Meets, Fits
    <2> QED
      BY <2>2, <2>3 DEF MetBy
  <1> QED
    BY <1>1, <1>2, <1>3 DEF Around

\* The version that a dependency names meets it.
LEMMA ExactMeets ==
    ASSUME NEW d \in Dependencies, d.requirement \in {"EQ", "GTE"}
    PROVE  Meets(Exact(d), d)
  <1>1. d.version \in Versions
    BY DEF Dependencies
  <1>2. CompareVersions(d.version, d.version) = 0
    BY <1>1, Comparison
  <1>3. Exact(d).name = d.name /\ Exact(d).version = d.version
    BY DEF Exact
  <1> QED
    BY <1>2, <1>3 DEF Meets, Fits

\* When the installer did all it was asked for, everything is there.
LEMMA CompleteMeets ==
    ASSUME BootInv, pc = "returned", launch.complete, "override" \notin launch.args,
           Exactly(proc.app.deps)
    PROVE  AllMet
  <1>1. /\ ResolutionHolds /\ InstallerDone /\ proc.asked = FilterForSDKInstall(proc.missing)
        /\ proc.app \in Applications /\ DiskTypes /\ proc.app.args \subseteq launch.args
    BY DEF BootInv, BootTypes, ProcType, ResolvedInv, CompleteInv, SourceInv
  <1>2. proc.asked = proc.missing
    BY <1>1 DEF FilterForSDKInstall, Exactly, ResolutionHolds
  <1>3. GetAvailableComponents(proc.app) = Around(proc.app.place)
    BY <1>1, AvailableThere
  <1>4. proc.app.deps \subseteq Dependencies
    BY <1>1, ListsTyped DEF Applications
  <1>5. ASSUME NEW d \in proc.app.deps PROVE MetBy(d, Around(proc.app.place))
    <2>1. CASE d \in proc.missing
      <3>1. Exact(d) \in disk.installed
        BY <1>1, <1>2, <2>1 DEF InstallerDone
      <3>2. Meets(Exact(d), d)
        BY <1>4, ExactMeets DEF Exactly
      <3> QED
        BY <3>1, <3>2 DEF MetBy, Around
    <2>2. CASE d \notin proc.missing
      BY <1>1, <1>3, <2>2, MetByMore DEF ResolutionHolds
    <2> QED
      BY <2>1, <2>2
  <1> QED
    BY <1>5 DEF AllMet

\* The launch goes on as the caller of the installer, which is where only a
\* complete installation leaves something to show.
LEMMA InstallerReturnedKeeps == ASSUME BootInv, InstallerReturned PROVE BootInv'
  <1>1. pc = "returned" /\ UNCHANGED <<setup, ghost>>
    BY DEF InstallerReturned
  <1> DEFINE app == NewApplication(disk.manifest, "there", {})
  <1>2. \/ /\ pc' = "resolveAgain" /\ UNCHANGED <<disk, proc, env, host, launch>>
           /\ setup.platform = "linux" \/ IsInstalled(proc.app) \/ disk.installedTo = "absent"
        \/ Fail /\ (disk' = disk \/ disk' = [disk EXCEPT !.installedTo = "absent"])
        \/ /\ pc' = "resolveAgain" /\ UNCHANGED <<env, host, launch>>
           /\ proc' = [proc EXCEPT !.app = app]
           /\ disk.installedTo = "there"
           /\ disk' = [disk EXCEPT !.installedTo = "absent"]
    BY DEF InstallerReturned
  <1>3. CASE Fail /\ (disk' = disk \/ disk' = [disk EXCEPT !.installedTo = "absent"])
    BY <1>1, <1>3, EndKeeps DEF Fail
  <1>4. CASE /\ pc' = "resolveAgain" /\ UNCHANGED <<disk, proc, env, host, launch>>
             /\ setup.platform = "linux" \/ IsInstalled(proc.app) \/ disk.installedTo = "absent"
    <2>1. BootTypes'
      BY <1>1, <1>4 DEF BootInv, BootTypes, DiskTypes, Lines
    <2>2. StartedHolds' /\ InstalledToInv'
      BY <1>1, <1>4, Kept DEF BootInv, StartedInv, InstalledToInv
    <2>3. FreshInv' /\ EnvInv' /\ CheckedInv' /\ InstalledStaysInstalled' /\ StartedInv'
            /\ ResolvedInv'
      BY <1>4, <2>2 DEF FreshInv, EnvInv, CheckedInv, InstalledStaysInstalled, StartedInv,
                        ResolvedInv
    <2>4. SourceInv'
      BY <1>1, <1>4 DEF BootInv, SourceInv
    <2>5. ASSUME launch.complete PROVE IsInstalled(proc.app)
      <3>1. IsInstalled(proc.app) \/ disk.installedTo = "there"
        BY <1>1, <2>5 DEF BootInv, CompleteInv, InstallerDone
      <3>2. setup.platform = "linux" => disk.installedTo = "absent"
        BY DEF BootInv, InstalledToInv
      <3> QED
        BY <1>4, <3>1, <3>2
    <2>6. CompleteInv'
      <3>1. launch'.complete => IsInstalled(proc.app)'
        BY <1>1, <1>4, <2>5, Kept
      <3>2. launch'.complete /\ "override" \notin launch'.args /\ Exactly(proc'.app.deps)
              => AllMet'
        BY <1>1, <1>4, CompleteMeets, Kept
      <3> QED
        BY <1>4, <3>1, <3>2 DEF CompleteInv
    <2> QED
      BY <2>1, <2>2, <2>3, <2>4, <2>6 DEF BootInv
  <1>5. CASE /\ pc' = "resolveAgain" /\ UNCHANGED <<env, host, launch>>
             /\ proc' = [proc EXCEPT !.app = app]
             /\ disk.installedTo = "there"
             /\ disk' = [disk EXCEPT !.installedTo = "absent"]
    <2>1. /\ app \in Applications /\ app.deps = disk.manifest.deps /\ app.args = {}
          /\ app.place = "there"
      BY DEF NewApplication, BootInv, BootTypes, DiskTypes, ManifestFiles, Applications, Places
    <2> HIDE DEF app
    <2>2. /\ disk'.installed = disk.installed /\ disk'.markers = disk.markers
          /\ disk'.manifest = disk.manifest /\ disk'.installedTo = "absent"
          /\ DiskTypes'
      BY <1>1, <1>5 DEF BootInv, BootTypes, DiskTypes
    <2>3. proc' \in ProcType /\ proc'.app = app
      BY <1>5, <2>1 DEF BootInv, BootTypes, ProcType
    <2>4. BootTypes'
      BY <1>1, <1>5, <2>2, <2>3 DEF BootInv, BootTypes, Lines
    <2>5. StartedHolds' /\ InstalledToInv'
      BY <1>1, <2>2, Kept DEF BootInv, StartedInv, InstalledToInv
    <2>6. FreshInv' /\ EnvInv' /\ CheckedInv' /\ InstalledStaysInstalled' /\ StartedInv'
            /\ ResolvedInv'
      BY <1>5, <2>5 DEF FreshInv, EnvInv, CheckedInv, InstalledStaysInstalled, StartedInv,
                        ResolvedInv
    <2>7. SourceInv'
      BY <1>5, <2>1, <2>3 DEF SourceInv
    <2>8. IsInstalled(proc.app)'
      BY <1>5, <2>1, <2>2, <2>3 DEF BootInv, InstalledToInv, IsInstalled
    <2>9. ASSUME launch.complete, "override" \notin launch.args, Exactly(app.deps)
          PROVE  AllMet'
      <3>1. proc.app.deps = app.deps
        BY <1>1, <2>1, <2>9 DEF BootInv, CompleteInv, InstallerDone, SourceInv
      <3>2. AllMet
        BY <1>1, <2>9, <3>1, CompleteMeets
      <3>3. "there" \in BundleRoots
        BY DEF BundleRoots, Places
      <3>4. \A d \in app.deps : MetBy(d, Around("there"))
        BY <3>1, <3>2, <3>3, MetElsewhere DEF AllMet
      <3>5. Around("there") \subseteq Around("there")'
        BY <1>1, <2>2, Growth
      <3>6. \A d \in app.deps : MetBy(d, Around("there")')
        BY <3>4, <3>5, MetByMore
      <3>7. Around(proc.app.place)' = Around("there")'
        BY <2>1, <2>3 DEF Around, BundledComponents
      <3> QED
        BY <2>3, <3>6, <3>7 DEF AllMet
    <2>10. CompleteInv'
      BY <1>5, <2>3, <2>8, <2>9 DEF CompleteInv
    <2> QED
      BY <2>4, <2>5, <2>6, <2>7, <2>10 DEF BootInv
  <1> QED
    BY <1>2, <1>3, <1>4, <1>5

\* Nothing happens.
LEMMA BootStutters == ASSUME BootInv, UNCHANGED vars PROVE BootInv'
  <1>1. UNCHANGED <<setup, pc, proc, env, host, disk, launch, ghost>>
    BY DEF vars
  <1>2. DiskTypes' /\ InstalledToInv' /\ launch \in LaunchType /\ ghost \in GhostType
    BY <1>1 DEF BootInv, BootTypes, DiskTypes, InstalledToInv
  <1> QED
    BY <1>1, <1>2, GrowthKeeps

\* One lemma for each action.
LEMMA BootInvNext == BootInv /\ [Next]_vars => BootInv'
  <1> SUFFICES ASSUME BootInv, [Next]_vars PROVE BootInv'
    OBVIOUS
  <1>1. ASSUME FirstResolve \/ SecondResolve PROVE BootInv'
    <2>1. \/ pc = "resolve" /\ Resolve("decide")
          \/ pc = "resolveAgain" /\ Resolve("check")
      BY <1>1, Zenon DEF FirstResolve, SecondResolve
    <2> QED
      BY <2>1, ResolveKeeps
  <1>2. ASSUME NoInstaller \/ BlastoffFails \/ StartHostFails PROVE BootInv'
    <2>1. End("failed") /\ setup' = setup /\ ghost' = ghost /\ disk' = disk
      BY <1>2 DEF NoInstaller, BlastoffFails, StartHostFails, Fail
    <2> QED
      BY <2>1, EndKeeps
  <1>3. ASSUME HostEnds \/ Killed PROVE BootInv'
    <2>1. End("off") /\ setup' = setup /\ ghost' = ghost /\ disk' = disk
      BY <1>3 DEF HostEnds, Killed
    <2> QED
      BY <2>1, EndKeeps
  <1>4. ASSUME Boot PROVE BootInv'
    BY <1>1, <1>2, <1>4, MainKeeps, ReadManifestKeeps, FindUpdateKeeps, DecideKeeps,
       InstallerReturnedKeeps, CheckKeeps, ExportKeeps, BlastoffKeeps, StartHostKeeps DEF Boot
  <1>5. ASSUME Installer PROVE BootInv'
    BY <1>5, InstallComponentKeeps, InstallApplicationKeeps, InstallUpdateKeeps,
       InstallerExitsKeeps DEF Installer
  <1> QED
    BY <1>3, <1>4, <1>5, LaunchKeeps, UpdateArrivesKeeps, ForeignInstallKeeps, BootStutters
       DEF Next

\* In every reachable state, for any manifests, components and number of
\* launches, the invariant holds.
LEMMA BootInvariant == Spec => []BootInv
  BY BootInvInit, BootInvNext, PTL DEF Spec

-----------------------------------------------------------------------------
(* What follows from it.                                                    *)

\* Every variable of the boot program, the disk and the host keeps its type; no
\* list of components ever holds a null one (Application::ResolveDependencies).
THEOREM BootstrapTypeCorrect == Spec => []TypeOK
  <1>1. BootInv => TypeOK
    <2> SUFFICES ASSUME BootInv PROVE TypeOK
      OBVIOUS
    <2>1. BootTypes /\ DiskTypes
      BY DEF BootInv, BootTypes
    <2>2. \A c \in ComponentType : IsComponent(c)
      BY DEF ComponentType, IsComponent
    <2>3. \A deps \in SUBSET Dependencies : AreDependencies(deps)
      BY DEF Dependencies, AreDependencies
    <2>4. IsApplication(proc.app) /\ AreDependencies(proc.missing)
      <3>1. proc.app \in Applications /\ proc.missing \in SUBSET Dependencies
        BY <2>1 DEF BootTypes, ProcType
      <3>2. proc.app.deps \in SUBSET Dependencies
        BY <3>1, ListsTyped DEF Applications
      <3> QED
        BY <2>3, <3>1, <3>2 DEF IsApplication, Applications, Options
    <2>5. disk.installed \subseteq ComponentType
      BY <2>1 DEF DiskTypes, InstalledType, ComponentType
    <2>6. proc.resolved \cup env.modules \cup host.app \cup host.loads \subseteq ComponentType
      BY <2>1 DEF BootTypes, ProcType, EnvType, HostType
    <2>7. proc.asked \subseteq proc.app.deps \/ proc.app.place = "there"
      BY DEF BootInv, SourceInv
    <2>8. /\ disk.manifest.kind \in {"absent", "unreadable", "ok"}
          /\ disk.update.kind \in {"absent", "unreadable", "ok"}
          /\ disk.markers \subseteq {"data"} \cup Places
          /\ disk.installedTo \in {"absent", "unreadable", "broken", "there"}
      BY <2>1 DEF DiskTypes, ManifestFiles
    <2>9. pc \in Lines
      BY <2>1 DEF BootTypes
    <2> QED
      BY <2>2, <2>4, <2>5, <2>6, <2>7, <2>8, <2>9 DEF TypeOK, Lines
  <1> QED
    BY <1>1, BootInvariant, PTL

\* A host that runs has a runtime, and every dependency of the manifest it was
\* booted for is met: after any number of killed launches, partial
\* installations, updates and installations by other applications between the
\* lines of the boot program, and across the exec (boot.cpp:106-145).
THEOREM HostIsComplete == Spec => []HostHasItsDependencies
  <1>1. BootInv => HostHasItsDependencies
    <2> SUFFICES ASSUME BootInv, pc = "host"
                 PROVE  /\ host.runtime # NoComponent
                        /\ \A d \in env.needs :
                              \E c \in {host.runtime} \cup host.loads \cup SDKsOnDisk :
                                 c.name = d.name /\ Fits(c, d) /\ OnDisk(c)
      BY DEF HostHasItsDependencies
    <2>1. EnvHolds /\ host.runtime = env.runtime /\ host.loads = env.modules
      BY DEF BootInv, EnvInv
    <2> QED
      BY <2>1 DEF EnvHolds, Meets
  <1> QED
    BY <1>1, BootInvariant, PTL

\* An application that has run once never needs the installer again on its own
\* account, whatever other applications install meanwhile: a newer version may
\* take the place of the one that was used, and never leaves none
\* (boot.cpp:106-115, Application::ResolveDependency).
THEOREM RunsAgain == Spec => []InstalledStaysInstalled
  <1>1. BootInv => InstalledStaysInstalled
    BY DEF BootInv
  <1> QED
    BY <1>1, BootInvariant, PTL

\* An installer that did all it was asked for is enough: no launch fails after
\* it for a manifest that names versions to be met exactly or exceeded and no
\* SDK (boot.cpp:115-129, the second resolution and the check).
THEOREM InstallationSuffices == Spec => InstallSuffices
  <1> DEFINE excused == \/ "override" \in launch.args
                        \/ \E d \in proc.app.deps :
                              \/ d.requirement \notin {"EQ", "GTE"}
                              \/ TypeOf(d.name) \in {SDK, MOBILESDK}
             claim == pc \in {"returned", "check"} /\ pc' = "failed" /\ launch.complete => excused
  <1>1. BootInv /\ [Next]_vars => [claim]_vars
    <2> SUFFICES ASSUME BootInv, Next, pc \in {"returned", "check"}, pc' = "failed",
                        launch.complete, ~excused
                 PROVE  FALSE
      OBVIOUS
    <2>1. "override" \notin launch.args /\ Exactly(proc.app.deps)
      BY DEF Exactly
    <2> HIDE DEF excused
    <2>2. InstallerReturned \/ Check
      BY DEF Next, Boot, Installer, Launch, Main, ReadManifest, FindUpdate, FirstResolve, Decide,
             NoInstaller, SecondResolve, Export, Blastoff, BlastoffFails, StartHost,
             StartHostFails, HostEnds, UpdateArrives, Killed, InstallComponent,
             InstallApplication, InstallUpdate, InstallerExits, ForeignInstall, Resolve, End
    <2>3. CASE Check
      <3>1. pc = "check"
        BY <2>3 DEF Check
      <3>2. proc.missing = {} /\ IsInstalled(proc.app)
        BY <2>1, <3>1 DEF BootInv, CompleteInv
      <3> QED
        BY <2>3, <3>2 DEF Check
    <2>4. CASE InstallerReturned
      <3>1. pc = "returned"
        BY <2>4 DEF InstallerReturned
      <3>2. proc.code = 0 /\ InstallerDone
        BY <3>1 DEF BootInv, CompleteInv
      <3>3. IsInstalled(proc.app) \/ disk.installedTo = "there"
        BY <3>2 DEF InstallerDone
      <3> QED
        BY <2>4, <3>2, <3>3 DEF InstallerReturned
    <2> QED
      BY <2>2, <2>3, <2>4
  <1> QED
    BY <1>1, BootInvariant, PTL DEF Spec, InstallSuffices

=============================================================================
