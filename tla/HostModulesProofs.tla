-------------------------- MODULE HostModulesProofs --------------------------
(***************************************************************************)
(* Theorems about HostModules: modules are loaded once, providers exist, no *)
(* scan runs inside the iteration of another, no loadable file is left      *)
(* behind, and modules are stopped before they are unloaded, for every set  *)
(* of files, every order in which the directories list them and every depth *)
(* of nested routines.                                                      *)
(*                                                                         *)
(* The parts of the inductive invariant speak of the innermost routine, of  *)
(* its caller and of the set of the routines around them, so that a routine *)
(* that is called or returns leaves what is said of the others alone.       *)
(***************************************************************************)
EXTENDS HostModules, VectorsProofs

FrameType == [fn : Routines, at : Places, i : Nat, list : Seq(Files)]

-----------------------------------------------------------------------------
(* The inductive invariant.  st is the stack of routines.                   *)

\* A routine in the middle of an iteration, from which it calls LoadModule.
Finding(f) == f.fn = "LoadModules" /\ f.at = "find"
Iterating(f) == f.fn = "Scan" /\ f.at = "iterate"
Busy(f) == Finding(f) \/ Iterating(f)
Plain(f) == f.fn # "LoadModule" /\ ~ Busy(f)

\* autoScan is off during an iteration, so that it is interrupted by LoadModule
\* only, and LoadModule by nothing.
ShapeInv(st, auto) ==
    /\ \A f \in Elems(st) : f.i > 0 /\ (f.fn = "Scan" /\ f.at = "begin" => f.i = 1)
    /\ st # <<>> =>
          /\ st[1].fn = "LoadModule" =>
                /\ Tail(st) # <<>>
                /\ Busy(Tail(st)[1]) /\ ~ auto
                /\ \A f \in Elems(Tail(Tail(st))) : Plain(f)
                /\ \E x \in Files : st[1].list = <<x>>
          /\ st[1].fn # "LoadModule" => \A f \in Elems(Tail(st)) : Plain(f)
          /\ Busy(st[1]) => ~ auto

\* A file is in one place: still to be found, waiting, being loaded, or loaded.
Once(s) == \A i, k \in 1..Len(s) : s[i] = s[k] => i = k
Ahead(i, inv, ld) == \A j \in 1..Len(Dir) : j >= i => Dir[j] \notin Elems(inv) \cup Elems(ld)

FilesInv(st, inv, ld) ==
    /\ Once(ld) /\ Once(inv)
    /\ \A x \in Elems(ld) : x \notin Elems(inv)
    /\ st # <<>> =>
          /\ Finding(st[1]) => Ahead(st[1].i, inv, ld)
          /\ st[1].fn = "LoadModule" =>
                /\ st[1].list[1] \notin Elems(ld)
                /\ Iterating(Tail(st)[1]) =>
                      /\ Tail(st)[1].i <= Len(inv)
                      /\ inv[Tail(st)[1].i] = st[1].list[1]
                /\ Finding(Tail(st)[1]) =>
                      /\ st[1].list[1] \notin Elems(inv)
                      /\ Ahead(Tail(st)[1].i, inv, ld)
                      /\ \A j \in 1..Len(Dir) :
                            j >= Tail(st)[1].i => Dir[j] # st[1].list[1]

\* A provider is loaded, or registers right now, or its Initialize() threw; the
\* lists of scans and of StartModules hold modules of the first and third kind.
Registering(st) == st # <<>> /\ st[1].fn = "LoadModule" /\ st[1].at = "register"

ProvidersInv(st, provs, ld, threw) ==
    /\ \A x \in Elems(provs) :
          \/ x \in Elems(ld) \cup threw \cup {Host}
          \/ Registering(st) /\ x \in Elems(st[1].list)
    /\ \A f \in Elems(st) :
          f.fn # "LoadModule" => \A x \in Elems(f.list) : x \in Elems(ld) \cup threw

\* While no Start() throws: autoScan is on, or some routine will go through the
\* files or turns it on at once; and a file for which there is a provider, or
\* that is still to come, is one that some routine will go through.
Provided(x, provs, lg) == \E i \in DOMAIN provs : provs[i] = lg[x]
Seeks(f) == Finding(f) \/ (f.fn = "Scan" /\ f.at \in {"begin", "rescan"})

Behind(c, st, inv, provs, lg) ==
    \/ c.list # <<>>
    \/ Registering(st)
    \/ \A j \in 1..Len(inv) : j < c.i => ~ Provided(inv[j], provs, lg)

RescanInv(st, auto, inv, provs, lg) ==
    /\ \/ auto
       \/ \E f \in Elems(st) : Seeks(f) \/ Iterating(f)
       \/ st # <<>> /\ st[1].fn = "Scan" /\ st[1].at = "end"
    /\ \/ \A x \in Elems(inv) : ~ Provided(x, provs, lg)
       \/ \E f \in Elems(st) : Seeks(f)
       \/ /\ st # <<>> /\ Iterating(st[1])
          /\ Behind(st[1], st, inv, provs, lg)
       \/ /\ st # <<>> /\ st[1].fn = "LoadModule" /\ Iterating(Tail(st)[1])
          /\ Behind(Tail(st)[1], st, inv, provs, lg)

\* The loading of modules has neither failed nor been given up.
Sound == ~ startThrew /\ phase \in {"load", "run"}

\* Modules that were taken out of loadedModules, or will be, or never got there.
LetGo == initThrew \cup unloaded

HostModulesInv ==
    /\ TypeOK
    /\ ShapeInv(stack, autoScan)
    /\ FilesInv(stack, invalid, loadedModules)
    /\ ProvidersInv(stack, module_providers, loadedModules, LetGo)
    /\ Sound => RescanInv(stack, autoScan, invalid, module_providers, lang)

\* UnloadModules runs while modules are unloaded, and LoadModules never then.
PhaseInv(st, ph) ==
    /\ ph \in {"load", "run"} => \A f \in Elems(st) : f.fn # "UnloadModules"
    /\ ph = "unload" => \A f \in Elems(st) : f.fn # "LoadModules"
    /\ ph \in {"done", "failed"} => st = <<>>

\* Unloading begins when UnloadModules has stopped every module; until then its
\* index is behind the modules that were stopped.
Stops(f, ld, stp) ==
    /\ f.at = "stop" /\ f.i <= Len(ld) + 1
    /\ \A j \in 1..Len(ld) : j < f.i => ld[j] \in stp

UnloadInv(st, ph, ld, stp, unl, late) ==
    /\ ph \in {"load", "run"} => stp = {} /\ unl = {}
    /\ \A x \in stp : x \in Elems(ld) \cup unl
    /\ unl # {} => \A x \in Elems(ld) \cup unl : x \in stp \cup late
    /\ \A f \in Elems(st) : f.fn = "UnloadModules" =>
          /\ \A x \in Elems(f.list) : x \in unl
          /\ unl # {} \/ Stops(f, ld, stp)
    /\ ph = "done" => ld = <<>>

\* Once the providers were dropped, every provider is a late one.
LateInv(ph, provs, unl, late) ==
    ph \in {"unload", "done"} \/ unl # {} => \A x \in Elems(provs) : x \in late

UnloadingInv ==
    /\ PhaseInv(stack, phase)
    /\ UnloadInv(stack, phase, loadedModules, stopped, unloaded, lateModules)
    /\ LateInv(phase, module_providers, unloaded, lateProviders)

-----------------------------------------------------------------------------
(* Sequences.                                                               *)

\* st is the stack whose innermost routine is f, called from those of r.
Cons(st, f, r) == st = <<f>> \o r

\* The parts of a stack to which a routine was added.
LEMMA ConsFacts ==
    ASSUME NEW S, NEW f \in S, NEW r \in Seq(S), NEW st, Cons(st, f, r)
    PROVE  /\ st \in Seq(S) /\ st # <<>> /\ st[1] = f /\ Tail(st) = r
           /\ \A x : x \in Elems(st) <=> x = f \/ x \in Elems(r)
  <1>1. PICK n : n = Len(r)
    OBVIOUS
  <1>2. PICK c : c = <<f>> \o r
    OBVIOUS
  <1>3. /\ n \in Nat /\ DOMAIN r = 1..n /\ c \in Seq(S) /\ Len(c) = n + 1
        /\ c[1] = f /\ \A i \in 1..n : c[i + 1] = r[i]
    BY <1>1, <1>2
  <1>4. st = c
    BY <1>2 DEF Cons
  <1>5. Tail(c) = r
    <2>1. Tail(c) \in Seq(S) /\ Len(Tail(c)) = n /\ \A i \in 1..n : Tail(c)[i] = c[i + 1]
      BY <1>3
    <2> QED
      BY <1>1, <1>3, <2>1
  <1>6. DOMAIN c = 1..n + 1 /\ c # <<>>
    BY <1>3
  <1>7. ASSUME NEW x
        PROVE  x \in Elems(c) <=> x = f \/ x \in Elems(r)
    <2>1. ASSUME x \in Elems(c)
          PROVE  x = f \/ x \in Elems(r)
      <3>1. PICK i \in 1..n + 1 : x = c[i]
        BY <1>6, <2>1 DEF Elems
      <3>2. CASE i = 1
        BY <1>3, <3>1, <3>2
      <3>3. CASE i # 1
        <4>1. PICK k \in 1..n : i = k + 1
          <5>1. i - 1 \in 1..n /\ i = (i - 1) + 1
            BY <1>3, <3>3
          <5> QED
            BY <5>1
        <4> QED
          BY <1>3, <3>1, <4>1 DEF Elems
      <3> QED
        BY <3>2, <3>3
    <2>2. ASSUME x = f
          PROVE  x \in Elems(c)
      <3>1. 1 \in 1..n + 1
        BY <1>3
      <3> QED
        BY <1>3, <1>6, <2>2, <3>1 DEF Elems
    <2>3. ASSUME x \in Elems(r)
          PROVE  x \in Elems(c)
      <3>1. PICK k \in 1..n : x = r[k]
        BY <1>3, <2>3 DEF Elems
      <3>2. k + 1 \in 1..n + 1 /\ x = c[k + 1]
        BY <1>3, <3>1
      <3> QED
        BY <1>6, <3>2 DEF Elems
    <2> QED
      BY <2>1, <2>2, <2>3
  <1> QED
    BY <1>3, <1>4, <1>5, <1>6, <1>7

\* A stack is its innermost routine and the rest.
LEMMA SplitFacts ==
    ASSUME NEW S, NEW st \in Seq(S), st # <<>>
    PROVE  /\ st[1] \in S /\ Tail(st) \in Seq(S) /\ Cons(st, st[1], Tail(st))
           /\ Head(st) = st[1]
           /\ Tail(st) # <<>> => st[2] = Tail(st)[1]
           /\ \A x : x \in Elems(st) <=> x = st[1] \/ x \in Elems(Tail(st))
  <1>1. PICK n : n = Len(st)
    OBVIOUS
  <1>2. PICK r : r = Tail(st)
    OBVIOUS
  <1>3. /\ n \in Nat /\ n > 0 /\ r \in Seq(S) /\ Len(r) = n - 1
        /\ \A i \in 1..n - 1 : r[i] = st[i + 1]
        /\ st[1] \in S /\ Head(st) = st[1]
    BY <1>1, <1>2
  <1>4. Cons(st, st[1], r)
    <2>1. PICK c : c = <<st[1]>> \o r
      OBVIOUS
    <2>2. c \in Seq(S) /\ Len(c) = n /\ c[1] = st[1] /\ \A i \in 1..n - 1 : c[i + 1] = r[i]
      BY <1>3, <2>1
    <2>3. ASSUME NEW i \in 1..n
          PROVE  c[i] = st[i]
      <3>1. CASE i = 1
        BY <2>2, <3>1
      <3>2. CASE i # 1
        <4>1. PICK k \in 1..n - 1 : i = k + 1
          <5>1. i - 1 \in 1..n - 1 /\ i = (i - 1) + 1
            BY <1>3, <3>2
          <5> QED
            BY <5>1
        <4> QED
          BY <1>3, <2>2, <4>1
      <3> QED
        BY <3>1, <3>2
    <2>4. c = st
      BY <1>1, <2>2, <2>3
    <2> QED
      BY <2>1, <2>4 DEF Cons
  <1>5. r # <<>> => st[2] = r[1]
    <2> SUFFICES ASSUME r # <<>>
                 PROVE  st[2] = r[1]
      OBVIOUS
    <2>1. n - 1 > 0
      BY <1>3
    <2> QED
      BY <1>3, <2>1
  <1>6. \A x : x \in Elems(st) <=> x = st[1] \/ x \in Elems(r)
    BY <1>3, <1>4, ConsFacts
  <1> QED
    BY <1>2, <1>3, <1>4, <1>5, <1>6

\* What is left of a stack when its k - 1 innermost routines are abandoned.
LEMMA SuffixFacts ==
    ASSUME NEW S, NEW st \in Seq(S), st # <<>>, NEW k \in 2..Len(st) + 1, NEW u,
           u = SubSeq(st, k, Len(st))
    PROVE  /\ u \in Seq(S)
           /\ \A x \in Elems(u) : x \in Elems(Tail(st))
           /\ k > Len(st) => u = <<>>
  <1>1. PICK n : n = Len(st)
    OBVIOUS
  <1>2. PICK r : r = Tail(st)
    OBVIOUS
  <1>3. /\ n \in Nat /\ n > 0 /\ r \in Seq(S) /\ DOMAIN r = 1..n - 1
        /\ \A i \in 1..n - 1 : r[i] = st[i + 1]
    BY <1>1, <1>2
  <1>4. /\ u \in Seq(S) /\ Len(u) = n + 1 - k /\ DOMAIN u = 1..n + 1 - k
        /\ \A i \in 1..n + 1 - k : u[i] = st[k + i - 1]
    <2>1. \A i \in k..n : st[i] \in S
      BY <1>1, <1>3
    <2> QED
      BY <1>1, <1>3, <2>1
  <1>5. ASSUME NEW x \in Elems(u)
        PROVE  x \in Elems(r)
    <2>1. PICK i \in 1..n + 1 - k : x = u[i]
      BY <1>4 DEF Elems
    <2>2. PICK j : j = k + i - 2
      OBVIOUS
    <2>3. j \in 1..n - 1 /\ k + i - 1 = j + 1
      BY <1>1, <1>3, <2>2
    <2>4. x = r[j]
      BY <1>3, <1>4, <2>1, <2>3
    <2> QED
      BY <1>3, <2>3, <2>4 DEF Elems
  <1>6. k > n => u = <<>>
    BY <1>1, <1>3, <1>4
  <1> QED
    BY <1>1, <1>2, <1>4, <1>5, <1>6

\* An element is erased from a vector that holds each once, or appended to it.
LEMMA DeleteFacts ==
    ASSUME NEW S, NEW s \in Seq(S), NEW i \in 1..Len(s), Once(s), NEW u, u = Delete(s, i)
    PROVE  /\ u \in Seq(S) /\ Once(u)
           /\ \A x : x \in Elems(u) <=> x \in Elems(s) /\ x # s[i]
           /\ \A j \in 1..Len(u) : j < i => j \in 1..Len(s) /\ u[j] = s[j]
  <1>1. PICK n : n = Len(s)
    OBVIOUS
  <1>2. PICK a : a = SubSeq(s, 1, i - 1)
    OBVIOUS
  <1>3. PICK b : b = SubSeq(s, i + 1, n)
    OBVIOUS
  <1>4. n \in Nat /\ i \in 1..n /\ DOMAIN s = 1..n /\ \A j \in 1..n : s[j] \in S
    BY <1>1
  <1>5. a \in Seq(S) /\ Len(a) = i - 1 /\ \A j \in 1..i - 1 : a[j] = s[j]
    BY <1>2, <1>4
  <1>6. b \in Seq(S) /\ Len(b) = n - i /\ \A j \in 1..n - i : b[j] = s[i + j]
    BY <1>3, <1>4
  <1>7. u = a \o b
    BY <1>1, <1>2, <1>3 DEF Delete
  <1>8. /\ u \in Seq(S) /\ Len(u) = n - 1 /\ DOMAIN u = 1..n - 1
        /\ \A j \in 1..n - 1 : u[j] = IF j < i THEN s[j] ELSE s[j + 1]
    <2>a. \A x, y \in Seq(S) : x \o y \in Seq(S) /\ Len(x \o y) = Len(x) + Len(y)
      OBVIOUS
    <2>0. u \in Seq(S) /\ Len(u) = Len(a) + Len(b)
      BY <1>5, <1>6, <1>7, <2>a
    <2>1. u \in Seq(S) /\ Len(u) = (i - 1) + (n - i)
      BY <1>5, <1>6, <2>0
    <2>2. \A j \in 1..n - 1 : u[j] = IF j <= i - 1 THEN a[j] ELSE b[j - (i - 1)]
      BY <1>4, <1>5, <1>6, <1>7
    <2>3. ASSUME NEW j \in 1..n - 1
          PROVE  u[j] = IF j < i THEN s[j] ELSE s[j + 1]
      <3>1. CASE j < i
        BY <1>4, <1>5, <2>2, <3>1
      <3>2. CASE ~ (j < i)
        <4>1. PICK m : m = j - (i - 1)
          OBVIOUS
        <4>2. m \in 1..n - i /\ i + m = j + 1 /\ ~ (j <= i - 1)
          BY <1>4, <3>2, <4>1
        <4> QED
          BY <1>6, <2>2, <3>2, <4>1, <4>2
      <3> QED
        BY <3>1, <3>2
    <2> QED
      BY <1>4, <2>1, <2>3
  <1>9. ASSUME NEW j \in 1..n - 1
        PROVE  \E m \in 1..n : /\ u[j] = s[m] /\ m # i
                               /\ m = IF j < i THEN j ELSE j + 1
    <2>1. CASE j < i
      BY <1>4, <1>8, <2>1
    <2>2. CASE ~ (j < i)
      <3>1. j + 1 \in 1..n /\ j + 1 # i
        BY <1>4, <2>2
      <3> QED
        BY <1>8, <2>2, <3>1
    <2> QED
      BY <2>1, <2>2
  <1>10. Once(u)
    <2> SUFFICES ASSUME NEW j \in 1..n - 1, NEW k \in 1..n - 1, u[j] = u[k]
                 PROVE  j = k
      BY <1>8 DEF Once
    <2>1. PICK m \in 1..n : u[j] = s[m] /\ m = IF j < i THEN j ELSE j + 1
      BY <1>9
    <2>2. PICK p \in 1..n : u[k] = s[p] /\ p = IF k < i THEN k ELSE k + 1
      BY <1>9
    <2>3. m = p
      BY <1>1, <2>1, <2>2 DEF Once
    <2> QED
      BY <1>4, <2>1, <2>2, <2>3
  <1>11. ASSUME NEW x
         PROVE  x \in Elems(u) <=> x \in Elems(s) /\ x # s[i]
    <2>1. ASSUME x \in Elems(u)
          PROVE  x \in Elems(s) /\ x # s[i]
      <3>1. PICK j \in 1..n - 1 : x = u[j]
        BY <1>8, <2>1 DEF Elems
      <3>2. PICK m \in 1..n : u[j] = s[m] /\ m # i
        BY <1>9
      <3> QED
        BY <1>1, <1>4, <3>1, <3>2 DEF Elems, Once
    <2>2. ASSUME x \in Elems(s), x # s[i]
          PROVE  x \in Elems(u)
      <3>1. PICK m \in 1..n : x = s[m]
        BY <1>4, <2>2 DEF Elems
      <3>2. m # i
        BY <2>2, <3>1
      <3>3. CASE m < i
        <4>1. m \in 1..n - 1 /\ u[m] = s[m]
          BY <1>4, <1>8, <3>3
        <4> QED
          BY <1>8, <3>1, <4>1 DEF Elems
      <3>4. CASE m > i
        <4>1. PICK j : j = m - 1
          OBVIOUS
        <4>2. j \in 1..n - 1 /\ ~ (j < i) /\ j + 1 = m
          BY <1>4, <3>4, <4>1
        <4>3. u[j] = s[m]
          BY <1>8, <4>2
        <4> QED
          BY <1>8, <3>1, <4>2, <4>3 DEF Elems
      <3> QED
        BY <1>4, <3>2, <3>3, <3>4
    <2> QED
      BY <2>1, <2>2
  <1>12. ASSUME NEW j \in 1..Len(u), j < i
         PROVE  j \in 1..Len(s) /\ u[j] = s[j]
    BY <1>1, <1>4, <1>8, <1>12
  <1> QED
    BY <1>8, <1>10, <1>11, <1>12

Appended(u, s, x) == u = Append(s, x) \/ u = s \o <<x>>

\* The elements of a vector after push_back.
LEMMA AppendFacts ==
    ASSUME NEW S, NEW s \in Seq(S), NEW x \in S, NEW u, Appended(u, s, x)
    PROVE  /\ u \in Seq(S) /\ u # <<>>
           /\ \A y : y \in Elems(u) <=> y \in Elems(s) \/ y = x
           /\ Once(s) /\ x \notin Elems(s) => Once(u)
  <1>1. PICK n : n = Len(s)
    OBVIOUS
  <1>2. /\ n \in Nat /\ DOMAIN s = 1..n /\ u \in Seq(S) /\ u # <<>>
        /\ Len(u) = n + 1 /\ DOMAIN u = 1..n + 1
        /\ u[n + 1] = x /\ \A i \in 1..n : u[i] = s[i]
    <2>1. CASE u = Append(s, x)
      BY <1>1, <2>1
    <2>2. CASE u = s \o <<x>>
      BY <1>1, <2>2
    <2> QED
      BY <2>1, <2>2 DEF Appended
  <1>3. \A i \in 1..n + 1 : i \in 1..n \/ i = n + 1
    BY <1>2
  <1>4. (\A i \in 1..n : i \in 1..n + 1) /\ n + 1 \in 1..n + 1
    BY <1>2
  <1>5. \A y : y \in Elems(u) <=> y \in Elems(s) \/ y = x
    BY <1>2, <1>3, <1>4 DEF Elems
  <1>6. ASSUME Once(s), x \notin Elems(s), NEW i \in 1..n + 1, NEW k \in 1..n + 1, u[i] = u[k]
        PROVE  i = k
    <2>1. \A j \in 1..n : s[j] # x
      BY <1>2, <1>6 DEF Elems
    <2>2. CASE i \in 1..n /\ k \in 1..n
      BY <1>1, <1>2, <1>6, <2>2 DEF Once
    <2> QED
      BY <1>2, <1>3, <1>6, <2>1, <2>2
  <1> QED
    BY <1>2, <1>5, <1>6 DEF Once

-----------------------------------------------------------------------------
(* What steps do to the parts that are about the stack.                     *)

\* The fields of frames and of calls have their types.
LEMMA ModulesTypes ==
    /\ \A fn \in Routines, at \in Places, list \in Seq(Files) :
          /\ Call(fn, at, list) \in FrameType
          /\ Call(fn, at, list).fn = fn /\ Call(fn, at, list).at = at
          /\ Call(fn, at, list).i = 1 /\ Call(fn, at, list).list = list
    /\ \A f \in FrameType : f.fn \in Routines /\ f.at \in Places /\ f.i \in Nat /\ f.list \in Seq(Files)
    /\ <<>> \in Seq(Files)
  BY DEF FrameType, Call

\* The frame of a scan that begins,
LEMMA ScanCall ==
    ASSUME NEW h, h = Call("Scan", "begin", <<>>)
    PROVE  h \in FrameType /\ h.fn = "Scan" /\ h.at = "begin" /\ h.i = 1 /\ h.list = <<>>
  <1>1. h = [fn |-> "Scan", at |-> "begin", i |-> 1, list |-> <<>>]
    BY DEF Call
  <1>2. <<>> \in Seq(Files) /\ "Scan" \in Routines /\ "begin" \in Places /\ 1 \in Nat
    BY DEF Routines, Places
  <1>3. h.fn = "Scan" /\ h.at = "begin" /\ h.i = 1 /\ h.list = <<>>
    BY <1>1
  <1> QED
    BY <1>1, <1>2, <1>3 DEF FrameType

\* Routines that are not in an iteration.
Calm(r) ==
    \A f \in Elems(r) : Plain(f) /\ f.i > 0 /\ (f.fn = "Scan" /\ f.at = "begin" => f.i = 1)

\* The innermost routine f, called from those of r, while it does not load.
LEMMA ShapeOfPlain ==
    ASSUME NEW st \in Seq(FrameType), NEW auto, ShapeInv(st, auto), st # <<>>, st[1].fn # "LoadModule"
    PROVE  Calm(Tail(st))
  BY SplitFacts DEF ShapeInv, Calm

\* It moves on.
LEMMA ShapeMove ==
    ASSUME NEW r \in Seq(FrameType), NEW g \in FrameType, NEW st, NEW auto,
           Calm(r),
           Cons(st, g, r), g.fn # "LoadModule", g.i > 0, ~ (g.fn = "Scan" /\ g.at = "begin"),
           Busy(g) => ~ auto
    PROVE  ShapeInv(st, auto)
  <1>1. st # <<>> /\ st[1] = g /\ Tail(st) = r /\ \A x : x \in Elems(st) <=> x = g \/ x \in Elems(r)
    BY ConsFacts
  <1> QED
    BY <1>1 DEF ShapeInv, Calm

\* It calls another routine than LoadModule.
LEMMA ShapeCall ==
    ASSUME NEW r \in Seq(FrameType), NEW g \in FrameType, NEW h \in FrameType,
           NEW q, NEW st, NEW auto,
           Calm(r),
           Cons(q, g, r), Cons(st, h, q),
           Plain(g), g.i > 0, ~ (g.fn = "Scan" /\ g.at = "begin"),
           Plain(h), h.i = 1
    PROVE  ShapeInv(st, auto) /\ st \in Seq(FrameType)
  <1>1. q \in Seq(FrameType) /\ \A x : x \in Elems(q) <=> x = g \/ x \in Elems(r)
    BY ConsFacts
  <1>2. /\ st \in Seq(FrameType) /\ st # <<>> /\ st[1] = h /\ Tail(st) = q
        /\ \A x : x \in Elems(st) <=> x = h \/ x \in Elems(q)
    BY <1>1, ConsFacts
  <1>3. \A f \in Elems(st) : f.i > 0 /\ (f.fn = "Scan" /\ f.at = "begin" => f.i = 1)
    BY <1>1, <1>2 DEF Calm
  <1>4. \A f \in Elems(Tail(st)) : Plain(f)
    BY <1>1, <1>2 DEF Calm
  <1> QED
    BY <1>2, <1>3, <1>4 DEF ShapeInv, Plain

\* It calls LoadModule, from inside its iteration.
LEMMA ShapeLoad ==
    ASSUME NEW r \in Seq(FrameType), NEW g \in FrameType, NEW h \in FrameType,
           NEW q, NEW st, NEW auto, NEW x \in Files,
           Calm(r),
           Cons(q, g, r), Cons(st, h, q),
           Busy(g), g.i > 0, h.fn = "LoadModule", h.i > 0, h.list = <<x>>, ~ auto
    PROVE  ShapeInv(st, auto) /\ st \in Seq(FrameType)
  <1>1. /\ q \in Seq(FrameType) /\ q # <<>> /\ q[1] = g /\ Tail(q) = r
        /\ \A y : y \in Elems(q) <=> y = g \/ y \in Elems(r)
    BY ConsFacts
  <1>2. /\ st \in Seq(FrameType) /\ st # <<>> /\ st[1] = h /\ Tail(st) = q
        /\ \A y : y \in Elems(st) <=> y = h \/ y \in Elems(q)
    BY <1>1, ConsFacts
  <1>3. \A f \in Elems(st) : f.i > 0 /\ (f.fn = "Scan" /\ f.at = "begin" => f.i = 1)
    BY <1>1, <1>2 DEF Calm, Busy, Finding, Iterating
  <1>4. \A f \in Elems(Tail(Tail(st))) : Plain(f)
    BY <1>1, <1>2 DEF Calm
  <1> QED
    BY <1>1, <1>2, <1>3, <1>4 DEF ShapeInv, Busy, Finding, Iterating

\* Routines return, or are abandoned.
LEMMA ShapeLeave ==
    ASSUME NEW r \in Seq(FrameType), NEW st \in Seq(FrameType), NEW auto,
           Calm(r),
           \A f \in Elems(st) : f \in Elems(r)
    PROVE  /\ ShapeInv(st, auto)
           /\ st # <<>> => Plain(st[1])
  <1>1. ASSUME st # <<>>
        PROVE  st[1] \in Elems(st) /\ \A f \in Elems(Tail(st)) : f \in Elems(st)
    BY <1>1, SplitFacts
  <1> QED
    BY <1>1 DEF ShapeInv, Calm, Plain

-----------------------------------------------------------------------------
(* Steps of a routine other than LoadModule.                                *)

\* What the invariant says of the innermost routine.
LEMMA RoutineFacts ==
    ASSUME HostModulesInv, stack # <<>>
    PROVE  /\ stack \in Seq(FrameType) /\ stack[1] \in FrameType /\ Tail(stack) \in Seq(FrameType)
           /\ \A x : x \in Elems(stack) <=> x = stack[1] \/ x \in Elems(Tail(stack))
           /\ stack[1].i \in Nat /\ stack[1].i > 0 /\ stack[1].list \in Seq(Files)
           /\ stack[1].fn # "LoadModule" => Calm(Tail(stack))
           /\ lateProviders \subseteq Files /\ lateModules \subseteq Files
  <1>1. stack \in Seq(FrameType) /\ lateProviders \subseteq Files /\ lateModules \subseteq Files
    BY DEF HostModulesInv, TypeOK, FrameType
  <1>2. /\ stack[1] \in FrameType /\ Tail(stack) \in Seq(FrameType)
        /\ \A x : x \in Elems(stack) <=> x = stack[1] \/ x \in Elems(Tail(stack))
    BY <1>1, SplitFacts
  <1>3. stack[1].i \in Nat /\ stack[1].list \in Seq(Files)
    BY <1>2, ModulesTypes
  <1>4. stack[1].i > 0
    BY <1>2 DEF HostModulesInv, ShapeInv
  <1>5. stack[1].fn # "LoadModule" => Calm(Tail(stack))
    BY <1>1, ShapeOfPlain DEF HostModulesInv
  <1> QED
    BY <1>1, <1>2, <1>3, <1>4, <1>5

\* st2 is st after a step that neither begins nor moves UnloadModules.
CarriesOn(st2, st) ==
    \A x \in Elems(st2) :
        \/ x \in Elems(st)
        \/ /\ x.fn # "UnloadModules"
           /\ x.fn = "LoadModules" => \E y \in Elems(st) : y.fn = "LoadModules"

\* A step that leaves files and modules alone, and ends outside an iteration.
LEMMA PlainStep ==
    ASSUME HostModulesInv, stack # <<>> => stack[1].fn # "LoadModule",
           TypeOK', ShapeInv(stack', autoScan'), stack' # <<>> => Plain(stack'[1]),
           UNCHANGED <<lang, invalid, loadedModules>>, \A x \in LetGo : x \in LetGo',
           \A x \in Elems(module_providers') :
               x \in Elems(module_providers) \/ x \in Elems(loadedModules) \cup LetGo,
           \A g \in Elems(stack') : \A x \in Elems(g.list) : x \in Elems(loadedModules) \cup LetGo,
           Sound' => RescanInv(stack', autoScan', invalid', module_providers', lang')
    PROVE  HostModulesInv'
  <1>1. FilesInv(stack', invalid', loadedModules')
    <2>1. FilesInv(stack, invalid, loadedModules)
      BY DEF HostModulesInv
    <2> QED
      BY <2>1 DEF FilesInv, Plain, Busy
  <1>2. ProvidersInv(stack', module_providers', loadedModules', LetGo')
    <2>1. ASSUME NEW x \in Elems(module_providers)
          PROVE  x \in Elems(loadedModules) \cup LetGo \cup {Host}
      BY DEF HostModulesInv, ProvidersInv, Registering
    <2> QED
      BY <2>1 DEF ProvidersInv
  <1> QED
    BY <1>1, <1>2 DEF HostModulesInv

\* Some routine will go through the files.
LEMMA RescanSeeks ==
    ASSUME NEW st, NEW auto, NEW inv, NEW provs, NEW lg, NEW f \in Elems(st), Seeks(f)
    PROVE  RescanInv(st, auto, inv, provs, lg)
  BY DEF RescanInv

\* A routine that has nothing to do with it comes or goes.
LEMMA RescanCarried ==
    ASSUME NEW st \in Seq(FrameType), st # <<>>, NEW st2, NEW auto, NEW auto2, NEW inv, NEW provs, NEW lg,
           RescanInv(st, auto, inv, provs, lg),
           st[1].fn # "LoadModule", ~ Seeks(st[1]), ~ Iterating(st[1]), Calm(Tail(st)),
           \A f \in Elems(Tail(st)) : f \in Elems(st2),
           auto2 \/ (auto2 = auto /\ ~ (st[1].fn = "Scan" /\ st[1].at = "end"))
    PROVE  RescanInv(st2, auto2, inv, provs, lg)
  <1>1. \A x : x \in Elems(st) <=> x = st[1] \/ x \in Elems(Tail(st))
    BY SplitFacts
  <1>2. \A f \in Elems(Tail(st)) : ~ Iterating(f)
    BY DEF Calm, Plain, Busy
  <1>3. \/ auto2
        \/ \E f \in Elems(st2) : Seeks(f)
    BY <1>1, <1>2 DEF RescanInv
  <1>4. \/ \A x \in Elems(inv) : ~ Provided(x, provs, lg)
        \/ \E f \in Elems(st2) : Seeks(f)
    BY <1>1, <1>2 DEF RescanInv
  <1> QED
    BY <1>3, <1>4 DEF RescanInv

\* It calls another routine.
LEMMA CallStep ==
    ASSUME HostModulesInv, stack # <<>>, NEW f, f = stack[1],
           f.fn # "LoadModule",
           NEW g \in FrameType, g.fn = f.fn, g.i > 0, Plain(g),
           \A x \in Elems(g.list) : x \in Elems(f.list) \/ x \in Elems(loadedModules),
           ~ (g.fn = "Scan" /\ g.at = "begin"),
           NEW h \in FrameType, h.fn \notin {"UnloadModules", "LoadModules"}, h.i = 1, Plain(h),
           \A x \in Elems(h.list) : x \in Elems(loadedModules) \cup LetGo,
           NEW q, Cons(q, g, Tail(stack)), Cons(stack', h, q),
           UNCHANGED <<lang, phase, invalid, loadedModules, autoScan, startThrew, initThrew,
                       lateModules>>,
           started' \subseteq Files, stopped' \subseteq Files, unloaded' \subseteq Files,
           lateProviders' \subseteq Files, unloaded \subseteq unloaded',
           module_providers' \in Seq(Files \cup {Host}),
           \A x \in Elems(module_providers') :
               x \in Elems(module_providers) \/ x \in Elems(loadedModules) \cup LetGo,
           Sound => \/ Seeks(h) \/ Seeks(g)
                    \/ /\ ~ Seeks(f) /\ ~ Iterating(f) /\ ~ (f.fn = "Scan" /\ f.at = "end")
                       /\ module_providers' = module_providers
    PROVE  HostModulesInv' /\ (f.fn # "UnloadModules" => CarriesOn(stack', stack))
  <1>5. PICK r : r = Tail(stack)
    OBVIOUS
  <1>8. /\ f \in FrameType /\ r \in Seq(FrameType) /\ Calm(r) /\ f.i > 0
        /\ \A x : x \in Elems(stack) <=> x = f \/ x \in Elems(r)
        /\ stack \in Seq(FrameType)
    BY <1>5, RoutineFacts
  <1>12. ShapeInv(stack', autoScan') /\ stack' \in Seq(FrameType)
    BY <1>5, <1>8, ShapeCall
  <1>13. /\ q \in Seq(FrameType) /\ stack' # <<>> /\ stack'[1] = h
         /\ \A x : x \in Elems(stack') <=> x = h \/ x = g \/ x \in Elems(r)
    <2>0. Cons(q, g, r)
      BY <1>5
    <2>1. q \in Seq(FrameType) /\ \A x : x \in Elems(q) <=> x = g \/ x \in Elems(r)
      BY <1>8, <2>0, ConsFacts
    <2> QED
      BY <2>1, ConsFacts
  <1>14. TypeOK'
    BY <1>12 DEF HostModulesInv, TypeOK, FrameType
  <1>16. \A x \in Elems(stack') : \A y \in Elems(x.list) : y \in Elems(loadedModules) \cup LetGo
    <2>1. \A x \in Elems(stack) : x.fn # "LoadModule" =>
             \A y \in Elems(x.list) : y \in Elems(loadedModules) \cup LetGo
      BY DEF HostModulesInv, ProvidersInv
    <2>2. \A x \in Elems(r) : x.fn # "LoadModule"
      BY <1>8 DEF Calm, Plain
    <2> QED
      BY <1>8, <1>13, <2>1, <2>2
  <1>17. ASSUME Sound'
         PROVE  RescanInv(stack', autoScan', invalid', module_providers', lang')
    <2>1. CASE Seeks(h) \/ Seeks(g)
      BY <1>13, <2>1, RescanSeeks
    <2>2. CASE /\ ~ Seeks(f) /\ ~ Iterating(f) /\ ~ (f.fn = "Scan" /\ f.at = "end")
               /\ module_providers' = module_providers
      <3>1. RescanInv(stack, autoScan, invalid, module_providers, lang)
        BY <1>17 DEF HostModulesInv, Sound
      <3>2. RescanInv(stack', autoScan, invalid, module_providers, lang)
        BY <1>5, <1>8, <1>13, <2>2, <3>1, RescanCarried
      <3> QED
        BY <2>2, <3>2
    <2> QED
      BY <1>17, <2>1, <2>2 DEF Sound
  <1>18. \A x \in LetGo : x \in LetGo'
    BY DEF LetGo
  <1>19. f.fn # "UnloadModules" => CarriesOn(stack', stack)
    BY <1>8, <1>13 DEF CarriesOn
  <1> QED
    BY <1>12, <1>13, <1>14, <1>16, <1>17, <1>18, <1>19, PlainStep

\* It moves on, in no iteration.
LEMMA MoveStep ==
    ASSUME HostModulesInv, stack # <<>>, NEW f, f = stack[1],
           f.fn # "LoadModule",
           NEW g \in FrameType, g.fn = f.fn, g.i > 0, Plain(g),
           \A x \in Elems(g.list) : x \in Elems(f.list) \/ x \in Elems(loadedModules),
           ~ (g.fn = "Scan" /\ g.at = "begin"),
           Cons(stack', g, Tail(stack)),
           UNCHANGED <<lang, phase, invalid, loadedModules, autoScan, startThrew, initThrew,
                       lateModules>>,
           started' \subseteq Files, stopped' \subseteq Files, unloaded' \subseteq Files,
           lateProviders' \subseteq Files, unloaded \subseteq unloaded',
           module_providers' \in Seq(Files \cup {Host}),
           \A x \in Elems(module_providers') :
               x \in Elems(module_providers) \/ x \in Elems(loadedModules) \cup LetGo,
           Sound => RescanInv(stack', autoScan', invalid', module_providers', lang')
    PROVE  HostModulesInv' /\ (f.fn # "UnloadModules" => CarriesOn(stack', stack))
  <1>5. PICK r : r = Tail(stack)
    OBVIOUS
  <1>8. /\ f \in FrameType /\ r \in Seq(FrameType) /\ Calm(r) /\ f.i > 0
        /\ \A x : x \in Elems(stack) <=> x = f \/ x \in Elems(r)
    BY <1>5, RoutineFacts
  <1>13. /\ stack' \in Seq(FrameType) /\ stack' # <<>> /\ stack'[1] = g
         /\ \A x : x \in Elems(stack') <=> x = g \/ x \in Elems(r)
    <2>1. Cons(stack', g, r)
      BY <1>5
    <2> QED
      BY <1>8, <2>1, ConsFacts
  <1>12. ShapeInv(stack', autoScan')
    <2>1. ~ Busy(g) /\ g.fn # "LoadModule"
      BY DEF Plain
    <2> QED
      BY <1>5, <1>8, <2>1, ShapeMove
  <1>14. TypeOK'
    BY <1>13 DEF HostModulesInv, TypeOK, FrameType
  <1>16. \A x \in Elems(stack') : \A y \in Elems(x.list) : y \in Elems(loadedModules) \cup LetGo
    <2>1. \A x \in Elems(stack) : x.fn # "LoadModule" =>
             \A y \in Elems(x.list) : y \in Elems(loadedModules) \cup LetGo
      BY DEF HostModulesInv, ProvidersInv
    <2>2. \A x \in Elems(r) : x.fn # "LoadModule"
      BY <1>8 DEF Calm, Plain
    <2> QED
      BY <1>8, <1>13, <2>1, <2>2
  <1>17. (\A x \in LetGo : x \in LetGo') /\ (Sound' => Sound)
    BY DEF LetGo, Sound
  <1>18. f.fn # "UnloadModules" => CarriesOn(stack', stack)
    BY <1>8, <1>13 DEF CarriesOn
  <1> QED
    BY <1>12, <1>13, <1>14, <1>16, <1>17, <1>18, PlainStep

\* It returns, or an exception leaves it and some that called it.
LEMMA LeaveStep ==
    ASSUME HostModulesInv, stack # <<>>, NEW f, f = stack[1],
           f.fn # "LoadModule",
           stack' \in Seq(FrameType),
           \A x \in Elems(stack') : x \in Elems(Tail(stack)),
           UNCHANGED <<lang, module_providers, invalid, loadedModules, initThrew,
                       lateProviders, lateModules>>,
           stopped' \subseteq Files, unloaded' \subseteq Files, unloaded \subseteq unloaded',
           started' \subseteq Files, autoScan' \in BOOLEAN, startThrew' \in BOOLEAN,
           phase' \in {"load", "run", "unload", "done", "failed"},
           Sound' =>
               /\ Sound /\ stack' = Tail(stack) /\ ~ Seeks(f) /\ ~ Iterating(f)
               /\ autoScan' \/ (autoScan' = autoScan /\ ~ (f.fn = "Scan" /\ f.at = "end"))
    PROVE  HostModulesInv' /\ CarriesOn(stack', stack)
  <1>5. PICK r : r = Tail(stack)
    OBVIOUS
  <1>8. /\ f \in FrameType /\ r \in Seq(FrameType) /\ Calm(r) /\ f.i > 0
        /\ \A x : x \in Elems(stack) <=> x = f \/ x \in Elems(r)
        /\ stack \in Seq(FrameType)
    BY <1>5, RoutineFacts
  <1>12. ShapeInv(stack', autoScan') /\ (stack' # <<>> => Plain(stack'[1]))
    BY <1>5, <1>8, ShapeLeave
  <1>14. TypeOK'
    BY DEF HostModulesInv, TypeOK, FrameType
  <1>16. \A x \in Elems(stack') : \A y \in Elems(x.list) : y \in Elems(loadedModules) \cup LetGo
    <2>1. \A x \in Elems(stack) : x.fn # "LoadModule" =>
             \A y \in Elems(x.list) : y \in Elems(loadedModules) \cup LetGo
      BY DEF HostModulesInv, ProvidersInv
    <2>2. \A x \in Elems(r) : x.fn # "LoadModule"
      BY <1>8 DEF Calm, Plain
    <2> QED
      BY <1>5, <1>8, <2>1, <2>2
  <1>17. ASSUME Sound'
         PROVE  RescanInv(stack', autoScan', invalid', module_providers', lang')
    <2>1. RescanInv(stack, autoScan, invalid, module_providers, lang)
      BY <1>17 DEF HostModulesInv
    <2>2. RescanInv(stack', autoScan', invalid, module_providers, lang)
      BY <1>5, <1>8, <1>17, <2>1, RescanCarried
    <2> QED
      BY <2>2
  <1>18. \A x \in LetGo : x \in LetGo'
    BY DEF LetGo
  <1>19. CarriesOn(stack', stack)
    BY <1>5, <1>8 DEF CarriesOn
  <1> QED
    BY <1>12, <1>14, <1>16, <1>17, <1>18, <1>19, PlainStep

\* The invariant is kept by LoadModulesScan.
LEMMA LoadModulesScanStep ==
    ASSUME HostModulesInv, LoadModulesScan
    PROVE  HostModulesInv' /\ CarriesOn(stack', stack)
  <1>1. /\ stack # <<>> /\ stack[1].fn = "LoadModules" /\ stack[1].at = "find"
        /\ stack' = <<Call("Scan", "begin", <<>>)>> \o (<<[stack[1] EXCEPT !.at = "start"]>> \o Tail(stack))
        /\ UNCHANGED <<lang, phase, module_providers, invalid, loadedModules,
                       autoScan, started, stopped, unloaded, startThrew, initThrew, lateProviders, lateModules>>
    BY DEF LoadModulesScan, Active, Goto
  <1>2. PICK f : f = stack[1]
    OBVIOUS
  <1>3. PICK g : g = [f EXCEPT !.at = "start"]
    OBVIOUS
  <1>4. PICK h : h = Call("Scan", "begin", <<>>)
    OBVIOUS
  <1>5. PICK q : q = <<g>> \o Tail(stack)
    OBVIOUS
  <1>6. Cons(q, g, Tail(stack)) /\ Cons(stack', h, q)
    BY <1>1, <1>2, <1>3, <1>4, <1>5 DEF Cons
  <1>7. f \in FrameType /\ f.i > 0
    BY <1>1, <1>2, RoutineFacts
  <1>8. g \in FrameType /\ g.fn = "LoadModules" /\ g.at = "start" /\ g.i = f.i /\ g.list = f.list
    BY <1>1, <1>2, <1>3, <1>7 DEF FrameType, Places
  <1>9. h \in FrameType /\ h.fn = "Scan" /\ h.at = "begin" /\ h.i = 1 /\ h.list = <<>>
    BY <1>4, ScanCall
  <1>10. Plain(g) /\ Plain(h) /\ Seeks(h) /\ Elems(h.list) = {}
    BY <1>8, <1>9 DEF Plain, Busy, Finding, Iterating, Seeks, Elems
  <1>11. started' \subseteq Files /\ module_providers' \in Seq(Files \cup {Host})
        /\ lateProviders' \subseteq Files /\ stopped' \subseteq Files /\ unloaded' \subseteq Files
    BY <1>1 DEF HostModulesInv, TypeOK
  <1> QED
    BY <1>1, <1>2, <1>6, <1>7, <1>8, <1>9, <1>10, <1>11, CallStep

\* The invariant is kept by LoadModulesStart.
LEMMA LoadModulesStartStep ==
    ASSUME HostModulesInv, LoadModulesStart
    PROVE  HostModulesInv' /\ CarriesOn(stack', stack)
  <1>1. /\ stack # <<>> /\ stack[1].fn = "LoadModules" /\ stack[1].at = "start"
        /\ stack' = <<Call("StartModules", "next", loadedModules)>> \o
                       (<<[stack[1] EXCEPT !.at = "end"]>> \o Tail(stack))
        /\ UNCHANGED <<lang, phase, module_providers, invalid, loadedModules,
                       autoScan, started, stopped, unloaded, startThrew, initThrew, lateProviders, lateModules>>
    BY DEF LoadModulesStart, Active, Goto
  <1>2. PICK f : f = stack[1]
    OBVIOUS
  <1>3. PICK g : g = [f EXCEPT !.at = "end"]
    OBVIOUS
  <1>4. PICK h : h = Call("StartModules", "next", loadedModules)
    OBVIOUS
  <1>5. PICK q : q = <<g>> \o Tail(stack)
    OBVIOUS
  <1>6. Cons(q, g, Tail(stack)) /\ Cons(stack', h, q)
    BY <1>1, <1>2, <1>3, <1>4, <1>5 DEF Cons
  <1>7. f \in FrameType /\ f.i > 0
    BY <1>1, <1>2, RoutineFacts
  <1>8. g \in FrameType /\ g.fn = "LoadModules" /\ g.at = "end" /\ g.i = f.i /\ g.list = f.list
    BY <1>1, <1>2, <1>3, <1>7 DEF FrameType, Places
  <1>9. h \in FrameType /\ h.fn = "StartModules" /\ h.i = 1 /\ h.list = loadedModules
    <2>1. "StartModules" \in Routines /\ "next" \in Places /\ loadedModules \in Seq(Files)
      BY DEF Routines, Places, HostModulesInv, TypeOK
    <2> QED
      BY <1>4, <2>1, ModulesTypes
  <1>10. Plain(g) /\ Plain(h) /\ ~ Seeks(f) /\ ~ Iterating(f)
    BY <1>1, <1>2, <1>8, <1>9 DEF Plain, Busy, Finding, Iterating, Seeks
  <1>11. started' \subseteq Files /\ module_providers' \in Seq(Files \cup {Host})
        /\ lateProviders' \subseteq Files /\ stopped' \subseteq Files /\ unloaded' \subseteq Files
    BY <1>1 DEF HostModulesInv, TypeOK
  <1> QED
    BY <1>1, <1>2, <1>6, <1>7, <1>8, <1>9, <1>10, <1>11, CallStep

\* The invariant is kept by LoadModulesEnd.
LEMMA LoadModulesEndStep ==
    ASSUME HostModulesInv, UnloadingInv, LoadModulesEnd
    PROVE  HostModulesInv' /\ CarriesOn(stack', stack)
  <1>1. /\ stack # <<>> /\ stack[1].fn = "LoadModules" /\ stack[1].at = "end"
        /\ stack' = Tail(stack) /\ autoScan' = TRUE /\ phase' = "run"
        /\ UNCHANGED <<lang, module_providers, invalid, loadedModules, started,
                       stopped, unloaded, startThrew, initThrew, lateProviders, lateModules>>
    BY DEF LoadModulesEnd, Active, Return
  <1>2. stack' \in Seq(FrameType)
    BY <1>1, RoutineFacts
  <1>3. ~ Seeks(stack[1]) /\ ~ Iterating(stack[1])
    BY <1>1 DEF Finding, Iterating, Seeks
  <1>4. /\ started' \subseteq Files /\ startThrew' \in BOOLEAN
        /\ stopped' \subseteq Files /\ unloaded' \subseteq Files
    BY <1>1 DEF HostModulesInv, TypeOK
  <1>5. Sound' => Sound
    <2>1. phase \in {"load", "run", "unload", "done", "failed"} /\ stack[1] \in Elems(stack)
      BY <1>1, RoutineFacts DEF HostModulesInv, TypeOK
    <2>2. phase \in {"load", "run"}
      BY <1>1, <2>1 DEF UnloadingInv, PhaseInv
    <2> QED
      BY <1>1, <2>2 DEF Sound
  <1> QED
    BY <1>1, <1>2, <1>3, <1>4, <1>5, LeaveStep

\* The invariant is kept by ScanStart.
LEMMA ScanStartStep ==
    ASSUME HostModulesInv, ScanStart
    PROVE  HostModulesInv' /\ CarriesOn(stack', stack)
  <1>1. /\ stack # <<>> /\ stack[1].fn = "Scan" /\ stack[1].at = "iterate"
        /\ stack[1].i > Len(invalid)
        /\ stack[1].list = <<>> => stack' = <<[stack[1] EXCEPT !.at = "end"]>> \o Tail(stack)
        /\ stack[1].list # <<>> =>
              stack' = <<Call("StartModules", "next", stack[1].list)>> \o
                          (<<[stack[1] EXCEPT !.at = "rescan"]>> \o Tail(stack))
        /\ UNCHANGED <<lang, phase, module_providers, invalid, loadedModules,
                       autoScan, started, stopped, unloaded, startThrew, initThrew, lateProviders, lateModules>>
    BY DEF ScanStart, Active, Goto
  <1>2. PICK f : f = stack[1]
    OBVIOUS
  <1>7. f \in FrameType /\ f.i \in Nat /\ f.i > 0 /\ f.list \in Seq(Files) /\ f \in Elems(stack)
    BY <1>1, <1>2, RoutineFacts
  <1>11. started' \subseteq Files /\ module_providers' \in Seq(Files \cup {Host})
        /\ lateProviders' \subseteq Files /\ stopped' \subseteq Files /\ unloaded' \subseteq Files
    BY <1>1 DEF HostModulesInv, TypeOK
  <1>a. CASE f.list = <<>>
    <2>1. PICK g : g = [f EXCEPT !.at = "end"]
      OBVIOUS
    <2>2. g \in FrameType /\ g.fn = "Scan" /\ g.at = "end" /\ g.i = f.i /\ g.list = f.list
      BY <1>1, <1>2, <1>7, <2>1 DEF FrameType, Places
    <2>3. Cons(stack', g, Tail(stack))
      BY <1>1, <1>2, <1>a, <2>1 DEF Cons
    <2>4. Plain(g)
      BY <2>2 DEF Plain, Busy, Finding, Iterating
    <2>5. stack' # <<>> /\ stack'[1] = g /\ \A x \in Elems(Tail(stack)) : x \in Elems(stack')
      <3>1. PICK r : r = Tail(stack)
        OBVIOUS
      <3>2. r \in Seq(FrameType)
        BY <1>1, <3>1, RoutineFacts
      <3>3. Cons(stack', g, r)
        BY <2>3, <3>1
      <3>4. /\ stack' # <<>> /\ stack'[1] = g
            /\ \A x : x \in Elems(stack') <=> x = g \/ x \in Elems(r)
        BY <2>2, <3>2, <3>3, ConsFacts
      <3> QED
        BY <3>1, <3>4
    <2>6. ASSUME Sound
          PROVE  RescanInv(stack', autoScan', invalid', module_providers', lang')
      <3>1. \/ \A x \in Elems(invalid) : ~ Provided(x, module_providers, lang)
            \/ \E x \in Elems(stack) : Seeks(x)
            \/ Behind(f, stack, invalid, module_providers, lang)
        BY <1>1, <1>2, <2>6 DEF HostModulesInv, RescanInv
      <3>2. ~ Seeks(f) /\ ~ Registering(stack)
        BY <1>1, <1>2 DEF Seeks, Finding, Registering
      <3>3. CASE Behind(f, stack, invalid, module_providers, lang)
        <4>1. invalid \in Seq(Files)
          BY DEF HostModulesInv, TypeOK
        <4>2. DOMAIN invalid = 1..Len(invalid) /\ Len(invalid) \in Nat
          BY <4>1
        <4>3. \A j \in 1..Len(invalid) : ~ Provided(invalid[j], module_providers, lang)
          BY <1>1, <1>2, <1>7, <1>a, <3>2, <3>3, <4>2 DEF Behind
        <4>4. \A x \in Elems(invalid) : ~ Provided(x, module_providers, lang)
          BY <4>2, <4>3 DEF Elems
        <4> QED
          BY <1>1, <2>2, <2>5, <4>4 DEF RescanInv
      <3>4. CASE \E x \in Elems(stack) : Seeks(x)
        <4>1. \E x \in Elems(stack') : Seeks(x)
          BY <1>1, <1>2, <2>5, <3>2, <3>4, RoutineFacts
        <4> QED
          BY <4>1, RescanSeeks
      <3>5. CASE \A x \in Elems(invalid) : ~ Provided(x, module_providers, lang)
        BY <1>1, <2>2, <2>5, <3>5 DEF RescanInv
      <3> QED
        BY <3>1, <3>3, <3>4, <3>5
    <2> QED
      BY <1>1, <1>2, <1>7, <1>11, <2>2, <2>3, <2>4, <2>6, MoveStep
  <1>b. CASE f.list # <<>>
    <2>1. PICK g : g = [f EXCEPT !.at = "rescan"]
      OBVIOUS
    <2>2. g \in FrameType /\ g.fn = "Scan" /\ g.at = "rescan" /\ g.i = f.i /\ g.list = f.list
      BY <1>1, <1>2, <1>7, <2>1 DEF FrameType, Places
    <2>3. PICK h : h = Call("StartModules", "next", f.list)
      OBVIOUS
    <2>4. h \in FrameType /\ h.fn = "StartModules" /\ h.i = 1 /\ h.list = f.list
      <3>1. "StartModules" \in Routines /\ "next" \in Places
        BY DEF Routines, Places
      <3> QED
        BY <1>7, <2>3, <3>1, ModulesTypes
    <2>5. PICK q : q = <<g>> \o Tail(stack)
      OBVIOUS
    <2>6. Cons(q, g, Tail(stack)) /\ Cons(stack', h, q)
      BY <1>1, <1>2, <1>b, <2>1, <2>3, <2>5 DEF Cons
    <2>7. Plain(g) /\ Plain(h) /\ Seeks(g)
      BY <2>2, <2>4 DEF Plain, Busy, Finding, Iterating, Seeks
    <2>8. \A x \in Elems(h.list) : x \in Elems(loadedModules) \cup LetGo
      BY <1>1, <1>2, <1>7, <2>4 DEF HostModulesInv, ProvidersInv
    <2> QED
      BY <1>1, <1>2, <1>7, <1>11, <2>2, <2>4, <2>6, <2>7, <2>8, CallStep
  <1> QED
    BY <1>a, <1>b

\* The invariant is kept by ScanAgain.
LEMMA ScanAgainStep ==
    ASSUME HostModulesInv, ScanAgain
    PROVE  HostModulesInv' /\ CarriesOn(stack', stack)
  <1>1. /\ stack # <<>> /\ stack[1].fn = "Scan" /\ stack[1].at = "rescan"
        /\ stack' = <<Call("Scan", "begin", <<>>)>> \o (<<[stack[1] EXCEPT !.at = "end"]>> \o Tail(stack))
        /\ UNCHANGED <<lang, phase, module_providers, invalid, loadedModules,
                       autoScan, started, stopped, unloaded, startThrew, initThrew, lateProviders, lateModules>>
    BY DEF ScanAgain, Active, Goto
  <1>2. PICK f : f = stack[1]
    OBVIOUS
  <1>3. PICK g : g = [f EXCEPT !.at = "end"]
    OBVIOUS
  <1>4. PICK h : h = Call("Scan", "begin", <<>>)
    OBVIOUS
  <1>5. PICK q : q = <<g>> \o Tail(stack)
    OBVIOUS
  <1>6. Cons(q, g, Tail(stack)) /\ Cons(stack', h, q)
    BY <1>1, <1>2, <1>3, <1>4, <1>5 DEF Cons
  <1>7. f \in FrameType /\ f.i > 0
    BY <1>1, <1>2, RoutineFacts
  <1>8. g \in FrameType /\ g.fn = "Scan" /\ g.at = "end" /\ g.i = f.i /\ g.list = f.list
    BY <1>1, <1>2, <1>3, <1>7 DEF FrameType, Places
  <1>9. h \in FrameType /\ h.fn = "Scan" /\ h.at = "begin" /\ h.i = 1 /\ h.list = <<>>
    BY <1>4, ScanCall
  <1>10. Plain(g) /\ Plain(h) /\ Seeks(h) /\ Elems(h.list) = {}
    BY <1>8, <1>9 DEF Plain, Busy, Finding, Iterating, Seeks, Elems
  <1>11. started' \subseteq Files /\ module_providers' \in Seq(Files \cup {Host})
        /\ lateProviders' \subseteq Files /\ stopped' \subseteq Files /\ unloaded' \subseteq Files
    BY <1>1 DEF HostModulesInv, TypeOK
  <1> QED
    BY <1>1, <1>2, <1>6, <1>7, <1>8, <1>9, <1>10, <1>11, CallStep

\* The invariant is kept by ScanEnd.
LEMMA ScanEndStep ==
    ASSUME HostModulesInv, ScanEnd
    PROVE  HostModulesInv' /\ CarriesOn(stack', stack)
  <1>1. /\ stack # <<>> /\ stack[1].fn = "Scan" /\ stack[1].at = "end"
        /\ stack' = Tail(stack) /\ autoScan' = TRUE
        /\ UNCHANGED <<lang, phase, module_providers, invalid, loadedModules, started,
                       stopped, unloaded, startThrew, initThrew, lateProviders, lateModules>>
    BY DEF ScanEnd, Active, Return
  <1>2. stack' \in Seq(FrameType) 
    BY <1>1, RoutineFacts
  <1>3. ~ Seeks(stack[1]) /\ ~ Iterating(stack[1])
    BY <1>1 DEF Finding, Iterating, Seeks
  <1>4. /\ stopped' \subseteq Files /\ unloaded' \subseteq Files
        /\ phase' \in {"load", "run", "unload", "done", "failed"}
        /\ started' \subseteq Files /\ startThrew' \in BOOLEAN
    BY <1>1 DEF HostModulesInv, TypeOK
  <1>5. Sound' => Sound
    BY <1>1 DEF Sound
  <1> QED
    BY <1>1, <1>2, <1>3, <1>4, <1>5, LeaveStep

\* The invariant is kept by StartModulesEnd.
LEMMA StartModulesEndStep ==
    ASSUME HostModulesInv, StartModulesEnd
    PROVE  HostModulesInv' /\ CarriesOn(stack', stack)
  <1>1. /\ stack # <<>> /\ stack[1].fn = "StartModules" /\ stack[1].at = "next"
        /\ stack' = Tail(stack)
        /\ UNCHANGED <<lang, phase, module_providers, invalid, loadedModules, autoScan, started,
                       stopped, unloaded, startThrew, initThrew, lateProviders, lateModules>>
    BY DEF StartModulesEnd, Active, Return
  <1>2. stack' \in Seq(FrameType) 
    BY <1>1, RoutineFacts
  <1>3. ~ Seeks(stack[1]) /\ ~ Iterating(stack[1])
    BY <1>1 DEF Finding, Iterating, Seeks
  <1>4. /\ stopped' \subseteq Files /\ unloaded' \subseteq Files
        /\ phase' \in {"load", "run", "unload", "done", "failed"}
        /\ started' \subseteq Files /\ startThrew' \in BOOLEAN /\ autoScan' \in BOOLEAN
    BY <1>1 DEF HostModulesInv, TypeOK
  <1>5. Sound' => Sound
    BY <1>1 DEF Sound
  <1> QED
    BY <1>1, <1>2, <1>3, <1>4, <1>5, LeaveStep

\* The invariant is kept by StartThrows.
LEMMA StartThrowsStep ==
    ASSUME HostModulesInv, NEW k \in 2 .. Len(stack) + 1, StartThrows(k)
    PROVE  HostModulesInv' /\ CarriesOn(stack', stack)
  <1>1. /\ stack # <<>> /\ stack[1].fn = "StartModules" /\ stack[1].at = "next"
        /\ stack[1].i <= Len(stack[1].list)
        /\ started' = started \cup {stack[1].list[stack[1].i]}
        /\ startThrew' = TRUE
        /\ stack' = SubSeq(stack, k, Len(stack))
        /\ phase' = IF phase # "run" /\ k > Len(stack) THEN "failed" ELSE phase
        /\ UNCHANGED <<lang, module_providers, invalid, loadedModules, autoScan, stopped,
                       unloaded, initThrew, lateProviders, lateModules>>
    BY DEF StartThrows, Starting, Current, Active
  <1>2. /\ stack \in Seq(FrameType)
        /\ stack[1].i \in Nat /\ stack[1].i > 0 /\ stack[1].list \in Seq(Files)
    BY <1>1, RoutineFacts
  <1>3. /\ stack' \in Seq(FrameType) /\ \A x \in Elems(stack') : x \in Elems(Tail(stack))
        /\ k > Len(stack) => stack' = <<>>
    BY <1>1, <1>2, SuffixFacts
  <1>4. started' \subseteq Files /\ autoScan' \in BOOLEAN
    <2>1. stack[1].list[stack[1].i] \in Files
      BY <1>1, <1>2
    <2> QED
      BY <1>1, <2>1 DEF HostModulesInv, TypeOK
  <1>5. /\ phase' \in {"load", "run", "unload", "done", "failed"} /\ ~ Sound'
        /\ stopped' \subseteq Files /\ unloaded' \subseteq Files /\ startThrew' \in BOOLEAN
    BY <1>1 DEF HostModulesInv, TypeOK, Sound
  <1> QED
    BY <1>1, <1>3, <1>4, <1>5, LeaveStep

\* A provider is registered: whether a scan starts depends on autoScan.
LEMMA AddProviderFacts ==
    ASSUME HostModulesInv, NEW p \in Files, NEW frames, AddModuleProvider(p, frames)
    PROVE  /\ module_providers' \in Seq(Files \cup {Host})
           /\ \A x : x \in Elems(module_providers') <=> x \in Elems(module_providers) \/ x = p
           /\ lateProviders' \subseteq Files
           /\ autoScan => Cons(stack', Call("Scan", "begin", <<>>), frames)
           /\ ~ autoScan => stack' = frames
  <1>1. module_providers' = Append(module_providers, p)
    BY DEF AddModuleProvider
  <1>2. module_providers \in Seq(Files \cup {Host}) /\ p \in Files \cup {Host}
    BY DEF HostModulesInv, TypeOK
  <1>3. PICK S : S = Files \cup {Host}
    OBVIOUS
  <1>4. PICK a : a = module_providers
    OBVIOUS
  <1>5. PICK b : b = Append(a, p)
    OBVIOUS
  <1>6. a \in Seq(S) /\ p \in S
    BY <1>2, <1>3, <1>4
  <1>a. Appended(b, a, p)
    BY <1>5 DEF Appended
  <1>7. b \in Seq(S) /\ \A x : x \in Elems(b) <=> x \in Elems(a) \/ x = p
    BY <1>6, <1>a, AppendFacts
  <1>8. lateProviders' \subseteq Files
    BY DEF AddModuleProvider, HostModulesInv, TypeOK
  <1> QED
    BY <1>1, <1>3, <1>4, <1>5, <1>7, <1>8 DEF AddModuleProvider, Cons

\* The invariant is kept by StartReturns.
LEMMA StartReturnsStep ==
    ASSUME HostModulesInv, NEW provides \in BOOLEAN, StartReturns(provides)
    PROVE  HostModulesInv' /\ CarriesOn(stack', stack)
  <1>2. PICK f : f = stack[1]
    OBVIOUS
  <1>3. PICK p : p = f.list[f.i]
    OBVIOUS
  <1>4. PICK g : g = [f EXCEPT !.i = f.i + 1]
    OBVIOUS
  <1>5. PICK q : q = <<g>> \o Tail(stack)
    OBVIOUS
  <1>1. /\ stack # <<>> /\ f.fn = "StartModules" /\ f.at = "next" /\ f.i <= Len(f.list)
        /\ started' = started \cup {p}
        /\ provides => AddModuleProvider(p, q)
        /\ ~ provides => stack' = q /\ UNCHANGED <<module_providers, lateProviders>>
        /\ UNCHANGED <<lang, phase, invalid, loadedModules, autoScan, stopped,
                       unloaded, startThrew, initThrew, lateModules>>
    BY <1>2, <1>3, <1>4, <1>5 DEF StartReturns, Starting, Current, Active, Advance
  <1>7. /\ f \in FrameType /\ f.i \in Nat /\ f.i > 0 /\ f.list \in Seq(Files) /\ f \in Elems(stack)
        /\ stack \in Seq(FrameType) /\ Calm(Tail(stack)) /\ Tail(stack) \in Seq(FrameType)
        /\ \A x : x \in Elems(stack) <=> x = f \/ x \in Elems(Tail(stack))
    BY <1>1, <1>2, RoutineFacts
  <1>8. g \in FrameType /\ g.fn = "StartModules" /\ g.at = "next" /\ g.i > 0 /\ g.list = f.list
    <2>1. f.i + 1 \in Nat
      BY <1>7
    <2>2. g.i = f.i + 1 /\ g.fn = f.fn /\ g.at = f.at /\ g.list = f.list /\ g \in FrameType
      BY <1>4, <1>7, <2>1 DEF FrameType
    <2> QED
      BY <1>1, <1>7, <2>2
  <1>9. p \in Files /\ p \in Elems(loadedModules) \cup LetGo
    <2>1. p \in Files /\ p \in Elems(f.list)
      BY <1>1, <1>3, <1>7 DEF Elems
    <2>2. \A x \in Elems(f.list) : x \in Elems(loadedModules) \cup LetGo
      BY <1>1, <1>7 DEF HostModulesInv, ProvidersInv
    <2> QED
      BY <2>1, <2>2
  <1>10. started' \subseteq Files /\ stopped' \subseteq Files /\ unloaded' \subseteq Files
    BY <1>1, <1>9 DEF HostModulesInv, TypeOK
  <1>11. Plain(g) /\ ~ Seeks(f) /\ ~ Iterating(f)
    BY <1>1, <1>8 DEF Plain, Busy, Finding, Iterating, Seeks
  <1>12. Cons(q, g, Tail(stack))
    BY <1>5 DEF Cons
  <1>13. \A x \in Elems(Tail(stack)) : x \in Elems(q)
    <2>1. PICK r : r = Tail(stack)
      OBVIOUS
    <2>2. r \in Seq(FrameType) /\ Cons(q, g, r)
      BY <1>7, <1>12, <2>1
    <2>3. \A x : x \in Elems(q) <=> x = g \/ x \in Elems(r)
      BY <1>8, <2>2, ConsFacts
    <2> QED
      BY <2>1, <2>3
  <1>14. ASSUME Sound
         PROVE  RescanInv(stack, autoScan, invalid, module_providers, lang)
    BY <1>14 DEF HostModulesInv
  <1>a. CASE ~ provides
    <2>1. Cons(stack', g, Tail(stack)) /\ module_providers' = module_providers /\ stack' = q
      BY <1>1, <1>12, <1>a
    <2>2. module_providers' \in Seq(Files \cup {Host}) /\ lateProviders' \subseteq Files
      BY <1>1, <1>a DEF HostModulesInv, TypeOK
    <2>3. ASSUME Sound
          PROVE  RescanInv(stack', autoScan', invalid', module_providers', lang')
      <3>1. RescanInv(q, autoScan, invalid, module_providers, lang)
        BY <1>1, <1>2, <1>7, <1>11, <1>13, <1>14, <2>3, RescanCarried
      <3> QED
        BY <1>1, <2>1, <3>1
    <2> QED
      BY <1>1, <1>2, <1>8, <1>10, <1>11, <2>1, <2>2, <2>3, MoveStep
  <1>b. CASE provides /\ ~ autoScan
    <2>1. /\ module_providers' \in Seq(Files \cup {Host}) /\ stack' = q /\ lateProviders' \subseteq Files
          /\ \A x : x \in Elems(module_providers') <=> x \in Elems(module_providers) \/ x = p
      BY <1>1, <1>9, <1>b, AddProviderFacts
    <2>2. Cons(stack', g, Tail(stack))
      BY <1>12, <2>1
    <2>3. ASSUME Sound
          PROVE  RescanInv(stack', autoScan', invalid', module_providers', lang')
      <3>1. \E x \in Elems(stack) : Seeks(x) \/ Iterating(x)
        BY <1>1, <1>2, <1>14, <1>b, <2>3 DEF RescanInv
      <3>2. \A x \in Elems(Tail(stack)) : ~ Iterating(x)
        BY <1>7 DEF Calm, Plain, Busy
      <3>3. \E x \in Elems(stack') : Seeks(x)
        BY <1>7, <1>11, <1>13, <2>1, <3>1, <3>2
      <3> QED
        BY <3>3, RescanSeeks
    <2>4. \A x \in Elems(module_providers') :
             x \in Elems(module_providers) \/ x \in Elems(loadedModules) \cup LetGo
      BY <1>9, <2>1
    <2> QED
      BY <1>1, <1>2, <1>8, <1>10, <1>11, <2>1, <2>2, <2>3, <2>4, MoveStep
  <1>c. CASE provides /\ autoScan
    <2>1. /\ module_providers' \in Seq(Files \cup {Host}) /\ lateProviders' \subseteq Files
          /\ \A x : x \in Elems(module_providers') <=> x \in Elems(module_providers) \/ x = p
          /\ Cons(stack', Call("Scan", "begin", <<>>), q)
      BY <1>1, <1>9, <1>c, AddProviderFacts
    <2>2. PICK h : h = Call("Scan", "begin", <<>>)
      OBVIOUS
    <2>3. h \in FrameType /\ h.fn = "Scan" /\ h.at = "begin" /\ h.i = 1 /\ h.list = <<>>
      BY <2>2, ScanCall
    <2>4. Plain(h) /\ Seeks(h) /\ Elems(h.list) = {}
      BY <2>3 DEF Plain, Busy, Finding, Iterating, Seeks, Elems
    <2>5. \A x \in Elems(module_providers') :
             x \in Elems(module_providers) \/ x \in Elems(loadedModules) \cup LetGo
      BY <1>9, <2>1
    <2>6. Cons(stack', h, q)
      BY <2>1, <2>2
    <2> QED
      BY <1>1, <1>2, <1>8, <1>10, <1>11, <1>12, <2>1, <2>3, <2>4, <2>5, <2>6, CallStep
  <1> QED
    BY <1>a, <1>b, <1>c

-----------------------------------------------------------------------------
(* Steps while the host runs and stops.                                     *)

\* A stack of one routine.
LEMMA OneRoutine ==
    ASSUME NEW st, NEW f \in FrameType, st = <<f>>
    PROVE  /\ st \in Seq(FrameType) /\ st # <<>> /\ st[1] = f /\ Tail(st) = <<>>
           /\ \A x : x \in Elems(st) <=> x = f
  <1>1. st \in Seq(FrameType) /\ st # <<>> /\ st[1] = f /\ Tail(st) = <<>> /\ DOMAIN st = {1}
    OBVIOUS
  <1> QED
    BY <1>1 DEF Elems

\* An empty vector holds nothing.
LEMMA NoElems == Elems(<<>>) = {}
  BY DEF Elems

\* A vector of one element.
LEMMA OneElem ==
    ASSUME NEW x, NEW s, s = <<x>>
    PROVE  s[1] = x /\ s # <<>> /\ \A y : y \in Elems(s) <=> y = x
  <1>1. s[1] = x /\ s # <<>> /\ DOMAIN s = {1}
    OBVIOUS
  <1> QED
    BY <1>1 DEF Elems

\* The invariant is kept by ProviderAppears.
LEMMA ProviderAppearsStep ==
    ASSUME HostModulesInv, NEW p \in Files, ProviderAppears(p)
    PROVE  HostModulesInv' /\ CarriesOn(stack', stack)
  <1>1. /\ phase = "run" /\ stack = <<>> /\ p \in Elems(loadedModules)
        /\ AddModuleProvider(p, <<>>)
        /\ UNCHANGED <<lang, phase, invalid, loadedModules, autoScan, started,
                       stopped, unloaded, startThrew, initThrew, lateModules>>
    BY DEF ProviderAppears
  <1>2. /\ module_providers' \in Seq(Files \cup {Host}) /\ lateProviders' \subseteq Files
        /\ \A x : x \in Elems(module_providers') <=> x \in Elems(module_providers) \/ x = p
    BY <1>1, AddProviderFacts
  <1>3. \A x \in Elems(module_providers') :
           x \in Elems(module_providers) \/ x \in Elems(loadedModules) \cup LetGo
    BY <1>1, <1>2
  <1>4. \A x \in LetGo : x \in LetGo'
    BY <1>1 DEF LetGo
  <1>a. CASE autoScan
    <2>2. PICK h : h = Call("Scan", "begin", <<>>)
      OBVIOUS
    <2>3. h \in FrameType /\ h.fn = "Scan" /\ h.at = "begin" /\ h.i = 1 /\ h.list = <<>>
      BY <2>2, ScanCall
    <2>4. Plain(h) /\ Seeks(h) /\ Elems(h.list) = {}
      BY <2>3 DEF Plain, Busy, Finding, Iterating, Seeks, Elems
    <2>5. stack' = <<h>>
      BY <1>1, <1>a, <2>2, <2>3 DEF AddModuleProvider
    <2>6. /\ stack' \in Seq(FrameType) /\ stack' # <<>> /\ stack'[1] = h /\ Tail(stack') = <<>>
          /\ \A x : x \in Elems(stack') <=> x = h
      BY <2>3, <2>5, OneRoutine
    <2>7. ShapeInv(stack', autoScan')
      <3>1. Elems(Tail(stack')) = {} /\ \A x \in Elems(stack') : x.i = 1
        BY <2>3, <2>6, NoElems
      <3> QED
        BY <2>4, <2>6, <3>1 DEF ShapeInv, Plain
    <2>8. TypeOK'
      BY <1>1, <1>2, <2>6 DEF HostModulesInv, TypeOK, FrameType
    <2>10. RescanInv(stack', autoScan', invalid', module_providers', lang')
      BY <2>4, <2>6, RescanSeeks
    <2>11. \A x \in Elems(stack') : \A y \in Elems(x.list) : y \in Elems(loadedModules) \cup LetGo
      BY <2>4, <2>6
    <2>12. CarriesOn(stack', stack)
      BY <2>3, <2>6 DEF CarriesOn
    <2> QED
      BY <1>1, <1>3, <1>4, <2>4, <2>6, <2>7, <2>8, <2>10, <2>11, <2>12, PlainStep
  <1>b. CASE ~ autoScan
    <2>1. stack' = <<>>
      BY <1>1, <1>b DEF AddModuleProvider
    <2>2. Elems(stack') = {}
      BY <2>1, NoElems
    <2>3. ShapeInv(stack', autoScan')
      BY <2>1, <2>2 DEF ShapeInv
    <2>4. stack' \in Seq(FrameType)
      BY <2>1
    <2>5. TypeOK'
      BY <1>1, <1>2, <2>4 DEF HostModulesInv, TypeOK, FrameType
    <2>7. ~ Sound'
      BY <1>1, <1>b, NoElems DEF HostModulesInv, RescanInv, Sound
    <2>8. CarriesOn(stack', stack)
      BY <2>2 DEF CarriesOn
    <2> QED
      BY <1>1, <1>3, <1>4, <2>1, <2>2, <2>3, <2>5, <2>7, <2>8, PlainStep
  <1> QED
    BY <1>a, <1>b

\* The invariant is kept by BeginUnload.
LEMMA BeginUnloadStep ==
    ASSUME HostModulesInv, BeginUnload
    PROVE  HostModulesInv'
  <1>1. /\ phase = "run" /\ stack = <<>> /\ phase' = "unload" /\ module_providers' = <<>>
        /\ stack' = <<Call("UnloadModules", "stop", <<>>)>>
        /\ UNCHANGED <<lang, invalid, loadedModules, autoScan, started, stopped,
                       unloaded, startThrew, initThrew, lateProviders, lateModules>>
    BY DEF BeginUnload
  <1>2. PICK h : h = Call("UnloadModules", "stop", <<>>)
    OBVIOUS
  <1>3. h \in FrameType /\ h.fn = "UnloadModules" /\ h.at = "stop" /\ h.i = 1 /\ h.list = <<>>
    <2>1. h = [fn |-> "UnloadModules", at |-> "stop", i |-> 1, list |-> <<>>]
      BY <1>2 DEF Call
    <2>2. <<>> \in Seq(Files) /\ "UnloadModules" \in Routines /\ "stop" \in Places /\ 1 \in Nat
      BY DEF Routines, Places
    <2>3. h.fn = "UnloadModules" /\ h.at = "stop" /\ h.i = 1 /\ h.list = <<>>
      BY <2>1
    <2> QED
      BY <2>1, <2>2, <2>3 DEF FrameType
  <1>4. Plain(h) /\ Elems(h.list) = {}
    BY <1>3, NoElems DEF Plain, Busy, Finding, Iterating
  <1>5. /\ stack' \in Seq(FrameType) /\ stack' # <<>> /\ stack'[1] = h /\ Tail(stack') = <<>>
        /\ \A x : x \in Elems(stack') <=> x = h
    BY <1>1, <1>2, <1>3, OneRoutine
  <1>6. ShapeInv(stack', autoScan')
    <2>1. Elems(Tail(stack')) = {} /\ \A x \in Elems(stack') : x.i = 1
      BY <1>3, <1>5, NoElems
    <2> QED
      BY <1>4, <1>5, <2>1 DEF ShapeInv, Plain
  <1>7. TypeOK'
    <2>1. <<>> \in Seq(Files \cup {Host})
      OBVIOUS
    <2> QED
      BY <1>1, <1>5, <2>1 DEF HostModulesInv, TypeOK, FrameType
  <1>8. \A x \in LetGo : x \in LetGo'
    BY <1>1 DEF LetGo
  <1>9. ~ Sound'
    BY <1>1 DEF Sound
  <1>11. Elems(module_providers') = {}
    BY <1>1, NoElems
  <1> QED
    BY <1>1, <1>4, <1>5, <1>6, <1>7, <1>8, <1>9, <1>11, PlainStep

\* While UnloadModules runs the host neither loads nor runs.
LEMMA UnloadPhase ==
    ASSUME HostModulesInv, UnloadingInv, NEW f \in Elems(stack), f.fn = "UnloadModules"
    PROVE  phase = "unload" /\ ~ Sound
  <1>1. phase \in {"load", "run", "unload", "done", "failed"}
    BY DEF HostModulesInv, TypeOK
  <1>2. phase = "unload"
    BY <1>1, NoElems DEF UnloadingInv, PhaseInv
  <1> QED
    BY <1>2 DEF Sound

\* The frames after a step that may have changed UnloadModules to g.
Unloads(st2, st, g) ==
    \A x \in Elems(st2) :
        x.fn \in {"UnloadModules", "LoadModules"} => x = g \/ x \in Elems(st)

\* UnloadModules moves on after a call to the module p, which may have registered.
LEMMA UnloadMove ==
    ASSUME HostModulesInv, UnloadingInv, stack # <<>>, NEW f, f = stack[1], f.fn = "UnloadModules",
           NEW g \in FrameType, g.fn = f.fn, g.i > 0,
           \A x \in Elems(g.list) : x \in Elems(f.list) \/ x \in Elems(loadedModules),
           NEW q, Cons(q, g, Tail(stack)), NEW p \in Elems(loadedModules),
           \/ AddModuleProvider(p, q)
           \/ stack' = q /\ UNCHANGED <<module_providers, lateProviders>>,
           UNCHANGED <<lang, phase, invalid, loadedModules, autoScan, started, startThrew,
                       initThrew, lateModules>>,
           stopped' \subseteq Files, unloaded' \subseteq Files, unloaded \subseteq unloaded'
    PROVE  /\ HostModulesInv' /\ Unloads(stack', stack, g)
           /\ LateInv(phase', module_providers', unloaded', lateProviders')
           /\ phase = "unload"
  <1>1. PICK r : r = Tail(stack)
    OBVIOUS
  <1>2. /\ f \in Elems(stack) /\ r \in Seq(FrameType) /\ lateProviders \subseteq Files
        /\ \A x \in Elems(r) : x \in Elems(stack)
    BY <1>1, RoutineFacts
  <1>3. phase = "unload" /\ ~ Sound /\ \A x \in Elems(module_providers) : x \in lateProviders
    BY <1>2, UnloadPhase DEF UnloadingInv, LateInv
  <1>4. p \in Files
    BY DEF HostModulesInv, TypeOK, Elems
  <1>5. Cons(q, g, r) /\ q \in Seq(FrameType) /\ \A x : x \in Elems(q) <=> x = g \/ x \in Elems(r)
    <2>1. Cons(q, g, r)
      BY <1>1
    <2> QED
      BY <1>2, <2>1, ConsFacts
  <1>6. Plain(g) /\ f.fn # "LoadModule" /\ ~ (g.fn = "Scan" /\ g.at = "begin")
    BY DEF Plain, Busy, Finding, Iterating
  <1>7. started' \subseteq Files
    BY DEF HostModulesInv, TypeOK
  <1>8. Cons(q, g, Tail(stack))
    BY <1>1, <1>5
  <1>a. CASE AddModuleProvider(p, q) /\ autoScan
    <2>1. /\ module_providers' \in Seq(Files \cup {Host}) /\ lateProviders' \subseteq Files
          /\ \A x : x \in Elems(module_providers') <=> x \in Elems(module_providers) \/ x = p
          /\ Cons(stack', Call("Scan", "begin", <<>>), q)
      BY <1>4, <1>a, AddProviderFacts
    <2>2. PICK h : h = Call("Scan", "begin", <<>>)
      OBVIOUS
    <2>3. h \in FrameType /\ h.fn = "Scan" /\ h.at = "begin" /\ h.i = 1 /\ h.list = <<>>
      BY <2>2, ScanCall
    <2>4. Plain(h) /\ Elems(h.list) = {} /\ h.fn \notin {"UnloadModules", "LoadModules"}
      BY <2>3 DEF Plain, Busy, Finding, Iterating, Elems
    <2>5. \A x \in Elems(module_providers') :
             x \in Elems(module_providers) \/ x \in Elems(loadedModules) \cup LetGo
      BY <2>1
    <2>6. Cons(stack', h, q)
      BY <2>1, <2>2
    <2>7. HostModulesInv'
      BY <1>3, <1>6, <1>7, <1>8, <2>1, <2>3, <2>4, <2>5, <2>6, CallStep
    <2>8. \A x : x \in Elems(stack') <=> x = h \/ x \in Elems(q)
      BY <1>5, <2>3, <2>6, ConsFacts
    <2>9. Unloads(stack', stack, g)
      BY <1>2, <1>5, <2>4, <2>8 DEF Unloads
    <2>10. LateInv(phase', module_providers', unloaded', lateProviders')
      BY <1>3, <1>a, <2>1 DEF LateInv, AddModuleProvider
    <2> QED
      BY <1>3, <2>7, <2>9, <2>10
  <1>b. CASE AddModuleProvider(p, q) /\ ~ autoScan
    <2>1. /\ module_providers' \in Seq(Files \cup {Host}) /\ lateProviders' \subseteq Files
          /\ \A x : x \in Elems(module_providers') <=> x \in Elems(module_providers) \/ x = p
          /\ stack' = q
      BY <1>4, <1>b, AddProviderFacts
    <2>2. \A x \in Elems(module_providers') :
             x \in Elems(module_providers) \/ x \in Elems(loadedModules) \cup LetGo
      BY <2>1
    <2>3. Cons(stack', g, Tail(stack))
      BY <1>8, <2>1
    <2>4. HostModulesInv'
      BY <1>3, <1>6, <1>7, <2>1, <2>2, <2>3, MoveStep
    <2>5. Unloads(stack', stack, g)
      BY <1>2, <1>5, <2>1 DEF Unloads
    <2>6. LateInv(phase', module_providers', unloaded', lateProviders')
      BY <1>3, <1>b, <2>1 DEF LateInv, AddModuleProvider
    <2> QED
      BY <1>3, <2>4, <2>5, <2>6
  <1>c. CASE stack' = q /\ UNCHANGED <<module_providers, lateProviders>>
    <2>1. /\ module_providers' \in Seq(Files \cup {Host}) /\ lateProviders' \subseteq Files
          /\ module_providers' = module_providers
      BY <1>c DEF HostModulesInv, TypeOK
    <2>3. Cons(stack', g, Tail(stack))
      BY <1>8, <1>c
    <2>4. HostModulesInv'
      BY <1>3, <1>6, <1>7, <2>1, <2>3, MoveStep
    <2>5. Unloads(stack', stack, g)
      BY <1>2, <1>5, <1>c DEF Unloads
    <2>6. LateInv(phase', module_providers', unloaded', lateProviders')
      BY <1>3, <1>c DEF LateInv
    <2> QED
      BY <1>3, <2>4, <2>5, <2>6
  <1> QED
    BY <1>a, <1>b, <1>c

\* What stays true of the frames of UnloadModules that a step leaves alone.
LEMMA UnloadFrames ==
    ASSUME UnloadingInv, NEW g, Unloads(stack', stack, g), phase' = "unload", phase = "unload",
           g.fn = "UnloadModules", LateInv(phase', module_providers', unloaded', lateProviders'),
           loadedModules' = loadedModules, lateModules' = lateModules,
           \A x \in stopped : x \in stopped', \A x \in unloaded : x \in unloaded',
           \A x \in stopped' : x \in Elems(loadedModules) \cup unloaded',
           unloaded' # {} => \A x \in Elems(loadedModules) \cup unloaded' : x \in stopped' \cup lateModules,
           \A x \in Elems(g.list) : x \in unloaded',
           unloaded' # {} \/ Stops(g, loadedModules, stopped')
    PROVE  UnloadingInv'
  <1>1. PhaseInv(stack', phase')
    BY DEF UnloadingInv, PhaseInv, Unloads
  <1>2. ASSUME NEW x \in Elems(stack'), x.fn = "UnloadModules"
        PROVE  (\A y \in Elems(x.list) : y \in unloaded') /\ (unloaded' # {} \/ Stops(x, loadedModules, stopped'))
    <2>1. CASE x = g
      BY <2>1
    <2>2. CASE x \in Elems(stack)
      BY <1>2, <2>2 DEF UnloadingInv, UnloadInv, Stops
    <2> QED
      BY <1>2, <2>1, <2>2 DEF Unloads
  <1>3. UnloadInv(stack', phase', loadedModules', stopped', unloaded', lateModules')
    BY <1>2 DEF UnloadInv
  <1> QED
    BY <1>1, <1>3 DEF UnloadingInv

\* The invariants are kept by StopReturns.
LEMMA StopReturnsStep ==
    ASSUME HostModulesInv, UnloadingInv, NEW provides \in BOOLEAN, StopReturns(provides)
    PROVE  HostModulesInv' /\ UnloadingInv'
  <1>1. PICK f : f = stack[1]
    OBVIOUS
  <1>2. PICK g : g = [f EXCEPT !.i = f.i + 1]
    OBVIOUS
  <1>3. PICK q : q = <<g>> \o Tail(stack)
    OBVIOUS
  <1>4. PICK p : p = loadedModules[f.i]
    OBVIOUS
  <1>5. /\ stack # <<>> /\ f.fn = "UnloadModules" /\ f.at = "stop" /\ f.i <= Len(loadedModules)
        /\ stopped' = stopped \cup {p}
        /\ AddModuleProvider(p, q) \/ (stack' = q /\ UNCHANGED <<module_providers, lateProviders>>)
        /\ UNCHANGED <<lang, phase, invalid, loadedModules, autoScan, started, unloaded,
                       startThrew, initThrew, lateModules>>
    BY <1>1, <1>2, <1>3, <1>4 DEF StopReturns, Stopping, Active, Advance
  <1>6. f \in FrameType /\ f.i \in Nat /\ f.i > 0 /\ f.list \in Seq(Files) /\ f \in Elems(stack)
    BY <1>1, <1>5, RoutineFacts
  <1>7. loadedModules \in Seq(Files) /\ stopped \subseteq Files /\ unloaded \subseteq Files
    BY DEF HostModulesInv, TypeOK
  <1>8. p \in Files /\ p \in Elems(loadedModules)
    BY <1>4, <1>5, <1>6, <1>7 DEF Elems
  <1>9. /\ g \in FrameType /\ g.fn = "UnloadModules" /\ g.at = "stop" /\ g.i = f.i + 1 /\ g.list = f.list
        /\ g.i > 0
    <2>1. f.i + 1 \in Nat /\ f.i + 1 > 0
      BY <1>6
    <2>2. g.i = f.i + 1 /\ g.fn = f.fn /\ g.at = f.at /\ g.list = f.list /\ g \in FrameType
      BY <1>2, <1>6, <2>1 DEF FrameType
    <2> QED
      BY <1>5, <2>1, <2>2
  <1>10. Cons(q, g, Tail(stack))
    BY <1>3 DEF Cons
  <1>11. /\ HostModulesInv' /\ Unloads(stack', stack, g) /\ phase = "unload"
         /\ LateInv(phase', module_providers', unloaded', lateProviders')
    <2>1. stopped' \subseteq Files /\ unloaded' \subseteq Files
      BY <1>5, <1>7, <1>8
    <2>2. UNCHANGED <<lang, phase, invalid, loadedModules, autoScan, started, startThrew,
                      initThrew, lateModules>>
          /\ unloaded' = unloaded
      BY <1>5
    <2>3. g.fn = f.fn /\ \A x \in Elems(g.list) : x \in Elems(f.list) \/ x \in Elems(loadedModules)
      BY <1>5, <1>9
    <2> QED
      BY <1>1, <1>5, <1>8, <1>9, <1>10, <2>1, <2>2, <2>3, UnloadMove
  <1>12. UnloadInv(stack, phase, loadedModules, stopped, unloaded, lateModules)
    BY DEF UnloadingInv
  <1>13. (\A x \in Elems(f.list) : x \in unloaded) /\ (unloaded # {} \/ Stops(f, loadedModules, stopped))
    BY <1>5, <1>6, <1>12 DEF UnloadInv
  <1>14. Stops(f, loadedModules, stopped) => Stops(g, loadedModules, stopped')
    <2> SUFFICES ASSUME Stops(f, loadedModules, stopped)
                 PROVE  Stops(g, loadedModules, stopped')
      OBVIOUS
    <2>1. PICK n : n = Len(loadedModules)
      OBVIOUS
    <2>2. n \in Nat /\ f.i <= n
      BY <1>5, <1>7, <2>1
    <2>3. g.i <= n + 1
      BY <1>6, <1>9, <2>2
    <2>4. ASSUME NEW j \in 1..n, j < g.i
          PROVE  loadedModules[j] \in stopped'
      <3>1. j < f.i \/ j = f.i
        BY <1>6, <1>9, <2>2, <2>4
      <3>2. j < f.i => loadedModules[j] \in stopped
        BY <2>1 DEF Stops
      <3> QED
        BY <1>4, <1>5, <3>1, <3>2
    <2> QED
      BY <1>9, <2>1, <2>3, <2>4 DEF Stops
  <1>15. /\ \A x \in stopped' : x \in Elems(loadedModules) \cup unloaded'
         /\ unloaded' # {} => \A x \in Elems(loadedModules) \cup unloaded' : x \in stopped' \cup lateModules
    BY <1>5, <1>8, <1>12 DEF UnloadInv
  <1>16. UnloadingInv'
    <2>1. \A x \in Elems(g.list) : x \in unloaded'
      BY <1>5, <1>9, <1>13
    <2>2. unloaded' # {} \/ Stops(g, loadedModules, stopped')
      BY <1>5, <1>13, <1>14
    <2>3. /\ \A x \in stopped : x \in stopped'
          /\ \A x \in unloaded : x \in unloaded'
          /\ phase' = "unload" /\ loadedModules' = loadedModules /\ lateModules' = lateModules
      BY <1>5, <1>11
    <2> QED
      BY <1>9, <1>11, <1>15, <2>1, <2>2, <2>3, UnloadFrames
  <1> QED
    BY <1>11, <1>16

\* When all are stopped, what is loaded or unloaded was stopped or came late.
LEMMA AllStoppedFacts ==
    ASSUME HostModulesInv, UnloadingInv, AllStopped
    PROVE  /\ stack # <<>> /\ stack[1].fn = "UnloadModules" /\ stack[1] \in FrameType
           /\ stack[1].i \in Nat /\ stack[1].i > 0 /\ stack[1] \in Elems(stack)
           /\ \A x \in Elems(loadedModules) \cup unloaded : x \in stopped \cup lateModules
  <1>1. /\ stack # <<>> /\ stack[1].fn = "UnloadModules"
        /\ stack[1].at = "unload" \/ (stack[1].at = "stop" /\ stack[1].i > Len(loadedModules))
    BY DEF AllStopped, Active
  <1>2. /\ stack[1] \in FrameType /\ stack[1].i \in Nat /\ stack[1].i > 0 /\ stack[1] \in Elems(stack)
    BY <1>1, RoutineFacts
  <1>3. loadedModules \in Seq(Files)
    BY DEF HostModulesInv, TypeOK
  <1>4. UnloadInv(stack, phase, loadedModules, stopped, unloaded, lateModules)
    BY DEF UnloadingInv
  <1>5. CASE unloaded # {}
    BY <1>1, <1>2, <1>4, <1>5 DEF UnloadInv
  <1>6. CASE unloaded = {}
    <2>1. Stops(stack[1], loadedModules, stopped)
      BY <1>1, <1>2, <1>4, <1>6 DEF UnloadInv
    <2>2. stack[1].i > Len(loadedModules)
      BY <1>1, <2>1 DEF Stops
    <2>3. DOMAIN loadedModules = 1..Len(loadedModules) /\ Len(loadedModules) \in Nat
      BY <1>3
    <2>4. \A j \in 1..Len(loadedModules) : j < stack[1].i
      BY <1>2, <2>2, <2>3
    <2>5. \A j \in DOMAIN loadedModules : loadedModules[j] \in stopped
      BY <2>1, <2>3, <2>4 DEF Stops
    <2> QED
      BY <1>1, <1>2, <1>6, <2>5 DEF Elems
  <1> QED
    BY <1>5, <1>6

\* The first of the loaded modules.
LEMMA FirstModule ==
    ASSUME HostModulesInv, loadedModules # <<>>
    PROVE  Head(loadedModules) \in Files /\ Head(loadedModules) \in Elems(loadedModules)
  <1>1. loadedModules \in Seq(Files)
    BY DEF HostModulesInv, TypeOK
  <1> QED
    BY <1>1, SplitFacts DEF Elems

\* The invariants are kept by UnloadReturns.
LEMMA UnloadReturnsStep ==
    ASSUME HostModulesInv, UnloadingInv, NEW provides \in BOOLEAN, UnloadReturns(provides)
    PROVE  HostModulesInv' /\ UnloadingInv'
  <1>1. PICK f : f = stack[1]
    OBVIOUS
  <1>4. PICK p : p = Head(loadedModules)
    OBVIOUS
  <1>a. PICK l : l = <<p>>
    OBVIOUS
  <1>2. PICK g : g = [f EXCEPT !.at = "erase", !.list = l]
    OBVIOUS
  <1>3. PICK q : q = <<g>> \o Tail(stack)
    OBVIOUS
  <1>5. /\ AllStopped /\ loadedModules # <<>>
        /\ unloaded' = unloaded \cup {p}
        /\ AddModuleProvider(p, q) \/ (stack' = q /\ UNCHANGED <<module_providers, lateProviders>>)
        /\ UNCHANGED <<lang, phase, invalid, loadedModules, autoScan, started, stopped,
                       startThrew, initThrew, lateModules>>
    BY <1>1, <1>2, <1>3, <1>4, <1>a DEF UnloadReturns, Unregister
  <1>6. /\ stack # <<>> /\ f.fn = "UnloadModules" /\ f \in FrameType /\ f.i > 0
        /\ \A x \in Elems(loadedModules) \cup unloaded : x \in stopped \cup lateModules
    BY <1>1, <1>5, AllStoppedFacts
  <1>7. p \in Files /\ p \in Elems(loadedModules)
    BY <1>4, <1>5, FirstModule
  <1>8. l \in Seq(Files) /\ \A x : x \in Elems(l) <=> x = p
    BY <1>7, <1>a, OneElem
  <1>9. g \in FrameType /\ g.fn = "UnloadModules" /\ g.i = f.i /\ g.list = l
    BY <1>2, <1>6, <1>8 DEF FrameType, Places
  <1>10. Cons(q, g, Tail(stack))
    BY <1>3 DEF Cons
  <1>11. /\ HostModulesInv' /\ Unloads(stack', stack, g) /\ phase = "unload"
         /\ LateInv(phase', module_providers', unloaded', lateProviders')
    <2>1. stopped' \subseteq Files /\ unloaded' \subseteq Files /\ unloaded \subseteq unloaded'
      BY <1>5, <1>7 DEF HostModulesInv, TypeOK
    <2>2. UNCHANGED <<lang, phase, invalid, loadedModules, autoScan, started, startThrew,
                      initThrew, lateModules>>
      BY <1>5
    <2>3. /\ g.fn = f.fn /\ g.i > 0
          /\ \A x \in Elems(g.list) : x \in Elems(f.list) \/ x \in Elems(loadedModules)
      BY <1>6, <1>7, <1>8, <1>9
    <2> QED
      BY <1>1, <1>5, <1>6, <1>7, <1>9, <1>10, <2>1, <2>2, <2>3, UnloadMove
  <1>12. UnloadInv(stack, phase, loadedModules, stopped, unloaded, lateModules)
    BY DEF UnloadingInv
  <1>13. /\ \A x \in stopped' : x \in Elems(loadedModules) \cup unloaded'
         /\ \A x \in Elems(loadedModules) \cup unloaded' : x \in stopped' \cup lateModules
    BY <1>5, <1>6, <1>7, <1>12 DEF UnloadInv
  <1>14. UnloadingInv'
    <2>1. (\A x \in Elems(g.list) : x \in unloaded') /\ unloaded' # {}
      BY <1>5, <1>8, <1>9
    <2>2. /\ \A x \in stopped : x \in stopped'
          /\ \A x \in unloaded : x \in unloaded'
          /\ phase' = "unload" /\ loadedModules' = loadedModules /\ lateModules' = lateModules
      BY <1>5, <1>11
    <2> QED
      BY <1>9, <1>11, <1>13, <2>1, <2>2, UnloadFrames
  <1> QED
    BY <1>11, <1>14

\* The invariants are kept by EraseModule.
LEMMA EraseModuleStep ==
    ASSUME HostModulesInv, UnloadingInv, EraseModule
    PROVE  HostModulesInv' /\ UnloadingInv'
  <1>1. PICK f : f = stack[1]
    OBVIOUS
  <1>2. PICK e : e = <<>>
    OBVIOUS
  <1>3. PICK g : g = [f EXCEPT !.at = "unload", !.list = e]
    OBVIOUS
  <1>4. PICK r : r = Tail(stack)
    OBVIOUS
  <1>5. PICK G : G = Elems(f.list)
    OBVIOUS
  <1>6. PICK u : u = Without(loadedModules, G)
    OBVIOUS
  <1>7. /\ stack # <<>> /\ f.fn = "UnloadModules" /\ f.at = "erase"
        /\ loadedModules' = u /\ Cons(stack', g, r)
        /\ UNCHANGED <<lang, phase, module_providers, invalid, autoScan, started, stopped,
                       unloaded, startThrew, initThrew, lateProviders, lateModules>>
    BY <1>1, <1>2, <1>3, <1>4, <1>5, <1>6 DEF EraseModule, Active, Cons
  <1>8. /\ f \in FrameType /\ r \in Seq(FrameType) /\ Calm(r) /\ f \in Elems(stack) /\ f.i > 0
        /\ \A x : x \in Elems(stack) <=> x = f \/ x \in Elems(r)
    BY <1>1, <1>4, <1>7, RoutineFacts
  <1>9. e \in Seq(Files) /\ Elems(e) = {}
    BY <1>2, NoElems
  <1>10. g \in FrameType /\ g.fn = "UnloadModules" /\ g.i = f.i /\ g.list = e
    BY <1>3, <1>7, <1>8, <1>9 DEF FrameType, Places
  <1>11. /\ stack' \in Seq(FrameType) /\ stack' # <<>> /\ stack'[1] = g /\ Tail(stack') = r
         /\ \A x : x \in Elems(stack') <=> x = g \/ x \in Elems(r)
    BY <1>7, <1>8, <1>10, ConsFacts
  <1>12. UnloadInv(stack, phase, loadedModules, stopped, unloaded, lateModules)
    BY DEF UnloadingInv
  <1>13. (\A x \in G : x \in unloaded) /\ unloaded # {} /\ phase = "unload" /\ ~ Sound
    BY <1>5, <1>7, <1>8, <1>12, UnloadPhase DEF UnloadInv, Stops
  <1>14. loadedModules \in Seq(Files) /\ Once(loadedModules)
    BY DEF HostModulesInv, TypeOK, FilesInv
  <1>15. u \in Seq(Files) /\ Elems(u) = Elems(loadedModules) \ G /\ Once(u)
    <2>1. PICK s : s = loadedModules
      OBVIOUS
    <2>2. s \in Seq(Files) /\ u = Without(s, G)
      BY <1>6, <1>14, <2>1
    <2>3. /\ u \in Seq(Files) /\ Elems(u) = Elems(s) \ G
          /\ (\A i, k \in 1..Len(s) : s[i] = s[k] => i = k) =>
                 \A i, k \in 1..Len(u) : u[i] = u[k] => i = k
      BY <2>2, WithoutElems
    <2> QED
      BY <1>14, <2>1, <2>3 DEF Once
  <1>16. TypeOK'
    BY <1>7, <1>11, <1>15 DEF HostModulesInv, TypeOK, FrameType
  <1>17. ShapeInv(stack', autoScan')
    <2>1. g.fn # "LoadModule" /\ g.fn # "Scan" /\ g.i > 0 /\ ~ Busy(g)
      BY <1>8, <1>10 DEF Busy, Finding, Iterating
    <2> QED
      BY <1>7, <1>8, <1>10, <2>1, ShapeMove
  <1>18. FilesInv(stack', invalid', loadedModules')
    <2>1. FilesInv(stack, invalid, loadedModules)
      BY DEF HostModulesInv
    <2> QED
      BY <1>7, <1>10, <1>11, <1>15, <2>1 DEF FilesInv, Finding
  <1>19. ProvidersInv(stack', module_providers', loadedModules', LetGo')
    <2>0. \A x \in Elems(loadedModules) \cup LetGo : x \in Elems(u) \cup LetGo'
      BY <1>7, <1>13, <1>15 DEF LetGo
    <2>1. ASSUME NEW x \in Elems(module_providers)
          PROVE  x \in Elems(u) \cup LetGo' \cup {Host}
      <3>1. x \in Elems(loadedModules) \cup LetGo \cup {Host}
        BY <1>1, <1>7 DEF HostModulesInv, ProvidersInv, Registering
      <3> QED
        BY <2>0, <3>1
    <2>2. ASSUME NEW z \in Elems(stack'), z.fn # "LoadModule", NEW y \in Elems(z.list)
          PROVE  y \in Elems(u) \cup LetGo'
      <3>1. z \in Elems(stack)
        BY <1>8, <1>9, <1>10, <1>11, <2>2
      <3>2. y \in Elems(loadedModules) \cup LetGo
        BY <2>2, <3>1 DEF HostModulesInv, ProvidersInv
      <3> QED
        BY <2>0, <3>2
    <2> QED
      BY <1>7, <2>1, <2>2 DEF ProvidersInv
  <1>20. HostModulesInv'
    <2>1. ~ Sound'
      BY <1>7, <1>13 DEF Sound
    <2> QED
      BY <1>16, <1>17, <1>18, <1>19, <2>1 DEF HostModulesInv
  <1>21. UnloadInv(stack', phase', loadedModules', stopped', unloaded', lateModules')
    <2>1. \A x \in stopped : x \in Elems(u) \cup unloaded
      BY <1>12, <1>13, <1>15 DEF UnloadInv
    <2>2. \A x \in Elems(u) \cup unloaded : x \in stopped \cup lateModules
      BY <1>12, <1>13, <1>15 DEF UnloadInv
    <2>3. ASSUME NEW x \in Elems(stack'), x.fn = "UnloadModules", NEW y \in Elems(x.list)
          PROVE  y \in unloaded
      <3>1. x \in Elems(stack)
        BY <1>8, <1>9, <1>10, <1>11, <2>3
      <3> QED
        BY <1>12, <2>3, <3>1 DEF UnloadInv
    <2> QED
      BY <1>7, <1>13, <2>1, <2>2, <2>3 DEF UnloadInv
  <1>22. PhaseInv(stack', phase') /\ LateInv(phase', module_providers', unloaded', lateProviders')
    BY <1>7, <1>8, <1>10, <1>11, <1>13 DEF UnloadingInv, PhaseInv, LateInv
  <1> QED
    BY <1>20, <1>21, <1>22 DEF UnloadingInv

\* Run is left: nothing is on the stack any more, and the host does not run.
LEMMA LeftStep ==
    ASSUME HostModulesInv, stack # <<>>, stack[1].fn # "LoadModule",
           stack' = <<>>, phase' \in {"done", "failed"},
           UNCHANGED <<lang, module_providers, invalid, loadedModules, autoScan, started,
                       startThrew, initThrew, lateProviders, lateModules>>,
           stopped' \subseteq Files, unloaded' \subseteq Files, unloaded \subseteq unloaded'
    PROVE  HostModulesInv'
  <1>1. stack' \in Seq(FrameType) /\ Elems(stack') = {}
    BY NoElems
  <1>2. started' \subseteq Files /\ autoScan' \in BOOLEAN /\ startThrew' \in BOOLEAN
    BY DEF HostModulesInv, TypeOK
  <1>3. ~ Sound' /\ phase' \in {"load", "run", "unload", "done", "failed"}
    BY DEF Sound
  <1> QED
    BY <1>1, <1>2, <1>3, LeaveStep

\* What remains to be shown of UnloadingInv then.
LEMMA LeftUnloading ==
    ASSUME stack' = <<>>, phase' \in {"done", "failed"},
           \A x \in stopped' : x \in Elems(loadedModules') \cup unloaded',
           unloaded' # {} => \A x \in Elems(loadedModules') \cup unloaded' : x \in stopped' \cup lateModules',
           phase' = "done" => loadedModules' = <<>>,
           LateInv(phase', module_providers', unloaded', lateProviders')
    PROVE  UnloadingInv'
  BY NoElems DEF UnloadingInv, PhaseInv, UnloadInv

\* The invariants are kept by StopThrows.
LEMMA StopThrowsStep ==
    ASSUME HostModulesInv, UnloadingInv, StopThrows
    PROVE  HostModulesInv' /\ UnloadingInv'
  <1>1. PICK p : p = loadedModules[stack[1].i]
    OBVIOUS
  <1>2. /\ stack # <<>> /\ stack[1].fn = "UnloadModules" /\ stack[1].i <= Len(loadedModules)
        /\ stopped' = stopped \cup {p} /\ stack' = <<>> /\ phase' = "failed"
        /\ UNCHANGED <<lang, module_providers, invalid, loadedModules, autoScan, started, unloaded,
                       startThrew, initThrew, lateProviders, lateModules>>
    BY <1>1 DEF StopThrows, Stopping, Active, Abandon
  <1>3. stack[1].i \in Nat /\ stack[1].i > 0 /\ stack[1] \in Elems(stack)
    BY <1>2, RoutineFacts
  <1>4. loadedModules \in Seq(Files)
    BY DEF HostModulesInv, TypeOK
  <1>5. p \in Files /\ p \in Elems(loadedModules)
    BY <1>1, <1>2, <1>3, <1>4 DEF Elems
  <1>6. stopped' \subseteq Files /\ unloaded' \subseteq Files /\ unloaded \subseteq unloaded'
    BY <1>2, <1>5 DEF HostModulesInv, TypeOK
  <1>7. HostModulesInv'
    BY <1>2, <1>6, LeftStep
  <1>8. phase = "unload"
    BY <1>2, <1>3, UnloadPhase
  <1>9. /\ \A x \in stopped' : x \in Elems(loadedModules') \cup unloaded'
        /\ unloaded' # {} =>
              \A x \in Elems(loadedModules') \cup unloaded' : x \in stopped' \cup lateModules'
    BY <1>2, <1>5 DEF UnloadingInv, UnloadInv
  <1>10. LateInv(phase', module_providers', unloaded', lateProviders')
    BY <1>2, <1>8 DEF UnloadingInv, LateInv
  <1> QED
    BY <1>2, <1>7, <1>9, <1>10, LeftUnloading

\* The invariants are kept by UnloadThrows.
LEMMA UnloadThrowsStep ==
    ASSUME HostModulesInv, UnloadingInv, UnloadThrows
    PROVE  HostModulesInv' /\ UnloadingInv'
  <1>1. PICK p : p = Head(loadedModules)
    OBVIOUS
  <1>2. /\ AllStopped /\ loadedModules # <<>>
        /\ unloaded' = unloaded \cup {p} /\ stack' = <<>> /\ phase' = "failed"
        /\ UNCHANGED <<lang, module_providers, invalid, loadedModules, autoScan, started, stopped,
                       startThrew, initThrew, lateProviders, lateModules>>
    BY <1>1 DEF UnloadThrows, Abandon
  <1>3. /\ stack # <<>> /\ stack[1].fn = "UnloadModules" /\ stack[1] \in Elems(stack)
        /\ \A x \in Elems(loadedModules) \cup unloaded : x \in stopped \cup lateModules
    BY <1>2, AllStoppedFacts
  <1>5. p \in Files /\ p \in Elems(loadedModules)
    BY <1>1, <1>2, FirstModule
  <1>6. stopped' \subseteq Files /\ unloaded' \subseteq Files /\ unloaded \subseteq unloaded'
    BY <1>2, <1>5 DEF HostModulesInv, TypeOK
  <1>7. HostModulesInv'
    BY <1>2, <1>3, <1>6, LeftStep
  <1>8. phase = "unload"
    BY <1>3, UnloadPhase
  <1>9. /\ \A x \in stopped' : x \in Elems(loadedModules') \cup unloaded'
        /\ \A x \in Elems(loadedModules') \cup unloaded' : x \in stopped' \cup lateModules'
    BY <1>2, <1>3, <1>5 DEF UnloadingInv, UnloadInv
  <1>10. LateInv(phase', module_providers', unloaded', lateProviders')
    BY <1>2, <1>8 DEF UnloadingInv, LateInv
  <1> QED
    BY <1>2, <1>7, <1>9, <1>10, LeftUnloading

\* The invariants are kept by UnloadModulesEnd.
LEMMA UnloadModulesEndStep ==
    ASSUME HostModulesInv, UnloadingInv, UnloadModulesEnd
    PROVE  HostModulesInv' /\ UnloadingInv'
  <1>1. /\ AllStopped /\ loadedModules = <<>> /\ stack' = <<>> /\ phase' = "done"
        /\ UNCHANGED <<lang, module_providers, invalid, loadedModules, autoScan, started, stopped,
                       unloaded, startThrew, initThrew, lateProviders, lateModules>>
    BY DEF UnloadModulesEnd
  <1>2. /\ stack # <<>> /\ stack[1].fn = "UnloadModules" /\ stack[1] \in Elems(stack)
        /\ \A x \in Elems(loadedModules) \cup unloaded : x \in stopped \cup lateModules
    BY <1>1, AllStoppedFacts
  <1>3. phase = "unload"
    BY <1>2, UnloadPhase
  <1>4. stopped' \subseteq Files /\ unloaded' \subseteq Files /\ unloaded \subseteq unloaded'
    BY <1>1 DEF HostModulesInv, TypeOK
  <1>5. HostModulesInv'
    BY <1>1, <1>2, <1>4, LeftStep
  <1>6. /\ \A x \in stopped' : x \in Elems(loadedModules') \cup unloaded'
        /\ \A x \in Elems(loadedModules') \cup unloaded' : x \in stopped' \cup lateModules'
    BY <1>1, <1>2 DEF UnloadingInv, UnloadInv
  <1>7. LateInv(phase', module_providers', unloaded', lateProviders')
    BY <1>1, <1>3 DEF UnloadingInv, LateInv
  <1> QED
    BY <1>1, <1>5, <1>6, <1>7, LeftUnloading

\* The invariants are kept by AskFreedProvider.
LEMMA AskFreedProviderStep ==
    ASSUME HostModulesInv, UnloadingInv, AskFreedProvider
    PROVE  HostModulesInv' /\ UnloadingInv'
  <1>1. /\ stack # <<>> /\ stack[1].fn = "Scan" /\ stack' = <<>> /\ phase' = "failed"
        /\ UNCHANGED <<lang, module_providers, invalid, loadedModules, autoScan, started, stopped,
                       unloaded, startThrew, initThrew, lateProviders, lateModules>>
    BY DEF AskFreedProvider, Active, Abandon
  <1>2. stopped' \subseteq Files /\ unloaded' \subseteq Files /\ unloaded \subseteq unloaded'
    BY <1>1 DEF HostModulesInv, TypeOK
  <1>3. HostModulesInv'
    BY <1>1, <1>2, LeftStep
  <1>4. /\ \A x \in stopped' : x \in Elems(loadedModules') \cup unloaded'
        /\ unloaded' # {} =>
              \A x \in Elems(loadedModules') \cup unloaded' : x \in stopped' \cup lateModules'
    BY <1>1 DEF UnloadingInv, UnloadInv
  <1>5. LateInv(phase', module_providers', unloaded', lateProviders')
    BY <1>1 DEF UnloadingInv, LateInv
  <1> QED
    BY <1>1, <1>3, <1>4, <1>5, LeftUnloading

-----------------------------------------------------------------------------
(* Steps of an iteration.                                                   *)

\* What lists hold stays true of the routines that stay.
LEMMA ListsOf ==
    ASSUME HostModulesInv, NEW x \in Elems(stack), x.fn # "LoadModule", NEW y \in Elems(x.list)
    PROVE  y \in Elems(loadedModules) \cup LetGo
  BY DEF HostModulesInv, ProvidersInv

\* Outside the registration of a module, every provider is loaded or had thrown.
LEMMA ProvidersOf ==
    ASSUME HostModulesInv, ~ Registering(stack), NEW x \in Elems(module_providers)
    PROVE  x \in Elems(loadedModules) \cup LetGo \cup {Host}
  BY DEF HostModulesInv, ProvidersInv

\* The stack of routines r around one that has moved to g.
LEMMA MovedFacts ==
    ASSUME NEW st, NEW g \in FrameType, NEW r \in Seq(FrameType), Cons(st, g, r)
    PROVE  /\ st \in Seq(FrameType) /\ st # <<>> /\ st[1] = g /\ Tail(st) = r
           /\ \A x : x \in Elems(st) <=> x = g \/ x \in Elems(r)
  BY ConsFacts

\* The invariant is kept by ScanBegin.
LEMMA ScanBeginStep ==
    ASSUME HostModulesInv, ScanBegin
    PROVE  HostModulesInv' /\ CarriesOn(stack', stack)
  <1>1. PICK f : f = stack[1]
    OBVIOUS
  <1>2. PICK g : g = [f EXCEPT !.at = "iterate"]
    OBVIOUS
  <1>3. PICK r : r = Tail(stack)
    OBVIOUS
  <1>4. /\ stack # <<>> /\ f.fn = "Scan" /\ f.at = "begin" /\ autoScan' = FALSE
        /\ Cons(stack', g, r)
        /\ UNCHANGED <<lang, phase, module_providers, invalid, loadedModules,
                       started, stopped, unloaded, startThrew, initThrew, lateProviders, lateModules>>
    BY <1>1, <1>2, <1>3 DEF ScanBegin, Active, Goto, Cons
  <1>5. /\ f \in FrameType /\ r \in Seq(FrameType) /\ Calm(r) /\ f \in Elems(stack)
        /\ \A x : x \in Elems(stack) <=> x = f \/ x \in Elems(r)
    BY <1>1, <1>3, <1>4, RoutineFacts
  <1>6. f.i = 1
    BY <1>4, <1>5 DEF HostModulesInv, ShapeInv
  <1>7. g \in FrameType /\ g.fn = "Scan" /\ g.at = "iterate" /\ g.i = 1 /\ g.list = f.list
    BY <1>2, <1>4, <1>5, <1>6 DEF FrameType, Places
  <1>8. /\ stack' \in Seq(FrameType) /\ stack' # <<>> /\ stack'[1] = g /\ Tail(stack') = r
        /\ \A x : x \in Elems(stack') <=> x = g \/ x \in Elems(r)
    BY <1>4, <1>5, <1>7, MovedFacts
  <1>9. Iterating(g) /\ ~ Finding(g)
    BY <1>7 DEF Iterating, Finding
  <1>10. ShapeInv(stack', autoScan')
    BY <1>4, <1>5, <1>7, ShapeMove
  <1>11. TypeOK'
    BY <1>4, <1>8 DEF HostModulesInv, TypeOK, FrameType
  <1>13. FilesInv(stack', invalid', loadedModules')
    BY <1>4, <1>7, <1>8, <1>9 DEF HostModulesInv, FilesInv
  <1>14. ProvidersInv(stack', module_providers', loadedModules', LetGo')
    <2>1. ~ Registering(stack)
      BY <1>1, <1>4 DEF Registering
    <2>2. \A x \in Elems(module_providers) : x \in Elems(loadedModules) \cup LetGo \cup {Host}
      BY <2>1, ProvidersOf
    <2>3. ASSUME NEW x \in Elems(stack'), x.fn # "LoadModule", NEW y \in Elems(x.list)
          PROVE  y \in Elems(loadedModules) \cup LetGo
      <3>1. CASE x = g
        BY <1>4, <1>5, <1>7, <2>3, <3>1, ListsOf
      <3>2. CASE x \in Elems(r)
        BY <1>5, <2>3, <3>2, ListsOf
      <3> QED
        BY <1>8, <3>1, <3>2
    <2> QED
      BY <1>4, <2>2, <2>3 DEF ProvidersInv, LetGo
  <1>15. RescanInv(stack', autoScan', invalid', module_providers', lang')
    <2>1. \A j \in 1..Len(invalid') : ~ (j < 1)
      OBVIOUS
    <2>2. Behind(g, stack', invalid', module_providers', lang')
      BY <1>7, <2>1 DEF Behind
    <2>3. g \in Elems(stack')
      BY <1>8
    <2> QED
      BY <1>8, <1>9, <2>2, <2>3 DEF RescanInv
  <1>16. CarriesOn(stack', stack)
    BY <1>5, <1>7, <1>8 DEF CarriesOn
  <1> QED
    BY <1>10, <1>11, <1>13, <1>14, <1>15, <1>16 DEF HostModulesInv

\* The frame of a LoadModule that begins.
LEMMA LoadCall ==
    ASSUME NEW x \in Files, NEW h, h = Call("LoadModule", "create", <<x>>)
    PROVE  /\ h \in FrameType /\ h.fn = "LoadModule" /\ h.at = "create" /\ h.i = 1
           /\ h.list = <<x>> /\ h.list[1] = x
  <1>1. h = [fn |-> "LoadModule", at |-> "create", i |-> 1, list |-> <<x>>]
    BY DEF Call
  <1>2. <<x>> \in Seq(Files) /\ "LoadModule" \in Routines /\ "create" \in Places /\ 1 \in Nat
    BY DEF Routines, Places
  <1>3. h.fn = "LoadModule" /\ h.at = "create" /\ h.i = 1 /\ h.list = <<x>>
    BY <1>1
  <1> QED
    BY <1>1, <1>2, <1>3 DEF FrameType

\* An iteration calls LoadModule.
LEMMA LoadStep ==
    ASSUME HostModulesInv, stack # <<>>, NEW f, f = stack[1], Busy(f),
           NEW g \in FrameType, g.fn = f.fn, g.at = f.at, g.i > 0, g.list = f.list,
           NEW x \in Files, NEW h \in FrameType, h.fn = "LoadModule", h.at = "create", h.i = 1,
           h.list = <<x>>, h.list[1] = x,
           NEW q, Cons(q, g, Tail(stack)), Cons(stack', h, q),
           UNCHANGED <<lang, phase, module_providers, invalid, loadedModules,
                       autoScan, started, stopped, unloaded, startThrew, initThrew, lateProviders, lateModules>>,
           x \notin Elems(loadedModules),
           Iterating(g) => g = f /\ g.i <= Len(invalid) /\ invalid[g.i] = x,
           Finding(g) => /\ x \notin Elems(invalid) /\ Ahead(g.i, invalid, loadedModules)
                         /\ \A j \in 1..Len(Dir) : j >= g.i => Dir[j] # x
    PROVE  HostModulesInv' /\ CarriesOn(stack', stack)
  <1>1. PICK r : r = Tail(stack)
    OBVIOUS
  <1>2. f.fn # "LoadModule" /\ f.fn # "UnloadModules"
    BY DEF Busy, Finding, Iterating
  <1>3. /\ f \in FrameType /\ r \in Seq(FrameType) /\ Calm(r) /\ f \in Elems(stack)
        /\ \A y : y \in Elems(stack) <=> y = f \/ y \in Elems(r)
    BY <1>1, <1>2, RoutineFacts
  <1>4. /\ h \in FrameType /\ h.fn = "LoadModule" /\ h.at = "create" /\ h.i = 1
        /\ h.list = <<x>> /\ h.list[1] = x
    OBVIOUS
  <1>5. Busy(g) /\ ~ autoScan
    BY DEF HostModulesInv, ShapeInv, Busy, Finding, Iterating
  <1>6. Cons(q, g, r)
    BY <1>1
  <1>7. /\ q \in Seq(FrameType) /\ q # <<>> /\ q[1] = g /\ Tail(q) = r
        /\ \A y : y \in Elems(q) <=> y = g \/ y \in Elems(r)
    BY <1>3, <1>6, MovedFacts
  <1>8. /\ stack' \in Seq(FrameType) /\ stack' # <<>> /\ stack'[1] = h /\ Tail(stack') = q
        /\ \A y : y \in Elems(stack') <=> y = h \/ y = g \/ y \in Elems(r)
    <2>1. q \in Seq(FrameType) /\ h \in FrameType /\ Cons(stack', h, q)
      BY <1>4, <1>7
    <2>2. /\ stack' \in Seq(FrameType) /\ stack' # <<>> /\ stack'[1] = h /\ Tail(stack') = q
          /\ \A y : y \in Elems(stack') <=> y = h \/ y \in Elems(q)
      BY <2>1, MovedFacts
    <2> QED
      BY <1>7, <2>2
  <1>9. ShapeInv(stack', autoScan')
    <2>1. h.i > 0 /\ ~ autoScan'
      BY <1>4, <1>5
    <2> QED
      BY <1>3, <1>4, <1>5, <1>6, <2>1, ShapeLoad
  <1>10. TypeOK'
    BY <1>8 DEF HostModulesInv, TypeOK, FrameType
  <1>12. FilesInv(stack', invalid', loadedModules')
    <2>1. FilesInv(stack, invalid, loadedModules)
      BY DEF HostModulesInv
    <2>2. ~ Finding(h)
      BY <1>4 DEF Finding
    <2> QED
      BY <1>4, <1>7, <1>8, <2>1, <2>2 DEF FilesInv
  <1>13. ProvidersInv(stack', module_providers', loadedModules', LetGo')
    <2>1. ~ Registering(stack)
      BY <1>2 DEF Registering
    <2>2. \A y \in Elems(module_providers) : y \in Elems(loadedModules) \cup LetGo \cup {Host}
      BY <2>1, ProvidersOf
    <2>3. ASSUME NEW z \in Elems(stack'), z.fn # "LoadModule", NEW y \in Elems(z.list)
          PROVE  y \in Elems(loadedModules) \cup LetGo
      <3>1. CASE z = g
        BY <1>2, <1>3, <2>3, <3>1, ListsOf
      <3>2. CASE z \in Elems(r)
        BY <1>3, <2>3, <3>2, ListsOf
      <3> QED
        BY <1>4, <1>8, <2>3, <3>1, <3>2
    <2> QED
      BY <2>2, <2>3 DEF ProvidersInv, LetGo
  <1>14. ASSUME Sound'
         PROVE  RescanInv(stack', autoScan', invalid', module_providers', lang')
    <2>1. CASE Finding(g)
      <3>1. Seeks(g) /\ g \in Elems(stack')
        BY <1>8, <2>1 DEF Seeks
      <3> QED
        BY <3>1, RescanSeeks
    <2>2. CASE Iterating(g)
      <3>1. g = f /\ ~ Seeks(f) /\ ~ Registering(stack)
        BY <1>2, <2>2 DEF Seeks, Finding, Iterating, Registering
      <3>2. \/ \A y \in Elems(invalid) : ~ Provided(y, module_providers, lang)
            \/ \E y \in Elems(stack) : Seeks(y)
            \/ Behind(f, stack, invalid, module_providers, lang)
        BY <1>2, <1>14 DEF HostModulesInv, RescanInv, Sound
      <3>3. Behind(f, stack, invalid, module_providers, lang) =>
               Behind(g, stack', invalid, module_providers, lang)
        BY <3>1 DEF Behind
      <3>4. g \in Elems(stack') /\ \A y \in Elems(stack) : y \in Elems(stack')
        BY <1>3, <1>8, <3>1
      <3> QED
        BY <1>4, <1>7, <1>8, <2>2, <3>2, <3>3, <3>4 DEF RescanInv
    <2> QED
      BY <1>5, <2>1, <2>2 DEF Busy
  <1>15. CarriesOn(stack', stack)
    BY <1>2, <1>3, <1>4, <1>8 DEF CarriesOn
  <1> QED
    BY <1>9, <1>10, <1>12, <1>13, <1>14, <1>15 DEF HostModulesInv

\* The invariant is kept by FindBasicModules.
LEMMA FindBasicModulesStep ==
    ASSUME HostModulesInv, FindBasicModules
    PROVE  HostModulesInv' /\ CarriesOn(stack', stack)
  <1>1. PICK f : f = stack[1]
    OBVIOUS
  <1>2. PICK x : x = Dir[f.i]
    OBVIOUS
  <1>3. PICK g : g = [f EXCEPT !.i = f.i + 1]
    OBVIOUS
  <1>4. PICK r : r = Tail(stack)
    OBVIOUS
  <1>5. PICK q : q = <<g>> \o r
    OBVIOUS
  <1>6. /\ stack # <<>> /\ f.fn = "LoadModules" /\ f.at = "find" /\ f.i <= Len(Dir)
        /\ lang[x] = Host => /\ stack' = <<Call("LoadModule", "create", <<x>>)>> \o q
                             /\ invalid' = invalid
        /\ lang[x] # Host => /\ stack' = q
                             /\ invalid' = IF x \in Elems(invalid) THEN invalid
                                           ELSE Append(invalid, x)
        /\ UNCHANGED <<lang, phase, module_providers, loadedModules, autoScan,
                       started, stopped, unloaded, startThrew, initThrew, lateProviders, lateModules>>
    BY <1>1, <1>2, <1>3, <1>4, <1>5 DEF FindBasicModules, Active, Advance
  <1>7. /\ f \in FrameType /\ f.i \in Nat /\ f.i > 0 /\ r \in Seq(FrameType) /\ Calm(r) /\ f \in Elems(stack)
        /\ \A y : y \in Elems(stack) <=> y = f \/ y \in Elems(r)
    BY <1>1, <1>4, <1>6, RoutineFacts
  <1>8. /\ g \in FrameType /\ g.fn = "LoadModules" /\ g.at = "find" /\ g.list = f.list
        /\ g.i = f.i + 1 /\ g.i > 0
    <2>1. f.i + 1 \in Nat
      BY <1>7
    <2>2. g.i = f.i + 1 /\ g.fn = f.fn /\ g.at = f.at /\ g.list = f.list /\ g \in FrameType
      BY <1>3, <1>7, <2>1 DEF FrameType
    <2> QED
      BY <1>6, <1>7, <2>2
  <1>9. Finding(f) /\ Finding(g) /\ ~ Iterating(g) /\ Busy(f) /\ Busy(g) /\ Seeks(g)
    BY <1>6, <1>8 DEF Finding, Iterating, Busy, Seeks
  <1>10. /\ x \in Files /\ x \notin Elems(invalid) /\ x \notin Elems(loadedModules)
         /\ \A j \in 1..Len(Dir) : j >= g.i =>
               Dir[j] # x /\ Dir[j] \notin Elems(invalid) \cup Elems(loadedModules)
    <2>1. Ahead(f.i, invalid, loadedModules)
      BY <1>1, <1>6, <1>9 DEF HostModulesInv, FilesInv
    <2>2. f.i \in 1..Len(Dir) /\ Dir \in Seq(Files) /\ DOMAIN Dir = 1..Len(Dir) /\ Len(Dir) \in Nat
      BY <1>6, <1>7, FilesAssumption
    <2>3. x \in Files /\ x \notin Elems(invalid) \cup Elems(loadedModules)
      BY <1>2, <1>7, <2>1, <2>2 DEF Ahead
    <2>4. ASSUME NEW j \in 1..Len(Dir), j >= g.i
          PROVE  Dir[j] # x /\ Dir[j] \notin Elems(invalid) \cup Elems(loadedModules)
      <3>1. j >= f.i /\ j # f.i
        BY <1>7, <1>8, <2>2, <2>4
      <3>2. Dir[j] # Dir[f.i]
        BY <2>2, <3>1, FilesAssumption
      <3> QED
        BY <1>2, <2>1, <3>1, <3>2 DEF Ahead
    <2> QED
      BY <2>3, <2>4
  <1>11. Ahead(g.i, invalid, loadedModules)
    BY <1>10 DEF Ahead
  <1>12. Cons(q, g, r)
    BY <1>5 DEF Cons
  <1>a. CASE lang[x] = Host
    <2>1. PICK h : h = Call("LoadModule", "create", <<x>>)
      OBVIOUS
    <2>2. /\ h \in FrameType /\ h.fn = "LoadModule" /\ h.at = "create" /\ h.i = 1
          /\ h.list = <<x>> /\ h.list[1] = x
      BY <1>10, <2>1, LoadCall
    <2>3. Cons(stack', h, q) /\ invalid' = invalid
      BY <1>6, <1>a, <2>1 DEF Cons
    <2>4. Cons(q, g, Tail(stack))
      BY <1>4, <1>12
    <2> QED
      BY <1>1, <1>6, <1>8, <1>9, <1>10, <1>11, <2>2, <2>3, <2>4, LoadStep
  <1>b. CASE lang[x] # Host
    <2>1. stack' = q /\ Appended(invalid', invalid, x)
      BY <1>6, <1>10, <1>b DEF Appended
    <2>2. Cons(stack', g, r)
      BY <1>12, <2>1
    <2>3. /\ stack' \in Seq(FrameType) /\ stack' # <<>> /\ stack'[1] = g /\ Tail(stack') = r
          /\ \A y : y \in Elems(stack') <=> y = g \/ y \in Elems(r)
      BY <1>7, <1>8, <2>2, MovedFacts
    <2>4. ~ autoScan /\ invalid \in Seq(Files) /\ Once(invalid) /\ Once(loadedModules)
          /\ \A y \in Elems(loadedModules) : y \notin Elems(invalid)
      BY <1>1, <1>6, <1>9 DEF HostModulesInv, ShapeInv, TypeOK, FilesInv
    <2>5. /\ invalid' \in Seq(Files) /\ Once(invalid')
          /\ \A y : y \in Elems(invalid') <=> y \in Elems(invalid) \/ y = x
      BY <1>10, <2>1, <2>4, AppendFacts
    <2>6. ShapeInv(stack', autoScan')
      <3>1. ~ autoScan' /\ g.fn # "LoadModule" /\ g.fn # "Scan" /\ g.i > 0
        BY <1>6, <1>8, <2>4
      <3> QED
        BY <1>7, <1>8, <2>2, <3>1, ShapeMove
    <2>7. TypeOK'
      BY <1>6, <2>3, <2>5 DEF HostModulesInv, TypeOK, FrameType
    <2>9. FilesInv(stack', invalid', loadedModules')
      <3>1. Ahead(g.i, invalid', loadedModules)
        BY <1>10, <2>5 DEF Ahead
      <3>2. \A y \in Elems(loadedModules) : y \notin Elems(invalid')
        BY <1>10, <2>4, <2>5
      <3> QED
        BY <1>6, <1>8, <2>3, <2>4, <2>5, <3>1, <3>2 DEF FilesInv
    <2>10. ProvidersInv(stack', module_providers', loadedModules', LetGo')
      <3>1. ~ Registering(stack)
        BY <1>1, <1>6 DEF Registering
      <3>2. \A y \in Elems(module_providers) : y \in Elems(loadedModules) \cup LetGo \cup {Host}
        BY <3>1, ProvidersOf
      <3>3. ASSUME NEW z \in Elems(stack'), z.fn # "LoadModule", NEW y \in Elems(z.list)
            PROVE  y \in Elems(loadedModules) \cup LetGo
        <4>1. CASE z = g
          BY <1>6, <1>7, <1>8, <3>3, <4>1, ListsOf
        <4>2. CASE z \in Elems(r)
          BY <1>7, <3>3, <4>2, ListsOf
        <4> QED
          BY <2>3, <4>1, <4>2
      <3> QED
        BY <1>6, <3>2, <3>3 DEF ProvidersInv, LetGo
    <2>11. RescanInv(stack', autoScan', invalid', module_providers', lang')
      BY <1>9, <2>3, RescanSeeks
    <2>12. CarriesOn(stack', stack)
      BY <1>6, <1>7, <1>8, <2>3 DEF CarriesOn
    <2> QED
      BY <2>6, <2>7, <2>9, <2>10, <2>11, <2>12 DEF HostModulesInv
  <1> QED
    BY <1>a, <1>b

\* The invariant is kept by ScanNext.
LEMMA ScanNextStep ==
    ASSUME HostModulesInv, ScanNext
    PROVE  HostModulesInv' /\ CarriesOn(stack', stack)
  <1>1. PICK f : f = stack[1]
    OBVIOUS
  <1>2. PICK x : x = invalid[f.i]
    OBVIOUS
  <1>3. PICK g : g = [f EXCEPT !.i = f.i + 1]
    OBVIOUS
  <1>4. PICK r : r = Tail(stack)
    OBVIOUS
  <1>6. /\ stack # <<>> /\ f.fn = "Scan" /\ f.at = "iterate" /\ f.i <= Len(invalid)
        /\ HasProvider(x) => stack' = <<Call("LoadModule", "create", <<x>>)>> \o stack
        /\ ~ HasProvider(x) => stack' = <<g>> \o r
        /\ UNCHANGED <<lang, phase, module_providers, invalid, loadedModules, autoScan,
                       started, stopped, unloaded, startThrew, initThrew, lateProviders, lateModules>>
    BY <1>1, <1>2, <1>3, <1>4 DEF ScanNext, Active, Advance
  <1>7. /\ f \in FrameType /\ f.i \in Nat /\ f.i > 0 /\ r \in Seq(FrameType) /\ Calm(r) /\ f \in Elems(stack)
        /\ \A y : y \in Elems(stack) <=> y = f \/ y \in Elems(r)
        /\ stack \in Seq(FrameType)
    BY <1>1, <1>4, <1>6, RoutineFacts
  <1>8. Iterating(f) /\ ~ Finding(f) /\ Busy(f) /\ ~ Seeks(f)
    BY <1>6 DEF Finding, Iterating, Busy, Seeks
  <1>9. /\ invalid \in Seq(Files) /\ Len(invalid) \in Nat /\ x \in Files
        /\ x \in Elems(invalid) /\ x \notin Elems(loadedModules)
    <2>1. invalid \in Seq(Files)
      BY DEF HostModulesInv, TypeOK
    <2>2. f.i \in DOMAIN invalid /\ f.i \in 1..Len(invalid) /\ Len(invalid) \in Nat
      BY <1>6, <1>7, <2>1
    <2>3. x \in Elems(invalid) /\ x \in Files
      BY <1>2, <2>1, <2>2 DEF Elems
    <2> QED
      BY <2>1, <2>2, <2>3 DEF HostModulesInv, FilesInv
  <1>a. CASE HasProvider(x)
    <2>1. PICK h : h = Call("LoadModule", "create", <<x>>)
      OBVIOUS
    <2>2. /\ h \in FrameType /\ h.fn = "LoadModule" /\ h.at = "create" /\ h.i = 1
          /\ h.list = <<x>> /\ h.list[1] = x
      BY <1>9, <2>1, LoadCall
    <2>3. Cons(stack', h, stack)
      BY <1>6, <1>a, <2>1 DEF Cons
    <2>4. Cons(stack, f, Tail(stack))
      BY <1>1, <1>6, <1>7, SplitFacts
    <2> QED
      BY <1>1, <1>2, <1>6, <1>7, <1>8, <1>9, <2>2, <2>3, <2>4, LoadStep
  <1>b. CASE ~ HasProvider(x)
    <2>1. /\ g \in FrameType /\ g.fn = "Scan" /\ g.at = "iterate" /\ g.list = f.list
          /\ g.i = f.i + 1 /\ g.i > 0
      <3>1. f.i + 1 \in Nat
        BY <1>7
      <3>2. g.i = f.i + 1 /\ g.fn = f.fn /\ g.at = f.at /\ g.list = f.list /\ g \in FrameType
        BY <1>3, <1>7, <3>1 DEF FrameType
      <3> QED
        BY <1>6, <1>7, <3>2
    <2>2. Cons(stack', g, r)
      BY <1>6, <1>b DEF Cons
    <2>3. /\ stack' \in Seq(FrameType) /\ stack' # <<>> /\ stack'[1] = g /\ Tail(stack') = r
          /\ \A y : y \in Elems(stack') <=> y = g \/ y \in Elems(r)
      BY <1>7, <2>1, <2>2, MovedFacts
    <2>4. Iterating(g) /\ ~ Finding(g)
      BY <2>1 DEF Iterating, Finding
    <2>5. ~ autoScan /\ FilesInv(stack, invalid, loadedModules)
      BY <1>1, <1>6, <1>8 DEF HostModulesInv, ShapeInv
    <2>6. ShapeInv(stack', autoScan')
      BY <1>6, <1>7, <2>1, <2>2, <2>5, ShapeMove
    <2>7. TypeOK'
      BY <1>6, <2>3 DEF HostModulesInv, TypeOK, FrameType
    <2>9. FilesInv(stack', invalid', loadedModules')
      BY <1>6, <2>1, <2>3, <2>4, <2>5 DEF FilesInv
    <2>10. ProvidersInv(stack', module_providers', loadedModules', LetGo')
      <3>1. ~ Registering(stack)
        BY <1>1, <1>6 DEF Registering
      <3>2. \A y \in Elems(module_providers) : y \in Elems(loadedModules) \cup LetGo \cup {Host}
        BY <3>1, ProvidersOf
      <3>3. ASSUME NEW z \in Elems(stack'), z.fn # "LoadModule", NEW y \in Elems(z.list)
            PROVE  y \in Elems(loadedModules) \cup LetGo
        <4>1. CASE z = g
          BY <1>6, <1>7, <2>1, <3>3, <4>1, ListsOf
        <4>2. CASE z \in Elems(r)
          BY <1>7, <3>3, <4>2, ListsOf
        <4> QED
          BY <2>3, <4>1, <4>2
      <3> QED
        BY <1>6, <3>2, <3>3 DEF ProvidersInv, LetGo
    <2>11. ASSUME Sound
           PROVE  RescanInv(stack', autoScan', invalid', module_providers', lang')
      <3>1. \/ \A y \in Elems(invalid) : ~ Provided(y, module_providers, lang)
            \/ \E y \in Elems(stack) : Seeks(y)
            \/ Behind(f, stack, invalid, module_providers, lang)
        BY <1>1, <1>6, <2>11 DEF HostModulesInv, RescanInv
      <3>2. ~ Provided(invalid[f.i], module_providers, lang)
        BY <1>2, <1>b DEF HasProvider, Provided
      <3>3. \A j \in 1..Len(invalid) : j < g.i => j < f.i \/ j = f.i
        BY <1>7, <1>9, <2>1
      <3>4. Behind(f, stack, invalid, module_providers, lang) =>
               Behind(g, stack', invalid, module_providers, lang)
        BY <1>1, <1>6, <2>1, <3>2, <3>3 DEF Behind, Registering
      <3>5. g \in Elems(stack') /\ \A y \in Elems(stack) : Seeks(y) => y \in Elems(stack')
        BY <1>7, <1>8, <2>3
      <3>6. RescanInv(stack', autoScan, invalid, module_providers, lang)
        BY <2>3, <2>4, <3>1, <3>4, <3>5 DEF RescanInv
      <3> QED
        BY <1>6, <3>6
    <2>12. Sound' => Sound
      BY <1>6 DEF Sound
    <2>13. CarriesOn(stack', stack)
      BY <1>7, <2>1, <2>3 DEF CarriesOn
    <2> QED
      BY <2>6, <2>7, <2>9, <2>10, <2>11, <2>12, <2>13 DEF HostModulesInv
  <1> QED
    BY <1>a, <1>b

-----------------------------------------------------------------------------
(* Steps of LoadModule.                                                     *)

Joined(u, s, t) == u = s \o t

\* The elements of two vectors put together.
LEMMA ConcatFacts ==
    ASSUME NEW S, NEW s \in Seq(S), NEW t \in Seq(S), NEW u, Joined(u, s, t)
    PROVE  /\ u \in Seq(S)
           /\ \A y \in Elems(u) : y \in Elems(s) \/ y \in Elems(t)
           /\ s # <<>> \/ t # <<>> => u # <<>>
  <1>1. PICK n : n = Len(s)
    OBVIOUS
  <1>2. PICK m : m = Len(t)
    OBVIOUS
  <1>3. /\ n \in Nat /\ m \in Nat /\ DOMAIN s = 1..n /\ DOMAIN t = 1..m
        /\ u \in Seq(S) /\ Len(u) = n + m /\ DOMAIN u = 1..n + m
        /\ \A i \in 1..n + m : u[i] = IF i <= n THEN s[i] ELSE t[i - n]
    BY <1>1, <1>2 DEF Joined
  <1>4. ASSUME NEW y \in Elems(u)
        PROVE  y \in Elems(s) \/ y \in Elems(t)
    <2>1. PICK i \in 1..n + m : y = u[i]
      BY <1>3 DEF Elems
    <2>2. CASE i <= n
      <3>1. i \in 1..n /\ y = s[i]
        BY <1>3, <2>1, <2>2
      <3> QED
        BY <1>3, <3>1 DEF Elems
    <2>3. CASE ~ (i <= n)
      <3>1. i - n \in 1..m /\ y = t[i - n]
        BY <1>3, <2>1, <2>3
      <3> QED
        BY <1>3, <3>1 DEF Elems
    <2> QED
      BY <2>2, <2>3
  <1>5. s # <<>> \/ t # <<>> => n + m > 0
    BY <1>1, <1>2, <1>3
  <1>6. n + m > 0 => u # <<>>
    BY <1>3
  <1> QED
    BY <1>3, <1>4, <1>5, <1>6

\* What the invariant says of LoadModule and of the iteration that called it.
LEMMA LoadFacts ==
    ASSUME HostModulesInv, stack # <<>>, stack[1].fn = "LoadModule",
           NEW q, q = Tail(stack), NEW c, c = q[1], NEW w, w = Tail(q)
    PROVE  /\ stack \in Seq(FrameType) /\ stack[1] \in FrameType /\ stack[1].i > 0
           /\ q \in Seq(FrameType) /\ q # <<>> /\ stack[2] = c
           /\ c \in FrameType /\ w \in Seq(FrameType) /\ Cons(q, c, w)
           /\ Busy(c) /\ c.i > 0 /\ Calm(w) /\ ~ autoScan
           /\ \E x \in Files : stack[1].list = <<x>>
           /\ \A y : y \in Elems(stack) <=> y = stack[1] \/ y = c \/ y \in Elems(w)
  <1>1. /\ stack \in Seq(FrameType) /\ stack[1] \in FrameType /\ q \in Seq(FrameType)
        /\ \A x : x \in Elems(stack) <=> x = stack[1] \/ x \in Elems(q)
        /\ stack[1].i > 0
    BY RoutineFacts
  <1>2. /\ q # <<>> /\ Busy(c) /\ ~ autoScan
        /\ \A f \in Elems(w) : Plain(f)
        /\ \E x \in Files : stack[1].list = <<x>>
        /\ \A f \in Elems(stack) : f.i > 0 /\ (f.fn = "Scan" /\ f.at = "begin" => f.i = 1)
    BY DEF HostModulesInv, ShapeInv
  <1>3. /\ c \in FrameType /\ w \in Seq(FrameType) /\ Cons(q, c, w)
        /\ \A x : x \in Elems(q) <=> x = c \/ x \in Elems(w)
    BY <1>1, <1>2, SplitFacts
  <1>4. stack[2] = c
    BY <1>1, <1>2, SplitFacts
  <1>5. Calm(w) /\ c.i > 0
    BY <1>1, <1>2, <1>3 DEF Calm
  <1> QED
    BY <1>1, <1>2, <1>3, <1>4, <1>5

\* LoadModule moves on.
LEMMA LoadMove ==
    ASSUME HostModulesInv, stack # <<>>, NEW f, f = stack[1],
           f.fn = "LoadModule", f.at # "register",
           NEW g \in FrameType, g.fn = "LoadModule", g.i = f.i, g.list = f.list,
           Cons(stack', g, Tail(stack)),
           UNCHANGED <<lang, phase, invalid, loadedModules, autoScan, started, stopped,
                       unloaded, startThrew, initThrew, lateModules>>,
           lateProviders' \subseteq Files,
           module_providers' \in Seq(Files \cup {Host}),
           \A x \in Elems(module_providers') :
               x \in Elems(module_providers) \/ (g.at = "register" /\ x \in Elems(g.list)),
           g.at = "register" \/ module_providers' = module_providers
    PROVE  HostModulesInv' /\ CarriesOn(stack', stack)
  <1>1. PICK q : q = Tail(stack)
    OBVIOUS
  <1>2. PICK c : c = q[1]
    OBVIOUS
  <1>3. PICK w : w = Tail(q)
    OBVIOUS
  <1>4. /\ stack \in Seq(FrameType) /\ f \in FrameType /\ f.i > 0
        /\ q \in Seq(FrameType) /\ q # <<>>
        /\ c \in FrameType /\ w \in Seq(FrameType) /\ Cons(q, c, w)
        /\ Busy(c) /\ c.i > 0 /\ Calm(w) /\ ~ autoScan
        /\ \A y : y \in Elems(stack) <=> y = f \/ y = c \/ y \in Elems(w)
    BY <1>1, <1>2, <1>3, LoadFacts
  <1>5. \E x \in Files : f.list = <<x>>
    BY <1>1, <1>2, <1>3, LoadFacts
  <1>6. Cons(stack', g, q)
    BY <1>1
  <1>7. /\ stack' \in Seq(FrameType) /\ stack' # <<>> /\ stack'[1] = g /\ Tail(stack') = q
        /\ \A y : y \in Elems(stack') <=> y = g \/ y = c \/ y \in Elems(w)
    <2>1. \A y : y \in Elems(q) <=> y = c \/ y \in Elems(w)
      BY <1>4, MovedFacts
    <2>2. /\ stack' \in Seq(FrameType) /\ stack' # <<>> /\ stack'[1] = g /\ Tail(stack') = q
          /\ \A y : y \in Elems(stack') <=> y = g \/ y \in Elems(q)
      BY <1>4, <1>6, MovedFacts
    <2> QED
      BY <2>1, <2>2
  <1>8. ShapeInv(stack', autoScan')
    <2>1. PICK x \in Files : f.list = <<x>>
      BY <1>5
    <2>2. g.list = <<x>> /\ g.i > 0 /\ ~ autoScan'
      BY <1>4, <2>1
    <2> QED
      BY <1>4, <1>6, <2>2, ShapeLoad
  <1>9. TypeOK'
    BY <1>7 DEF HostModulesInv, TypeOK, FrameType
  <1>11. FilesInv(stack', invalid', loadedModules')
    <2>1. FilesInv(stack, invalid, loadedModules)
      BY DEF HostModulesInv
    <2>2. ~ Finding(g)
      BY DEF Finding
    <2> QED
      BY <1>1, <1>7, <2>1, <2>2 DEF FilesInv
  <1>12. ProvidersInv(stack', module_providers', loadedModules', LetGo')
    <2>1. ~ Registering(stack)
      BY DEF Registering
    <2>2. \A y \in Elems(module_providers) : y \in Elems(loadedModules) \cup LetGo \cup {Host}
      BY <2>1, ProvidersOf
    <2>3. ASSUME NEW z \in Elems(stack'), z.fn # "LoadModule", NEW y \in Elems(z.list)
          PROVE  y \in Elems(loadedModules) \cup LetGo
      <3>1. z \in Elems(stack)
        BY <1>4, <1>7, <2>3
      <3> QED
        BY <2>3, <3>1, ListsOf
    <2>4. g.at = "register" => Registering(stack')
      BY <1>7 DEF Registering
    <2>5. \A x \in Elems(module_providers') :
             \/ x \in Elems(loadedModules) \cup LetGo \cup {Host}
             \/ Registering(stack') /\ x \in Elems(stack'[1].list)
      BY <1>7, <2>2, <2>4
    <2> QED
      BY <2>3, <2>5 DEF ProvidersInv, LetGo
  <1>13. ASSUME Sound'
         PROVE  RescanInv(stack', autoScan', invalid', module_providers', lang')
    <2>0. c \in Elems(stack')
      BY <1>7
    <2>1. CASE Finding(c)
      <3>1. Seeks(c)
        BY <2>1 DEF Seeks
      <3> QED
        BY <2>0, <3>1, RescanSeeks
    <2>2. CASE Iterating(c) /\ g.at = "register"
      <3>1. Behind(c, stack', invalid', module_providers', lang')
        BY <1>7, <2>2 DEF Behind, Registering
      <3> QED
        BY <1>2, <1>7, <2>0, <2>2, <3>1 DEF RescanInv
    <2>3. CASE Iterating(c) /\ module_providers' = module_providers
      <3>1. ~ Registering(stack) /\ ~ Seeks(f) /\ ~ Iterating(f)
        BY DEF Registering, Seeks, Finding, Iterating
      <3>2. \/ \A y \in Elems(invalid) : ~ Provided(y, module_providers, lang)
            \/ \E y \in Elems(stack) : Seeks(y)
            \/ Behind(c, stack, invalid, module_providers, lang)
        BY <1>1, <1>2, <1>13, <3>1 DEF HostModulesInv, RescanInv, Sound
      <3>3. Behind(c, stack, invalid, module_providers, lang) =>
               Behind(c, stack', invalid, module_providers, lang)
        BY <3>1 DEF Behind
      <3>4. \A y \in Elems(stack) : Seeks(y) => y \in Elems(stack')
        BY <1>4, <1>7, <3>1
      <3>5. RescanInv(stack', autoScan, invalid, module_providers, lang)
        BY <1>2, <1>7, <2>0, <2>3, <3>2, <3>3, <3>4 DEF RescanInv
      <3> QED
        BY <2>3, <3>5
    <2> QED
      BY <1>4, <2>1, <2>2, <2>3 DEF Busy
  <1>14. CarriesOn(stack', stack)
    BY <1>4, <1>7 DEF CarriesOn
  <1> QED
    BY <1>8, <1>9, <1>11, <1>12, <1>13, <1>14 DEF HostModulesInv

\* The invariant is kept by CreateModule.
LEMMA CreateModuleStep ==
    ASSUME HostModulesInv, CreateModule
    PROVE  HostModulesInv' /\ CarriesOn(stack', stack)
  <1>1. PICK f : f = stack[1]
    OBVIOUS
  <1>2. PICK g : g = [f EXCEPT !.at = "initialize"]
    OBVIOUS
  <1>3. /\ stack # <<>> /\ f.fn = "LoadModule" /\ f.at = "create"
        /\ Cons(stack', g, Tail(stack))
        /\ UNCHANGED <<lang, phase, module_providers, invalid, loadedModules,
                       autoScan, started, stopped, unloaded, startThrew, initThrew, lateProviders, lateModules>>
    BY <1>1, <1>2 DEF CreateModule, Active, Goto, Cons
  <1>4. f \in FrameType
    BY <1>1, <1>3, RoutineFacts
  <1>5. g \in FrameType /\ g.fn = "LoadModule" /\ g.i = f.i /\ g.list = f.list /\ g.at = "initialize"
    BY <1>2, <1>3, <1>4 DEF FrameType, Places
  <1>6. module_providers' \in Seq(Files \cup {Host}) /\ lateProviders' \subseteq Files
    BY <1>3 DEF HostModulesInv, TypeOK
  <1> QED
    BY <1>1, <1>3, <1>5, <1>6, LoadMove

\* The invariant is kept by InitializeReturns.
LEMMA InitializeReturnsStep ==
    ASSUME HostModulesInv, NEW provides \in BOOLEAN, InitializeReturns(provides)
    PROVE  HostModulesInv' /\ CarriesOn(stack', stack)
  <1>1. PICK f : f = stack[1]
    OBVIOUS
  <1>2. PICK g : g = [f EXCEPT !.at = "register"]
    OBVIOUS
  <1>3. PICK q : q = <<g>> \o Tail(stack)
    OBVIOUS
  <1>4. PICK p : p = f.list[1]
    OBVIOUS
  <1>5. /\ stack # <<>> /\ f.fn = "LoadModule" /\ f.at = "initialize"
        /\ provides => AddModuleProvider(p, q)
        /\ ~ provides => stack' = q /\ UNCHANGED <<module_providers, lateProviders>>
        /\ UNCHANGED <<lang, phase, invalid, loadedModules, autoScan, started,
                       stopped, unloaded, startThrew, initThrew, lateModules>>
    BY <1>1, <1>2, <1>3, <1>4 DEF InitializeReturns, Active, Goto
  <1>6. f \in FrameType /\ ~ autoScan
    BY <1>1, <1>5, RoutineFacts DEF HostModulesInv, ShapeInv
  <1>7. g \in FrameType /\ g.fn = "LoadModule" /\ g.i = f.i /\ g.list = f.list /\ g.at = "register"
    BY <1>2, <1>5, <1>6 DEF FrameType, Places
  <1>8. p \in Files /\ p \in Elems(f.list)
    <2>1. PICK x \in Files : f.list = <<x>>
      BY <1>1, <1>5 DEF HostModulesInv, ShapeInv
    <2> QED
      BY <1>4, <2>1, OneElem
  <1>9. stack' = q /\ module_providers' \in Seq(Files \cup {Host}) /\ lateProviders' \subseteq Files
        /\ \A x \in Elems(module_providers') : x \in Elems(module_providers) \/ x = p
    <2>1. CASE provides
      BY <1>5, <1>6, <1>8, <2>1, AddProviderFacts
    <2>2. CASE ~ provides
      BY <1>5, <2>2 DEF HostModulesInv, TypeOK
    <2> QED
      BY <2>1, <2>2
  <1>10. Cons(stack', g, Tail(stack))
    BY <1>3, <1>9 DEF Cons
  <1>11. \A x \in Elems(module_providers') :
            x \in Elems(module_providers) \/ (g.at = "register" /\ x \in Elems(g.list))
    BY <1>7, <1>8, <1>9
  <1>12. f.at # "register"
    BY <1>5
  <1> QED
    BY <1>1, <1>5, <1>7, <1>9, <1>10, <1>11, <1>12, LoadMove

\* LoadModule returns to the iteration that called it.
LEMMA ReturnStep ==
    ASSUME HostModulesInv, stack # <<>>, NEW f, f = stack[1], f.fn = "LoadModule",
           NEW x \in Files, x = f.list[1], \A y \in Elems(f.list) : y = x,
           NEW result \in Seq(Files), LoadModuleReturns(result),
           UNCHANGED <<lang, phase, module_providers, autoScan, started, stopped,
                       unloaded, startThrew, lateProviders>>,
           lateModules' \subseteq Files,
           initThrew' \subseteq Files, \A y \in initThrew : y \in initThrew',
           loadedModules' \in Seq(Files), Once(loadedModules'),
           \A y \in Elems(loadedModules) : y \in Elems(loadedModules'),
           \A y \in Elems(loadedModules') : y \in Elems(loadedModules) \/ y = x,
           \A y \in Elems(result) : y \in Elems(loadedModules') \cup initThrew',
           f.at = "register" => x \in Elems(loadedModules') /\ result # <<>>
    PROVE  HostModulesInv' /\ CarriesOn(stack', stack)
  <1>1. PICK q : q = Tail(stack)
    OBVIOUS
  <1>2. PICK c : c = q[1]
    OBVIOUS
  <1>3. PICK w : w = Tail(q)
    OBVIOUS
  <1>4. /\ stack \in Seq(FrameType) /\ stack[2] = c
        /\ c \in FrameType /\ w \in Seq(FrameType)
        /\ Busy(c) /\ c.i > 0 /\ Calm(w) /\ ~ autoScan
        /\ \A y : y \in Elems(stack) <=> y = f \/ y = c \/ y \in Elems(w)
    BY <1>1, <1>2, <1>3, LoadFacts
  <1>5. c.fn # "LoadModule" /\ (c.fn = "Scan" <=> Iterating(c)) /\ (c.fn # "Scan" <=> Finding(c))
    BY <1>4 DEF Busy, Finding, Iterating
  <1>6. PICK l : l = c.list \o result
    OBVIOUS
  <1>7. PICK d : d = IF c.fn = "Scan" THEN [c EXCEPT !.list = l] ELSE c
    OBVIOUS
  <1>8. /\ Cons(stack', d, w)
        /\ c.fn = "Scan" => invalid' = Delete(invalid, c.i)
        /\ c.fn # "Scan" => invalid' = invalid
    BY <1>1, <1>3, <1>4, <1>6, <1>7 DEF LoadModuleReturns, Cons
  <1>9. c.list \in Seq(Files) /\ c.i \in Nat
    BY <1>4 DEF FrameType
  <1>10. /\ l \in Seq(Files) /\ \A y \in Elems(l) : y \in Elems(c.list) \/ y \in Elems(result)
         /\ c.list # <<>> \/ result # <<>> => l # <<>>
    <2>1. Joined(l, c.list, result)
      BY <1>6 DEF Joined
    <2> QED
      BY <1>9, <2>1, ConcatFacts
  <1>11. /\ d \in FrameType /\ d.fn = c.fn /\ d.at = c.at /\ d.i = c.i
         /\ \A y \in Elems(d.list) : y \in Elems(c.list) \/ y \in Elems(result)
         /\ c.fn = "Scan" /\ (c.list # <<>> \/ result # <<>>) => d.list # <<>>
    <2>1. CASE c.fn = "Scan"
      <3>1. d = [c EXCEPT !.list = l]
        BY <1>7, <2>1
      <3>2. d \in FrameType /\ d.fn = c.fn /\ d.at = c.at /\ d.i = c.i /\ d.list = l
        BY <1>4, <1>10, <3>1 DEF FrameType
      <3> QED
        BY <1>10, <3>2
    <2>2. CASE c.fn # "Scan"
      BY <1>4, <1>7, <2>2
    <2> QED
      BY <2>1, <2>2
  <1>12. /\ stack' \in Seq(FrameType) /\ stack' # <<>> /\ stack'[1] = d /\ Tail(stack') = w
         /\ \A y : y \in Elems(stack') <=> y = d \/ y \in Elems(w)
    BY <1>4, <1>8, <1>11, MovedFacts
  <1>13. (Finding(c) <=> Finding(d)) /\ (Iterating(c) <=> Iterating(d))
    BY <1>11 DEF Finding, Iterating
  <1>14. /\ Once(invalid) /\ invalid \in Seq(Files)
         /\ \A y \in Elems(loadedModules) : y \notin Elems(invalid)
         /\ x \notin Elems(loadedModules)
         /\ Iterating(c) => c.i <= Len(invalid) /\ invalid[c.i] = x
         /\ Finding(c) => /\ x \notin Elems(invalid)
                          /\ Ahead(c.i, invalid, loadedModules)
                          /\ \A j \in 1..Len(Dir) : j >= c.i => Dir[j] # x
    BY <1>1, <1>2 DEF HostModulesInv, TypeOK, FilesInv
  <1>15. /\ invalid' \in Seq(Files) /\ Once(invalid')
         /\ \A y \in Elems(invalid') : y \in Elems(invalid) /\ y # x
         /\ Iterating(c) => \A j \in 1..Len(invalid') :
               j < c.i => j \in 1..Len(invalid) /\ invalid'[j] = invalid[j]
    <2>1. CASE Iterating(c)
      <3>1. c.i \in 1..Len(invalid) /\ invalid' = Delete(invalid, c.i)
        BY <1>4, <1>5, <1>8, <1>9, <1>14, <2>1
      <3>2. /\ invalid' \in Seq(Files) /\ Once(invalid')
            /\ \A y : y \in Elems(invalid') <=> y \in Elems(invalid) /\ y # invalid[c.i]
            /\ \A j \in 1..Len(invalid') : j < c.i => j \in 1..Len(invalid) /\ invalid'[j] = invalid[j]
        BY <1>14, <3>1, DeleteFacts
      <3> QED
        BY <1>14, <2>1, <3>2
    <2>2. CASE Finding(c)
      BY <1>5, <1>8, <1>14, <2>2
    <2> QED
      BY <1>4, <2>1, <2>2 DEF Busy
  <1>16. ShapeInv(stack', autoScan')
    <2>1. /\ d.fn # "LoadModule" /\ d.i > 0 /\ ~ autoScan'
          /\ ~ (d.fn = "Scan" /\ d.at = "begin")
      BY <1>4, <1>5, <1>11 DEF Iterating
    <2> QED
      BY <1>4, <1>8, <1>11, <2>1, ShapeMove
  <1>17. TypeOK'
    BY <1>12, <1>15 DEF HostModulesInv, TypeOK, FrameType
  <1>19. FilesInv(stack', invalid', loadedModules')
    <2>1. \A y \in Elems(loadedModules') : y \notin Elems(invalid')
      BY <1>14, <1>15
    <2>2. Finding(d) => Ahead(d.i, invalid', loadedModules')
      BY <1>11, <1>13, <1>14, <1>15 DEF Ahead
    <2>3. d.fn # "LoadModule"
      BY <1>5, <1>11
    <2> QED
      BY <1>12, <1>15, <2>1, <2>2, <2>3 DEF FilesInv
  <1>0. LetGo \subseteq LetGo' /\ initThrew' \subseteq LetGo'
    BY DEF LetGo
  <1>20. ProvidersInv(stack', module_providers', loadedModules', LetGo')
    <2>1. ASSUME NEW y \in Elems(module_providers)
          PROVE  y \in Elems(loadedModules') \cup LetGo' \cup {Host}
      <3>1. \/ y \in Elems(loadedModules) \cup LetGo \cup {Host}
            \/ f.at = "register" /\ y \in Elems(f.list)
        BY DEF HostModulesInv, ProvidersInv, Registering
      <3> QED
        BY <1>0, <3>1
    <2>2. ASSUME NEW z \in Elems(stack'), z.fn # "LoadModule", NEW y \in Elems(z.list)
          PROVE  y \in Elems(loadedModules') \cup LetGo'
      <3>1. CASE z = d /\ y \in Elems(result)
        BY <1>0, <3>1
      <3>2. CASE z = d /\ y \in Elems(c.list)
        <4>1. y \in Elems(loadedModules) \cup LetGo
          BY <1>4, <1>5, <3>2, ListsOf
        <4> QED
          BY <1>0, <4>1
      <3>3. CASE z \in Elems(w)
        <4>1. y \in Elems(loadedModules) \cup LetGo
          BY <1>4, <2>2, <3>3, ListsOf
        <4> QED
          BY <1>0, <4>1
      <3> QED
        BY <1>11, <1>12, <2>2, <3>1, <3>2, <3>3
    <2> QED
      BY <2>1, <2>2 DEF ProvidersInv
  <1>21. ASSUME Sound'
         PROVE  RescanInv(stack', autoScan', invalid', module_providers', lang')
    <2>0. d \in Elems(stack')
      BY <1>12
    <2>1. CASE Finding(c)
      <3>1. Seeks(d)
        BY <1>13, <2>1 DEF Seeks
      <3> QED
        BY <2>0, <3>1, RescanSeeks
    <2>2. CASE Iterating(c)
      <3>1. ~ Seeks(f) /\ ~ Iterating(f) /\ ~ Seeks(c) /\ c.fn = "Scan"
        BY <2>2 DEF Seeks, Finding, Iterating
      <3>2. \/ \A y \in Elems(invalid) : ~ Provided(y, module_providers, lang)
            \/ \E y \in Elems(stack) : Seeks(y)
            \/ Behind(c, stack, invalid, module_providers, lang)
        BY <1>1, <1>2, <1>21, <3>1 DEF HostModulesInv, RescanInv, Sound
      <3>3. Behind(c, stack, invalid, module_providers, lang) =>
               Behind(d, stack', invalid', module_providers, lang)
        <4>1. CASE c.list # <<>> \/ Registering(stack)
          BY <1>11, <3>1, <4>1 DEF Behind, Registering
        <4>2. CASE \A j \in 1..Len(invalid) : j < c.i => ~ Provided(invalid[j], module_providers, lang)
          BY <1>11, <1>15, <2>2, <4>2 DEF Behind
        <4> QED
          BY <4>1, <4>2 DEF Behind
      <3>4. \A y \in Elems(stack) : Seeks(y) => y \in Elems(stack')
        BY <1>4, <1>12, <3>1
      <3>5. RescanInv(stack', autoScan, invalid', module_providers, lang)
        BY <1>12, <1>13, <1>15, <2>0, <2>2, <3>2, <3>3, <3>4 DEF RescanInv
      <3> QED
        BY <3>5
    <2> QED
      BY <1>4, <2>1, <2>2 DEF Busy
  <1>22. CarriesOn(stack', stack)
    <2>1. c.fn = "Scan" \/ c.fn = "LoadModules"
      BY <1>5 DEF Finding, Iterating
    <2>2. d.fn = c.fn /\ d.fn # "UnloadModules" /\ c \in Elems(stack)
      BY <1>4, <1>11, <2>1
    <2>3. \A y \in Elems(stack') : y = d \/ y \in Elems(stack)
      BY <1>4, <1>12
    <2> QED
      BY ONLY <2>2, <2>3, Zenon DEF CarriesOn
  <1> QED
    BY <1>16, <1>17, <1>19, <1>20, <1>21, <1>22 DEF HostModulesInv

\* The module LoadModule loads.
LEMMA LoadedModule ==
    ASSUME HostModulesInv, stack # <<>>, NEW f, f = stack[1], f.fn = "LoadModule"
    PROVE  \E x \in Files : /\ x = f.list[1] /\ f.list = <<x>> /\ f.list # <<>>
                            /\ \A y : y \in Elems(f.list) <=> y = x
                            /\ x \notin Elems(loadedModules)
  <1>1. PICK x \in Files : f.list = <<x>>
    BY DEF HostModulesInv, ShapeInv
  <1>2. x = f.list[1] /\ f.list # <<>> /\ \A y : y \in Elems(f.list) <=> y = x
    BY <1>1, OneElem
  <1>3. x \notin Elems(loadedModules)
    BY <1>2 DEF HostModulesInv, FilesInv
  <1> QED
    BY <1>1, <1>2, <1>3

\* What the invariant says of loadedModules.
LEMMA LoadedFacts ==
    ASSUME HostModulesInv
    PROVE  /\ loadedModules \in Seq(Files) /\ Once(loadedModules) /\ initThrew \subseteq Files
           /\ lateModules \subseteq Files
  BY DEF HostModulesInv, TypeOK, FilesInv

\* The invariant is kept by CreateModuleThrows.
LEMMA CreateModuleThrowsStep ==
    ASSUME HostModulesInv, CreateModuleThrows
    PROVE  HostModulesInv' /\ CarriesOn(stack', stack)
  <1>1. PICK f : f = stack[1]
    OBVIOUS
  <1>2. PICK result : result = <<>>
    OBVIOUS
  <1>3. /\ stack # <<>> /\ f.fn = "LoadModule" /\ f.at = "create" /\ LoadModuleReturns(result)
        /\ UNCHANGED <<lang, phase, module_providers, loadedModules, autoScan,
                       started, stopped, unloaded, startThrew, initThrew, lateProviders, lateModules>>
    BY <1>1, <1>2 DEF CreateModuleThrows, Active
  <1>4. PICK x \in Files : x = f.list[1] /\ \A y : y \in Elems(f.list) <=> y = x
    BY <1>1, <1>3, LoadedModule
  <1>5. result \in Seq(Files) /\ Elems(result) = {}
    BY <1>2, NoElems
  <1>6. loadedModules' \in Seq(Files) /\ Once(loadedModules') /\ initThrew' \subseteq Files
    BY <1>3, LoadedFacts
  <1>7. f.at # "register" /\ loadedModules' = loadedModules /\ initThrew' = initThrew
    BY <1>3
  <1>8. UNCHANGED <<lang, phase, module_providers, autoScan, started, stopped, unloaded, startThrew,
                  lateProviders>>
        /\ lateModules' \subseteq Files
    BY <1>3, LoadedFacts
  <1> QED
    BY <1>1, <1>3, <1>4, <1>5, <1>6, <1>7, <1>8, ReturnStep

\* The invariant is kept by InitializeThrows.
LEMMA InitializeThrowsStep ==
    ASSUME HostModulesInv, InitializeThrows
    PROVE  HostModulesInv' /\ CarriesOn(stack', stack)
  <1>1. PICK f : f = stack[1]
    OBVIOUS
  <1>2. PICK result : result = f.list
    OBVIOUS
  <1>3. /\ stack # <<>> /\ f.fn = "LoadModule" /\ f.at = "initialize" /\ LoadModuleReturns(result)
        /\ initThrew' = initThrew \cup Elems(result)
        /\ UNCHANGED <<lang, phase, module_providers, loadedModules, autoScan,
                       started, stopped, unloaded, startThrew, lateProviders, lateModules>>
    BY <1>1, <1>2 DEF InitializeThrows, Active
  <1>4. PICK x \in Files : x = f.list[1] /\ \A y : y \in Elems(f.list) <=> y = x
    BY <1>1, <1>3, LoadedModule
  <1>5. result \in Seq(Files)
    BY <1>1, <1>2, <1>3, RoutineFacts
  <1>6. loadedModules' \in Seq(Files) /\ Once(loadedModules') /\ initThrew' \subseteq Files
    BY <1>2, <1>3, <1>4, LoadedFacts
  <1>7. f.at # "register" /\ loadedModules' = loadedModules
        /\ (\A y \in initThrew : y \in initThrew') /\ (\A y \in Elems(result) : y \in initThrew')
    BY <1>3
  <1>8. UNCHANGED <<lang, phase, module_providers, autoScan, started, stopped, unloaded, startThrew,
                  lateProviders>>
        /\ lateModules' \subseteq Files
    BY <1>3, LoadedFacts
  <1> QED
    BY <1>1, <1>3, <1>4, <1>5, <1>6, <1>7, <1>8, ReturnStep

\* The invariant is kept by RegisterModule.
LEMMA RegisterModuleStep ==
    ASSUME HostModulesInv, RegisterModule
    PROVE  HostModulesInv' /\ CarriesOn(stack', stack)
  <1>1. PICK f : f = stack[1]
    OBVIOUS
  <1>2. PICK result : result = f.list
    OBVIOUS
  <1>3. /\ stack # <<>> /\ f.fn = "LoadModule" /\ f.at = "register" /\ LoadModuleReturns(result)
        /\ loadedModules' = loadedModules \o f.list
        /\ lateModules' = IF unloaded # {} THEN lateModules \cup Elems(f.list) ELSE lateModules
        /\ UNCHANGED <<lang, phase, module_providers, autoScan, started, stopped,
                       unloaded, startThrew, initThrew, lateProviders>>
    BY <1>1, <1>2 DEF RegisterModule, Active
  <1>4. PICK x \in Files : /\ x = f.list[1] /\ f.list = <<x>> /\ f.list # <<>>
                           /\ \A y : y \in Elems(f.list) <=> y = x
                           /\ x \notin Elems(loadedModules)
    BY <1>1, <1>3, LoadedModule
  <1>5. result \in Seq(Files) /\ result # <<>>
    BY <1>1, <1>2, <1>3, <1>4, RoutineFacts
  <1>6. Appended(loadedModules', loadedModules, x)
    BY <1>3, <1>4 DEF Appended
  <1>7. loadedModules \in Seq(Files) /\ Once(loadedModules) /\ initThrew \subseteq Files
    BY LoadedFacts
  <1>8. /\ loadedModules' \in Seq(Files) /\ Once(loadedModules')
        /\ \A y : y \in Elems(loadedModules') <=> y \in Elems(loadedModules) \/ y = x
    BY <1>4, <1>6, <1>7, AppendFacts
  <1>9. /\ \A y \in Elems(f.list) : y = x
        /\ \A y \in Elems(result) : y \in Elems(loadedModules') \cup initThrew'
        /\ x \in Elems(loadedModules')
    BY <1>2, <1>4, <1>8
  <1>10. x = f.list[1] /\ initThrew' \subseteq Files /\ (\A y \in initThrew : y \in initThrew')
    BY <1>3, <1>4, <1>7
  <1>11. UNCHANGED <<lang, phase, module_providers, autoScan, started, stopped, unloaded, startThrew,
                    lateProviders>>
         /\ lateModules' \subseteq Files
    BY <1>3, <1>4, LoadedFacts
  <1>12. stack # <<>> /\ f.fn = "LoadModule" /\ LoadModuleReturns(result)
    BY <1>3
  <1>13. \A y \in Elems(loadedModules) : y \in Elems(loadedModules')
    BY <1>8
  <1>14. \A y \in Elems(loadedModules') : y \in Elems(loadedModules) \/ y = x
    BY <1>8
  <1>15. loadedModules' \in Seq(Files) /\ Once(loadedModules')
    BY <1>8
  <1> QED
    BY <1>1, <1>5, <1>9, <1>10, <1>11, <1>12, <1>13, <1>14, <1>15, ReturnStep

-----------------------------------------------------------------------------
(* The invariant holds.                                                     *)

\* The invariant holds initially.
LEMMA HostModulesInvInit ==
    ASSUME Init
    PROVE  HostModulesInv /\ UnloadingInv
  <1>1. PICK h : h = Call("LoadModules", "find", <<>>)
    OBVIOUS
  <1>2. h \in FrameType /\ h.fn = "LoadModules" /\ h.at = "find" /\ h.i = 1 /\ h.list = <<>>
    <2>1. h = [fn |-> "LoadModules", at |-> "find", i |-> 1, list |-> <<>>]
      BY <1>1 DEF Call
    <2>2. <<>> \in Seq(Files) /\ "LoadModules" \in Routines /\ "find" \in Places /\ 1 \in Nat
      BY DEF Routines, Places
    <2>3. h.fn = "LoadModules" /\ h.at = "find" /\ h.i = 1 /\ h.list = <<>>
      BY <2>1
    <2> QED
      BY <2>1, <2>2, <2>3 DEF FrameType
  <1>3. stack = <<h>>
    BY <1>1 DEF Init
  <1>4. /\ stack \in Seq(FrameType) /\ stack # <<>> /\ stack[1] = h /\ Tail(stack) = <<>>
        /\ \A x : x \in Elems(stack) <=> x = h
    BY <1>2, <1>3, OneRoutine
  <1>5. /\ lang \in [Files -> Files \cup {Host, Nobody}]
        /\ phase = "load" /\ invalid = <<>> /\ loadedModules = <<>>
        /\ autoScan = FALSE /\ started = {} /\ stopped = {} /\ unloaded = {}
        /\ startThrew = FALSE /\ initThrew = {} /\ lateProviders = {} /\ lateModules = {}
    BY DEF Init
  <1>6. module_providers \in Seq(Files \cup {Host}) /\ \A x : x \in Elems(module_providers) <=> x = Host
    <2>1. module_providers = <<Host>>
      BY DEF Init
    <2>2. <<Host>> \in Seq(Files \cup {Host})
      OBVIOUS
    <2> QED
      BY <2>1, <2>2, OneElem
  <1>7. Elems(invalid) = {} /\ Elems(loadedModules) = {} /\ Elems(h.list) = {} /\ Elems(Tail(stack)) = {}
    BY <1>2, <1>4, <1>5, NoElems
  <1>8. Finding(h) /\ Seeks(h) /\ ~ Iterating(h)
    BY <1>2 DEF Finding, Seeks, Iterating
  <1>9. TypeOK
    <2>1. invalid \in Seq(Files) /\ loadedModules \in Seq(Files)
      BY <1>5
    <2> QED
      BY <1>4, <1>5, <1>6, <2>1 DEF TypeOK, FrameType
  <1>10. ShapeInv(stack, autoScan)
    BY <1>2, <1>4, <1>5, <1>7 DEF ShapeInv
  <1>11. PhaseInv(stack, phase) /\ LateInv(phase, module_providers, unloaded, lateProviders)
    BY <1>2, <1>4, <1>5 DEF PhaseInv, LateInv
  <1>12. FilesInv(stack, invalid, loadedModules)
    <2>1. Once(invalid) /\ Once(loadedModules)
      BY <1>5 DEF Once
    <2>2. Ahead(h.i, invalid, loadedModules)
      BY <1>7 DEF Ahead
    <2> QED
      BY <1>2, <1>4, <1>7, <2>1, <2>2 DEF FilesInv
  <1>13. ProvidersInv(stack, module_providers, loadedModules, LetGo)
    BY <1>4, <1>6, <1>7 DEF ProvidersInv
  <1>14. RescanInv(stack, autoScan, invalid, module_providers, lang)
    BY <1>4, <1>8, RescanSeeks
  <1>15. UnloadInv(stack, phase, loadedModules, stopped, unloaded, lateModules)
    BY <1>2, <1>4, <1>5 DEF UnloadInv
  <1> QED
    BY <1>9, <1>10, <1>11, <1>12, <1>13, <1>14, <1>15 DEF HostModulesInv, UnloadingInv

\* UnloadingInv is kept by a step that leaves what it speaks of alone, and where
\* a module that is appended to loadedModules is a late one if any was unloaded.
LEMMA UnloadingKept ==
    ASSUME HostModulesInv, UnloadingInv, CarriesOn(stack', stack),
           phase' = phase \/ (phase \in {"load", "run"} /\ phase' = "run"),
           phase \in {"done", "failed"} => FALSE,
           UNCHANGED <<stopped, unloaded>>,
           loadedModules' \in Seq(Files), Len(loadedModules) <= Len(loadedModules'),
           \A j \in 1..Len(loadedModules) : loadedModules'[j] = loadedModules[j],
           \A x \in Elems(loadedModules) : x \in Elems(loadedModules'),
           \A x \in lateModules : x \in lateModules',
           unloaded # {} => \A x \in Elems(loadedModules') : x \in Elems(loadedModules) \cup lateModules',
           LateInv(phase', module_providers', unloaded', lateProviders')
    PROVE  UnloadingInv'
  <1>1. PhaseInv(stack', phase')
    BY DEF UnloadingInv, PhaseInv, CarriesOn
  <1>2. UnloadInv(stack, phase, loadedModules, stopped, unloaded, lateModules)
    BY DEF UnloadingInv
  <1>3. /\ phase' \in {"load", "run"} => stopped' = {} /\ unloaded' = {}
        /\ \A x \in stopped' : x \in Elems(loadedModules') \cup unloaded'
        /\ unloaded' # {} =>
              \A x \in Elems(loadedModules') \cup unloaded' : x \in stopped' \cup lateModules'
        /\ phase' # "done"
    BY <1>2 DEF UnloadInv
  <1>4. ASSUME NEW f \in Elems(stack'), f.fn = "UnloadModules"
        PROVE  /\ \A x \in Elems(f.list) : x \in unloaded'
               /\ unloaded' # {} \/ Stops(f, loadedModules', stopped')
    <2>1. f \in Elems(stack)
      BY <1>4 DEF CarriesOn
    <2>2. /\ \A x \in Elems(f.list) : x \in unloaded
          /\ unloaded # {} \/ Stops(f, loadedModules, stopped)
      BY <1>2, <1>4, <2>1 DEF UnloadInv
    <2>3. ASSUME Stops(f, loadedModules, stopped)
          PROVE  Stops(f, loadedModules', stopped')
      <3>1. PICK n : n = Len(loadedModules)
        OBVIOUS
      <3>2. PICK m : m = Len(loadedModules')
        OBVIOUS
      <3>3. n \in Nat /\ m \in Nat /\ n <= m /\ f.i \in Nat
        <4>1. loadedModules \in Seq(Files) /\ stack \in Seq(FrameType)
          BY DEF HostModulesInv, TypeOK, FrameType
        <4>2. f \in FrameType
          BY <2>1, <4>1 DEF Elems
        <4> QED
          BY <3>1, <3>2, <4>1, <4>2, ModulesTypes
      <3>4. f.at = "stop" /\ f.i <= n + 1 /\ \A j \in 1..n : j < f.i => loadedModules[j] \in stopped
        BY <2>3, <3>1 DEF Stops
      <3>5. f.i <= m + 1
        BY <3>3, <3>4
      <3>6. ASSUME NEW j \in 1..m, j < f.i
            PROVE  loadedModules'[j] \in stopped'
        <4>1. j \in 1..n
          BY <3>3, <3>4, <3>6
        <4> QED
          BY <3>1, <3>4, <3>6, <4>1
      <3> QED
        BY <3>2, <3>4, <3>5, <3>6 DEF Stops
    <2> QED
      BY <2>2, <2>3
  <1>5. UnloadInv(stack', phase', loadedModules', stopped', unloaded', lateModules')
    BY <1>3, <1>4 DEF UnloadInv
  <1> QED
    BY <1>1, <1>5 DEF UnloadingInv

\* Providers are dropped before modules are unloaded: later ones are late.
LEMMA LateKept ==
    ASSUME HostModulesInv, UnloadingInv, NEW p \in Files, NEW frames, AddModuleProvider(p, frames),
           phase # "done", unloaded # {} => phase = "unload", UNCHANGED <<phase, unloaded>>
    PROVE  LateInv(phase', module_providers', unloaded', lateProviders')
  <1>1. \A x : x \in Elems(module_providers') <=> x \in Elems(module_providers) \/ x = p
    BY AddProviderFacts
  <1>2. lateProviders' = IF phase = "unload" THEN lateProviders \cup {p} ELSE lateProviders
    BY DEF AddModuleProvider
  <1> QED
    BY <1>1, <1>2 DEF UnloadingInv, LateInv

\* While a routine is active the host has not stopped.
LEMMA ActivePhase ==
    ASSUME HostModulesInv, UnloadingInv, stack # <<>>
    PROVE  /\ phase \in {"load", "run", "unload"} /\ (unloaded # {} => phase = "unload")
           /\ loadedModules \in Seq(Files) /\ Len(loadedModules) <= Len(loadedModules)
           /\ stack[1].fn = "LoadModules" => phase \in {"load", "run"}
  <1>1. phase \in {"load", "run", "unload", "done", "failed"} /\ loadedModules \in Seq(Files)
    BY DEF HostModulesInv, TypeOK
  <1>2. phase \in {"load", "run", "unload"}
    BY <1>1 DEF UnloadingInv, PhaseInv
  <1>3. unloaded # {} => phase = "unload"
    BY <1>2 DEF UnloadingInv, UnloadInv
  <1>4. stack[1] \in Elems(stack)
    BY RoutineFacts
  <1>5. stack[1].fn = "LoadModules" => phase \in {"load", "run"}
    BY <1>2, <1>4 DEF UnloadingInv, PhaseInv
  <1>6. Len(loadedModules) <= Len(loadedModules)
    BY <1>1
  <1> QED
    BY <1>1, <1>2, <1>3, <1>5, <1>6

\* A routine moves, calls or returns and nothing else happens to the modules.
LEMMA UnloadingQuiet ==
    ASSUME HostModulesInv, UnloadingInv, stack # <<>>, CarriesOn(stack', stack),
           phase' = phase \/ (phase \in {"load", "run"} /\ phase' = "run"),
           UNCHANGED <<stopped, unloaded, loadedModules, lateModules, module_providers, lateProviders>>
    PROVE  UnloadingInv'
  <1>1. LateInv(phase', module_providers', unloaded', lateProviders')
    BY DEF UnloadingInv, LateInv
  <1> QED
    BY <1>1, ActivePhase, UnloadingKept

\* Steps that leave the unloading of modules alone.
LEMMA CreateModuleThrowsUnloading ==
    ASSUME HostModulesInv, UnloadingInv, CreateModuleThrows
    PROVE  HostModulesInv' /\ UnloadingInv'
  <1>1. HostModulesInv' /\ CarriesOn(stack', stack)
    BY CreateModuleThrowsStep
  <1>2. /\ stack # <<>>
        /\ UNCHANGED <<phase, stopped, unloaded, loadedModules, lateModules, module_providers,
                       lateProviders>>
    BY DEF CreateModuleThrows, Active
  <1> QED
    BY <1>1, <1>2, UnloadingQuiet

\* The invariants are kept by CreateModule.
LEMMA CreateModuleUnloading ==
    ASSUME HostModulesInv, UnloadingInv, CreateModule
    PROVE  HostModulesInv' /\ UnloadingInv'
  <1>1. HostModulesInv' /\ CarriesOn(stack', stack)
    BY CreateModuleStep
  <1>2. /\ stack # <<>>
        /\ UNCHANGED <<phase, stopped, unloaded, loadedModules, lateModules, module_providers,
                       lateProviders>>
    BY DEF CreateModule, Active
  <1> QED
    BY <1>1, <1>2, UnloadingQuiet

\* The invariants are kept by InitializeThrows.
LEMMA InitializeThrowsUnloading ==
    ASSUME HostModulesInv, UnloadingInv, InitializeThrows
    PROVE  HostModulesInv' /\ UnloadingInv'
  <1>1. HostModulesInv' /\ CarriesOn(stack', stack)
    BY InitializeThrowsStep
  <1>2. /\ stack # <<>>
        /\ UNCHANGED <<phase, stopped, unloaded, loadedModules, lateModules, module_providers,
                       lateProviders>>
    BY DEF InitializeThrows, Active
  <1> QED
    BY <1>1, <1>2, UnloadingQuiet

\* The invariants are kept by FindBasicModules.
LEMMA FindBasicModulesUnloading ==
    ASSUME HostModulesInv, UnloadingInv, FindBasicModules
    PROVE  HostModulesInv' /\ UnloadingInv'
  <1>1. HostModulesInv' /\ CarriesOn(stack', stack)
    BY FindBasicModulesStep
  <1>2. /\ stack # <<>>
        /\ UNCHANGED <<phase, stopped, unloaded, loadedModules, lateModules, module_providers,
                       lateProviders>>
    BY DEF FindBasicModules, Active
  <1> QED
    BY <1>1, <1>2, UnloadingQuiet

\* The invariants are kept by LoadModulesScan.
LEMMA LoadModulesScanUnloading ==
    ASSUME HostModulesInv, UnloadingInv, LoadModulesScan
    PROVE  HostModulesInv' /\ UnloadingInv'
  <1>1. HostModulesInv' /\ CarriesOn(stack', stack)
    BY LoadModulesScanStep
  <1>2. /\ stack # <<>>
        /\ UNCHANGED <<phase, stopped, unloaded, loadedModules, lateModules, module_providers,
                       lateProviders>>
    BY DEF LoadModulesScan, Active
  <1> QED
    BY <1>1, <1>2, UnloadingQuiet

\* The invariants are kept by LoadModulesStart.
LEMMA LoadModulesStartUnloading ==
    ASSUME HostModulesInv, UnloadingInv, LoadModulesStart
    PROVE  HostModulesInv' /\ UnloadingInv'
  <1>1. HostModulesInv' /\ CarriesOn(stack', stack)
    BY LoadModulesStartStep
  <1>2. /\ stack # <<>>
        /\ UNCHANGED <<phase, stopped, unloaded, loadedModules, lateModules, module_providers,
                       lateProviders>>
    BY DEF LoadModulesStart, Active
  <1> QED
    BY <1>1, <1>2, UnloadingQuiet

\* The invariants are kept by ScanBegin.
LEMMA ScanBeginUnloading ==
    ASSUME HostModulesInv, UnloadingInv, ScanBegin
    PROVE  HostModulesInv' /\ UnloadingInv'
  <1>1. HostModulesInv' /\ CarriesOn(stack', stack)
    BY ScanBeginStep
  <1>2. /\ stack # <<>>
        /\ UNCHANGED <<phase, stopped, unloaded, loadedModules, lateModules, module_providers,
                       lateProviders>>
    BY DEF ScanBegin, Active
  <1> QED
    BY <1>1, <1>2, UnloadingQuiet

\* The invariants are kept by ScanNext.
LEMMA ScanNextUnloading ==
    ASSUME HostModulesInv, UnloadingInv, ScanNext
    PROVE  HostModulesInv' /\ UnloadingInv'
  <1>1. HostModulesInv' /\ CarriesOn(stack', stack)
    BY ScanNextStep
  <1>2. /\ stack # <<>>
        /\ UNCHANGED <<phase, stopped, unloaded, loadedModules, lateModules, module_providers,
                       lateProviders>>
    BY DEF ScanNext, Active
  <1> QED
    BY <1>1, <1>2, UnloadingQuiet

\* The invariants are kept by ScanStart.
LEMMA ScanStartUnloading ==
    ASSUME HostModulesInv, UnloadingInv, ScanStart
    PROVE  HostModulesInv' /\ UnloadingInv'
  <1>1. HostModulesInv' /\ CarriesOn(stack', stack)
    BY ScanStartStep
  <1>2. /\ stack # <<>>
        /\ UNCHANGED <<phase, stopped, unloaded, loadedModules, lateModules, module_providers,
                       lateProviders>>
    BY DEF ScanStart, Active
  <1> QED
    BY <1>1, <1>2, UnloadingQuiet

\* The invariants are kept by ScanAgain.
LEMMA ScanAgainUnloading ==
    ASSUME HostModulesInv, UnloadingInv, ScanAgain
    PROVE  HostModulesInv' /\ UnloadingInv'
  <1>1. HostModulesInv' /\ CarriesOn(stack', stack)
    BY ScanAgainStep
  <1>2. /\ stack # <<>>
        /\ UNCHANGED <<phase, stopped, unloaded, loadedModules, lateModules, module_providers,
                       lateProviders>>
    BY DEF ScanAgain, Active
  <1> QED
    BY <1>1, <1>2, UnloadingQuiet

\* The invariants are kept by ScanEnd.
LEMMA ScanEndUnloading ==
    ASSUME HostModulesInv, UnloadingInv, ScanEnd
    PROVE  HostModulesInv' /\ UnloadingInv'
  <1>1. HostModulesInv' /\ CarriesOn(stack', stack)
    BY ScanEndStep
  <1>2. /\ stack # <<>>
        /\ UNCHANGED <<phase, stopped, unloaded, loadedModules, lateModules, module_providers,
                       lateProviders>>
    BY DEF ScanEnd, Active
  <1> QED
    BY <1>1, <1>2, UnloadingQuiet

\* The invariants are kept by StartModulesEnd.
LEMMA StartModulesEndUnloading ==
    ASSUME HostModulesInv, UnloadingInv, StartModulesEnd
    PROVE  HostModulesInv' /\ UnloadingInv'
  <1>1. HostModulesInv' /\ CarriesOn(stack', stack)
    BY StartModulesEndStep
  <1>2. /\ stack # <<>>
        /\ UNCHANGED <<phase, stopped, unloaded, loadedModules, lateModules, module_providers,
                       lateProviders>>
    BY DEF StartModulesEnd, Active
  <1> QED
    BY <1>1, <1>2, UnloadingQuiet

\* The invariants are kept by LoadModulesEnd.
LEMMA LoadModulesEndUnloading ==
    ASSUME HostModulesInv, UnloadingInv, LoadModulesEnd
    PROVE  HostModulesInv' /\ UnloadingInv'
  <1>1. HostModulesInv' /\ CarriesOn(stack', stack)
    BY LoadModulesEndStep
  <1>2. /\ stack # <<>> /\ stack[1].fn = "LoadModules" /\ phase' = "run"
        /\ UNCHANGED <<stopped, unloaded, loadedModules, lateModules, module_providers,
                       lateProviders>>
    BY DEF LoadModulesEnd, Active
  <1>3. phase \in {"load", "run"}
    BY <1>2, ActivePhase
  <1> QED
    BY <1>1, <1>2, <1>3, UnloadingQuiet

\* The invariants are kept by RegisterModule.
LEMMA RegisterModuleUnloading ==
    ASSUME HostModulesInv, UnloadingInv, RegisterModule
    PROVE  HostModulesInv' /\ UnloadingInv'
  <1>1. HostModulesInv' /\ CarriesOn(stack', stack)
    BY RegisterModuleStep
  <1>2. PICK f : f = stack[1]
    OBVIOUS
  <1>3. /\ stack # <<>> /\ f.fn = "LoadModule"
        /\ loadedModules' = loadedModules \o f.list
        /\ lateModules' = IF unloaded # {} THEN lateModules \cup Elems(f.list) ELSE lateModules
        /\ UNCHANGED <<phase, module_providers, stopped, unloaded, lateProviders>>
    BY <1>2 DEF RegisterModule, Active
  <1>4. f.list \in Seq(Files)
    BY <1>2, <1>3, RoutineFacts
  <1>5. loadedModules \in Seq(Files) /\ phase \in {"load", "run", "unload"}
    BY <1>3, ActivePhase
  <1>6. PICK s : s = loadedModules
    OBVIOUS
  <1>7. PICK l : l = f.list
    OBVIOUS
  <1>8. PICK u : u = s \o l
    OBVIOUS
  <1>9. s \in Seq(Files) /\ l \in Seq(Files) /\ Joined(u, s, l)
    BY <1>4, <1>5, <1>6, <1>7, <1>8 DEF Joined
  <1>10. u \in Seq(Files) /\ Len(u) = Len(s) + Len(l) /\ \A j \in 1..Len(s) : u[j] = s[j]
    BY <1>8, <1>9
  <1>11. Len(s) \in Nat /\ Len(l) \in Nat /\ Len(u) \in Nat
    BY <1>9, <1>10
  <1>12. Len(s) <= Len(u)
    BY <1>10, <1>11
  <1>13. \A x \in Elems(u) : x \in Elems(s) \/ x \in Elems(l)
    BY <1>9, ConcatFacts
  <1>14. \A x \in Elems(s) : x \in Elems(u)
    <2>1. DOMAIN s = 1..Len(s) /\ DOMAIN u = 1..Len(u)
      BY <1>9, <1>10
    <2>2. \A j \in 1..Len(s) : j \in 1..Len(u)
      BY <1>11, <1>12
    <2> QED
      BY <1>10, <2>1, <2>2 DEF Elems
  <1>15. loadedModules' = u /\ loadedModules = s /\ f.list = l
    BY <1>3, <1>6, <1>7, <1>8
  <1>16. LateInv(phase', module_providers', unloaded', lateProviders')
    BY <1>3 DEF UnloadingInv, LateInv
  <1>17. /\ \A x \in lateModules : x \in lateModules'
         /\ unloaded # {} => \A x \in Elems(loadedModules') : x \in Elems(loadedModules) \cup lateModules'
    BY <1>3, <1>13, <1>15
  <1> QED
    BY <1>1, <1>3, <1>5, <1>10, <1>12, <1>14, <1>15, <1>16, <1>17, UnloadingKept

\* A routine in which a module may have registered as a provider.
LEMMA UnloadingProvides ==
    ASSUME HostModulesInv, UnloadingInv, stack # <<>>, CarriesOn(stack', stack), NEW p \in Files, NEW frames,
           UNCHANGED <<phase, stopped, unloaded, loadedModules, lateModules>>,
           \/ AddModuleProvider(p, frames)
           \/ UNCHANGED <<module_providers, lateProviders>>
    PROVE  UnloadingInv'
  <1>1. /\ phase \in {"load", "run", "unload"} /\ (unloaded # {} => phase = "unload")
        /\ loadedModules \in Seq(Files) /\ Len(loadedModules) <= Len(loadedModules)
    BY ActivePhase
  <1>2. CASE AddModuleProvider(p, frames)
    <2>1. LateInv(phase', module_providers', unloaded', lateProviders')
      BY <1>1, <1>2, LateKept
    <2> QED
      BY <1>1, <2>1, UnloadingKept
  <1>3. CASE UNCHANGED <<module_providers, lateProviders>>
    BY <1>3, UnloadingQuiet
  <1> QED
    BY <1>2, <1>3

\* The invariants are kept by InitializeReturns.
LEMMA InitializeReturnsUnloading ==
    ASSUME HostModulesInv, UnloadingInv, NEW provides \in BOOLEAN, InitializeReturns(provides)
    PROVE  HostModulesInv' /\ UnloadingInv'
  <1>1. HostModulesInv' /\ CarriesOn(stack', stack)
    BY InitializeReturnsStep
  <1>2. PICK p : p = stack[1].list[1]
    OBVIOUS
  <1>3. PICK frames : frames = Goto("register")
    OBVIOUS
  <1>4. /\ stack # <<>> /\ stack[1].fn = "LoadModule"
        /\ UNCHANGED <<phase, stopped, unloaded, loadedModules, lateModules>>
        /\ AddModuleProvider(p, frames) \/ UNCHANGED <<module_providers, lateProviders>>
    BY <1>2, <1>3 DEF InitializeReturns, Active
  <1>5. p \in Files
    BY <1>2, <1>4, LoadedModule
  <1> QED
    BY <1>1, <1>4, <1>5, UnloadingProvides

\* The invariants are kept by StartReturns.
LEMMA StartReturnsUnloading ==
    ASSUME HostModulesInv, UnloadingInv, NEW provides \in BOOLEAN, StartReturns(provides)
    PROVE  HostModulesInv' /\ UnloadingInv'
  <1>1. HostModulesInv' /\ CarriesOn(stack', stack)
    BY StartReturnsStep
  <1>2. PICK p : p = stack[1].list[stack[1].i]
    OBVIOUS
  <1>3. PICK frames : frames = Advance
    OBVIOUS
  <1>4. /\ stack # <<>> /\ stack[1].fn = "StartModules" /\ stack[1].i <= Len(stack[1].list)
        /\ UNCHANGED <<phase, stopped, unloaded, loadedModules, lateModules>>
        /\ AddModuleProvider(p, frames) \/ UNCHANGED <<module_providers, lateProviders>>
    BY <1>2, <1>3 DEF StartReturns, Starting, Current, Active
  <1>5. stack[1].i \in Nat /\ stack[1].i > 0 /\ stack[1].list \in Seq(Files)
    BY <1>4, RoutineFacts
  <1>6. p \in Files
    BY <1>2, <1>4, <1>5
  <1> QED
    BY <1>1, <1>4, <1>6, UnloadingProvides

\* The invariants are kept by StartThrows.
LEMMA StartThrowsUnloading ==
    ASSUME HostModulesInv, UnloadingInv, NEW k \in 2 .. Len(stack) + 1, StartThrows(k)
    PROVE  HostModulesInv' /\ UnloadingInv'
  <1>1. HostModulesInv' /\ CarriesOn(stack', stack)
    BY StartThrowsStep
  <1>2. /\ stack # <<>> /\ stack' = SubSeq(stack, k, Len(stack))
        /\ phase' = IF phase # "run" /\ k > Len(stack) THEN "failed" ELSE phase
        /\ UNCHANGED <<module_providers, loadedModules, stopped, unloaded, lateProviders, lateModules>>
    BY DEF StartThrows, Starting, Active
  <1>3. CASE phase' = phase
    BY <1>1, <1>2, <1>3, UnloadingQuiet
  <1>4. CASE phase' # phase
    <2>1. k > Len(stack) /\ phase' = "failed"
      BY <1>2, <1>4
    <2>2. stack \in Seq(FrameType)
      BY <1>2, RoutineFacts
    <2>3. stack' = <<>>
      BY <1>2, <2>1, <2>2, SuffixFacts
    <2>4. /\ \A x \in stopped' : x \in Elems(loadedModules') \cup unloaded'
          /\ unloaded' # {} =>
                \A x \in Elems(loadedModules') \cup unloaded' : x \in stopped' \cup lateModules'
      BY <1>2 DEF UnloadingInv, UnloadInv
    <2>5. LateInv(phase', module_providers', unloaded', lateProviders')
      BY <1>2, <2>1 DEF UnloadingInv, LateInv
    <2> QED
      BY <1>1, <2>1, <2>3, <2>4, <2>5, LeftUnloading
  <1> QED
    BY <1>3, <1>4

\* The invariants are kept by ProviderAppears.
LEMMA ProviderAppearsUnloading ==
    ASSUME HostModulesInv, UnloadingInv, NEW p \in Files, ProviderAppears(p)
    PROVE  HostModulesInv' /\ UnloadingInv'
  <1>1. HostModulesInv' /\ CarriesOn(stack', stack)
    BY ProviderAppearsStep
  <1>2. PICK frames : frames = <<>>
    OBVIOUS
  <1>3. /\ phase = "run" /\ AddModuleProvider(p, frames)
        /\ UNCHANGED <<phase, stopped, unloaded, loadedModules, lateModules>>
    BY <1>2 DEF ProviderAppears
  <1>4. unloaded = {} /\ loadedModules \in Seq(Files)
    BY <1>3 DEF UnloadingInv, UnloadInv, HostModulesInv, TypeOK
  <1>5. LateInv(phase', module_providers', unloaded', lateProviders')
    BY <1>3, <1>4, LateKept
  <1>6. Len(loadedModules) <= Len(loadedModules)
    BY <1>4
  <1> QED
    BY <1>1, <1>3, <1>4, <1>5, <1>6, UnloadingKept

\* The invariants are kept by BeginUnload.
LEMMA BeginUnloadUnloading ==
    ASSUME HostModulesInv, UnloadingInv, BeginUnload
    PROVE  HostModulesInv' /\ UnloadingInv'
  <1>1. HostModulesInv'
    BY BeginUnloadStep
  <1>2. PICK h : h = Call("UnloadModules", "stop", <<>>)
    OBVIOUS
  <1>3. /\ phase = "run" /\ phase' = "unload" /\ stack' = <<h>> /\ module_providers' = <<>>
        /\ UNCHANGED <<stopped, unloaded, loadedModules, lateModules>>
    BY <1>2 DEF BeginUnload
  <1>4. h \in FrameType /\ h.fn = "UnloadModules" /\ h.at = "stop" /\ h.i = 1 /\ h.list = <<>>
    <2>1. h = [fn |-> "UnloadModules", at |-> "stop", i |-> 1, list |-> <<>>]
      BY <1>2 DEF Call
    <2>2. "UnloadModules" \in Routines /\ "stop" \in Places /\ <<>> \in Seq(Files)
      BY DEF Routines, Places
    <2>3. h \in FrameType
      BY ONLY <2>1, <2>2 DEF FrameType
    <2> QED
      BY ONLY <2>1, <2>3
  <1>5. \A x : x \in Elems(stack') <=> x = h
    BY <1>3, <1>4, OneRoutine
  <1>6. Elems(h.list) = {} /\ Elems(module_providers') = {}
    BY <1>3, <1>4, NoElems
  <1>7. stopped = {} /\ unloaded = {} /\ loadedModules \in Seq(Files)
    BY <1>3 DEF UnloadingInv, UnloadInv, HostModulesInv, TypeOK
  <1>8. Stops(h, loadedModules', stopped')
    <2>1. PICK n : n = Len(loadedModules)
      OBVIOUS
    <2>2. n \in Nat
      BY <1>7, <2>1
    <2>3. h.i <= n + 1 /\ \A j \in 1..n : ~ (j < h.i)
      BY <1>4, <2>2
    <2> QED
      BY <1>3, <1>4, <2>1, <2>3 DEF Stops
  <1>9. PhaseInv(stack', phase') /\ LateInv(phase', module_providers', unloaded', lateProviders')
    BY <1>3, <1>4, <1>5, <1>6 DEF PhaseInv, LateInv
  <1>10. UnloadInv(stack', phase', loadedModules', stopped', unloaded', lateModules')
    BY <1>3, <1>5, <1>6, <1>7, <1>8 DEF UnloadInv
  <1> QED
    BY <1>1, <1>9, <1>10 DEF UnloadingInv

\* Every step keeps the invariants: one case per action.
LEMMA HostModulesInvNext ==
    ASSUME HostModulesInv, UnloadingInv, [Next]_vars
    PROVE  HostModulesInv' /\ UnloadingInv'
  <1>1. CASE CreateModuleThrows
    BY <1>1, CreateModuleThrowsUnloading
  <1>2. CASE CreateModule
    BY <1>2, CreateModuleUnloading
  <1>3. CASE InitializeThrows
    BY <1>3, InitializeThrowsUnloading
  <1>4. CASE RegisterModule
    BY <1>4, RegisterModuleUnloading
  <1>5. CASE FindBasicModules
    BY <1>5, FindBasicModulesUnloading
  <1>6. CASE LoadModulesScan
    BY <1>6, LoadModulesScanUnloading
  <1>7. CASE LoadModulesStart
    BY <1>7, LoadModulesStartUnloading
  <1>8. CASE LoadModulesEnd
    BY <1>8, LoadModulesEndUnloading
  <1>9. CASE ScanBegin
    BY <1>9, ScanBeginUnloading
  <1>10. CASE ScanNext
    BY <1>10, ScanNextUnloading
  <1>11. CASE ScanStart
    BY <1>11, ScanStartUnloading
  <1>12. CASE ScanAgain
    BY <1>12, ScanAgainUnloading
  <1>13. CASE ScanEnd
    BY <1>13, ScanEndUnloading
  <1>14. CASE \E provides \in BOOLEAN : InitializeReturns(provides)
    BY <1>14, InitializeReturnsUnloading
  <1>15. CASE \E provides \in BOOLEAN : StartReturns(provides)
    BY <1>15, StartReturnsUnloading
  <1>16. CASE \E provides \in BOOLEAN : StopReturns(provides)
    BY <1>16, StopReturnsStep
  <1>17. CASE \E provides \in BOOLEAN : UnloadReturns(provides)
    BY <1>17, UnloadReturnsStep
  <1>18. CASE \E k \in 2..Len(stack) + 1 : StartThrows(k)
    BY <1>18, StartThrowsUnloading
  <1>19. CASE StartModulesEnd
    BY <1>19, StartModulesEndUnloading
  <1>20. CASE \E f \in Files : ProviderAppears(f)
    BY <1>20, ProviderAppearsUnloading
  <1>21. CASE BeginUnload
    BY <1>21, BeginUnloadUnloading
  <1>22. CASE StopThrows
    BY <1>22, StopThrowsStep
  <1>23. CASE UnloadThrows
    BY <1>23, UnloadThrowsStep
  <1>24. CASE EraseModule
    BY <1>24, EraseModuleStep
  <1>25. CASE UnloadModulesEnd
    BY <1>25, UnloadModulesEndStep
  <1>26. CASE AskFreedProvider
    BY <1>26, AskFreedProviderStep
  <1>27. CASE UNCHANGED vars
    <2>1. /\ lang' = lang /\ phase' = phase /\ stack' = stack /\ invalid' = invalid
          /\ module_providers' = module_providers /\ loadedModules' = loadedModules
          /\ autoScan' = autoScan /\ started' = started /\ stopped' = stopped
          /\ unloaded' = unloaded /\ startThrew' = startThrew /\ initThrew' = initThrew
          /\ lateProviders' = lateProviders /\ lateModules' = lateModules
      BY <1>27 DEF vars
    <2>2. TypeOK'
      BY <2>1 DEF HostModulesInv, TypeOK
    <2>3. HostModulesInv'
      BY <2>1, <2>2 DEF HostModulesInv, Sound, LetGo
    <2> QED
      BY <2>1, <2>3 DEF UnloadingInv
  <1> QED
    BY <1>1, <1>2, <1>3, <1>4, <1>5, <1>6, <1>7, <1>8, <1>9, <1>10, <1>11, <1>12, <1>13, <1>14,
       <1>15, <1>16, <1>17, <1>18, <1>19, <1>20, <1>21, <1>22, <1>23, <1>24, <1>25, <1>26, <1>27 DEF Next

\* The inductive invariants hold in every state.
LEMMA HostModulesInvHolds == Spec => [](HostModulesInv /\ UnloadingInv)
  <1>1. Init => HostModulesInv /\ UnloadingInv
    BY HostModulesInvInit
  <1>2. HostModulesInv /\ UnloadingInv /\ [Next]_vars => (HostModulesInv /\ UnloadingInv)'
    BY HostModulesInvNext
  <1> QED
    BY <1>1, <1>2, PTL DEF Spec

-----------------------------------------------------------------------------
(* Theorems.                                                                *)

\* Every field of the host's module state has its type, however deep the
\* routines of api/host.cpp nest.
THEOREM HostModulesTypeCorrect == Spec => []TypeOK
  <1>1. HostModulesInv => TypeOK
    BY DEF HostModulesInv
  <1> QED
    BY <1>1, HostModulesInvHolds, PTL

\* The vector a scan walks with an iterator is never walked by a scan inside it
\* (api/host.cpp:598), whatever providers are registered and wherever.
THEOREM ScansDoNotNest == Spec => []NoScanInsideIteration
  <1>1. HostModulesInv => NoScanInsideIteration
    <2> SUFFICES ASSUME HostModulesInv, NEW i \in DOMAIN stack,
                        Iterating(stack[i]), NEW k \in 1..i - 1
                 PROVE  stack[k].fn # "Scan"
      BY DEF NoScanInsideIteration, Iterating
    <2>1. PICK q : q = Tail(stack)
      OBVIOUS
    <2>2. PICK w : w = Tail(q)
      OBVIOUS
    <2>3. stack \in Seq(FrameType)
      BY DEF HostModulesInv, TypeOK, FrameType
    <2>4. /\ i \in Nat /\ i > 1 /\ k \in Nat /\ k >= 1 /\ k < i /\ stack # <<>>
          /\ i - 1 \in DOMAIN q /\ q[i - 1] = stack[i]
      BY <2>1, <2>3
    <2>5. stack[i] \in Elems(q)
      BY <2>4 DEF Elems
    <2>6. ~ Plain(stack[i])
      BY DEF Plain, Busy
    <2>7. stack[1].fn = "LoadModule" /\ \A f \in Elems(w) : Plain(f)
      BY <2>1, <2>2, <2>4, <2>5, <2>6 DEF HostModulesInv, ShapeInv
    <2>8. CASE i = 2
      <3>1. k = 1
        BY <2>4, <2>8
      <3> QED
        BY <2>7, <3>1
    <2>9. CASE i # 2
      <3>1. q \in Seq(FrameType) /\ q # <<>>
        BY <2>1, <2>3, <2>4
      <3>2. i - 2 \in DOMAIN w /\ w[i - 2] = q[i - 1]
        <4>1. PICK m : m = Len(q)
          OBVIOUS
        <4>2. m \in Nat /\ i - 1 \in 1..m /\ i - 1 >= 2
          BY <2>4, <2>9, <3>1, <4>1
        <4>3. DOMAIN w = 1..m - 1 /\ \A j \in 1..m - 1 : w[j] = q[j + 1]
          BY <2>2, <3>1, <4>1
        <4>4. i - 2 \in 1..m - 1 /\ (i - 2) + 1 = i - 1
          BY <2>4, <4>2
        <4> QED
          BY <4>3, <4>4
      <3>3. stack[i] \in Elems(w)
        BY <2>4, <3>2 DEF Elems
      <3> QED
        BY <2>6, <2>7, <3>3
    <2> QED
      BY <2>8, <2>9
  <1> QED
    BY <1>1, HostModulesInvHolds, PTL

\* Every pointer in module_providers is to a module that something still refers
\* to (api/host.cpp:288, 480, 777-778), or to one whose Initialize() threw or
\* that registered only while the modules were unloaded.
THEOREM ProvidersAreAlive == Spec => []ProvidersExist
  <1>1. HostModulesInv /\ UnloadingInv => ProvidersExist
    <2> SUFFICES ASSUME HostModulesInv, UnloadingInv, NEW x \in Elems(module_providers)
                 PROVE  x \in Referenced \cup initThrew \cup lateProviders \cup {Host}
      BY DEF ProvidersExist
    <2>1. CASE x \in Elems(loadedModules) \cup LetGo \cup {Host}
      <3>1. x \in unloaded => x \in lateProviders
        BY DEF UnloadingInv, LateInv
      <3> QED
        BY <2>1, <3>1 DEF Referenced, LetGo
    <2>2. CASE Registering(stack) /\ x \in Elems(stack[1].list)
      <3>1. stack \in Seq(FrameType) /\ stack # <<>>
        BY <2>2 DEF HostModulesInv, TypeOK, FrameType, Registering
      <3>2. 1 \in DOMAIN stack
        BY <3>1
      <3> QED
        BY <2>2, <3>2 DEF Referenced
    <2> QED
      BY <2>1, <2>2 DEF HostModulesInv, ProvidersInv
  <1> QED
    BY <1>1, HostModulesInvHolds, PTL

\* Between two operations no file waits for which a provider is registered, and
\* autoScan is on (api/host.cpp:554-556, 628-633), unless a Start() has thrown.
THEOREM NoFileLeftBehind == Spec => []NoLoadableFileLeftBehind
  <1>1. HostModulesInv => NoLoadableFileLeftBehind
    <2> SUFFICES ASSUME HostModulesInv, phase = "run", stack = <<>>, ~ startThrew
                 PROVE  autoScan /\ \A i \in DOMAIN invalid : ~ HasProvider(invalid[i])
      BY DEF NoLoadableFileLeftBehind
    <2>1. RescanInv(stack, autoScan, invalid, module_providers, lang)
      BY DEF HostModulesInv, Sound
    <2>2. Elems(stack) = {}
      BY NoElems
    <2>3. autoScan /\ \A x \in Elems(invalid) : ~ Provided(x, module_providers, lang)
      BY <2>1, <2>2 DEF RescanInv
    <2> QED
      BY <2>3 DEF Elems, Provided, HasProvider
  <1> QED
    BY <1>1, HostModulesInvHolds, PTL

\* No module is in loadedModules twice (api/host.cpp:465).
THEOREM ModulesLoadedOnce == Spec => []LoadedOnce
  <1>1. HostModulesInv => LoadedOnce
    <2> SUFFICES ASSUME HostModulesInv
                 PROVE  LoadedOnce
      OBVIOUS
    <2>1. loadedModules \in Seq(Files) /\ Once(loadedModules)
      BY LoadedFacts
    <2>2. DOMAIN loadedModules = 1..Len(loadedModules)
      BY <2>1
    <2> QED
      BY <2>1, <2>2 DEF LoadedOnce, Once
  <1> QED
    BY <1>1, HostModulesInvHolds, PTL

\* Every module loaded until then has been stopped when the first is unloaded, and
\* every stopped module is unloaded when Run returns (api/module.h:96).
THEOREM StopThenUnload == Spec => []StoppedBeforeUnloaded
  <1>1. UnloadingInv => StoppedBeforeUnloaded
    <2> SUFFICES ASSUME UnloadingInv
                 PROVE  StoppedBeforeUnloaded
      OBVIOUS
    <2>1. UnloadInv(stack, phase, loadedModules, stopped, unloaded, lateModules)
      BY DEF UnloadingInv
    <2>2. phase = "done" => Elems(loadedModules) = {}
      BY <2>1, NoElems DEF UnloadInv
    <2> QED
      BY <2>1, <2>2 DEF StoppedBeforeUnloaded, UnloadInv
  <1> QED
    BY <1>1, HostModulesInvHolds, PTL
=============================================================================
