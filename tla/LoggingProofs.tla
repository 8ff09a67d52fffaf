---------------------------- MODULE LoggingProofs ----------------------------
(***************************************************************************)
(* What threads log reaches the log file and the callbacks in one order.    *)
(***************************************************************************)
EXTENDS Logging, VectorsProofs

Lines == [id : Nat, nested : BOOLEAN]

KeptStep(log, gone, f, i) ==
    f[i] = IF i \in gone THEN f[i - 1] ELSE Append(f[i - 1], log[i])

\* The function that Kept computes for the first n lines of a log.
KeptOf(log, gone, n, f) ==
    /\ f \in [0..n -> Seq(Lines)]
    /\ f[0] = <<>>
    /\ \A i \in 1..n : KeptStep(log, gone, f, i)

\* One line more.
LEMMA KeptLonger ==
    ASSUME NEW log, NEW gone, NEW n \in Nat, NEW f, KeptOf(log, gone, n, f), log[n + 1] \in Lines
    PROVE  \E g : /\ KeptOf(log, gone, n + 1, g)
                  /\ g[n + 1] = IF n + 1 \in gone THEN f[n] ELSE Append(f[n], log[n + 1])
  <1> DEFINE x == IF n + 1 \in gone THEN f[n] ELSE Append(f[n], log[n + 1])
             g == [i \in 0..n + 1 |-> IF i = n + 1 THEN x ELSE f[i]]
  <1>1. /\ \A i \in 0..n + 1 : i # n + 1 => i \in 0..n
        /\ \A i \in 1..n + 1 : i \in 0..n + 1 /\ i - 1 \in 0..n /\ (i # n + 1 => i \in 1..n)
        /\ \A i \in 0..n : i \in 0..n + 1 /\ i # n + 1
        /\ (n + 1) - 1 = n /\ n + 1 \in 0..n + 1 /\ 0 \in 0..n /\ n \in 0..n
    OBVIOUS
  <1>2. f \in [0..n -> Seq(Lines)] /\ f[0] = <<>> /\ \A i \in 1..n : KeptStep(log, gone, f, i)
    BY DEF KeptOf
  <1>3. x \in Seq(Lines)
    <2>1. f[n] \in Seq(Lines)
      BY <1>1, <1>2
    <2>2. Append(f[n], log[n + 1]) \in Seq(Lines)
      BY <2>1
    <2> QED
      BY <2>1, <2>2
  <1> HIDE DEF x
  <1>4. /\ g \in [0..n + 1 -> Seq(Lines)] /\ g[n + 1] = x
        /\ \A i \in 0..n : g[i] = f[i]
    BY <1>1, <1>2, <1>3
  <1> HIDE DEF g
  <1>5. ASSUME NEW i \in 1..n + 1 PROVE KeptStep(log, gone, g, i)
    <2>1. CASE i = n + 1
      <3>1. g[i] = x /\ g[i - 1] = f[n] /\ log[i] = log[n + 1]
        BY <1>1, <1>4, <2>1
      <3> QED
        BY <2>1, <3>1 DEF KeptStep, x
    <2>2. CASE i # n + 1
      <3>1. i \in 1..n /\ g[i] = f[i] /\ g[i - 1] = f[i - 1]
        BY <1>1, <1>4, <2>2
      <3> QED
        BY <1>2, <3>1 DEF KeptStep
    <2> QED
      BY <2>1, <2>2
  <1>6. KeptOf(log, gone, n + 1, g)
    BY <1>1, <1>2, <1>4, <1>5 DEF KeptOf
  <1> QED
    BY <1>4, <1>6 DEF x

\* There is such a function for every log.
LEMMA KeptExists ==
    ASSUME NEW log \in Seq(Lines), NEW gone
    PROVE  \E f : KeptOf(log, gone, Len(log), f)
  <1> DEFINE T == {i \in 0..Len(log) : \E f : KeptOf(log, gone, i, f)}
  <1>1. Len(log) \in Nat /\ \A i \in 1..Len(log) : log[i] \in Lines
    OBVIOUS
  <1>2. 0 \in T
    <2> DEFINE f == [i \in 0..0 |-> <<>>]
    <2>1. f \in [0..0 -> Seq(Lines)] /\ f[0] = <<>>
      OBVIOUS
    <2>2. \A i \in 1..0 : FALSE
      OBVIOUS
    <2> HIDE DEF f
    <2>3. KeptOf(log, gone, 0, f)
      BY <2>1, <2>2 DEF KeptOf
    <2> QED
      BY <1>1, <2>3
  <1>3. ASSUME NEW i \in 1..Len(log), i - 1 \in T PROVE i \in T
    <2>1. PICK m \in Nat : m = i - 1 /\ i = m + 1
      BY <1>1
    <2>2. PICK f : KeptOf(log, gone, m, f)
      BY <1>3, <2>1
    <2>3. log[m + 1] \in Lines
      BY <1>1, <2>1
    <2>4. \E g : KeptOf(log, gone, m + 1, g)
      BY <2>2, <2>3, KeptLonger
    <2> QED
      BY <1>1, <2>1, <2>4
  <1> HIDE DEF T
  <1>4. PICK n \in Nat : n = Len(log)
    BY <1>1
  <1>5. \A i \in 1..n : i - 1 \in T => i \in T
    BY <1>3, <1>4
  <1>6. \A i \in 0..n : i \in T
    BY <1>2, <1>5, BoundedInduction
  <1>7. Len(log) \in T
    <2>1. n \in 0..n
      OBVIOUS
    <2> QED
      BY <1>4, <1>6, <2>1
  <1> QED
    BY <1>7 DEF T

\* Kept is the last value of that function.
LEMMA KeptIs ==
    ASSUME NEW log \in Seq(Lines), NEW gone, NEW x, KeptOf(log, gone, Len(log), x)
    PROVE  Kept(log, gone) = x[Len(log)]
  <1> DEFINE n == Len(log)
             Body(f) == [i \in 0..n |->
                           IF i = 0 THEN <<>>
                           ELSE IF i \in gone THEN f[i - 1] ELSE Append(f[i - 1], log[i])]
             walk == CHOOSE f : f = Body(f)
  <1>1. n \in Nat
    OBVIOUS
  <1>2. Kept(log, gone) = walk[n]
    BY DEF Kept
  <1>3. KeptOf(log, gone, n, x)
    OBVIOUS
  <1> HIDE DEF n
  <1>4. /\ 0 \in 0..n /\ n \in 0..n
        /\ \A i \in 1..n : i \in 0..n /\ i # 0 /\ i - 1 \in 0..n
        /\ \A i \in 0..n : i # 0 => i \in 1..n
    BY <1>1
  <1>5. x = [i \in 0..n |-> x[i]] /\ x[0] = <<>> /\ \A i \in 1..n : KeptStep(log, gone, x, i)
    BY <1>3 DEF KeptOf
  <1>6. x = Body(x)
    BY <1>4, <1>5 DEF KeptStep
  <1>7. walk = Body(walk)
    BY <1>6
  <1> HIDE DEF walk
  <1>8. walk[0] = <<>> /\ \A i \in 1..n : KeptStep(log, gone, walk, i)
    BY <1>4, <1>7 DEF KeptStep
  <1> DEFINE T == {i \in 0..n : walk[i] = x[i]}
  <1>9. 0 \in T
    BY <1>4, <1>5, <1>8
  <1>10. \A i \in 1..n : i - 1 \in T => i \in T
    BY <1>4, <1>5, <1>8 DEF KeptStep
  <1> HIDE DEF T
  <1>11. n \in T
    BY <1>1, <1>4, <1>9, <1>10, BoundedInduction
  <1>12. walk[n] = x[n]
    BY <1>11 DEF T
  <1> QED
    BY <1>2, <1>12 DEF n

\* What Kept makes of one line more.
LEMMA KeptAppend ==
    ASSUME NEW log \in Seq(Lines), NEW gone, NEW e \in Lines
    PROVE  /\ Kept(log, gone) \in Seq(Lines)
           /\ Kept(Append(log, e), gone) = IF Len(log) + 1 \in gone THEN Kept(log, gone)
                                           ELSE Append(Kept(log, gone), e)
  <1>1. PICK n \in Nat : n = Len(log)
    OBVIOUS
  <1>2. PICK f : KeptOf(log, gone, n, f)
    BY <1>1, KeptExists
  <1>3. Kept(log, gone) = f[n] /\ f[n] \in Seq(Lines)
    <2>1. Kept(log, gone) = f[n]
      BY <1>1, <1>2, KeptIs
    <2>2. n \in 0..n
      BY <1>1
    <2> QED
      BY <1>2, <2>1, <2>2 DEF KeptOf
  <1>4. PICK more \in Seq(Lines) : more = Append(log, e)
    <2>1. Append(log, e) \in Seq(Lines)
      OBVIOUS
    <2> QED
      BY <2>1, Zenon
  <1>5. Len(more) = n + 1 /\ more[n + 1] = e /\ \A i \in 1..n : more[i] = log[i]
    BY <1>1, <1>4
  <1>6. KeptOf(more, gone, n, f)
    BY <1>2, <1>5 DEF KeptOf, KeptStep
  <1>7. more[n + 1] \in Lines
    BY <1>5
  <1>8. PICK g : /\ KeptOf(more, gone, n + 1, g)
                 /\ g[n + 1] = IF n + 1 \in gone THEN f[n] ELSE Append(f[n], more[n + 1])
    BY <1>1, <1>6, <1>7, KeptLonger
  <1>9. KeptOf(more, gone, Len(more), g)
    BY <1>5, <1>8
  <1>10. Kept(more, gone) = g[Len(more)]
    BY <1>4, <1>9, KeptIs
  <1> QED
    BY <1>1, <1>3, <1>4, <1>5, <1>8, <1>10

\* Of an empty log.
LEMMA KeptEmpty == ASSUME NEW gone PROVE Kept(<<>>, gone) = <<>>
  <1>1. <<>> \in Seq(Lines) /\ Len(<<>>) = 0
    OBVIOUS
  <1>2. PICK f : KeptOf(<<>>, gone, Len(<<>>), f)
    BY <1>1, KeptExists
  <1>3. Kept(<<>>, gone) = f[Len(<<>>)]
    BY <1>1, <1>2, KeptIs
  <1> QED
    BY <1>1, <1>2, <1>3 DEF KeptOf

\* Only the positions of the log matter.
LEMMA KeptSame ==
    ASSUME NEW log \in Seq(Lines), NEW gone, NEW also,
           \A i \in 1..Len(log) : i \in gone <=> i \in also
    PROVE  Kept(log, gone) = Kept(log, also)
  <1>1. PICK f : KeptOf(log, gone, Len(log), f)
    BY KeptExists
  <1>2. KeptOf(log, also, Len(log), f)
    BY <1>1 DEF KeptOf, KeptStep
  <1> QED
    BY <1>1, <1>2, KeptIs

\* Nothing is kept of a log whose every position is gone.
LEMMA KeptNone ==
    ASSUME NEW log \in Seq(Lines), NEW gone, \A i \in 1..Len(log) : i \in gone
    PROVE  Kept(log, gone) = <<>>
  <1>1. PICK n \in Nat : n = Len(log)
    OBVIOUS
  <1> DEFINE f == [i \in 0..n |-> <<>>]
  <1>2. \A i \in 1..n : i \in 0..n /\ i - 1 \in 0..n
    OBVIOUS
  <1>3. 0 \in 0..n /\ n \in 0..n
    OBVIOUS
  <1>4. f \in [0..n -> Seq(Lines)] /\ \A i \in 0..n : f[i] = <<>>
    OBVIOUS
  <1> HIDE DEF f
  <1>5. KeptOf(log, gone, n, f)
    BY <1>1, <1>2, <1>3, <1>4 DEF KeptOf, KeptStep
  <1> QED
    BY <1>1, <1>3, <1>4, <1>5, KeptIs

\* What Outer makes of one line more.
LEMMA OuterAppend ==
    ASSUME NEW log \in Seq(Lines), NEW e \in Lines
    PROVE  /\ Outer(log) \in Seq(Lines)
           /\ Outer(Append(log, e)) = IF e.nested THEN Outer(log) ELSE Append(Outer(log), e)
  <1>1. PICK n \in Nat : n = Len(log)
    OBVIOUS
  <1>2. PICK more \in Seq(Lines) : more = Append(log, e)
    <2>1. Append(log, e) \in Seq(Lines)
      OBVIOUS
    <2> QED
      BY <2>1, Zenon
  <1>3. /\ Len(more) = n + 1 /\ more[n + 1] = e /\ \A i \in 1..n : more[i] = log[i]
        /\ DOMAIN more = 1..n + 1 /\ DOMAIN log = 1..n
    BY <1>1, <1>2
  <1>4. PICK gone : gone = {i \in DOMAIN log : log[i].nested}
    OBVIOUS
  <1>5. PICK also : also = {i \in DOMAIN more : more[i].nested}
    OBVIOUS
  <1>6. n + 1 \in 1..n + 1 /\ \A i \in 1..n : i \in 1..n + 1
    BY <1>1
  <1>7. \A i \in 1..Len(log) : i \in also <=> i \in gone
    BY <1>1, <1>3, <1>4, <1>5, <1>6
  <1>8. n + 1 \in also <=> e.nested
    BY <1>3, <1>5, <1>6
  <1>9. Kept(log, also) = Kept(log, gone)
    BY <1>7, KeptSame
  <1>10. /\ Kept(log, also) \in Seq(Lines)
         /\ Kept(more, also) = IF n + 1 \in also THEN Kept(log, also)
                               ELSE Append(Kept(log, also), e)
    BY <1>1, <1>2, KeptAppend
  <1>11. Outer(log) = Kept(log, gone) /\ Outer(more) = Kept(more, also)
    BY <1>4, <1>5 DEF Outer
  <1> QED
    BY <1>2, <1>8, <1>9, <1>10, <1>11

\* Of an empty log.
LEMMA OuterEmpty == Outer(<<>>) = <<>>
  BY KeptEmpty DEF Outer

\* Sequences of lines.
LEMMA OuterTyped == ASSUME NEW log \in Seq(Lines) PROVE Outer(log) \in Seq(Lines)
  <1>1. [id |-> 0, nested |-> FALSE] \in Lines
    BY DEF Lines
  <1> QED
    BY <1>1, OuterAppend

-----------------------------------------------------------------------------
(* What a callback has, when the file has all and gone is not for it; and    *)
(* what it has when it lacks the file's last line.                           *)

Has(mine, all, gone) == gone \subseteq 1..Len(all) /\ mine = Kept(all, gone)

Lacks(mine, all, gone, e) ==
    /\ gone \subseteq 1..Len(all) /\ Len(all) \notin gone
    /\ Append(mine, e) = Kept(all, gone)

\* The file gets a line.
LEMMA LacksWritten ==
    ASSUME NEW mine, NEW all \in Seq(Lines), NEW gone, NEW e \in Lines, Has(mine, all, gone)
    PROVE  Lacks(mine, Append(all, e), gone, e)
  <1>1. PICK n \in Nat : n = Len(all)
    OBVIOUS
  <1>2. Len(Append(all, e)) = n + 1
    BY <1>1
  <1>3. gone \subseteq 1..n /\ mine = Kept(all, gone)
    BY <1>1 DEF Has
  <1>4. n + 1 \notin gone /\ gone \subseteq 1..n + 1
    <2>1. n + 1 \notin 1..n /\ 1..n \subseteq 1..n + 1
      OBVIOUS
    <2> QED
      BY <1>3, <2>1
  <1>5. Kept(Append(all, e), gone) = Append(Kept(all, gone), e)
    BY <1>1, <1>4, KeptAppend
  <1> QED
    BY <1>2, <1>3, <1>4, <1>5 DEF Lacks

\* An earlier callback threw.
LEMMA HasThrown ==
    ASSUME NEW mine \in Seq(Lines), NEW b \in Seq(Lines), NEW gone, NEW e \in Lines,
           Lacks(mine, Append(b, e), gone, e)
    PROVE  Has(mine, Append(b, e), gone \cup {Len(Append(b, e))})
  <1>1. PICK n \in Nat : n = Len(b)
    OBVIOUS
  <1>2. PICK all : all = Append(b, e)
    OBVIOUS
  <1>3. Len(all) = n + 1
    BY <1>1, <1>2
  <1>4. gone \subseteq 1..n + 1 /\ n + 1 \notin gone /\ Append(mine, e) = Kept(all, gone)
    BY <1>2, <1>3 DEF Lacks
  <1>5. PICK also : also = gone \cup {n + 1}
    OBVIOUS
  <1>6. also \subseteq 1..n + 1 /\ n + 1 \in also
    <2>1. n + 1 \in 1..n + 1
      OBVIOUS
    <2> QED
      BY <1>4, <1>5, <2>1
  <1>7. Kept(b, gone) \in Seq(Lines) /\ Kept(all, gone) = Append(Kept(b, gone), e)
    BY <1>1, <1>2, <1>4, KeptAppend
  <1>8. Kept(all, also) = Kept(b, also)
    BY <1>1, <1>2, <1>6, KeptAppend
  <1>9. Kept(b, also) = Kept(b, gone)
    <2>1. \A i \in 1..n : i # n + 1
      OBVIOUS
    <2>2. \A i \in 1..Len(b) : i \in also <=> i \in gone
      BY <1>1, <1>5, <2>1
    <2> QED
      BY <2>2, KeptSame
  <1>10. \A x, y \in Seq(Lines) : Append(x, e) = Append(y, e) => x = y
    <2> SUFFICES ASSUME NEW x \in Seq(Lines), NEW y \in Seq(Lines), Append(x, e) = Append(y, e)
                 PROVE  x = y
      OBVIOUS
    <2>1. PICK k \in Nat, l \in Nat : k = Len(x) /\ l = Len(y)
      OBVIOUS
    <2>2. PICK z : z = Append(x, e) /\ z = Append(y, e)
      OBVIOUS
    <2>3. k = l
      <3>1. Len(z) = k + 1
        BY <2>1, <2>2
      <3>2. Len(z) = l + 1
        BY <2>1, <2>2
      <3>3. k + 1 = l + 1
        BY <3>1, <3>2, Zenon
      <3> QED
        BY <3>3
    <2>4. \A i \in 1..k : z[i] = x[i]
      BY <2>1, <2>2
    <2>5. \A i \in 1..k : z[i] = y[i]
      BY <2>1, <2>2, <2>3
    <2>6. x = [i \in 1..k |-> x[i]] /\ y = [i \in 1..k |-> y[i]]
      BY <2>1, <2>3
    <2> QED
      BY <2>4, <2>5, <2>6
  <1>11. mine = Kept(b, gone)
    BY <1>4, <1>7, <1>10
  <1> QED
    BY <1>2, <1>3, <1>5, <1>6, <1>8, <1>9, <1>11 DEF Has

\* A callback that is added: by a thread that logs nothing, and by a callback.
LEMMA HasAdded == ASSUME NEW all \in Seq(Lines) PROVE Has(<<>>, all, 1..Len(all))
  <1>1. Kept(all, 1..Len(all)) = <<>>
    BY KeptNone
  <1> QED
    BY <1>1 DEF Has

LEMMA LacksAdded ==
    ASSUME NEW b \in Seq(Lines), NEW e \in Lines
    PROVE  Lacks(<<>>, Append(b, e), 1..(Len(Append(b, e)) - 1), e)
  <1>1. PICK n \in Nat : n = Len(b)
    OBVIOUS
  <1>2. Len(Append(b, e)) = n + 1 /\ Len(Append(b, e)) - 1 = n
    BY <1>1
  <1>3. 1..n \subseteq 1..n + 1 /\ n + 1 \notin 1..n
    OBVIOUS
  <1>4. Kept(b, 1..n) = <<>>
    BY <1>1, KeptNone
  <1>5. Kept(Append(b, e), 1..n) = Append(Kept(b, 1..n), e)
    BY <1>1, <1>3, KeptAppend
  <1> QED
    BY <1>2, <1>3, <1>4, <1>5 DEF Lacks

-----------------------------------------------------------------------------
(* The calls of LogImpl.                                                    *)

EntryRecords == [id : Nat, at : Nat, locked : BOOLEAN, nested : BOOLEAN]

LogTypes ==
    /\ sinks \in Seq(LoggerCallbacks)
    /\ rootMutex \in LogThreads \cup {NoThread}
    /\ entries \in [LogThreads -> Seq(EntryRecords)]
    /\ file \in Seq(Lines)
    /\ received \in Seq(Seq(Lines)) /\ Len(received) = Len(sinks)
    /\ skipped \in Seq(SUBSET Nat) /\ Len(skipped) = Len(sinks)
    /\ logged \in Nat

\* A call that has begun to write holds the mutex, and all but a thread's last
\* call wait for a callback.
EntryInv(t, i) ==
    /\ entries[t][i].nested = (i > 1)
    /\ entries[t][i].at <= Len(sinks) + 1
    /\ entries[t][i].at > 0 => entries[t][i].locked
    /\ entries[t][i].locked => rootMutex = t
    /\ i < Len(entries[t]) => entries[t][i].at > 1

EntriesOf(t) ==
    /\ \A i \in 1..Len(entries[t]) : EntryInv(t, i)
    /\ rootMutex = t => entries[t] # <<>> /\ entries[t][1].locked

\* How far the outermost call in the mutex is, and what it logs.
OuterAt == IF rootMutex = NoThread THEN 0 ELSE entries[rootMutex][1].at
OuterLine == [id |-> entries[rootMutex][1].id, nested |-> entries[rootMutex][1].nested]

\* A callback that the outermost call has still to reach lacks its line, and
\* only that.
SinkInv(i) ==
    IF OuterAt \in 1..i THEN Lacks(Outer(received[i]), Outer(file), skipped[i], OuterLine)
                        ELSE Has(Outer(received[i]), Outer(file), skipped[i])

OrderInv ==
    /\ OuterAt > 0 => \E b \in Seq(Lines) : Outer(file) = Append(b, OuterLine)
    /\ \A i \in 1..Len(sinks) : SinkInv(i)

LogInv == LogTypes /\ (\A t \in LogThreads : EntriesOf(t)) /\ OrderInv

\* Before anything is logged.
LEMMA LogInvInit == LoggingInit => LogInv
  <1> SUFFICES ASSUME LoggingInit PROVE LogInv
    OBVIOUS
  <1>1. /\ sinks = <<>> /\ rootMutex = NoThread /\ entries = [t \in LogThreads |-> <<>>]
        /\ file = <<>> /\ received = <<>> /\ skipped = <<>> /\ logged = 0
    BY DEF LoggingInit
  <1>2. NoThread \notin LogThreads
    BY LoggingAssumption
  <1>3. LogTypes
    BY <1>1 DEF LogTypes
  <1>4. \A i \in 1..Len(<<>>) : FALSE
    OBVIOUS
  <1>5. \A t \in LogThreads : EntriesOf(t)
    <2> SUFFICES ASSUME NEW t \in LogThreads PROVE EntriesOf(t)
      OBVIOUS
    <2>1. entries[t] = <<>>
      BY <1>1
    <2> QED
      BY <1>1, <1>2, <1>4, <2>1 DEF EntriesOf
  <1>6. OrderInv
    <2>1. OuterAt = 0 /\ ~(0 > 0)
      BY <1>1 DEF OuterAt
    <2> QED
      BY <1>1, <1>4, <2>1 DEF OrderInv
  <1> QED
    BY <1>3, <1>5, <1>6 DEF LogInv

\* The threads that a step is not about.
LEMMA OtherEntries ==
    ASSUME LogInv, NEW t, Len(sinks) <= Len(sinks'), Len(sinks') \in Nat,
           \A u \in LogThreads \ {t} : entries'[u] = entries[u],
           \/ rootMutex' = rootMutex
           \/ rootMutex \in {NoThread, t} /\ rootMutex' \in {NoThread, t}
    PROVE  \A u \in LogThreads \ {t} : EntriesOf(u)'
  <1> SUFFICES ASSUME NEW u \in LogThreads \ {t} PROVE EntriesOf(u)'
    OBVIOUS
  <1>1. /\ NoThread \notin LogThreads /\ EntriesOf(u) /\ entries'[u] = entries[u]
        /\ Len(sinks) \in Nat /\ entries[u] \in Seq(EntryRecords)
    BY LoggingAssumption DEF LogInv, LogTypes
  <1>2. ASSUME NEW i \in 1..Len(entries[u]) PROVE EntryInv(u, i)'
    <2>1. EntryInv(u, i)
      BY <1>1, <1>2 DEF EntriesOf
    <2>2. entries[u][i].at \in Nat
      <3>1. entries[u][i] \in EntryRecords
        BY <1>1, <1>2
      <3> QED
        BY <3>1 DEF EntryRecords
    <2>3. entries[u][i].at <= Len(sinks') + 1
      <3>1. PICK a \in Nat, m \in Nat, n \in Nat :
               a = entries[u][i].at /\ m = Len(sinks) /\ n = Len(sinks')
        BY <1>1, <2>2
      <3>2. a <= m + 1 /\ m <= n
        BY <2>1, <3>1 DEF EntryInv
      <3>3. a <= n + 1
        BY <3>2
      <3> QED
        BY <3>1, <3>3
    <2>4. entries[u][i].locked => rootMutex' = u
      BY <1>1, <2>1 DEF EntryInv
    <2> QED
      BY <1>1, <2>1, <2>3, <2>4 DEF EntryInv
  <1>3. rootMutex' = u => entries[u] # <<>> /\ entries[u][1].locked
    BY <1>1 DEF EntriesOf
  <1> QED
    BY <1>1, <1>2, <1>3 DEF EntriesOf

\* What does not concern the outermost call.
LEMMA OrderKept ==
    ASSUME LogInv, sinks' = sinks, OuterAt' = OuterAt, OuterAt > 0 => OuterLine' = OuterLine,
           Outer(file') = Outer(file), skipped' = skipped,
           \A i \in 1..Len(sinks) : Outer(received'[i]) = Outer(received[i])
    PROVE  OrderInv'
  <1>1. OuterAt > 0 => \E b \in Seq(Lines) : Outer(file) = Append(b, OuterLine)
    BY DEF LogInv, OrderInv
  <1>2. (OuterAt > 0 => \E b \in Seq(Lines) : Outer(file) = Append(b, OuterLine))'
    BY <1>1
  <1>3. ASSUME NEW i \in 1..Len(sinks) PROVE SinkInv(i)'
    <2>1. SinkInv(i) /\ i \in Nat
      BY DEF LogInv, OrderInv
    <2>2. Outer(received'[i]) = Outer(received[i])
      OBVIOUS
    <2>3. CASE OuterAt \in 1..i
      <3>1. OuterAt > 0
        BY <2>1, <2>3
      <3>2. OuterLine' = OuterLine
        BY <3>1
      <3> QED
        BY <2>1, <2>2, <2>3, <3>2 DEF SinkInv
    <2>4. CASE OuterAt \notin 1..i
      BY <2>1, <2>2, <2>4 DEF SinkInv
    <2> QED
      BY <2>3, <2>4
  <1> QED
    BY <1>2, <1>3 DEF OrderInv

\* The outermost call in the mutex is as it was.
LEMMA OuterSame ==
    ASSUME rootMutex' = rootMutex,
           rootMutex # NoThread =>
              /\ entries'[rootMutex][1].at = entries[rootMutex][1].at
              /\ entries'[rootMutex][1].id = entries[rootMutex][1].id
              /\ entries'[rootMutex][1].nested = entries[rootMutex][1].nested
    PROVE  OuterAt' = OuterAt /\ (OuterAt > 0 => OuterLine' = OuterLine)
  <1>1. CASE rootMutex = NoThread
    <2>1. OuterAt' = 0 /\ OuterAt = 0
      BY <1>1 DEF OuterAt
    <2>2. ~(0 > 0)
      OBVIOUS
    <2> QED
      BY <2>1, <2>2
  <1>2. CASE rootMutex # NoThread
    BY <1>2 DEF OuterAt, OuterLine
  <1> QED
    BY <1>1, <1>2

\* A thread in LogImpl.
LEMMA CallTyped ==
    ASSUME LogInv, NEW t \in LogThreads, entries[t] # <<>>
    PROVE  /\ Len(entries[t]) \in Nat /\ Len(entries[t]) >= 1
           /\ 1 \in 1..Len(entries[t]) /\ Len(entries[t]) \in 1..Len(entries[t])
           /\ \A i \in 1..Len(entries[t]) :
                 /\ entries[t][i] \in EntryRecords
                 /\ entries[t][i].at \in Nat /\ entries[t][i].id \in Nat
                 /\ entries[t][i].locked \in BOOLEAN /\ entries[t][i].nested \in BOOLEAN
                 /\ EntryInv(t, i)
  <1>1. entries[t] \in Seq(EntryRecords)
    BY DEF LogInv, LogTypes
  <1>2. ASSUME NEW s \in Seq(EntryRecords), s # <<>>
        PROVE  /\ Len(s) \in Nat /\ Len(s) >= 1 /\ 1 \in 1..Len(s) /\ Len(s) \in 1..Len(s)
               /\ \A i \in 1..Len(s) : s[i] \in EntryRecords
    <2>1. Len(s) \in Nat /\ Len(s) # 0
      BY <1>2
    <2>2. Len(s) >= 1 /\ 1 \in 1..Len(s) /\ Len(s) \in 1..Len(s)
      BY <2>1
    <2> QED
      BY <2>1, <2>2
  <1>3. \A r \in EntryRecords : r.at \in Nat /\ r.id \in Nat /\ r.locked \in BOOLEAN
                                /\ r.nested \in BOOLEAN
    BY DEF EntryRecords
  <1>4. \A i \in 1..Len(entries[t]) : EntryInv(t, i)
    BY DEF LogInv, EntriesOf
  <1>5. /\ Len(entries[t]) \in Nat /\ Len(entries[t]) >= 1
        /\ 1 \in 1..Len(entries[t]) /\ Len(entries[t]) \in 1..Len(entries[t])
        /\ \A i \in 1..Len(entries[t]) : entries[t][i] \in EntryRecords
    BY <1>1, <1>2
  <1> QED
    BY <1>3, <1>4, <1>5

\* The innermost call of a thread goes on.
LEMMA LastReplaced ==
    ASSUME LogInv, NEW t \in LogThreads, entries[t] # <<>>, NEW r \in EntryRecords,
           entries' = [entries EXCEPT ![t] = [entries[t] EXCEPT ![Len(entries[t])] = r]]
    PROVE  /\ entries' \in [LogThreads -> Seq(EntryRecords)]
           /\ \A u \in LogThreads \ {t} : entries'[u] = entries[u]
           /\ Len(entries'[t]) = Len(entries[t]) /\ entries'[t] # <<>>
           /\ entries'[t][Len(entries[t])] = r
           /\ \A i \in 1..Len(entries[t]) : i # Len(entries[t]) => entries'[t][i] = entries[t][i]
  <1>1. /\ entries \in [LogThreads -> Seq(EntryRecords)] /\ entries[t] \in Seq(EntryRecords)
    BY DEF LogInv, LogTypes
  <1>2. ASSUME NEW s \in Seq(EntryRecords), s # <<>>, NEW x, x = [s EXCEPT ![Len(s)] = r]
        PROVE  /\ x \in Seq(EntryRecords) /\ Len(x) = Len(s) /\ x # <<>> /\ x[Len(s)] = r
               /\ \A i \in 1..Len(s) : i # Len(s) => x[i] = s[i]
    <2>1. Len(s) \in Nat /\ Len(s) # 0
      BY <1>2
    <2>2. x \in Seq(EntryRecords) /\ Len(x) = Len(s)
      BY <1>2, <2>1
    <2>3. x[Len(s)] = r /\ \A i \in 1..Len(s) : i # Len(s) => x[i] = s[i]
      BY <1>2, <2>1
    <2> QED
      BY <2>1, <2>2, <2>3
  <1>3. PICK x : x = [entries[t] EXCEPT ![Len(entries[t])] = r]
    OBVIOUS
  <1>4. /\ x \in Seq(EntryRecords) /\ Len(x) = Len(entries[t]) /\ x # <<>>
        /\ x[Len(entries[t])] = r
        /\ \A i \in 1..Len(entries[t]) : i # Len(entries[t]) => x[i] = entries[t][i]
    BY <1>1, <1>2, <1>3
  <1>5. entries' = [entries EXCEPT ![t] = x]
    BY <1>3
  <1>6. entries'[t] = x /\ \A u \in LogThreads \ {t} : entries'[u] = entries[u]
    BY <1>1, <1>5
  <1>7. entries' \in [LogThreads -> Seq(EntryRecords)]
    BY <1>1, <1>4, <1>5
  <1> QED
    BY <1>4, <1>6, <1>7

\* Something is logged: by a thread outside LogImpl or in a callback.
LEMMA LogStep ==
    ASSUME LogInv, NEW t \in LogThreads, NEW n, NEW l, Log(t, n, l)
    PROVE  LogInv'
  <1>1. MayCall(t) /\ logged' = logged + 1 /\ UNCHANGED <<sinks, rootMutex, file, received, skipped>>
    BY DEF Log
  <1>2. PICK b \in BOOLEAN : b = (entries[t] # <<>>)
    OBVIOUS
  <1>3. PICK r : r = [id |-> logged + 1, at |-> 0, locked |-> FALSE, nested |-> b]
    OBVIOUS
  <1>4. entries' = [entries EXCEPT ![t] = Append(entries[t], r)]
    <2>1. entries' = [entries EXCEPT ![t] = Append(@, [id |-> logged + 1, at |-> 0,
                        locked |-> FALSE, nested |-> entries[t] # <<>>])]
      BY DEF Log
    <2> QED
      BY <1>2, <1>3, <2>1, Zenon
  <1>5. /\ entries \in [LogThreads -> Seq(EntryRecords)] /\ logged \in Nat
        /\ EntriesOf(t) /\ Len(sinks) \in Nat
    BY DEF LogInv, LogTypes
  <1>6. r \in EntryRecords /\ r.at = 0 /\ r.locked = FALSE /\ r.nested = b
    BY <1>3, <1>5 DEF EntryRecords
  <1>7. PICK m \in Nat : m = Len(entries[t]) /\ (m = 0 <=> entries[t] = <<>>)
    <2>1. \A s \in Seq(EntryRecords) : Len(s) \in Nat /\ (Len(s) = 0 <=> s = <<>>)
      OBVIOUS
    <2> QED
      BY <1>5, <2>1
  <1>8. /\ entries' \in [LogThreads -> Seq(EntryRecords)]
        /\ \A u \in LogThreads \ {t} : entries'[u] = entries[u]
        /\ Len(entries'[t]) = m + 1 /\ entries'[t][m + 1] = r /\ entries'[t] # <<>>
        /\ \A i \in 1..m : entries'[t][i] = entries[t][i]
    <2>1. PICK x : x = Append(entries[t], r)
      OBVIOUS
    <2>2. /\ x \in Seq(EntryRecords) /\ Len(x) = m + 1 /\ x[m + 1] = r /\ x # <<>>
          /\ \A i \in 1..m : x[i] = entries[t][i]
      BY <1>5, <1>6, <1>7, <2>1
    <2>3. entries'[t] = x /\ \A u \in LogThreads \ {t} : entries'[u] = entries[u]
      BY <1>4, <1>5, <2>1
    <2> QED
      BY <1>4, <1>5, <2>1, <2>2, <2>3
  <1>9. LogTypes'
    BY <1>1, <1>5, <1>8 DEF LogInv, LogTypes
  <1>10. ASSUME NEW i \in 1..m + 1 PROVE EntryInv(t, i)'
    <2>1. CASE i = m + 1
      <3>1. entries'[t][i] = r /\ ~(i < Len(entries'[t]))
        BY <1>8, <2>1
      <3>2. b = (i > 1)
        <4>1. i > 1 <=> m # 0
          BY <2>1
        <4>2. b <=> m # 0
          BY <1>2, <1>7
        <4> QED
          BY <4>1, <4>2
      <3>3. 0 <= Len(sinks) + 1 /\ ~(0 > 0)
        BY <1>5
      <3> QED
        BY <1>1, <1>6, <3>1, <3>2, <3>3 DEF EntryInv
    <2>2. CASE i # m + 1
      <3>1. i \in 1..m /\ entries'[t][i] = entries[t][i]
        BY <1>8, <2>2
      <3>2. EntryInv(t, i) /\ entries[t] # <<>>
        BY <1>5, <1>7, <3>1 DEF EntriesOf
      <3>3. entries[t][i].at > 1
        <4>1. CASE i = m
          BY <1>1, <1>7, <3>2, <4>1 DEF MayCall, Call
        <4>2. CASE i # m
          <5>1. i < Len(entries[t])
            BY <1>7, <3>1, <4>2
          <5> QED
            BY <3>2, <5>1 DEF EntryInv
        <4> QED
          BY <4>1, <4>2
      <3> QED
        BY <1>1, <3>1, <3>2, <3>3 DEF EntryInv
    <2> QED
      BY <2>1, <2>2
  <1>11. rootMutex = t => 1 \in 1..m /\ entries[t][1].locked
    BY <1>5, <1>7 DEF EntriesOf
  <1>12. EntriesOf(t)'
    BY <1>1, <1>8, <1>10, <1>11 DEF EntriesOf
  <1>13. \A u \in LogThreads \ {t} : EntriesOf(u)'
    <2>1. Len(sinks) <= Len(sinks')
      BY <1>1, <1>5
    <2> QED
      BY <1>1, <1>5, <1>8, <2>1, OtherEntries
  <1>14. rootMutex # NoThread => entries'[rootMutex][1] = entries[rootMutex][1]
    BY <1>8, <1>11 DEF LogInv, LogTypes
  <1>15. OrderInv'
    <2>1. OuterAt' = OuterAt /\ (OuterAt > 0 => OuterLine' = OuterLine)
      BY <1>1, <1>14, OuterSame
    <2> QED
      BY <1>1, <2>1, OrderKept
  <1> QED
    BY <1>9, <1>12, <1>13, <1>15 DEF LogInv

\* A thread's innermost call goes on, in the mutex.
LEMMA InnermostStep ==
    ASSUME LogInv, NEW t \in LogThreads, entries[t] # <<>>, NEW r \in EntryRecords,
           entries' = [entries EXCEPT ![t] = [entries[t] EXCEPT ![Len(entries[t])] = r]],
           sinks' = sinks, rootMutex \in {NoThread, t}, rootMutex' = t,
           r.nested = Call(t).nested, r.locked, r.at <= Len(sinks) + 1
    PROVE  \A u \in LogThreads : EntriesOf(u)'
  <1>1. /\ \A u \in LogThreads \ {t} : entries'[u] = entries[u]
        /\ Len(entries'[t]) = Len(entries[t]) /\ entries'[t] # <<>>
        /\ entries'[t][Len(entries[t])] = r
        /\ \A i \in 1..Len(entries[t]) : i # Len(entries[t]) => entries'[t][i] = entries[t][i]
    BY LastReplaced
  <1>2. PICK n \in Nat : n = Len(entries[t]) /\ n >= 1 /\ 1 \in 1..n /\ n \in 1..n
    BY CallTyped
  <1>3. /\ \A i \in 1..n : EntryInv(t, i) /\ entries[t][i].at \in Nat
        /\ Len(sinks) \in Nat
    BY <1>2, CallTyped DEF LogInv, LogTypes
  <1>4. ASSUME NEW i \in 1..n PROVE EntryInv(t, i)' /\ entries'[t][i].locked
    <2>1. CASE i = n
      <3>1. entries'[t][i] = r /\ Call(t) = entries[t][i] /\ ~(i < Len(entries'[t]))
        BY <1>1, <1>2, <2>1 DEF Call
      <3>2. r.nested = (i > 1)
        BY <1>3, <3>1 DEF EntryInv
      <3> QED
        BY <3>1, <3>2 DEF EntryInv
    <2>2. CASE i # n
      <3>1. entries'[t][i] = entries[t][i] /\ i < Len(entries[t])
        BY <1>1, <1>2, <2>2
      <3>2. entries[t][i].at > 1 /\ entries[t][i].at > 0
        BY <1>3, <3>1 DEF EntryInv
      <3> QED
        BY <1>1, <1>3, <3>1, <3>2 DEF EntryInv
    <2> QED
      BY <2>1, <2>2
  <1>5. EntriesOf(t)'
    BY <1>1, <1>2, <1>4 DEF EntriesOf
  <1>6. \A u \in LogThreads \ {t} : EntriesOf(u)'
    <2>1. Len(sinks) <= Len(sinks') /\ Len(sinks') \in Nat
      BY <1>3
    <2> QED
      BY <1>1, <2>1, OtherEntries
  <1> QED
    BY <1>5, <1>6

\* LogImpl gets the mutex: nothing is written yet.
LEMMA EnterStep ==
    ASSUME LogInv, NEW t \in LogThreads, EnterLogImpl(t)
    PROVE  LogInv'
  <1>1. /\ entries[t] # <<>> /\ ~Call(t).locked /\ rootMutex \in {NoThread, t}
        /\ rootMutex' = t /\ UNCHANGED <<sinks, file, received, skipped, logged>>
    BY DEF EnterLogImpl, Lockable
  <1>2. PICK r : r = [Call(t) EXCEPT !.locked = TRUE]
    OBVIOUS
  <1>3. entries' = [entries EXCEPT ![t] = [entries[t] EXCEPT ![Len(entries[t])] = r]]
    BY <1>2 DEF EnterLogImpl, Call
  <1>4. PICK n \in Nat : n = Len(entries[t]) /\ n >= 1 /\ 1 \in 1..n /\ n \in 1..n
    BY <1>1, CallTyped
  <1>5. Call(t) = entries[t][n] /\ Call(t) \in EntryRecords /\ EntryInv(t, n)
        /\ Call(t).at \in Nat
    BY <1>1, <1>4, CallTyped DEF Call
  <1>6. /\ r \in EntryRecords /\ r.nested = Call(t).nested /\ r.locked /\ r.at = Call(t).at
        /\ r.id = Call(t).id
    BY <1>2, <1>5 DEF EntryRecords
  <1>7. Call(t).at <= Len(sinks) + 1 /\ Call(t).at = 0
    BY <1>1, <1>5 DEF EntryInv
  <1>8. \A u \in LogThreads : EntriesOf(u)'
    BY <1>1, <1>3, <1>6, <1>7, InnermostStep
  <1>9. /\ entries' \in [LogThreads -> Seq(EntryRecords)]
        /\ entries'[t][n] = r
        /\ \A i \in 1..n : i # n => entries'[t][i] = entries[t][i]
    <2>1. /\ entries' \in [LogThreads -> Seq(EntryRecords)]
          /\ entries'[t][Len(entries[t])] = r
          /\ \A i \in 1..Len(entries[t]) : i # Len(entries[t]) => entries'[t][i] = entries[t][i]
      BY <1>1, <1>3, <1>6, LastReplaced
    <2> QED
      BY <1>4, <2>1
  <1>10. LogTypes'
    BY <1>1, <1>9 DEF LogInv, LogTypes
  <1>12. OuterAt' = OuterAt /\ (OuterAt > 0 => OuterLine' = OuterLine)
    <2>1. CASE rootMutex = NoThread
      <3>1. OuterAt = 0 /\ ~(0 > 0)
        BY <2>1 DEF OuterAt
      <3>2. n = 1
        <4>1. ASSUME n # 1 PROVE FALSE
          <5>1. 1 < Len(entries[t]) /\ EntryInv(t, 1) /\ entries[t][1].at \in Nat
            <6>1. n >= 1
              BY <1>4
            <6>2. 1 < n
              BY <4>1, <6>1
            <6>3. EntryInv(t, 1) /\ entries[t][1].at \in Nat
              BY <1>1, CallTyped
            <6> QED
              BY <1>4, <6>2, <6>3
          <5>2. entries[t][1].locked
            BY <5>1 DEF EntryInv
          <5> QED
            BY <2>1, <5>1, <5>2, LoggingAssumption DEF EntryInv
        <4> QED
          BY <4>1
      <3>3. entries'[t][1].at = 0 /\ t # NoThread
        BY <1>6, <1>7, <1>9, <3>2, LoggingAssumption
      <3>4. OuterAt' = 0
        BY <1>1, <3>3 DEF OuterAt
      <3> QED
        BY <3>1, <3>4
    <2>2. CASE rootMutex = t
      <3>1. entries[t][1].locked
        BY <2>2 DEF LogInv, EntriesOf
      <3>2. n # 1
        BY <1>1, <1>5, <3>1
      <3>3. entries'[t][1] = entries[t][1]
        BY <1>4, <1>9, <3>2
      <3> QED
        BY <1>1, <2>2, <3>3, OuterSame
    <2> QED
      BY <1>1, <2>1, <2>2
  <1>13. OrderInv'
    BY <1>1, <1>12, OrderKept
  <1> QED
    BY <1>8, <1>10, <1>13 DEF LogInv

\* The line of a call in the mutex, the last that Outer sees in the file when the
\* call is the outermost.
LEMMA WriteStep ==
    ASSUME LogInv, NEW t \in LogThreads, WriteLine(t)
    PROVE  LogInv'
  <1>1. /\ entries[t] # <<>> /\ Call(t).locked /\ Call(t).at = 0
        /\ UNCHANGED <<sinks, rootMutex, received, skipped, logged>>
    BY DEF WriteLine
  <1>2. PICK r : r = [Call(t) EXCEPT !.at = 1]
    OBVIOUS
  <1>3. entries' = [entries EXCEPT ![t] = [entries[t] EXCEPT ![Len(entries[t])] = r]]
    BY <1>2 DEF WriteLine, Call
  <1>4. PICK n \in Nat : n = Len(entries[t]) /\ n >= 1 /\ 1 \in 1..n /\ n \in 1..n
    BY <1>1, CallTyped
  <1>5. Call(t) = entries[t][n] /\ Call(t) \in EntryRecords /\ EntryInv(t, n)
    BY <1>1, <1>4, CallTyped DEF Call
  <1>6. /\ r \in EntryRecords /\ r.nested = Call(t).nested /\ r.locked /\ r.at = 1
        /\ r.id = Call(t).id
    BY <1>1, <1>2, <1>5 DEF EntryRecords
  <1>7. rootMutex = t /\ rootMutex # NoThread
    BY <1>1, <1>5, LoggingAssumption DEF EntryInv
  <1>8. /\ sinks \in Seq(LoggerCallbacks) /\ Len(sinks) \in Nat /\ file \in Seq(Lines)
        /\ received \in Seq(Seq(Lines)) /\ Len(received) = Len(sinks)
        /\ skipped \in Seq(SUBSET Nat) /\ Len(skipped) = Len(sinks)
    BY DEF LogInv, LogTypes
  <1>9. \A u \in LogThreads : EntriesOf(u)'
    <2>1. 1 <= Len(sinks) + 1
      BY <1>8
    <2>2. r.at <= Len(sinks) + 1
      BY <1>6, <2>1
    <2> QED
      BY <1>1, <1>3, <1>6, <1>7, <2>2, InnermostStep
  <1>10. /\ entries' \in [LogThreads -> Seq(EntryRecords)]
         /\ entries'[t][n] = r
         /\ \A i \in 1..n : i # n => entries'[t][i] = entries[t][i]
    <2>1. /\ entries' \in [LogThreads -> Seq(EntryRecords)]
          /\ entries'[t][Len(entries[t])] = r
          /\ \A i \in 1..Len(entries[t]) : i # Len(entries[t]) => entries'[t][i] = entries[t][i]
      BY <1>1, <1>3, <1>6, LastReplaced
    <2> QED
      BY <1>4, <2>1
  <1>11. PICK e \in Lines : e = [id |-> Call(t).id, nested |-> Call(t).nested]
    BY <1>5 DEF EntryRecords, Lines
  <1>12. file' = Append(file, e) /\ e.nested = Call(t).nested
    BY <1>11 DEF WriteLine
  <1>13. LogTypes'
    BY <1>1, <1>8, <1>10, <1>12 DEF LogInv, LogTypes
  <1>15. /\ Outer(file) \in Seq(Lines)
         /\ Outer(file') = IF e.nested THEN Outer(file) ELSE Append(Outer(file), e)
    BY <1>8, <1>12, OuterAppend
  <1>16. e.nested = (n > 1)
    BY <1>5, <1>12 DEF EntryInv
  <1>17. CASE n > 1
    <2>1. entries'[t][1] = entries[t][1]
      BY <1>4, <1>10, <1>17
    <2>2. OuterAt' = OuterAt /\ (OuterAt > 0 => OuterLine' = OuterLine)
      BY <1>1, <1>7, <2>1, OuterSame
    <2>3. Outer(file') = Outer(file)
      BY <1>15, <1>16, <1>17
    <2>4. OrderInv'
      BY <1>1, <2>2, <2>3, OrderKept
    <2> QED
      BY <1>9, <1>13, <2>4 DEF LogInv
  <1>18. CASE n = 1
    <2>1. Outer(file') = Append(Outer(file), e)
      <3>1. ~(n > 1)
        BY <1>18
      <3> QED
        BY <1>15, <1>16, <3>1
    <2>2. OuterAt = 0 /\ OuterAt' = 1 /\ OuterLine' = e
      <3>1. entries'[t][1] = r /\ entries[t][1] = Call(t)
        BY <1>5, <1>10, <1>18
      <3>2. OuterAt = 0
        BY <1>1, <1>7, <3>1 DEF OuterAt
      <3>3. OuterAt' = 1
        BY <1>1, <1>6, <1>7, <3>1 DEF OuterAt
      <3>4. OuterLine' = e
        BY <1>1, <1>6, <1>7, <1>11, <3>1 DEF OuterLine
      <3> QED
        BY <3>2, <3>3, <3>4
    <2>3. ASSUME NEW i \in 1..Len(sinks) PROVE SinkInv(i)'
      <3>1. 0 \notin 1..i /\ 1 \in 1..i
        OBVIOUS
      <3>2. Has(Outer(received[i]), Outer(file), skipped[i])
        BY <2>2, <3>1 DEF LogInv, OrderInv, SinkInv
      <3>3. Lacks(Outer(received[i]), Append(Outer(file), e), skipped[i], e)
        BY <1>15, <3>2, LacksWritten
      <3> QED
        BY <1>1, <2>1, <2>2, <3>1, <3>3 DEF SinkInv
    <2>4. OrderInv'
      BY <1>1, <1>15, <2>1, <2>2, <2>3 DEF OrderInv
    <2> QED
      BY <1>9, <1>13, <2>4 DEF LogInv
  <1>19. n > 1 \/ n = 1
    <2>1. n >= 1
      BY <1>4
    <2> QED
      BY <2>1
  <1> QED
    BY <1>17, <1>18, <1>19

\* The next callback gets the line.
LEMMA CallBackStep ==
    ASSUME LogInv, NEW t \in LogThreads, CallBack(t)
    PROVE  LogInv'
  <1>1. /\ entries[t] # <<>> /\ Call(t).at \in 1..Len(sinks)
        /\ UNCHANGED <<sinks, rootMutex, file, skipped, logged>>
    BY DEF CallBack
  <1>2. PICK r : r = [Call(t) EXCEPT !.at = Call(t).at + 1]
    OBVIOUS
  <1>3. entries' = [entries EXCEPT ![t] = [entries[t] EXCEPT ![Len(entries[t])] = r]]
    BY <1>2 DEF CallBack, Call
  <1>4. PICK n \in Nat : n = Len(entries[t]) /\ n >= 1 /\ 1 \in 1..n /\ n \in 1..n
    BY <1>1, CallTyped
  <1>5. Call(t) = entries[t][n] /\ Call(t) \in EntryRecords /\ EntryInv(t, n)
    BY <1>1, <1>4, CallTyped DEF Call
  <1>6. /\ sinks \in Seq(LoggerCallbacks) /\ Len(sinks) \in Nat /\ file \in Seq(Lines)
        /\ received \in Seq(Seq(Lines)) /\ Len(received) = Len(sinks)
        /\ skipped \in Seq(SUBSET Nat) /\ Len(skipped) = Len(sinks)
    BY DEF LogInv, LogTypes
  <1>7. PICK a \in 1..Len(sinks) : a = Call(t).at
    BY <1>1
  <1>8. a \in Nat /\ a + 1 \in Nat /\ a > 0 /\ a + 1 <= Len(sinks) + 1 /\ a + 1 > 0
    BY <1>6
  <1>9. Call(t).locked
    BY <1>5, <1>7, <1>8 DEF EntryInv
  <1>10. rootMutex = t /\ rootMutex # NoThread
    BY <1>5, <1>9, LoggingAssumption DEF EntryInv
  <1>11. /\ r \in EntryRecords /\ r.nested = Call(t).nested /\ r.locked /\ r.at = a + 1
         /\ r.id = Call(t).id
    BY <1>2, <1>5, <1>7, <1>8, <1>9 DEF EntryRecords
  <1>12. \A u \in LogThreads : EntriesOf(u)'
    BY <1>1, <1>3, <1>8, <1>10, <1>11, InnermostStep
  <1>13. /\ entries' \in [LogThreads -> Seq(EntryRecords)]
         /\ entries'[t][n] = r
         /\ \A i \in 1..n : i # n => entries'[t][i] = entries[t][i]
    <2>1. /\ entries' \in [LogThreads -> Seq(EntryRecords)]
          /\ entries'[t][Len(entries[t])] = r
          /\ \A i \in 1..Len(entries[t]) : i # Len(entries[t]) => entries'[t][i] = entries[t][i]
      BY <1>1, <1>3, <1>11, LastReplaced
    <2> QED
      BY <1>4, <2>1
  <1>14. PICK e \in Lines : e = [id |-> Call(t).id, nested |-> Call(t).nested]
    BY <1>5 DEF EntryRecords, Lines
  <1>15. received' = [received EXCEPT ![a] = Append(received[a], e)]
    BY <1>7, <1>14 DEF CallBack
  <1>16. received[a] \in Seq(Lines) /\ Append(received[a], e) \in Seq(Lines)
    <2>1. received[a] \in Seq(Lines)
      BY <1>6
    <2> QED
      BY <2>1
  <1>17. /\ received' \in Seq(Seq(Lines)) /\ Len(received') = Len(sinks)
         /\ received'[a] = Append(received[a], e)
         /\ \A i \in 1..Len(sinks) : i # a => received'[i] = received[i]
    BY <1>6, <1>15, <1>16
  <1>18. LogTypes'
    BY <1>1, <1>13, <1>17 DEF LogInv, LogTypes
  <1>20. /\ Outer(received[a]) \in Seq(Lines)
         /\ Outer(received'[a]) = IF e.nested THEN Outer(received[a])
                                  ELSE Append(Outer(received[a]), e)
    BY <1>16, <1>17, OuterAppend
  <1>21. e.nested = (n > 1)
    BY <1>5, <1>14 DEF EntryInv
  <1>22. CASE n > 1
    <2>1. entries'[t][1] = entries[t][1]
      BY <1>4, <1>13, <1>22
    <2>2. OuterAt' = OuterAt /\ (OuterAt > 0 => OuterLine' = OuterLine)
      BY <1>1, <1>10, <2>1, OuterSame
    <2>3. \A i \in 1..Len(sinks) : Outer(received'[i]) = Outer(received[i])
      BY <1>17, <1>20, <1>21, <1>22
    <2>4. OrderInv'
      BY <1>1, <2>2, <2>3, OrderKept
    <2> QED
      BY <1>12, <1>18, <2>4 DEF LogInv
  <1>23. CASE n = 1
    <2>1. Outer(received'[a]) = Append(Outer(received[a]), e)
      <3>1. ~(n > 1)
        BY <1>23
      <3> QED
        BY <1>20, <1>21, <3>1
    <2>2. OuterAt = a /\ OuterAt' = a + 1 /\ OuterLine = e /\ OuterLine' = e
      <3>1. entries'[t][1] = r /\ entries[t][1] = Call(t)
        BY <1>5, <1>13, <1>23
      <3>2. OuterAt = a /\ OuterLine = e
        BY <1>7, <1>10, <1>14, <3>1 DEF OuterAt, OuterLine
      <3>3. OuterAt' = a + 1
        BY <1>1, <1>10, <1>11, <3>1 DEF OuterAt
      <3>4. OuterLine' = e
        BY <1>1, <1>10, <1>11, <1>14, <3>1 DEF OuterLine
      <3> QED
        BY <3>2, <3>3, <3>4
    <2>3. OrderInv
      BY DEF LogInv
    <2>4. ASSUME NEW i \in 1..Len(sinks) PROVE SinkInv(i)'
      <3>1. IF a \in 1..i THEN Lacks(Outer(received[i]), Outer(file), skipped[i], e)
                          ELSE Has(Outer(received[i]), Outer(file), skipped[i])
        BY <2>2, <2>3 DEF OrderInv, SinkInv
      <3>2. IF a + 1 \in 1..i THEN Lacks(Outer(received'[i]), Outer(file), skipped[i], e)
                              ELSE Has(Outer(received'[i]), Outer(file), skipped[i])
        <4>1. CASE i = a
          <5>1. a \in 1..i /\ a + 1 \notin 1..i
            BY <1>8, <4>1
          <5>2. Lacks(Outer(received[a]), Outer(file), skipped[a], e)
            BY <3>1, <4>1, <5>1
          <5>3. Has(Append(Outer(received[a]), e), Outer(file), skipped[a])
            BY <5>2 DEF Lacks, Has
          <5> QED
            BY <2>1, <4>1, <5>1, <5>3
        <4>2. CASE i # a
          <5>1. a \in 1..i <=> a + 1 \in 1..i
            BY <1>8, <4>2
          <5>2. received'[i] = received[i]
            BY <1>17, <4>2
          <5> QED
            BY <3>1, <5>1, <5>2
        <4> QED
          BY <4>1, <4>2
      <3> QED
        BY <1>1, <2>2, <3>2 DEF SinkInv
    <2>5. \E b \in Seq(Lines) : Outer(file) = Append(b, e)
      BY <1>8, <2>2, <2>3 DEF OrderInv
    <2>6. OrderInv'
      BY <1>1, <2>2, <2>4, <2>5 DEF OrderInv
    <2> QED
      BY <1>12, <1>18, <2>6 DEF LogInv
  <1>24. n > 1 \/ n = 1
    <2>1. n >= 1
      BY <1>4
    <2> QED
      BY <2>1
  <1> QED
    BY <1>22, <1>23, <1>24

\* LogImpl returns: every callback has the line.
LEMMA LeaveStep ==
    ASSUME LogInv, NEW t \in LogThreads, LeaveLogImpl(t)
    PROVE  LogInv'
  <1>1. /\ entries[t] # <<>> /\ Call(t).at > Len(sinks)
        /\ UNCHANGED <<sinks, file, received, skipped, logged>>
    BY DEF LeaveLogImpl
  <1>2. PICK n \in Nat : n = Len(entries[t]) /\ n >= 1 /\ 1 \in 1..n /\ n \in 1..n
    BY <1>1, CallTyped
  <1>3. /\ Call(t) = entries[t][n] /\ EntryInv(t, n) /\ Call(t).at \in Nat
        /\ entries \in [LogThreads -> Seq(EntryRecords)] /\ Len(sinks) \in Nat
        /\ entries[t] \in Seq(EntryRecords)
    BY <1>1, <1>2, CallTyped DEF Call, LogInv, LogTypes
  <1>4. Call(t).locked
    <2>1. Call(t).at > 0
      BY <1>1, <1>3
    <2> QED
      BY <1>3, <2>1 DEF EntryInv
  <1>5. rootMutex = t /\ rootMutex # NoThread
    BY <1>3, <1>4, LoggingAssumption DEF EntryInv
  <1>6. PICK m \in Nat : m = n - 1 /\ n = m + 1 /\ \A i \in 1..m : i \in 1..n /\ i < n
    <2>1. n >= 1
      BY <1>2
    <2> QED
      BY <2>1
  <1>7. /\ entries' \in [LogThreads -> Seq(EntryRecords)]
        /\ \A u \in LogThreads \ {t} : entries'[u] = entries[u]
        /\ Len(entries'[t]) = m /\ \A i \in 1..m : entries'[t][i] = entries[t][i]
    <2>1. PICK x : x = SubSeq(entries[t], 1, m)
      OBVIOUS
    <2>2. entries' = [entries EXCEPT ![t] = x]
      <3>1. Front(entries[t]) = SubSeq(entries[t], 1, m)
        BY <1>2, <1>6 DEF Front
      <3> QED
        BY <2>1, <3>1 DEF LeaveLogImpl
    <2>3. ASSUME NEW s \in Seq(EntryRecords), Len(s) = n
          PROVE  /\ SubSeq(s, 1, m) \in Seq(EntryRecords) /\ Len(SubSeq(s, 1, m)) = m
                 /\ \A i \in 1..m : SubSeq(s, 1, m)[i] = s[i]
      BY <1>6, <2>3
    <2>4. x \in Seq(EntryRecords) /\ Len(x) = m /\ \A i \in 1..m : x[i] = entries[t][i]
      BY <1>2, <1>3, <2>1, <2>3
    <2>5. entries'[t] = x /\ \A u \in LogThreads \ {t} : entries'[u] = entries[u]
      BY <1>3, <2>2
    <2> QED
      BY <1>3, <2>2, <2>4, <2>5
  <1>8. \A i \in 1..m : EntryInv(t, i) /\ entries[t][i].at > 1 /\ entries[t][i].at \in Nat
    <2> SUFFICES ASSUME NEW i \in 1..m
                 PROVE  EntryInv(t, i) /\ entries[t][i].at > 1 /\ entries[t][i].at \in Nat
      OBVIOUS
    <2>1. i \in 1..Len(entries[t]) /\ i < Len(entries[t])
      BY <1>2, <1>6
    <2>2. EntryInv(t, i) /\ entries[t][i].at \in Nat
      BY <1>1, <2>1, CallTyped
    <2> QED
      BY <2>1, <2>2 DEF EntryInv
  <1>10. CASE m = 0
    <2>1. rootMutex' = NoThread
      <3>1. Len(entries[t]) = 1
        BY <1>2, <1>6, <1>10
      <3> QED
        BY <3>1 DEF LeaveLogImpl
    <2>2. LogTypes'
      BY <1>1, <1>7, <2>1 DEF LogInv, LogTypes
    <2>3. EntriesOf(t)'
      <3>1. \A i \in 1..0 : FALSE
        OBVIOUS
      <3> QED
        BY <1>7, <1>10, <2>1, <3>1, LoggingAssumption DEF EntriesOf
    <2>4. \A u \in LogThreads \ {t} : EntriesOf(u)'
      <3>1. Len(sinks) <= Len(sinks') /\ Len(sinks') \in Nat
        BY <1>1, <1>3
      <3> QED
        BY <1>5, <1>7, <2>1, <3>1, OtherEntries
    <2>5. OuterAt = Call(t).at /\ OuterAt' = 0
      <3>1. entries[t][1] = Call(t)
        BY <1>3, <1>6, <1>10
      <3> QED
        BY <1>5, <2>1, <3>1 DEF OuterAt
    <2>6. ASSUME NEW i \in 1..Len(sinks) PROVE Has(Outer(received[i]), Outer(file), skipped[i])
      <3>1. OuterAt \notin 1..i
        <4>1. PICK a \in Nat, k \in Nat : a = Call(t).at /\ k = Len(sinks) /\ a > k /\ i <= k
          BY <1>1, <1>3
        <4>2. a \notin 1..i
          BY <4>1
        <4> QED
          BY <2>5, <4>1, <4>2
      <3> QED
        BY <3>1 DEF LogInv, OrderInv, SinkInv
    <2>7. OrderInv'
      <3>1. ~(0 > 0) /\ \A i \in 1..Len(sinks) : 0 \notin 1..i
        OBVIOUS
      <3> QED
        BY <1>1, <2>5, <2>6, <3>1 DEF OrderInv, SinkInv
    <2> QED
      BY <2>2, <2>3, <2>4, <2>7 DEF LogInv
  <1>11. CASE m # 0
    <2>1. 1 \in 1..m /\ n # 1
      BY <1>6, <1>11
    <2>2. rootMutex' = rootMutex
      <3>1. Len(entries[t]) # 1
        BY <1>2, <2>1
      <3> QED
        BY <3>1 DEF LeaveLogImpl
    <2>3. LogTypes'
      BY <1>1, <1>7, <2>2 DEF LogInv, LogTypes
    <2>4. ASSUME NEW i \in 1..m PROVE EntryInv(t, i)' /\ entries'[t][i].locked
      <3>1. entries'[t][i] = entries[t][i]
        BY <1>7
      <3>2. entries[t][i].at > 0
        BY <1>8
      <3> QED
        BY <1>1, <1>8, <2>2, <3>1, <3>2 DEF EntryInv
    <2>5. EntriesOf(t)'
      <3>1. entries'[t] # <<>>
        <4>1. Len(entries'[t]) # 0
          BY <1>7, <1>11
        <4> QED
          BY <4>1
      <3> QED
        BY <1>7, <2>1, <2>4, <3>1 DEF EntriesOf
    <2>6. \A u \in LogThreads \ {t} : EntriesOf(u)'
      <3>1. Len(sinks) <= Len(sinks') /\ Len(sinks') \in Nat
        BY <1>1, <1>3
      <3> QED
        BY <1>7, <2>2, <3>1, OtherEntries
    <2>7. OuterAt' = OuterAt /\ (OuterAt > 0 => OuterLine' = OuterLine)
      <3>1. entries'[t][1] = entries[t][1]
        BY <1>7, <2>1
      <3> QED
        BY <1>5, <2>2, <3>1, OuterSame
    <2>8. OrderInv'
      BY <1>1, <2>7, OrderKept
    <2> QED
      BY <2>3, <2>5, <2>6, <2>8 DEF LogInv
  <1> QED
    BY <1>10, <1>11

\* A callback throws: the calls that are left have a callback running.
LEMMA ThrowStep ==
    ASSUME LogInv, NEW t \in LogThreads, NEW d, CallBackThrows(t, d)
    PROVE  LogInv'
  <1>1. /\ entries[t] # <<>> /\ Call(t).at > 1 /\ d \in 0..Len(entries[t]) - 1
        /\ entries' = [entries EXCEPT ![t] = SubSeq(entries[t], 1, d)]
        /\ UNCHANGED <<sinks, file, received, logged>>
    BY DEF CallBackThrows
  <1>2. PICK n \in Nat : n = Len(entries[t]) /\ n >= 1 /\ 1 \in 1..n /\ n \in 1..n
    BY <1>1, CallTyped
  <1>3. /\ Call(t) = entries[t][n] /\ EntryInv(t, n) /\ Call(t).at \in Nat
        /\ entries \in [LogThreads -> Seq(EntryRecords)] /\ Len(sinks) \in Nat
        /\ entries[t] \in Seq(EntryRecords)
        /\ skipped \in Seq(SUBSET Nat) /\ Len(skipped) = Len(sinks)
        /\ received \in Seq(Seq(Lines)) /\ Len(received) = Len(sinks) /\ file \in Seq(Lines)
    BY <1>1, <1>2, CallTyped DEF Call, LogInv, LogTypes
  <1>4. Call(t).locked
    <2>1. Call(t).at > 0
      BY <1>1, <1>3
    <2> QED
      BY <1>3, <2>1 DEF EntryInv
  <1>5. rootMutex = t /\ rootMutex # NoThread
    BY <1>3, <1>4, LoggingAssumption DEF EntryInv
  <1>6. d \in Nat /\ d < n /\ \A i \in 1..d : i \in 1..n /\ i < n
    <2>1. n >= 1 /\ d \in 0..n - 1
      BY <1>1, <1>2
    <2> QED
      BY <2>1
  <1>7. /\ entries' \in [LogThreads -> Seq(EntryRecords)]
        /\ \A u \in LogThreads \ {t} : entries'[u] = entries[u]
        /\ Len(entries'[t]) = d /\ \A i \in 1..d : entries'[t][i] = entries[t][i]
    <2>1. PICK x : x = SubSeq(entries[t], 1, d)
      OBVIOUS
    <2>2. entries' = [entries EXCEPT ![t] = x]
      BY <1>1, <2>1
    <2>3. ASSUME NEW s \in Seq(EntryRecords), Len(s) = n
          PROVE  /\ SubSeq(s, 1, d) \in Seq(EntryRecords) /\ Len(SubSeq(s, 1, d)) = d
                 /\ \A i \in 1..d : SubSeq(s, 1, d)[i] = s[i]
      BY <1>6, <2>3
    <2>4. x \in Seq(EntryRecords) /\ Len(x) = d /\ \A i \in 1..d : x[i] = entries[t][i]
      BY <1>2, <1>3, <2>1, <2>3
    <2>5. entries'[t] = x /\ \A u \in LogThreads \ {t} : entries'[u] = entries[u]
      BY <1>3, <2>2
    <2> QED
      BY <1>3, <2>2, <2>4, <2>5
  <1>8. \A i \in 1..d : EntryInv(t, i) /\ entries[t][i].at > 1 /\ entries[t][i].at \in Nat
    <2> SUFFICES ASSUME NEW i \in 1..d
                 PROVE  EntryInv(t, i) /\ entries[t][i].at > 1 /\ entries[t][i].at \in Nat
      OBVIOUS
    <2>1. i \in 1..Len(entries[t]) /\ i < Len(entries[t])
      BY <1>2, <1>6
    <2>2. EntryInv(t, i) /\ entries[t][i].at \in Nat
      BY <1>1, <2>1, CallTyped
    <2> QED
      BY <2>1, <2>2 DEF EntryInv
  <1>9. CASE d = 0
    <2>1. rootMutex' = NoThread
      BY <1>9 DEF CallBackThrows
    <2>2. PICK a \in Nat : a = entries[t][1].at /\ a > 1
      <3>1. EntryInv(t, 1) /\ entries[t][1].at \in Nat
        BY <1>1, <1>2, CallTyped
      <3>2. entries[t][1].at > 1
        <4>1. CASE n = 1
          BY <1>1, <1>3, <4>1
        <4>2. CASE n # 1
          <5>1. 1 < n
            <6>1. n >= 1
              BY <1>2
            <6> QED
              BY <4>2, <6>1
          <5>2. 1 < Len(entries[t])
            BY <1>2, <5>1
          <5> QED
            BY <3>1, <5>2 DEF EntryInv
        <4> QED
          BY <4>1, <4>2
      <3> QED
        BY <3>1, <3>2
    <2>3. OuterAt = a /\ OuterAt' = 0 /\ a > 0
      BY <1>5, <2>1, <2>2 DEF OuterAt
    <2>4. PICK e : e = OuterLine
      OBVIOUS
    <2>5. e \in Lines
      <3>1. entries[t][1].id \in Nat /\ entries[t][1].nested \in BOOLEAN
        BY <1>1, <1>2, CallTyped
      <3> QED
        BY <1>5, <2>4, <3>1 DEF OuterLine, Lines
    <2>6. PICK all : all = Outer(file)
      OBVIOUS
    <2>7. PICK b \in Seq(Lines) : all = Append(b, e)
      BY <2>3, <2>4, <2>6 DEF LogInv, OrderInv
    <2>8. Len(all) \in Nat
      <3>1. all \in Seq(Lines)
        BY <1>3, <2>6, OuterTyped
      <3> QED
        BY <3>1
    <2>9. skipped' = [i \in DOMAIN skipped |->
                      IF i >= a THEN skipped[i] \cup {Len(all)} ELSE skipped[i]]
      <3>1. skipped' = [i \in DOMAIN skipped |->
                        IF d = 0 /\ i >= entries[t][1].at
                          THEN skipped[i] \cup {Len(Outer(file))} ELSE skipped[i]]
        BY DEF CallBackThrows
      <3> QED
        BY <1>9, <2>2, <2>6, <3>1, Zenon
    <2>10. PICK k \in Nat : k = Len(sinks) /\ DOMAIN skipped = 1..k
      BY <1>3
    <2>11. /\ skipped' \in Seq(SUBSET Nat) /\ Len(skipped') = k
           /\ \A i \in 1..k : skipped'[i] = IF i >= a THEN skipped[i] \cup {Len(all)} ELSE skipped[i]
      <3>1. \A i \in 1..k : skipped[i] \in SUBSET Nat
        BY <1>3, <2>10
      <3>2. \A i \in 1..k : (IF i >= a THEN skipped[i] \cup {Len(all)} ELSE skipped[i]) \in SUBSET Nat
        BY <2>8, <3>1
      <3> QED
        BY <2>9, <2>10, <3>2
    <2>12. LogTypes'
      BY <1>1, <1>7, <2>1, <2>10, <2>11 DEF LogInv, LogTypes
    <2>13. EntriesOf(t)'
      <3>1. \A i \in 1..0 : FALSE
        OBVIOUS
      <3> QED
        BY <1>7, <1>9, <2>1, <3>1, LoggingAssumption DEF EntriesOf
    <2>14. \A u \in LogThreads \ {t} : EntriesOf(u)'
      <3>1. Len(sinks) <= Len(sinks') /\ Len(sinks') \in Nat
        BY <1>1, <1>3
      <3> QED
        BY <1>5, <1>7, <2>1, <3>1, OtherEntries
    <2>15. ASSUME NEW i \in 1..k PROVE Has(Outer(received[i]), all, skipped'[i])
      <3>1. SinkInv(i) /\ i \in Nat
        BY <2>10 DEF LogInv, OrderInv
      <3>2. CASE i >= a
        <4>1. a \in 1..i
          BY <2>3, <3>1, <3>2
        <4>2. Lacks(Outer(received[i]), all, skipped[i], e)
          BY <2>3, <2>4, <2>6, <3>1, <4>1 DEF SinkInv
        <4>3. Outer(received[i]) \in Seq(Lines)
          <5>1. received[i] \in Seq(Lines)
            BY <1>3, <2>10
          <5> QED
            BY <5>1, OuterTyped
        <4>4. Has(Outer(received[i]), all, skipped[i] \cup {Len(all)})
          BY <2>5, <2>7, <4>2, <4>3, HasThrown
        <4> QED
          BY <2>11, <3>2, <4>4
      <3>3. CASE ~(i >= a)
        <4>1. a \notin 1..i
          BY <2>2, <3>1, <3>3
        <4>2. Has(Outer(received[i]), all, skipped[i])
          BY <2>3, <2>6, <3>1, <4>1 DEF SinkInv
        <4> QED
          BY <2>11, <3>3, <4>2
      <3> QED
        BY <3>2, <3>3
    <2>16. OrderInv'
      <3>1. ~(0 > 0) /\ \A i \in 1..k : 0 \notin 1..i
        OBVIOUS
      <3> QED
        BY <1>1, <2>3, <2>6, <2>10, <2>15, <3>1 DEF OrderInv, SinkInv
    <2> QED
      BY <2>12, <2>13, <2>14, <2>16 DEF LogInv
  <1>10. CASE d # 0
    <2>1. 1 \in 1..d
      BY <1>6, <1>10
    <2>2. rootMutex' = rootMutex /\ skipped' = skipped
      <3>1. rootMutex' = rootMutex
        BY <1>10 DEF CallBackThrows
      <3>2. skipped' = [i \in DOMAIN skipped |-> skipped[i]]
        BY <1>10 DEF CallBackThrows
      <3> QED
        BY <1>3, <3>1, <3>2
    <2>3. LogTypes'
      BY <1>1, <1>7, <2>2 DEF LogInv, LogTypes
    <2>4. ASSUME NEW i \in 1..d PROVE EntryInv(t, i)' /\ entries'[t][i].locked
      <3>1. entries'[t][i] = entries[t][i]
        BY <1>7
      <3>2. entries[t][i].at > 0
        BY <1>8
      <3> QED
        BY <1>1, <1>8, <2>2, <3>1, <3>2 DEF EntryInv
    <2>5. EntriesOf(t)'
      <3>1. entries'[t] # <<>>
        <4>1. Len(entries'[t]) # 0
          BY <1>7, <1>10
        <4> QED
          BY <4>1
      <3> QED
        BY <1>7, <2>1, <2>4, <3>1 DEF EntriesOf
    <2>6. \A u \in LogThreads \ {t} : EntriesOf(u)'
      <3>1. Len(sinks) <= Len(sinks') /\ Len(sinks') \in Nat
        BY <1>1, <1>3
      <3> QED
        BY <1>7, <2>2, <3>1, OtherEntries
    <2>7. OuterAt' = OuterAt /\ (OuterAt > 0 => OuterLine' = OuterLine)
      <3>1. entries'[t][1] = entries[t][1]
        BY <1>7, <2>1
      <3> QED
        BY <1>5, <2>2, <3>1, OuterSame
    <2>8. OrderInv'
      BY <1>1, <2>2, <2>7, OrderKept
    <2> QED
      BY <2>3, <2>5, <2>6, <2>8 DEF LogInv
  <1> QED
    BY <1>9, <1>10

\* A callback is added, while nobody writes or by a callback in the loop, which
\* will reach it.
LEMMA AddStep ==
    ASSUME LogInv, NEW t \in LogThreads, NEW c \in LoggerCallbacks, AddLoggerCallback(t, c)
    PROVE  LogInv'
  <1>1. /\ sinks' = Append(sinks, c) /\ received' = Append(received, <<>>)
        /\ MayCall(t) /\ rootMutex \in {NoThread, t}
        /\ UNCHANGED <<rootMutex, entries, file, logged>>
    BY DEF AddLoggerCallback, Lockable
  <1>2. /\ sinks \in Seq(LoggerCallbacks) /\ file \in Seq(Lines)
        /\ received \in Seq(Seq(Lines)) /\ Len(received) = Len(sinks)
        /\ skipped \in Seq(SUBSET Nat) /\ Len(skipped) = Len(sinks) /\ NoThread \notin LogThreads
    BY LoggingAssumption DEF LogInv, LogTypes
  <1>3. PICK m \in Nat : m = Len(sinks)
    BY <1>2
  <1>4. PICK all \in Seq(Lines) : all = Outer(file)
    BY <1>2, OuterTyped
  <1>5. PICK gone : gone = 1..(IF entries[t] = <<>> THEN Len(all) ELSE Len(all) - 1)
    OBVIOUS
  <1>6. gone \in SUBSET Nat /\ skipped' = Append(skipped, gone)
    BY <1>4, <1>5 DEF AddLoggerCallback
  <1>7. /\ sinks' \in Seq(LoggerCallbacks) /\ Len(sinks') = m + 1
    BY <1>1, <1>2, <1>3
  <1>8. /\ received' \in Seq(Seq(Lines)) /\ Len(received') = m + 1 /\ received'[m + 1] = <<>>
        /\ \A i \in 1..m : received'[i] = received[i]
    BY <1>1, <1>2, <1>3
  <1>9. /\ skipped' \in Seq(SUBSET Nat) /\ Len(skipped') = m + 1 /\ skipped'[m + 1] = gone
        /\ \A i \in 1..m : skipped'[i] = skipped[i]
    BY <1>2, <1>3, <1>6
  <1>10. LogTypes'
    BY <1>1, <1>7, <1>8, <1>9 DEF LogInv, LogTypes
  <1>11. \A u \in LogThreads : EntriesOf(u)'
    <2>1. Len(sinks) <= Len(sinks') /\ Len(sinks') \in Nat
      BY <1>3, <1>7
    <2>2. \A u \in LogThreads \ {NoThread} : EntriesOf(u)'
      BY <1>1, <2>1, OtherEntries
    <2> QED
      BY <1>2, <2>2
  <1>12. OuterAt' = OuterAt /\ OuterLine' = OuterLine
    BY <1>1 DEF OuterAt, OuterLine
  <1>13. IF OuterAt \in 1..m + 1 THEN Lacks(<<>>, all, gone, OuterLine) ELSE Has(<<>>, all, gone)
    <2>1. CASE entries[t] = <<>>
      <3>1. rootMutex = NoThread
        BY <1>1, <2>1 DEF LogInv, EntriesOf
      <3>2. OuterAt = 0 /\ 0 \notin 1..m + 1
        BY <3>1 DEF OuterAt
      <3>3. gone = 1..Len(all)
        BY <1>5, <2>1
      <3>4. Has(<<>>, all, gone)
        BY <3>3, HasAdded
      <3> QED
        BY <3>2, <3>4
    <2>2. CASE entries[t] # <<>>
      <3>1. PICK n \in Nat : n = Len(entries[t]) /\ n >= 1 /\ 1 \in 1..n /\ n \in 1..n
        BY <2>2, CallTyped
      <3>2. /\ entries[t][n].at > 1 /\ EntryInv(t, n) /\ entries[t][n].at \in Nat
            /\ EntryInv(t, 1) /\ entries[t][1].at \in Nat
            /\ entries[t][1].id \in Nat /\ entries[t][1].nested \in BOOLEAN
        BY <1>1, <2>2, <3>1, CallTyped DEF MayCall, Call
      <3>3. entries[t][n].at > 0
        BY <3>2
      <3>4. rootMutex = t /\ rootMutex # NoThread
        BY <1>2, <3>2, <3>3 DEF EntryInv
      <3>5. entries[t][1].at > 1
        <4>1. CASE n = 1
          BY <3>2, <4>1
        <4>2. CASE n # 1
          <5>1. 1 < n
            <6>1. n >= 1
              BY <3>1
            <6> QED
              BY <4>2, <6>1
          <5>2. 1 < Len(entries[t])
            BY <3>1, <5>1
          <5> QED
            BY <3>2, <5>2 DEF EntryInv
        <4> QED
          BY <4>1, <4>2
      <3>6. PICK a \in Nat : a = entries[t][1].at /\ a > 1 /\ a <= m + 1
        BY <1>3, <3>2, <3>5 DEF EntryInv
      <3>7. OuterAt = a /\ a \in 1..m + 1 /\ a > 0
        <4>1. OuterAt = a
          BY <3>4, <3>6 DEF OuterAt
        <4> QED
          BY <3>6, <4>1
      <3>8. PICK e \in Lines : e = OuterLine
        BY <3>2, <3>4 DEF OuterLine, Lines
      <3>9. PICK b \in Seq(Lines) : all = Append(b, e)
        BY <1>4, <3>7, <3>8 DEF LogInv, OrderInv
      <3>10. gone = 1..(Len(all) - 1)
        BY <1>5, <2>2
      <3>11. Lacks(<<>>, all, gone, e)
        BY <3>9, <3>10, LacksAdded
      <3> QED
        BY <3>7, <3>8, <3>11
    <2> QED
      BY <2>1, <2>2
  <1>14. ASSUME NEW i \in 1..m + 1 PROVE SinkInv(i)'
    <2>1. CASE i = m + 1
      <3>1. Outer(received'[i]) = <<>>
        BY <1>8, <2>1, OuterEmpty
      <3>2. skipped'[i] = gone
        BY <1>9, <2>1
      <3>3. Outer(file') = all
        BY <1>1, <1>4
      <3> QED
        BY <1>12, <1>13, <2>1, <3>1, <3>2, <3>3 DEF SinkInv
    <2>2. CASE i # m + 1
      <3>1. i \in 1..m
        BY <2>2
      <3>2. received'[i] = received[i] /\ skipped'[i] = skipped[i]
        BY <1>8, <1>9, <3>1
      <3>3. SinkInv(i)
        BY <1>3, <3>1 DEF LogInv, OrderInv
      <3> QED
        BY <1>1, <1>12, <3>2, <3>3 DEF SinkInv
    <2> QED
      BY <2>1, <2>2
  <1>15. OuterAt > 0 => \E b \in Seq(Lines) : Outer(file) = Append(b, OuterLine)
    BY DEF LogInv, OrderInv
  <1>16. OrderInv'
    BY <1>1, <1>7, <1>12, <1>14, <1>15 DEF OrderInv
  <1> QED
    BY <1>10, <1>11, <1>16 DEF LogInv

\* Steps that leave the calls, the file and the callbacks alone.
LEMMA LogStutter ==
    ASSUME LogInv, UNCHANGED <<sinks, rootMutex, entries, file, received, skipped, logged>>
    PROVE  LogInv'
  <1>1. LogTypes'
    BY DEF LogInv, LogTypes
  <1>2. \A t \in LogThreads : EntriesOf(t)'
    BY DEF LogInv, EntriesOf, EntryInv
  <1>3. OrderInv'
    <2>1. OuterAt' = OuterAt /\ OuterLine' = OuterLine
      BY DEF OuterAt, OuterLine
    <2> QED
      BY <2>1, OrderKept
  <1> QED
    BY <1>1, <1>2, <1>3 DEF LogInv

\* Every step keeps the callbacks up with the file.
LEMMA LogInvNext == LogInv /\ [LoggingNext]_logVars => LogInv'
  <1> SUFFICES ASSUME LogInv, [LoggingNext]_logVars PROVE LogInv'
    OBVIOUS
  <1>1. ASSUME NEW n \in Loggers, GetImpl(n) PROVE LogInv'
    BY <1>1, LogStutter DEF GetImpl
  <1>2. ASSUME NEW n \in Loggers, NEW l \in Levels, SetLevel(n, l) PROVE LogInv'
    BY <1>2, LogStutter DEF SetLevel
  <1>3. ASSUME NEW t \in LogThreads, NEW n \in Loggers, NEW l \in Levels, Log(t, n, l)
        PROVE  LogInv'
    BY <1>3, LogStep
  <1>4. ASSUME NEW t \in LogThreads, EnterLogImpl(t) PROVE LogInv'
    BY <1>4, EnterStep
  <1>5. ASSUME NEW t \in LogThreads, WriteLine(t) PROVE LogInv'
    BY <1>5, WriteStep
  <1>6. ASSUME NEW t \in LogThreads, CallBack(t) PROVE LogInv'
    BY <1>6, CallBackStep
  <1>7. ASSUME NEW t \in LogThreads, LeaveLogImpl(t) PROVE LogInv'
    BY <1>7, LeaveStep
  <1>8. ASSUME NEW t \in LogThreads, NEW c \in LoggerCallbacks, AddLoggerCallback(t, c)
        PROVE  LogInv'
    BY <1>8, AddStep
  <1>9. ASSUME LoggerShutdown PROVE LogInv'
    BY <1>9, LogStutter DEF LoggerShutdown
  <1>10. ASSUME UNCHANGED logVars PROVE LogInv'
    BY <1>10, LogStutter DEF logVars
  <1>11. ASSUME NEW t \in LogThreads, NEW d \in 0..Len(entries[t]), CallBackThrows(t, d)
         PROVE  LogInv'
    BY <1>11, ThrowStep
  <1> QED
    BY <1>1, <1>2, <1>3, <1>4, <1>5, <1>6, <1>7, <1>8, <1>9, <1>10, <1>11 DEF LoggingNext

\* Whenever nothing is half way through LogImpl, every callback has been given,
\* for each time it was added, exactly the file's entries from then on, in the
\* file's order and each once, but for those at which an earlier callback threw:
\* whoever logs, in whatever order the threads get the mutex, and whatever
\* callbacks log, add or throw meanwhile.
THEOREM LogOrder == LoggingSpec => []CallbacksFollowTheFile
  <1>1. LogInv => CallbacksFollowTheFile
    <2> SUFFICES ASSUME LogInv,
                        \A t \in LogThreads : \A i \in DOMAIN entries[t] : entries[t][i].at = 0,
                        NEW i \in DOMAIN sinks
                 PROVE  Outer(received[i]) = Kept(Outer(file), skipped[i])
      BY DEF CallbacksFollowTheFile
    <2>1. /\ sinks \in Seq(LoggerCallbacks) /\ rootMutex \in LogThreads \cup {NoThread}
          /\ entries \in [LogThreads -> Seq(EntryRecords)]
      BY DEF LogInv, LogTypes
    <2>2. OuterAt = 0
      <3>1. CASE rootMutex = NoThread
        BY <3>1 DEF OuterAt
      <3>2. CASE rootMutex # NoThread
        <4>1. rootMutex \in LogThreads /\ entries[rootMutex] # <<>>
          BY <2>1, <3>2 DEF LogInv, EntriesOf
        <4>2. 1 \in 1..Len(entries[rootMutex])
          BY <4>1, CallTyped
        <4>3. 1 \in DOMAIN entries[rootMutex]
          BY <2>1, <4>1, <4>2
        <4> QED
          BY <3>2, <4>1, <4>3 DEF OuterAt
      <3> QED
        BY <3>1, <3>2
    <2>3. i \in 1..Len(sinks) /\ 0 \notin 1..i
      BY <2>1
    <2>4. SinkInv(i)
      BY <2>3 DEF LogInv, OrderInv
    <2> QED
      BY <2>2, <2>3, <2>4 DEF SinkInv, Has
  <1> QED
    BY LogInvInit, LogInvNext, <1>1, PTL DEF LoggingSpec
=============================================================================
