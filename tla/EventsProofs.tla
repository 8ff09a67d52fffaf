---------------------------- MODULE EventsProofs -----------------------------
(***************************************************************************)
(* Theorems about Events: who owns listeners, what FireEvent answers, who   *)
(* hears an event and how a stopped event ends, for every set of threads,   *)
(* objects, listeners and events, and every depth of nested calls.          *)
(*                                                                         *)
(* The inductive invariant is about the calls of each thread in the order   *)
(* they were made, so that a call keeps its place while others are made     *)
(* from it.  Its parts take the state they are about as parameters, and are *)
(* used for the state before a step and the one after it.                   *)
(***************************************************************************)
EXTENDS Events, VectorsProofs, FiniteSetTheorems

\* The calls of a stack, outermost first.
Outward(s) == [d \in 1..Len(s) |-> s[Len(s) + 1 - d]]
Nest(st) == [t \in Threads |-> Outward(st[t])]

-----------------------------------------------------------------------------
(* The inductive invariant.  C are the calls of all threads.                *)

Firing(f, e) == f.fn = "FireEvent" /\ f.ev = e
Running(f, e) == f.fn = "callback" /\ f.ev = e
Waiting(f, e) == Firing(f, e) /\ f.at = "wait"

\* What a call is of: an event that is being fired, or none.
FrameInv(f, ans) ==
    /\ f.fn = "modify" => f.ev = NoEvent
    /\ f.fn # "modify" => f.ev \in Events /\ ans[f.ev] = "none"

\* A worker runs no callbacks: it fires one event, or changes listeners.
WorkerInv(C, w) ==
    \A d \in 1..Len(C[w]) : C[w][d].fn # "callback" /\ C[w][d].ev = C[w][1].ev

\* The worker's innermost call waits for a callback of event e.
WorkerWaits(C, w, e) == C[w] # <<>> /\ Waiting(C[w][Len(C[w])], e)

\* A callback on the main thread returns to the call that waits for it: the one
\* it was made from or, from the outermost place, one of a worker.
CallerInv(C, d) ==
    C[Main][d].fn = "callback" =>
        \/ /\ C[Main][d].caller = Main
           /\ d > 1
           /\ Waiting(C[Main][d - 1], C[Main][d].ev)
        \/ /\ C[Main][d].caller \in Workers
           /\ d = 1
           /\ WorkerWaits(C, C[Main][d].caller, C[Main][d].ev)

\* The main thread runs a callback for w.
Serves(C, w, e) == C[Main] # <<>> /\ Running(C[Main][1], e) /\ C[Main][1].caller = w

\* Only one thread fires an event.  When a worker does, the main thread has to
\* do with it only inside the callback that the worker waits for.
OneThreadFires(C, w, e) ==
    (C[w] # <<>> /\ C[w][1].ev = e) =>
        /\ \A u \in Workers \ {w} : C[u] # <<>> => C[u][1].ev # e
        /\ \A d \in 1..Len(C[Main]) :
              C[Main][d].ev = e => WorkerWaits(C, w, e) /\ Serves(C, w, e)

StackInv(C, ans) ==
    /\ \A t \in Threads : \A d \in 1..Len(C[t]) : FrameInv(C[t][d], ans)
    /\ \A w \in Workers : WorkerInv(C, w)
    /\ \A w \in Workers : \A e \in Events : OneThreadFires(C, w, e)
    /\ \A d \in 1..Len(C[Main]) : CallerInv(C, d)

\* While no callback fires it once more: of the calls for an event ...
OneFires(C, e) ==  \* ... one is busy, those that went on to the root are done,
    \A t, u \in Threads : \A d \in 1..Len(C[t]), k \in 1..Len(C[u]) :
        /\ Firing(C[t][d], e) /\ C[t][d].at # "return"
        /\ Firing(C[u][k], e) /\ C[u][k].at # "return"
        => t = u /\ d = k
Paused(C, e) ==    \* ... and it waits while a callback runs,
    \A k \in 1..Len(C[Main]) : Running(C[Main][k], e) =>
        \A t \in Threads : \A d \in 1..Len(C[t]) :
            Firing(C[t][d], e) => C[t][d].at \in {"wait", "return"}
OneRuns(C, e) ==   \* ... of which there is one at a time,
    \A d, k \in 1..Len(C[Main]) :
        Running(C[Main][d], e) /\ Running(C[Main][k], e) => d = k
Stopping(C, e) ==  \* ... and it calls nobody else when the event is stopped.
    \A t \in Threads : \A d \in 1..Len(C[t]) :
        Firing(C[t][d], e) => C[t][d].at \in {"wait", "check", "return"}

FiringInv(C, evt, e) ==
    /\ OneFires(C, e)
    /\ Paused(C, e)
    /\ OneRuns(C, e)
    /\ evt[e].stopped => Stopping(C, e)

\* The listener is still to be called by this call for the event.
Awaits(f, e, l, lists) ==
    /\ Firing(f, e)
    /\ \/ f.at \in {"lock", "copy"} /\ l \in Elems(lists[f.obj])
       \/ f.at \in {"loop", "call", "wait", "check"} /\ l \in Elems(f.rest)
       \/ f.obj # Root /\ f.at # "return" /\ l \in Elems(lists[Root])

SomeAwaits(C, e, l, lists) ==
    \E t \in Threads : \E d \in 1..Len(C[t]) : Awaits(C[t][d], e, l, lists)

\* A listener the event is meant for has been called or is awaited.
HearingInv(C, lists, e) ==
    (answer[e] = "none" /\ ~ event[e].stopped) =>
        \A l \in due[e] : alive[l] = "live" =>
            l \in called[e] \/ SomeAwaits(C, e, l, lists)

HistoryInv ==
    /\ \A e \in Events : \A l \in due[e] : alive[l] # "none" /\ Hears(l, e)
    /\ \A e \in Events : answer[e] = "unfired" =>
          ~ event[e].stopped /\ ~ event[e].preventedDefault

EventsInv ==
    /\ TypeOK
    /\ StackInv(Nest(stack), answer)
    /\ ListsOwnListeners
    /\ HistoryInv
    /\ AnswerIsWhatCallbacksDecided
    /\ \A e \in Events \ refired : FiringInv(Nest(stack), event, e)
    /\ \A e \in Events \ refired : HearingInv(Nest(stack), listenerMap, e)

-----------------------------------------------------------------------------
(* What the steps do to the calls of a thread: c before, d after.           *)

Pushed(c, d, f) ==
    /\ Len(d) = Len(c) + 1 /\ d[Len(c) + 1] = f
    /\ \A i \in 1..Len(c) : d[i] = c[i]
Popped(c, d) ==
    /\ Len(c) > 0 /\ Len(d) = Len(c) - 1
    /\ \A i \in 1..Len(c) - 1 : d[i] = c[i]
Changed(c, d, g) ==    \* the innermost call becomes g
    /\ Len(c) > 0 /\ Len(d) = Len(c) /\ d[Len(c)] = g
    /\ \A i \in 1..Len(c) - 1 : d[i] = c[i]
CallsOn(c, d, g, f) ==  \* ... and makes the call f
    /\ Len(c) > 0 /\ Len(d) = Len(c) + 1 /\ d[Len(c)] = g /\ d[Len(c) + 1] = f
    /\ \A i \in 1..Len(c) - 1 : d[i] = c[i]
ReturnsTo(c, d, g) ==  \* the innermost call returns to the next, which becomes g
    /\ Len(c) > 1 /\ Len(d) = Len(c) - 1 /\ d[Len(c) - 1] = g
    /\ \A i \in 1..Len(c) - 2 : d[i] = c[i]

\* The calls of a stack are those of the sequence, in the other direction.
LEMMA OutwardFacts ==
    ASSUME NEW S, NEW s \in Seq(S)
    PROVE  /\ Outward(s) \in Seq(S) /\ Len(Outward(s)) = Len(s) /\ Len(s) \in Nat
           /\ \A d \in 1..Len(s) : Outward(s)[d] = s[Len(s) + 1 - d]
           /\ \A i \in 1..Len(s) : Outward(s)[Len(s) + 1 - i] = s[i]
           /\ s # <<>> <=> Outward(s) # <<>>
           /\ s # <<>> => Len(s) > 0 /\ Outward(s)[Len(s)] = s[1] /\ Head(s) = s[1]
  <1>1. Len(s) \in Nat /\ \A d \in 1..Len(s) : Len(s) + 1 - d \in 1..Len(s) /\ s[d] \in S
    OBVIOUS
  <1>2. PICK n \in Nat : n = Len(s)
    BY <1>1
  <1>3. PICK o : o = [d \in 1..n |-> s[n + 1 - d]]
    OBVIOUS
  <1>4. o \in Seq(S) /\ Len(o) = n
    BY <1>1, <1>2, <1>3
  <1>5. \A d \in 1..n : o[d] = s[n + 1 - d]
    BY <1>3
  <1>6. \A i \in 1..n : o[n + 1 - i] = s[i]
    <2>1. \A i \in 1..n : n + 1 - i \in 1..n /\ n + 1 - (n + 1 - i) = i
      BY <1>2
    <2> QED
      BY <1>5, <2>1
  <1>7. Outward(s) = o
    BY <1>2, <1>3 DEF Outward
  <1>8. s # <<>> <=> o # <<>>
    BY <1>2, <1>4
  <1>9. s # <<>> => n > 0 /\ o[n] = s[1] /\ Head(s) = s[1]
    BY <1>2, <1>6
  <1> QED
    BY <1>2, <1>4, <1>5, <1>6, <1>7, <1>8, <1>9

\* Outermost first, a call is appended,
LEMMA OutwardPush ==
    ASSUME NEW S, NEW s \in Seq(S), NEW f \in S
    PROVE  <<f>> \o s \in Seq(S) /\ Pushed(Outward(s), Outward(<<f>> \o s), f)
  <1>1. PICK r : r = <<f>> \o s
    OBVIOUS
  <1>2. /\ r \in Seq(S) /\ Len(r) = Len(s) + 1 /\ r[1] = f
        /\ \A i \in 1..Len(s) : r[i + 1] = s[i]
    BY <1>1
  <1>3. PICK n \in Nat : n = Len(s)
    OBVIOUS
  <1>4. /\ Len(Outward(s)) = n /\ \A d \in 1..n : Outward(s)[d] = s[n + 1 - d]
    BY <1>3, OutwardFacts
  <1>5. /\ Len(Outward(r)) = n + 1
        /\ \A d \in 1..n + 1 : Outward(r)[d] = r[n + 2 - d]
    <2>1. PICK m \in Nat : m = Len(r)
      BY <1>2
    <2>2. Len(Outward(r)) = m /\ \A d \in 1..m : Outward(r)[d] = r[m + 1 - d]
      BY <1>2, <2>1, OutwardFacts
    <2>3. m = n + 1
      BY <1>2, <1>3, <2>1
    <2> QED
      BY <2>2, <2>3
  <1>6. Outward(r)[n + 1] = f
    BY <1>2, <1>5
  <1>7. ASSUME NEW d \in 1..n
        PROVE  Outward(r)[d] = Outward(s)[d]
    <2>1. d \in 1..n + 1 /\ n + 1 - d \in 1..n /\ n + 2 - d = (n + 1 - d) + 1
      OBVIOUS
    <2>2. r[(n + 1 - d) + 1] = s[n + 1 - d]
      BY <1>2, <1>3, <2>1
    <2> QED
      BY <1>4, <1>5, <2>1, <2>2
  <1> QED
    BY <1>1, <1>2, <1>4, <1>5, <1>6, <1>7 DEF Pushed

\* a return drops the last frame,
LEMMA OutwardTail ==
    ASSUME NEW S, NEW s \in Seq(S), s # <<>>
    PROVE  Tail(s) \in Seq(S) /\ Popped(Outward(s), Outward(Tail(s)))
  <1>1. PICK r : r = Tail(s)
    OBVIOUS
  <1>2. /\ r \in Seq(S) /\ Len(r) = Len(s) - 1 /\ Len(s) > 0
        /\ \A i \in 1..Len(r) : r[i] = s[i + 1]
    BY <1>1
  <1>3. PICK n \in Nat : n = Len(r)
    BY <1>2
  <1>4. /\ Len(Outward(r)) = n /\ \A d \in 1..n : Outward(r)[d] = r[n + 1 - d]
    BY <1>2, <1>3, OutwardFacts
  <1>5. /\ Len(Outward(s)) = n + 1
        /\ \A d \in 1..n + 1 : Outward(s)[d] = s[n + 2 - d]
    <2>1. PICK m \in Nat : m = Len(s)
      BY <1>2
    <2>2. Len(Outward(s)) = m /\ \A d \in 1..m : Outward(s)[d] = s[m + 1 - d]
      BY <1>2, <2>1, OutwardFacts
    <2>3. m = n + 1
      BY <1>2, <1>3, <2>1
    <2> QED
      BY <2>2, <2>3
  <1>7. ASSUME NEW d \in 1..n
        PROVE  Outward(r)[d] = Outward(s)[d]
    <2>1. d \in 1..n + 1 /\ n + 1 - d \in 1..n /\ n + 2 - d = (n + 1 - d) + 1
      OBVIOUS
    <2>2. r[n + 1 - d] = s[(n + 1 - d) + 1]
      BY <1>2, <1>3, <2>1
    <2> QED
      BY <1>4, <1>5, <2>1, <2>2
  <1> QED
    BY <1>1, <1>2, <1>4, <1>5, <1>7 DEF Popped

\* and the innermost frame is the last one when it moves on,
LEMMA OutwardChange ==
    ASSUME NEW S, NEW s \in Seq(S), s # <<>>, NEW g \in S
    PROVE  /\ [s EXCEPT ![1] = g] \in Seq(S)
           /\ Changed(Outward(s), Outward([s EXCEPT ![1] = g]), g)
  <1>1. PICK r : r = [s EXCEPT ![1] = g]
    OBVIOUS
  <1>2. /\ r \in Seq(S) /\ Len(r) = Len(s) /\ Len(s) > 0 /\ r[1] = g
        /\ \A i \in 2..Len(s) : r[i] = s[i]
    BY <1>1
  <1>3. PICK n \in Nat : n = Len(s) /\ n > 0
    <2>1. Len(s) \in Nat
      OBVIOUS
    <2> QED
      BY <1>2, <2>1
  <1>4. /\ Len(Outward(s)) = n /\ \A d \in 1..n : Outward(s)[d] = s[n + 1 - d]
    BY <1>3, OutwardFacts
  <1>5. /\ Len(Outward(r)) = n /\ \A d \in 1..n : Outward(r)[d] = r[n + 1 - d]
    <2>1. n = Len(r) /\ r \in Seq(S)
      BY <1>2, <1>3
    <2>2. /\ Len(Outward(r)) = Len(r)
          /\ \A d \in 1..Len(r) : Outward(r)[d] = r[Len(r) + 1 - d]
      BY <2>1, OutwardFacts
    <2> HIDE DEF Outward
    <2> QED
      BY <2>1, <2>2
  <1>6. Outward(r)[n] = g
    <2>1. n \in 1..n /\ n + 1 - n = 1
      BY <1>3
    <2>2. Outward(r)[n] = r[n + 1 - n]
      BY <1>5, <2>1
    <2> QED
      BY <1>2, <2>1, <2>2
  <1>7. ASSUME NEW d \in 1..n - 1
        PROVE  Outward(r)[d] = Outward(s)[d]
    <2>1. d \in 1..n /\ n + 1 - d \in 2..n
      OBVIOUS
    <2> QED
      BY <1>2, <1>3, <1>4, <1>5, <2>1
  <1> QED
    BY <1>1, <1>2, <1>3, <1>4, <1>5, <1>6, <1>7 DEF Changed

\* when it moves on and calls,
LEMMA OutwardCall ==
    ASSUME NEW S, NEW s \in Seq(S), s # <<>>, NEW g \in S, NEW f \in S
    PROVE  /\ <<f, g>> \o Tail(s) \in Seq(S)
           /\ CallsOn(Outward(s), Outward(<<f, g>> \o Tail(s)), g, f)
  <1>1. PICK p : p = Tail(s)
    OBVIOUS
  <1>2. p \in Seq(S) /\ Popped(Outward(s), Outward(p))
    BY <1>1, OutwardTail
  <1>3. PICK q : q = <<g>> \o p
    OBVIOUS
  <1>4. q \in Seq(S) /\ Pushed(Outward(p), Outward(q), g)
    BY <1>2, <1>3, OutwardPush
  <1>5. PICK r : r = <<f>> \o q
    OBVIOUS
  <1>6. r \in Seq(S) /\ Pushed(Outward(q), Outward(r), f)
    BY <1>4, <1>5, OutwardPush
  <1>7. <<f, g>> \o Tail(s) = r
    <2>1. PICK v : v = <<f, g>> \o p
      OBVIOUS
    <2>2. /\ v \in Seq(S) /\ Len(v) = Len(p) + 2 /\ v[1] = f /\ v[2] = g
          /\ \A i \in 1..Len(p) : v[i + 2] = p[i]
      BY <1>2, <2>1
    <2>3. /\ Len(q) = Len(p) + 1 /\ q[1] = g /\ \A i \in 1..Len(p) : q[i + 1] = p[i]
      BY <1>2, <1>3
    <2>4. /\ Len(r) = Len(q) + 1 /\ r[1] = f /\ \A i \in 1..Len(q) : r[i + 1] = q[i]
      BY <1>4, <1>5
    <2>5. Len(p) \in Nat /\ Len(v) = Len(r)
      BY <1>2, <2>2, <2>3, <2>4
    <2>6. ASSUME NEW i \in 1..Len(v)
          PROVE  v[i] = r[i]
      <3>1. CASE i = 1
        BY <2>2, <2>4, <3>1
      <3>2. CASE i = 2
        <4>1. 1 \in 1..Len(q) /\ i = 1 + 1
          BY <2>3, <2>5, <3>2
        <4> QED
          BY <2>2, <2>3, <2>4, <3>2, <4>1
      <3>3. CASE i > 2
        <4>1. PICK k \in 1..Len(p) : i = k + 2
          <5>1. i - 2 \in 1..Len(p) /\ i = (i - 2) + 2
            BY <2>2, <2>5, <3>3
          <5> QED
            BY <5>1
        <4>2. k + 1 \in 1..Len(q) /\ (k + 1) + 1 = i
          BY <2>3, <2>5, <4>1
        <4>3. r[i] = q[k + 1]
          BY <2>4, <4>2
        <4> QED
          BY <2>2, <2>3, <4>1, <4>3
      <3> QED
        BY <2>2, <3>1, <3>2, <3>3
    <2>7. v = r
      BY <1>6, <2>2, <2>5, <2>6
    <2> QED
      BY <1>1, <2>1, <2>7
  <1>8. Len(Outward(s)) \in Nat
    BY OutwardFacts
  <1>9. CallsOn(Outward(s), Outward(r), g, f)
    BY <1>2, <1>4, <1>6, <1>8 DEF Popped, Pushed, CallsOn
  <1> QED
    BY <1>6, <1>7, <1>9

\* and when it returns to one that moves on.
LEMMA OutwardReturn ==
    ASSUME NEW S, NEW s \in Seq(S), Len(s) > 1, NEW g \in S
    PROVE  /\ <<g>> \o Tail(Tail(s)) \in Seq(S)
           /\ ReturnsTo(Outward(s), Outward(<<g>> \o Tail(Tail(s))), g)
  <1>1. PICK p : p = Tail(s)
    OBVIOUS
  <1>2. p \in Seq(S) /\ Popped(Outward(s), Outward(p)) /\ p # <<>>
    <2>1. s # <<>> /\ p # <<>>
      BY <1>1
    <2> QED
      BY <1>1, <2>1, OutwardTail
  <1>3. PICK q : q = Tail(p)
    OBVIOUS
  <1>4. q \in Seq(S) /\ Popped(Outward(p), Outward(q))
    BY <1>2, <1>3, OutwardTail
  <1>5. PICK r : r = <<g>> \o q
    OBVIOUS
  <1>6. r \in Seq(S) /\ Pushed(Outward(q), Outward(r), g)
    BY <1>4, <1>5, OutwardPush
  <1>8. Len(Outward(s)) \in Nat
    BY OutwardFacts
  <1>9. ReturnsTo(Outward(s), Outward(r), g)
    BY <1>2, <1>4, <1>6, <1>8 DEF Popped, Pushed, ReturnsTo
  <1> QED
    BY <1>1, <1>3, <1>5, <1>6, <1>9

-----------------------------------------------------------------------------
(* The stacks: a lemma for every kind of step.                              *)

CallsType == [Threads -> Seq(FrameType)]
Others(C, D, t) == \A u \in Threads \ {t} : D[u] = C[u]

\* Threads, events and the root object, by EventsAssumption.
LEMMA ThreadFacts ==
    /\ Main \in Threads /\ Main \notin Workers /\ NoThread \notin Threads
    /\ \A w \in Workers : w \in Threads /\ w # Main
    /\ \A t \in Threads : t # Main => t \in Workers
    /\ NoEvent \notin Events /\ Root \in Objects
  BY EventsAssumption DEF EventsAssumption, Threads

\* The stack of one thread.
LEMMA LenFacts ==
    ASSUME NEW C \in CallsType, NEW t \in Threads
    PROVE  /\ Len(C[t]) \in Nat
           /\ C[t] # <<>> <=> Len(C[t]) > 0
           /\ \A d \in 1..Len(C[t]) : C[t][d] \in FrameType
  <1>1. C[t] \in Seq(FrameType)
    BY DEF CallsType
  <1>2. \A s \in Seq(FrameType) : /\ Len(s) \in Nat
                                  /\ s # <<>> <=> Len(s) > 0
                                  /\ \A d \in 1..Len(s) : s[d] \in FrameType
    OBVIOUS
  <1> QED
    BY <1>1, <1>2

\* A call that is made: of no event, of one that nobody fires, or of one that
\* the main thread already fires.
LEMMA StackPush ==
    ASSUME NEW C \in CallsType, NEW D \in CallsType, NEW ans, NEW ans2,
           StackInv(C, ans), NEW t \in Threads, NEW f,
           Others(C, D, t), Pushed(C[t], D[t], f),
           FrameInv(f, ans2), f.fn # "callback",
           t \in Workers => C[t] = <<>>,
           \A u \in Threads : \A d \in 1..Len(C[u]) : FrameInv(C[u][d], ans2),
           \/ f.ev = NoEvent
           \/ \A u \in Threads : \A d \in 1..Len(C[u]) : C[u][d].ev # f.ev
           \/ t = Main /\ \E d \in 1..Len(C[t]) : C[t][d].ev = f.ev
    PROVE  StackInv(D, ans2)
  <1>1. \A u \in Threads : Len(C[u]) \in Nat /\ Len(D[u]) \in Nat
                        /\ (C[u] # <<>> <=> Len(C[u]) > 0) /\ (D[u] # <<>> <=> Len(D[u]) > 0)
    BY LenFacts
  <1>2. PICK n \in Nat : n = Len(C[t])
    BY <1>1
  <1>3. /\ Len(D[t]) = n + 1 /\ D[t][n + 1] = f /\ \A d \in 1..n : D[t][d] = C[t][d]
        /\ \A d \in 1..n + 1 : d = n + 1 \/ d \in 1..n
    BY <1>2 DEF Pushed
  <1>4. \A u \in Threads : u # t => D[u] = C[u]
    BY DEF Others
  <1>5. ASSUME NEW u \in Threads, NEW d \in 1..Len(D[u])
        PROVE  FrameInv(D[u][d], ans2)
    BY <1>2, <1>3, <1>4
  <1>6. ASSUME NEW w \in Workers
        PROVE  WorkerInv(D, w)
    <2>1. w \in Threads /\ WorkerInv(C, w)
      BY ThreadFacts DEF StackInv
    <2>2. CASE w # t
      BY <1>4, <2>1, <2>2 DEF WorkerInv
    <2>3. CASE w = t
      <3>1. n = 0
        BY <1>1, <1>2, <2>3
      <3>2. Len(D[w]) = 1 /\ D[w][1] = f
        BY <1>3, <2>3, <3>1
      <3> QED
        BY <3>2 DEF WorkerInv
    <2> QED
      BY <2>2, <2>3
  <1>7. ASSUME NEW w \in Workers, NEW e \in Events
        PROVE  OneThreadFires(D, w, e)
    <2>0. w \in Threads /\ w # Main /\ Main \in Threads
      BY ThreadFacts
    <2>1. OneThreadFires(C, w, e)
      BY DEF StackInv
    <2> SUFFICES ASSUME D[w] # <<>>, D[w][1].ev = e
                 PROVE  /\ \A u \in Workers \ {w} : D[u] # <<>> => D[u][1].ev # e
                        /\ \A d \in 1..Len(D[Main]) :
                              D[Main][d].ev = e => WorkerWaits(D, w, e) /\ Serves(D, w, e)
      BY DEF OneThreadFires
    <2>2. e # NoEvent
      BY ThreadFacts
    <2>3. CASE w = t
      <3>1. C[w] = <<>> /\ n = 0
        BY <1>1, <1>2, <2>3
      <3>2. D[w][1] = f /\ f.ev = e
        BY <1>3, <2>3, <3>1
      <3>3. \A u \in Threads : \A d \in 1..Len(C[u]) : C[u][d].ev # e
        BY <2>0, <2>2, <2>3, <3>2
      <3>4. ASSUME NEW u \in Workers \ {w}, D[u] # <<>>
            PROVE  D[u][1].ev # e
        <4>1. u \in Threads /\ D[u] = C[u] /\ 1 \in 1..Len(C[u])
          BY <1>1, <1>4, <2>3, <3>4, ThreadFacts
        <4> QED
          BY <3>3, <4>1
      <3>5. \A d \in 1..Len(D[Main]) : D[Main][d].ev # e
        BY <1>4, <2>0, <2>3, <3>3
      <3> QED
        BY <3>4, <3>5
    <2>4. CASE w # t
      <3>1. D[w] = C[w]
        BY <1>4, <2>0, <2>4
      <3>2. /\ \A u \in Workers \ {w} : C[u] # <<>> => C[u][1].ev # e
            /\ \A d \in 1..Len(C[Main]) :
                  C[Main][d].ev = e => WorkerWaits(C, w, e) /\ Serves(C, w, e)
        BY <2>1, <3>1 DEF OneThreadFires
      <3>3. 1 \in 1..Len(C[w]) /\ C[w][1].ev = e
        BY <1>1, <2>0, <3>1
      <3>4. ASSUME NEW u \in Workers \ {w}, D[u] # <<>>
            PROVE  D[u][1].ev # e
        <4>1. u \in Threads /\ u # Main
          BY ThreadFacts
        <4>2. CASE u # t
          BY <1>4, <3>2, <3>4, <4>1, <4>2
        <4>3. CASE u = t
          <5>1. n = 0 /\ D[u][1] = f
            BY <1>1, <1>2, <1>3, <4>3
          <5>2. f.ev = NoEvent \/ f.ev # e
            BY <2>0, <3>3, <4>1, <4>3
          <5> QED
            BY <2>2, <5>1, <5>2
        <4> QED
          BY <4>2, <4>3
      <3>5. ASSUME NEW d \in 1..Len(D[Main]), D[Main][d].ev = e
            PROVE  WorkerWaits(D, w, e) /\ Serves(D, w, e)
        <4>1. \E k \in 1..Len(C[Main]) : C[Main][k].ev = e
          <5>1. CASE t # Main
            BY <1>4, <2>0, <3>5, <5>1
          <5>2. CASE t = Main /\ d \in 1..n
            BY <1>2, <1>3, <3>5, <5>2
          <5>3. CASE t = Main /\ d = n + 1
            <6>1. f.ev = e
              BY <1>3, <3>5, <5>3
            <6> QED
              BY <2>0, <2>2, <3>3, <5>3, <6>1
          <5> QED
            BY <1>3, <5>1, <5>2, <5>3
        <4>2. WorkerWaits(C, w, e) /\ Serves(C, w, e)
          BY <3>2, <4>1
        <4>3. D[Main] # <<>> /\ D[Main][1] = C[Main][1]
          <5>1. 1 \in 1..Len(C[Main])
            BY <1>1, <2>0, <4>2 DEF Serves
          <5>2. CASE t = Main
            BY <1>1, <1>2, <1>3, <2>0, <5>1, <5>2
          <5>3. CASE t # Main
            BY <1>1, <1>4, <2>0, <5>1, <5>3
          <5> QED
            BY <5>2, <5>3
        <4> QED
          BY <3>1, <4>2, <4>3 DEF WorkerWaits, Serves
      <3> QED
        BY <3>4, <3>5
    <2> QED
      BY <2>3, <2>4
  <1>8. ASSUME NEW d \in 1..Len(D[Main])
        PROVE  CallerInv(D, d)
    <2>0. Main \in Threads
      BY ThreadFacts
    <2>1. CASE t = Main /\ d = n + 1
      BY <1>3, <2>1 DEF CallerInv
    <2>2. CASE ~ (t = Main /\ d = n + 1)
      <3>1. d \in 1..Len(C[Main]) /\ D[Main][d] = C[Main][d]
        BY <1>2, <1>3, <1>4, <2>0, <2>2
      <3>2. CallerInv(C, d)
        BY <3>1 DEF StackInv
      <3> SUFFICES ASSUME C[Main][d].fn = "callback"
                   PROVE  CallerInv(D, d)
        BY <3>1 DEF CallerInv
      <3>3. CASE /\ C[Main][d].caller = Main
                 /\ d > 1
                 /\ Waiting(C[Main][d - 1], C[Main][d].ev)
        <4>1. D[Main][d - 1] = C[Main][d - 1]
          <5>1. d - 1 \in 1..Len(C[Main])
            BY <1>1, <2>0, <3>1, <3>3
          <5> QED
            BY <1>2, <1>3, <1>4, <2>0, <5>1
        <4> QED
          BY <3>1, <3>3, <4>1 DEF CallerInv
      <3>4. CASE /\ C[Main][d].caller \in Workers
                 /\ d = 1
                 /\ WorkerWaits(C, C[Main][d].caller, C[Main][d].ev)
        <4>1. PICK w \in Workers : w = C[Main][d].caller
          BY <3>4
        <4>2. w \in Threads /\ C[w] # <<>>
          BY <3>4, <4>1, ThreadFacts DEF WorkerWaits
        <4>3. w # t
          BY <4>2
        <4>4. D[w] = C[w]
          BY <1>4, <4>2, <4>3
        <4> QED
          BY <3>1, <3>4, <4>1, <4>4 DEF CallerInv, WorkerWaits
      <3> QED
        BY <3>2, <3>3, <3>4 DEF CallerInv
    <2> QED
      BY <2>1, <2>2
  <1> QED
    BY <1>5, <1>6, <1>7, <1>8 DEF StackInv

\* A call returns that nobody waits for.
LEMMA StackPop ==
    ASSUME NEW C \in CallsType, NEW D \in CallsType, NEW ans, NEW ans2,
           StackInv(C, ans), NEW t \in Threads,
           Others(C, D, t), Popped(C[t], D[t]),
           C[t][Len(C[t])].at # "wait",
           \A u \in Threads : \A d \in 1..Len(D[u]) : FrameInv(D[u][d], ans2)
    PROVE  StackInv(D, ans2)
  <1>1. \A u \in Threads : Len(C[u]) \in Nat /\ Len(D[u]) \in Nat
                        /\ (C[u] # <<>> <=> Len(C[u]) > 0) /\ (D[u] # <<>> <=> Len(D[u]) > 0)
    BY LenFacts
  <1>2. PICK n \in Nat : n = Len(D[t])
    BY <1>1
  <1>3. /\ Len(C[t]) = n + 1 /\ C[t][n + 1].at # "wait" /\ \A d \in 1..n : D[t][d] = C[t][d]
    BY <1>1, <1>2 DEF Popped
  <1>4. \A u \in Threads : u # t => D[u] = C[u]
    BY DEF Others
  <1>5. ASSUME NEW u \in Threads, NEW d \in 1..Len(D[u])
        PROVE  d \in 1..Len(C[u]) /\ D[u][d] = C[u][d]
    BY <1>1, <1>2, <1>3, <1>4
  <1>6. ASSUME NEW w \in Workers
        PROVE  WorkerInv(D, w)
    <2>1. w \in Threads /\ WorkerInv(C, w)
      BY ThreadFacts DEF StackInv
    <2>2. ASSUME NEW d \in 1..Len(D[w])
          PROVE  D[w][d].fn # "callback" /\ D[w][d].ev = D[w][1].ev
      <3>1. 1 \in 1..Len(D[w])
        BY <1>1, <2>1
      <3> QED
        BY <1>5, <2>1, <3>1 DEF WorkerInv
    <2> QED
      BY <2>2 DEF WorkerInv
  <1>7. ASSUME NEW w \in Workers, NEW e \in Events
        PROVE  OneThreadFires(D, w, e)
    <2>0. w \in Threads /\ w # Main /\ Main \in Threads
      BY ThreadFacts
    <2> SUFFICES ASSUME D[w] # <<>>, D[w][1].ev = e
                 PROVE  /\ \A u \in Workers \ {w} : D[u] # <<>> => D[u][1].ev # e
                        /\ \A d \in 1..Len(D[Main]) :
                              D[Main][d].ev = e => WorkerWaits(D, w, e) /\ Serves(D, w, e)
      BY DEF OneThreadFires
    <2>1. 1 \in 1..Len(D[w]) /\ C[w] # <<>> /\ C[w][1].ev = e
      <3>1. 1 \in 1..Len(D[w])
        BY <1>1, <2>0
      <3>2. 1 \in 1..Len(C[w]) /\ D[w][1] = C[w][1]
        BY <1>5, <2>0, <3>1
      <3> QED
        BY <1>1, <2>0, <3>1, <3>2
    <2>2. /\ \A u \in Workers \ {w} : C[u] # <<>> => C[u][1].ev # e
          /\ \A d \in 1..Len(C[Main]) :
                C[Main][d].ev = e => WorkerWaits(C, w, e) /\ Serves(C, w, e)
      BY <2>1 DEF StackInv, OneThreadFires
    <2>3. ASSUME NEW u \in Workers \ {w}, D[u] # <<>>
          PROVE  D[u][1].ev # e
      <3>1. u \in Threads /\ 1 \in 1..Len(D[u])
        BY <1>1, <2>3, ThreadFacts
      <3>2. C[u] # <<>> /\ D[u][1] = C[u][1]
        BY <1>1, <1>5, <3>1
      <3> QED
        BY <2>2, <3>2
    <2>4. ASSUME NEW d \in 1..Len(D[Main]), D[Main][d].ev = e
          PROVE  WorkerWaits(D, w, e) /\ Serves(D, w, e)
      <3>1. d \in 1..Len(C[Main]) /\ C[Main][d].ev = e
        BY <1>5, <2>0, <2>4
      <3>2. WorkerWaits(C, w, e) /\ Serves(C, w, e)
        BY <2>2, <3>1
      <3>3. w # t
        BY <1>3, <3>2 DEF WorkerWaits, Waiting
      <3>4. D[w] = C[w]
        BY <1>4, <2>0, <3>3
      <3>5. D[Main] # <<>> /\ D[Main][1] = C[Main][1]
        <4>1. 1 \in 1..Len(D[Main])
          BY <1>1, <2>0
        <4> QED
          BY <1>1, <1>5, <2>0, <4>1
      <3> QED
        BY <3>2, <3>4, <3>5 DEF WorkerWaits, Serves
    <2> QED
      BY <2>3, <2>4
  <1>8. ASSUME NEW d \in 1..Len(D[Main])
        PROVE  CallerInv(D, d)
    <2>0. Main \in Threads
      BY ThreadFacts
    <2>1. d \in 1..Len(C[Main]) /\ D[Main][d] = C[Main][d]
      BY <1>5, <2>0
    <2>2. CallerInv(C, d)
      BY <2>1 DEF StackInv
    <2> SUFFICES ASSUME C[Main][d].fn = "callback"
                 PROVE  CallerInv(D, d)
      BY <2>1 DEF CallerInv
    <2>3. CASE /\ C[Main][d].caller = Main
               /\ d > 1
               /\ Waiting(C[Main][d - 1], C[Main][d].ev)
      <3>1. d - 1 \in 1..Len(D[Main])
        BY <1>1, <2>0, <2>3
      <3>2. D[Main][d - 1] = C[Main][d - 1]
        BY <1>5, <2>0, <3>1
      <3> QED
        BY <2>1, <2>3, <3>2 DEF CallerInv
    <2>4. CASE /\ C[Main][d].caller \in Workers
               /\ d = 1
               /\ WorkerWaits(C, C[Main][d].caller, C[Main][d].ev)
      <3>1. PICK w \in Workers : w = C[Main][d].caller
        BY <2>4
      <3>2. w \in Threads
        BY ThreadFacts
      <3>3. w # t
        BY <1>3, <2>4, <3>1 DEF WorkerWaits, Waiting
      <3>4. D[w] = C[w]
        BY <1>4, <3>2, <3>3
      <3> QED
        BY <2>1, <2>4, <3>1, <3>4 DEF CallerInv, WorkerWaits
    <2> QED
      BY <2>2, <2>3, <2>4 DEF CallerInv
  <1> QED
    BY <1>6, <1>7, <1>8 DEF StackInv

\* FireEvent moves on, alone or with a call it makes: for the root object or,
\* on the main thread, of a callback.
LEMMA StackMove ==
    ASSUME NEW C \in CallsType, NEW D \in CallsType, NEW ans,
           StackInv(C, ans), NEW t \in Threads, NEW f, NEW g, NEW h, NEW n,
           Others(C, D, t),
           n = Len(C[t]), f = C[t][n], f.fn = "FireEvent", f.at # "wait",
           g.fn = "FireEvent", g.ev = f.ev,
           \/ Changed(C[t], D[t], g)
           \/ /\ CallsOn(C[t], D[t], g, h)
              /\ h.ev = f.ev
              /\ \/ h.fn = "FireEvent"
                 \/ h.fn = "callback" /\ h.caller = Main /\ g.at = "wait" /\ t = Main
    PROVE  StackInv(D, ans)
  <1>1. \A u \in Threads : Len(C[u]) \in Nat /\ Len(D[u]) \in Nat
                        /\ (C[u] # <<>> <=> Len(C[u]) > 0) /\ (D[u] # <<>> <=> Len(D[u]) > 0)
    BY LenFacts
  <1>2. n \in Nat /\ n > 0
    BY <1>1 DEF Changed, CallsOn
  <1>3. /\ D[t][n] = g /\ \A d \in 1..n - 1 : D[t][d] = C[t][d]
        /\ \/ Len(D[t]) = n
           \/ /\ Len(D[t]) = n + 1 /\ h = D[t][n + 1] /\ h.ev = f.ev
              /\ \/ h.fn = "FireEvent"
                 \/ h.fn = "callback" /\ h.caller = Main /\ g.at = "wait" /\ t = Main
    BY DEF Changed, CallsOn
  <1>4. \A u \in Threads : u # t => D[u] = C[u]
    BY DEF Others
  <1>5. f.ev \in Events /\ ans[f.ev] = "none" /\ n \in 1..Len(C[t])
    <2>1. n \in 1..Len(C[t])
      BY <1>2
    <2>2. FrameInv(f, ans)
      BY <2>1 DEF StackInv
    <2> QED
      BY <2>1, <2>2 DEF FrameInv
  <1>6. ASSUME NEW u \in Threads, NEW d \in 1..Len(C[u])
        PROVE  /\ d \in 1..Len(D[u]) /\ D[u][d].fn = C[u][d].fn /\ D[u][d].ev = C[u][d].ev
               /\ (u = t /\ d = n) \/ D[u][d] = C[u][d]
    <2>1. CASE u # t
      BY <1>4, <2>1
    <2>2. CASE u = t /\ d = n
      BY <1>2, <1>3, <2>2
    <2>3. CASE u = t /\ d # n
      <3>1. d \in 1..n - 1
        BY <1>2, <2>3
      <3> QED
        BY <1>2, <1>3, <2>3, <3>1
    <2> QED
      BY <2>1, <2>2, <2>3
  <1>7. ASSUME NEW u \in Threads, NEW d \in 1..Len(D[u])
        PROVE  \/ d \in 1..Len(C[u])
               \/ u = t /\ d = n + 1 /\ h = D[t][n + 1]
    <2>1. CASE u # t
      BY <1>4, <2>1
    <2>2. CASE u = t
      BY <1>2, <1>3, <2>2
    <2> QED
      BY <2>1, <2>2
  <1>8. ASSUME NEW u \in Threads, NEW d \in 1..Len(D[u])
        PROVE  FrameInv(D[u][d], ans)
    <2>1. CASE d \in 1..Len(C[u])
      <3>1. FrameInv(C[u][d], ans)
        BY <2>1 DEF StackInv
      <3> QED
        BY <1>6, <2>1, <3>1 DEF FrameInv
    <2>2. CASE u = t /\ d = n + 1 /\ h = D[t][n + 1]
      <3>1. h.ev = f.ev /\ h.fn # "modify"
        BY <1>2, <1>3, <2>2
      <3> QED
        BY <1>5, <2>2, <3>1 DEF FrameInv
    <2> QED
      BY <1>7, <2>1, <2>2
  <1>9. ASSUME NEW w \in Workers
        PROVE  WorkerInv(D, w)
    <2>1. w \in Threads /\ w # Main /\ WorkerInv(C, w)
      BY ThreadFacts DEF StackInv
    <2>2. ASSUME NEW d \in 1..Len(D[w])
          PROVE  D[w][d].fn # "callback" /\ D[w][d].ev = D[w][1].ev
      <3>1. Len(C[w]) > 0
        BY <1>1, <1>2, <1>4, <2>1
      <3>2. 1 \in 1..Len(C[w]) /\ D[w][1].ev = C[w][1].ev
        BY <1>1, <1>6, <2>1, <3>1
      <3>3. CASE d \in 1..Len(C[w])
        BY <1>6, <2>1, <3>2, <3>3 DEF WorkerInv
      <3>4. CASE w = t /\ d = n + 1 /\ h = D[t][n + 1]
        <4>1. h.ev = f.ev /\ h.fn # "callback"
          BY <1>2, <1>3, <2>1, <3>4
        <4>2. f.ev = C[w][1].ev
          BY <1>5, <2>1, <3>4 DEF WorkerInv
        <4> QED
          BY <3>2, <3>4, <4>1, <4>2
      <3> QED
        BY <1>7, <2>1, <3>3, <3>4
    <2> QED
      BY <2>2 DEF WorkerInv
  <1>10. ASSUME NEW w \in Workers, NEW e \in Events
         PROVE  OneThreadFires(D, w, e)
    <2>0. w \in Threads /\ w # Main /\ Main \in Threads
      BY ThreadFacts
    <2>1. ASSUME NEW u \in Threads, D[u] # <<>>
          PROVE  C[u] # <<>> /\ 1 \in 1..Len(C[u]) /\ D[u][1].ev = C[u][1].ev
      <3>1. Len(C[u]) > 0
        BY <1>1, <1>2, <1>4, <2>1
      <3> QED
        BY <1>1, <1>6, <3>1
    <2> SUFFICES ASSUME D[w] # <<>>, D[w][1].ev = e
                 PROVE  /\ \A u \in Workers \ {w} : D[u] # <<>> => D[u][1].ev # e
                        /\ \A d \in 1..Len(D[Main]) :
                              D[Main][d].ev = e => WorkerWaits(D, w, e) /\ Serves(D, w, e)
      BY DEF OneThreadFires
    <2>2. /\ \A u \in Workers \ {w} : C[u] # <<>> => C[u][1].ev # e
          /\ \A d \in 1..Len(C[Main]) :
                C[Main][d].ev = e => WorkerWaits(C, w, e) /\ Serves(C, w, e)
      BY <2>0, <2>1 DEF StackInv, OneThreadFires
    <2>3. ASSUME NEW u \in Workers \ {w}, D[u] # <<>>
          PROVE  D[u][1].ev # e
      BY <2>1, <2>2, <2>3, ThreadFacts
    <2>4. ASSUME NEW d \in 1..Len(D[Main]), D[Main][d].ev = e
          PROVE  WorkerWaits(D, w, e) /\ Serves(D, w, e)
      <3>1. \E k \in 1..Len(C[Main]) : C[Main][k].ev = e
        <4>1. CASE d \in 1..Len(C[Main])
          BY <1>6, <2>0, <2>4, <4>1
        <4>2. CASE Main = t /\ d = n + 1 /\ h = D[t][n + 1]
          <5>1. h.ev = f.ev
            BY <1>2, <1>3, <4>2
          <5> QED
            BY <1>5, <2>4, <4>2, <5>1
        <4> QED
          BY <1>7, <2>0, <4>1, <4>2
      <3>2. WorkerWaits(C, w, e) /\ Serves(C, w, e)
        BY <2>2, <3>1
      <3>3. w # t
        BY <3>2 DEF WorkerWaits, Waiting
      <3>4. D[w] = C[w]
        BY <1>4, <2>0, <3>3
      <3>5. D[Main] # <<>> /\ D[Main][1] = C[Main][1]
        <4>1. 1 \in 1..Len(C[Main]) /\ C[Main][1].fn = "callback"
          BY <1>1, <2>0, <3>2 DEF Serves, Running
        <4>2. D[Main][1] = C[Main][1]
          BY <1>6, <2>0, <4>1
        <4> QED
          BY <1>1, <1>6, <2>0, <4>1, <4>2
      <3> QED
        BY <3>2, <3>4, <3>5 DEF WorkerWaits, Serves
    <2> QED
      BY <2>3, <2>4
  <1>11. ASSUME NEW d \in 1..Len(D[Main])
         PROVE  CallerInv(D, d)
    <2>0. Main \in Threads
      BY ThreadFacts
    <2> SUFFICES ASSUME D[Main][d].fn = "callback"
                 PROVE  CallerInv(D, d)
      BY DEF CallerInv
    <2>1. CASE Main = t /\ d = n + 1 /\ h = D[t][n + 1]
      <3>1. h.fn = "callback" /\ h.caller = Main /\ g.at = "wait" /\ h.ev = g.ev
        BY <1>2, <1>3, <2>1
      <3>2. d > 1 /\ D[Main][d - 1] = g
        BY <1>2, <1>3, <2>1
      <3> QED
        BY <2>1, <3>1, <3>2 DEF CallerInv, Waiting, Firing
    <2>2. CASE d \in 1..Len(C[Main])
      <3>1. C[Main][d].fn = "callback" /\ D[Main][d] = C[Main][d]
        BY <1>6, <2>0, <2>2
      <3>2. CallerInv(C, d)
        BY <2>2 DEF StackInv
      <3>3. CASE /\ C[Main][d].caller = Main
                 /\ d > 1
                 /\ Waiting(C[Main][d - 1], C[Main][d].ev)
        <4>1. d - 1 \in 1..Len(C[Main])
          BY <1>1, <2>0, <2>2, <3>3
        <4>2. D[Main][d - 1] = C[Main][d - 1]
          BY <1>6, <2>0, <3>3, <4>1 DEF Waiting
        <4> QED
          BY <3>1, <3>3, <4>2 DEF CallerInv
      <3>4. CASE /\ C[Main][d].caller \in Workers
                 /\ d = 1
                 /\ WorkerWaits(C, C[Main][d].caller, C[Main][d].ev)
        <4>1. PICK w \in Workers : w = C[Main][d].caller
          BY <3>4
        <4>2. w \in Threads
          BY ThreadFacts
        <4>3. w # t
          BY <3>4, <4>1 DEF WorkerWaits, Waiting
        <4>4. D[w] = C[w]
          BY <1>4, <4>2, <4>3
        <4> QED
          BY <3>1, <3>4, <4>1, <4>4 DEF CallerInv, WorkerWaits
      <3> QED
        BY <3>1, <3>2, <3>3, <3>4 DEF CallerInv
    <2> QED
      BY <1>7, <2>0, <2>1, <2>2
  <1> QED
    BY <1>8, <1>9, <1>10, <1>11 DEF StackInv

\* The idle main thread serves the call of a worker.
LEMMA StackServe ==
    ASSUME NEW C \in CallsType, NEW D \in CallsType, NEW ans,
           StackInv(C, ans), NEW w \in Workers, NEW f, NEW g, NEW h, NEW n,
           C[Main] = <<>>,
           \A u \in Threads \ {w, Main} : D[u] = C[u],
           n = Len(C[w]), f = C[w][n], f.fn = "FireEvent",
           Changed(C[w], D[w], g),
           g.fn = "FireEvent", g.ev = f.ev, g.at = "wait",
           Len(D[Main]) = 1, D[Main][1] = h,
           h.fn = "callback", h.ev = f.ev, h.caller = w
    PROVE  StackInv(D, ans)
  <1>1. \A u \in Threads : Len(C[u]) \in Nat /\ Len(D[u]) \in Nat
                        /\ (C[u] # <<>> <=> Len(C[u]) > 0) /\ (D[u] # <<>> <=> Len(D[u]) > 0)
    BY LenFacts
  <1>0. w \in Threads /\ w # Main /\ Main \in Threads /\ \A u \in Workers : u \in Threads /\ u # Main
    BY ThreadFacts
  <1>2. n \in Nat /\ n > 0 /\ n \in 1..n
    BY <1>0, <1>1 DEF Changed
  <1>3. D[w][n] = g /\ Len(D[w]) = n /\ \A d \in 1..n - 1 : D[w][d] = C[w][d]
    BY DEF Changed
  <1>4. \A u \in Workers : u # w => D[u] = C[u]
    BY <1>0
  <1>5. \A u \in Threads : u # Main => u \in Workers
    BY ThreadFacts
  <1>6. ASSUME NEW d \in 1..n
        PROVE  D[w][d].fn = C[w][d].fn /\ D[w][d].ev = C[w][d].ev
    <2>1. d = n \/ d \in 1..n - 1
      BY <1>2
    <2> QED
      BY <1>3, <2>1
  <1>7. FrameInv(f, ans) /\ f.ev = C[w][1].ev
    BY <1>0, <1>2 DEF StackInv, WorkerInv
  <1>8. ASSUME NEW u \in Threads, NEW d \in 1..Len(D[u])
        PROVE  FrameInv(D[u][d], ans)
    <2>1. CASE u = Main
      <3>1. D[u][d] = h
        BY <2>1
      <3> QED
        BY <1>7, <3>1 DEF FrameInv
    <2>2. CASE u = w
      <3>1. d \in 1..n /\ FrameInv(C[w][d], ans)
        BY <1>0, <1>3, <2>2 DEF StackInv
      <3> QED
        BY <1>6, <2>2, <3>1 DEF FrameInv
    <2>3. CASE u # Main /\ u # w
      BY <2>3 DEF StackInv
    <2> QED
      BY <2>1, <2>2, <2>3
  <1>9. ASSUME NEW u \in Workers
        PROVE  WorkerInv(D, u)
    <2>1. WorkerInv(C, u)
      BY DEF StackInv
    <2>2. CASE u # w
      BY <1>4, <2>1, <2>2 DEF WorkerInv
    <2>3. CASE u = w
      <3>1. 1 \in 1..n
        BY <1>2
      <3> QED
        BY <1>3, <1>6, <2>1, <2>3, <3>1 DEF WorkerInv
    <2> QED
      BY <2>2, <2>3
  <1>10. ASSUME NEW u \in Workers, D[u] # <<>>
         PROVE  C[u] # <<>> /\ D[u][1].ev = C[u][1].ev
    <2>1. CASE u # w
      BY <1>4, <1>10, <2>1
    <2>2. CASE u = w
      <3>1. 1 \in 1..n
        BY <1>2
      <3> QED
        BY <1>0, <1>1, <1>2, <1>6, <2>2, <3>1
    <2> QED
      BY <2>1, <2>2
  <1>11. ASSUME NEW u \in Workers, NEW e \in Events
         PROVE  OneThreadFires(D, u, e)
    <2> SUFFICES ASSUME D[u] # <<>>, D[u][1].ev = e
                 PROVE  /\ \A v \in Workers \ {u} : D[v] # <<>> => D[v][1].ev # e
                        /\ \A d \in 1..Len(D[Main]) :
                              D[Main][d].ev = e => WorkerWaits(D, u, e) /\ Serves(D, u, e)
      BY DEF OneThreadFires
    <2>1. \A v \in Workers \ {u} : C[v] # <<>> => C[v][1].ev # e
      BY <1>10 DEF StackInv, OneThreadFires
    <2>2. \A v \in Workers \ {u} : D[v] # <<>> => D[v][1].ev # e
      BY <1>10, <2>1
    <2>3. ASSUME NEW d \in 1..Len(D[Main]), D[Main][d].ev = e
          PROVE  WorkerWaits(D, u, e) /\ Serves(D, u, e)
      <3>1. d = 1 /\ f.ev = e
        BY <2>3
      <3>2. C[w] # <<>> /\ C[w][1].ev = e
        BY <1>0, <1>1, <1>2, <1>7, <3>1
      <3>3. u = w
        BY <2>1, <3>2
      <3>4. WorkerWaits(D, w, e)
        BY <1>0, <1>1, <1>2, <1>3, <3>1 DEF WorkerWaits, Waiting, Firing
      <3>5. Serves(D, w, e)
        BY <1>0, <1>1, <3>1 DEF Serves, Running
      <3> QED
        BY <3>3, <3>4, <3>5
    <2> QED
      BY <2>2, <2>3
  <1>12. ASSUME NEW d \in 1..Len(D[Main])
         PROVE  CallerInv(D, d)
    <2>1. d = 1
      OBVIOUS
    <2>2. WorkerWaits(D, w, f.ev)
      BY <1>0, <1>1, <1>2, <1>3 DEF WorkerWaits, Waiting, Firing
    <2> QED
      BY <2>1, <2>2 DEF CallerInv
  <1> QED
    BY <1>8, <1>9, <1>11, <1>12 DEF StackInv

\* A callback returns to the call below it.
LEMMA StackReturn ==
    ASSUME NEW C \in CallsType, NEW D \in CallsType, NEW ans,
           StackInv(C, ans), NEW f, NEW g, NEW n \in Nat,
           Others(C, D, Main), ReturnsTo(C[Main], D[Main], g),
           n = Len(C[Main]) - 1, f = C[Main][n], f.fn = "FireEvent",
           g.fn = "FireEvent", g.ev = f.ev
    PROVE  StackInv(D, ans)
  <1>1. \A u \in Threads : Len(C[u]) \in Nat /\ Len(D[u]) \in Nat
                        /\ (C[u] # <<>> <=> Len(C[u]) > 0) /\ (D[u] # <<>> <=> Len(D[u]) > 0)
    BY LenFacts
  <1>0. Main \in Threads /\ \A u \in Workers : u \in Threads /\ u # Main
    BY ThreadFacts
  <1>2. /\ n > 0 /\ n \in 1..n /\ Len(D[Main]) = n /\ D[Main][n] = g /\ Len(C[Main]) = n + 1
        /\ \A d \in 1..n - 1 : D[Main][d] = C[Main][d]
    <2>1. Len(C[Main]) = n + 1
      BY <1>0, <1>1
    <2>2. n > 0 /\ Len(D[Main]) = n /\ D[Main][n] = g
      BY <2>1 DEF ReturnsTo
    <2>3. \A d \in 1..n - 1 : D[Main][d] = C[Main][d]
      BY <2>1 DEF ReturnsTo
    <2> QED
      BY <2>1, <2>2, <2>3
  <1>3. \A u \in Threads : u # Main => D[u] = C[u]
    BY DEF Others
  <1>4. ASSUME NEW d \in 1..n
        PROVE  /\ d \in 1..Len(C[Main]) /\ D[Main][d].fn = C[Main][d].fn
               /\ D[Main][d].ev = C[Main][d].ev
               /\ d = n \/ D[Main][d] = C[Main][d]
    <2>1. d = n \/ d \in 1..n - 1
      BY <1>2
    <2> QED
      BY <1>2, <2>1
  <1>5. ASSUME NEW u \in Threads, NEW d \in 1..Len(D[u])
        PROVE  FrameInv(D[u][d], ans)
    <2>1. CASE u # Main
      BY <1>3, <2>1 DEF StackInv
    <2>2. CASE u = Main
      <3>1. d \in 1..n
        BY <1>2, <2>2
      <3>2. FrameInv(C[Main][d], ans)
        BY <1>0, <1>4, <3>1 DEF StackInv
      <3> QED
        BY <1>4, <2>2, <3>1, <3>2 DEF FrameInv
    <2> QED
      BY <2>1, <2>2
  <1>6. ASSUME NEW w \in Workers
        PROVE  WorkerInv(D, w)
    BY <1>0, <1>3 DEF StackInv, WorkerInv
  <1>7. ASSUME NEW w \in Workers, NEW e \in Events
        PROVE  OneThreadFires(D, w, e)
    <2> SUFFICES ASSUME C[w] # <<>>, C[w][1].ev = e
                 PROVE  /\ \A u \in Workers \ {w} : C[u] # <<>> => C[u][1].ev # e
                        /\ \A d \in 1..Len(D[Main]) :
                              D[Main][d].ev = e => WorkerWaits(C, w, e) /\ Serves(D, w, e)
      BY <1>0, <1>3 DEF OneThreadFires, WorkerWaits
    <2>1. /\ \A u \in Workers \ {w} : C[u] # <<>> => C[u][1].ev # e
          /\ \A d \in 1..Len(C[Main]) :
                C[Main][d].ev = e => WorkerWaits(C, w, e) /\ Serves(C, w, e)
      BY DEF StackInv, OneThreadFires
    <2>2. ASSUME NEW d \in 1..Len(D[Main]), D[Main][d].ev = e
          PROVE  WorkerWaits(C, w, e) /\ Serves(D, w, e)
      <3>1. WorkerWaits(C, w, e) /\ Serves(C, w, e)
        BY <1>2, <1>4, <2>1, <2>2
      <3>2. 1 \in 1..n /\ C[Main][1].fn = "callback"
        BY <1>2, <3>1 DEF Serves, Running
      <3>3. D[Main][1] = C[Main][1]
        BY <1>4, <3>2
      <3>4. D[Main] # <<>>
        BY <1>0, <1>1, <1>2
      <3> QED
        BY <3>1, <3>3, <3>4 DEF Serves
    <2> QED
      BY <2>1, <2>2
  <1>8. ASSUME NEW d \in 1..Len(D[Main])
        PROVE  CallerInv(D, d)
    <2> SUFFICES ASSUME D[Main][d].fn = "callback"
                 PROVE  CallerInv(D, d)
      BY DEF CallerInv
    <2>1. d \in 1..n /\ d \in 1..Len(C[Main]) /\ D[Main][d] = C[Main][d]
      BY <1>2, <1>4
    <2>2. CallerInv(C, d)
      BY <2>1 DEF StackInv
    <2>3. CASE /\ C[Main][d].caller = Main
               /\ d > 1
               /\ Waiting(C[Main][d - 1], C[Main][d].ev)
      <3>1. d - 1 \in 1..n - 1
        BY <2>1, <2>3
      <3>2. D[Main][d - 1] = C[Main][d - 1]
        BY <1>2, <3>1
      <3> QED
        BY <2>1, <2>3, <3>2 DEF CallerInv
    <2>4. CASE /\ C[Main][d].caller \in Workers
               /\ d = 1
               /\ WorkerWaits(C, C[Main][d].caller, C[Main][d].ev)
      <3>1. D[C[Main][d].caller] = C[C[Main][d].caller]
        BY <1>0, <1>3, <2>4
      <3> QED
        BY <2>1, <2>4, <3>1 DEF CallerInv, WorkerWaits
    <2> QED
      BY <2>1, <2>2, <2>3, <2>4 DEF CallerInv
  <1> QED
    BY <1>5, <1>6, <1>7, <1>8 DEF StackInv

\* A callback returns to the worker that waits for it, and leaves the main
\* thread idle.
LEMMA StackAnswer ==
    ASSUME NEW C \in CallsType, NEW D \in CallsType, NEW ans,
           StackInv(C, ans), NEW w \in Workers, NEW f, NEW g, NEW n,
           D[Main] = <<>>,
           \A u \in Threads \ {w, Main} : D[u] = C[u],
           n = Len(C[w]), f = C[w][n],
           Changed(C[w], D[w], g), g.fn = f.fn, g.ev = f.ev
    PROVE  StackInv(D, ans)
  <1>1. \A u \in Threads : Len(C[u]) \in Nat /\ Len(D[u]) \in Nat
                        /\ (C[u] # <<>> <=> Len(C[u]) > 0) /\ (D[u] # <<>> <=> Len(D[u]) > 0)
    BY LenFacts
  <1>0. w \in Threads /\ w # Main /\ Main \in Threads /\ \A u \in Workers : u \in Threads /\ u # Main
    BY ThreadFacts
  <1>2. n \in Nat /\ n > 0 /\ n \in 1..n
    BY <1>0, <1>1 DEF Changed
  <1>3. D[w][n] = g /\ Len(D[w]) = n /\ \A d \in 1..n - 1 : D[w][d] = C[w][d]
    BY DEF Changed
  <1>4. \A u \in Workers : u # w => D[u] = C[u]
    BY <1>0
  <1>6. ASSUME NEW d \in 1..n
        PROVE  D[w][d].fn = C[w][d].fn /\ D[w][d].ev = C[w][d].ev
    <2>1. d = n \/ d \in 1..n - 1
      BY <1>2
    <2> QED
      BY <1>3, <2>1
  <1>8. ASSUME NEW u \in Threads, NEW d \in 1..Len(D[u])
        PROVE  FrameInv(D[u][d], ans)
    <2>1. CASE u = Main
      BY <2>1
    <2>2. CASE u = w
      <3>1. d \in 1..n /\ FrameInv(C[w][d], ans)
        BY <1>0, <1>3, <2>2 DEF StackInv
      <3> QED
        BY <1>6, <2>2, <3>1 DEF FrameInv
    <2>3. CASE u # Main /\ u # w
      BY <2>3 DEF StackInv
    <2> QED
      BY <2>1, <2>2, <2>3
  <1>9. ASSUME NEW u \in Workers
        PROVE  WorkerInv(D, u)
    <2>1. WorkerInv(C, u)
      BY DEF StackInv
    <2>2. CASE u # w
      BY <1>4, <2>1, <2>2 DEF WorkerInv
    <2>3. CASE u = w
      <3>1. 1 \in 1..n
        BY <1>2
      <3> QED
        BY <1>3, <1>6, <2>1, <2>3, <3>1 DEF WorkerInv
    <2> QED
      BY <2>2, <2>3
  <1>10. ASSUME NEW u \in Workers, D[u] # <<>>
         PROVE  C[u] # <<>> /\ D[u][1].ev = C[u][1].ev
    <2>1. CASE u # w
      BY <1>4, <1>10, <2>1
    <2>2. CASE u = w
      <3>1. 1 \in 1..n
        BY <1>2
      <3> QED
        BY <1>0, <1>1, <1>2, <1>6, <2>2, <3>1
    <2> QED
      BY <2>1, <2>2
  <1>11. ASSUME NEW u \in Workers, NEW e \in Events
         PROVE  OneThreadFires(D, u, e)
    <2> SUFFICES ASSUME D[u] # <<>>, D[u][1].ev = e
                 PROVE  /\ \A v \in Workers \ {u} : D[v] # <<>> => D[v][1].ev # e
                        /\ \A d \in 1..Len(D[Main]) :
                              D[Main][d].ev = e => WorkerWaits(D, u, e) /\ Serves(D, u, e)
      BY DEF OneThreadFires
    <2>1. \A v \in Workers \ {u} : C[v] # <<>> => C[v][1].ev # e
      BY <1>10 DEF StackInv, OneThreadFires
    <2>2. \A v \in Workers \ {u} : D[v] # <<>> => D[v][1].ev # e
      BY <1>10, <2>1
    <2> QED
      BY <2>2
  <1>12. \A d \in 1..Len(D[Main]) : CallerInv(D, d)
    OBVIOUS
  <1> QED
    BY <1>8, <1>9, <1>11, <1>12 DEF StackInv

\* The outermost call for an event is the only one.
LEMMA Outermost ==
    ASSUME NEW C \in CallsType, NEW ans,
           StackInv(C, ans), NEW t \in Threads, NEW n, n = Len(C[t]), n > 0,
           NEW f, f = C[t][n], f.fn = "FireEvent", f.at # "wait",
           \A d \in 1..n - 1 : C[t][d].ev # f.ev,
           NEW u \in Threads, NEW k \in 1..Len(C[u]), C[u][k].ev = f.ev
    PROVE  u = t /\ k = n
  <1>0. /\ Main \in Threads /\ \A w \in Workers : w \in Threads /\ w # Main
        /\ \A v \in Threads : v # Main => v \in Workers
    BY ThreadFacts
  <1>1. n \in Nat /\ n \in 1..n /\ Len(C[u]) \in Nat /\ 1 \in 1..n /\ 1 \in 1..Len(C[u])
    BY LenFacts
  <1>2. f.ev \in Events
    <2>1. FrameInv(f, ans)
      BY <1>1 DEF StackInv
    <2> QED
      BY <2>1 DEF FrameInv
  <1>3. CASE u = t
    BY <1>1, <1>3
  <1>4. CASE u # t /\ t \in Workers
    <2>1. C[t] # <<>> /\ C[t][1].ev = f.ev
      BY <1>1, <1>4 DEF StackInv, WorkerInv
    <2>2. /\ \A v \in Workers \ {t} : C[v] # <<>> => C[v][1].ev # f.ev
          /\ \A d \in 1..Len(C[Main]) : C[Main][d].ev = f.ev => WorkerWaits(C, t, f.ev)
      BY <1>2, <1>4, <2>1 DEF StackInv, OneThreadFires
    <2>3. CASE u = Main
      <3>1. WorkerWaits(C, t, f.ev)
        BY <2>2, <2>3
      <3> QED
        BY <3>1 DEF WorkerWaits, Waiting
    <2>4. CASE u \in Workers
      <3>1. C[u] # <<>> /\ C[u][1].ev = f.ev
        BY <1>1, <2>4 DEF StackInv, WorkerInv
      <3> QED
        BY <1>4, <2>2, <2>4, <3>1
    <2> QED
      BY <1>0, <2>3, <2>4
  <1>5. CASE u # t /\ t = Main
    <2>1. u \in Workers
      BY <1>0, <1>5
    <2>2. C[u] # <<>> /\ C[u][1].ev = f.ev
      BY <1>1, <2>1 DEF StackInv, WorkerInv
    <2>3. Serves(C, u, f.ev)
      BY <1>1, <1>2, <1>5, <2>1, <2>2 DEF StackInv, OneThreadFires
    <2>4. n # 1 /\ C[Main][1].ev = f.ev
      BY <1>5, <2>3 DEF Serves, Running
    <2>5. 1 \in 1..n - 1
      <3>1. \A m \in Nat : m # 1 /\ m > 0 => 1 \in 1..m - 1
        OBVIOUS
      <3> QED
        BY <1>1, <2>4, <3>1
    <2> QED
      BY <1>5, <2>4, <2>5
  <1> QED
    BY <1>0, <1>3, <1>4, <1>5

-----------------------------------------------------------------------------
(* Events that are fired: a lemma for every kind of step.                   *)

\* The call is not of event e, or is one of those there were.
OldFor(C, D, u, d, e) ==
    \/ D[u][d].fn = "modify"
    \/ D[u][d].ev # e
    \/ d \in 1..Len(C[u]) /\ D[u][d] = C[u][d]

\* No callback begins to run with the event.
NoNewRun(C, D, e) ==
    \A d \in 1..Len(D[Main]) :
        Running(D[Main][d], e) => d \in 1..Len(C[Main]) /\ Running(C[Main][d], e)

\* A step after which every frame of an event was there before keeps what its dispatch needs.
LEMMA FiringKept ==
    ASSUME NEW C \in CallsType, NEW D \in CallsType, NEW evt, NEW e \in Events,
           FiringInv(C, evt, e),
           \A u \in Threads : \A d \in 1..Len(D[u]) : OldFor(C, D, u, d, e)
    PROVE  FiringInv(D, evt, e) /\ NoNewRun(C, D, e)
  <1>0. Main \in Threads
    BY ThreadFacts
  <1>1. ASSUME NEW u \in Threads, NEW d \in 1..Len(D[u]),
               Firing(D[u][d], e) \/ Running(D[u][d], e)
        PROVE  d \in 1..Len(C[u]) /\ D[u][d] = C[u][d]
    BY <1>1 DEF OldFor, Firing, Running
  <1>2. OneFires(D, e)
    <2> SUFFICES ASSUME NEW t \in Threads, NEW u \in Threads,
                        NEW d \in 1..Len(D[t]), NEW k \in 1..Len(D[u]),
                        Firing(D[t][d], e), D[t][d].at # "return",
                        Firing(D[u][k], e), D[u][k].at # "return"
                 PROVE  t = u /\ d = k
      BY DEF OneFires
    <2>1. d \in 1..Len(C[t]) /\ D[t][d] = C[t][d] /\ k \in 1..Len(C[u]) /\ D[u][k] = C[u][k]
      BY <1>1
    <2> QED
      BY <2>1 DEF FiringInv, OneFires
  <1>3. Paused(D, e)
    BY <1>0, <1>1 DEF FiringInv, Paused
  <1>4. OneRuns(D, e)
    BY <1>0, <1>1 DEF FiringInv, OneRuns
  <1>5. evt[e].stopped => Stopping(D, e)
    BY <1>1 DEF FiringInv, Stopping
  <1>6. NoNewRun(C, D, e)
    BY <1>0, <1>1 DEF NoNewRun
  <1> QED
    BY <1>2, <1>3, <1>4, <1>5, <1>6 DEF FiringInv

\* The event is fired: there is one call for it.
LEMMA FiringBegins ==
    ASSUME NEW C \in CallsType, NEW D \in CallsType, NEW evt, NEW e \in Events,
           NEW t \in Threads, NEW n,
           ~ evt[e].stopped,
           \A u \in Threads : \A d \in 1..Len(D[u]) :
               D[u][d].ev = e => u = t /\ d = n /\ D[u][d].fn = "FireEvent"
    PROVE  FiringInv(D, evt, e)
  <1>0. Main \in Threads
    BY ThreadFacts
  <1>1. OneFires(D, e)
    BY DEF OneFires, Firing
  <1>2. \A d \in 1..Len(D[Main]) : ~ Running(D[Main][d], e)
    BY <1>0 DEF Running
  <1> QED
    BY <1>1, <1>2 DEF FiringInv, Paused, OneRuns

\* The busy call moves on; no callback runs.
LEMMA FiringMoves ==
    ASSUME NEW C \in CallsType, NEW D \in CallsType, NEW evt, NEW e \in Events,
           FiringInv(C, evt, e),
           NEW t \in Threads, NEW n \in 1..Len(C[t]),
           Firing(C[t][n], e), C[t][n].at # "return",
           evt[e].stopped => D[t][n].at \in {"wait", "check", "return"},
           \A u \in Threads : \A d \in 1..Len(D[u]) : OldFor(C, D, u, d, e) \/ (u = t /\ d = n),
           \A d \in 1..Len(D[Main]) : ~ Running(D[Main][d], e)
    PROVE  FiringInv(D, evt, e) /\ NoNewRun(C, D, e)
  <1>1. ASSUME NEW u \in Threads, NEW d \in 1..Len(D[u]), Firing(D[u][d], e)
        PROVE  (u = t /\ d = n) \/ (d \in 1..Len(C[u]) /\ D[u][d] = C[u][d])
    BY <1>1 DEF OldFor, Firing
  <1>2. ASSUME NEW u \in Threads, NEW d \in 1..Len(D[u]), Firing(D[u][d], e), D[u][d].at # "return"
        PROVE  u = t /\ d = n
    BY <1>1, <1>2 DEF FiringInv, OneFires
  <1>3. OneFires(D, e)
    BY <1>2 DEF OneFires
  <1>4. evt[e].stopped => Stopping(D, e)
    BY <1>1 DEF FiringInv, Stopping
  <1> QED
    BY <1>3, <1>4 DEF FiringInv, Paused, OneRuns, NoNewRun

\* The busy call goes on to the root.
LEMMA FiringGoesOn ==
    ASSUME NEW C \in CallsType, NEW D \in CallsType, NEW evt, NEW e \in Events,
           FiringInv(C, evt, e),
           NEW t \in Threads, NEW n \in 1..Len(C[t]), NEW m,
           Firing(C[t][n], e), C[t][n].at = "loop",
           D[t][n].at = "return", D[t][m].fn = "FireEvent",
           \A u \in Threads : \A d \in 1..Len(D[u]) :
               OldFor(C, D, u, d, e) \/ (u = t /\ d \in {n, m}),
           D[t][n].fn = "FireEvent"
    PROVE  FiringInv(D, evt, e) /\ NoNewRun(C, D, e)
  <1>0. Main \in Threads
    BY ThreadFacts
  <1>1. ASSUME NEW u \in Threads, NEW d \in 1..Len(D[u]), Firing(D[u][d], e), D[u][d].at # "return"
        PROVE  u = t /\ d = m
    BY <1>1 DEF OldFor, Firing, FiringInv, OneFires
  <1>2. OneFires(D, e)
    BY <1>1 DEF OneFires
  <1>3. \A d \in 1..Len(C[Main]) : ~ Running(C[Main][d], e)
    BY DEF FiringInv, Paused
  <1>4. \A d \in 1..Len(D[Main]) : ~ Running(D[Main][d], e)
    <2> SUFFICES ASSUME NEW d \in 1..Len(D[Main]), Running(D[Main][d], e)
                 PROVE  FALSE
      OBVIOUS
    <2>1. D[Main][d].fn = "callback" /\ D[Main][d].ev = e
      BY DEF Running
    <2>2. CASE OldFor(C, D, Main, d, e)
      BY <1>3, <2>1, <2>2 DEF OldFor
    <2>3. CASE Main = t /\ d \in {n, m}
      BY <2>1, <2>3
    <2> QED
      BY <1>0, <2>2, <2>3
  <1>5. ~ evt[e].stopped
    BY DEF FiringInv, Stopping
  <1> QED
    BY <1>2, <1>4, <1>5 DEF FiringInv, Paused, OneRuns, NoNewRun

\* A callback begins to run, at the place k of the main thread.
LEMMA FiringCalls ==
    ASSUME NEW C \in CallsType, NEW D \in CallsType, NEW evt, NEW e \in Events,
           FiringInv(C, evt, e),
           NEW t \in Threads, NEW n \in 1..Len(C[t]), NEW k,
           Firing(C[t][n], e), C[t][n].at \in {"loop", "call"},
           D[t][n].at = "wait", D[t][n].fn = "FireEvent", D[Main][k].fn = "callback",
           \A u \in Threads : \A d \in 1..Len(D[u]) :
               OldFor(C, D, u, d, e) \/ (u = t /\ d = n) \/ (u = Main /\ d = k)
    PROVE  FiringInv(D, evt, e) /\ ~ evt[e].stopped
  <1>0. Main \in Threads
    BY ThreadFacts
  <1>1. ASSUME NEW u \in Threads, NEW d \in 1..Len(D[u]), Firing(D[u][d], e)
        PROVE  (u = t /\ d = n) \/ D[u][d].at = "return"
    <2>1. CASE OldFor(C, D, u, d, e)
      BY <1>1, <2>1 DEF OldFor, Firing, FiringInv, OneFires
    <2>2. CASE u = Main /\ d = k
      BY <1>1, <2>2 DEF Firing
    <2> QED
      BY <2>1, <2>2
  <1>2. OneFires(D, e)
    BY <1>1 DEF OneFires
  <1>3. \A d \in 1..Len(C[Main]) : ~ Running(C[Main][d], e)
    BY DEF FiringInv, Paused
  <1>4. ASSUME NEW d \in 1..Len(D[Main]), Running(D[Main][d], e)
        PROVE  d = k
    <2>1. D[Main][d].fn = "callback" /\ D[Main][d].ev = e
      BY <1>4 DEF Running
    <2>2. CASE OldFor(C, D, Main, d, e)
      BY <1>3, <1>4, <2>1, <2>2 DEF OldFor
    <2>3. CASE Main = t /\ d = n
      BY <2>1, <2>3
    <2> QED
      BY <1>0, <2>2, <2>3
  <1>5. ~ evt[e].stopped
    BY DEF FiringInv, Stopping
  <1>6. OneRuns(D, e)
    BY <1>4 DEF OneRuns
  <1>7. Paused(D, e)
    BY <1>1 DEF Paused
  <1> QED
    BY <1>2, <1>5, <1>6, <1>7 DEF FiringInv

-----------------------------------------------------------------------------
(* The same steps, of the variable stack.                                   *)

\* Nest gives the stack of every thread outermost frame first.
LEMMA NestFacts ==
    ASSUME NEW st \in CallsType
    PROVE  /\ Nest(st) \in CallsType
           /\ \A t \in Threads :
                 /\ Nest(st)[t] = Outward(st[t])
                 /\ Len(st[t]) \in Nat /\ Len(Nest(st)[t]) = Len(st[t])
                 /\ \A d \in 1..Len(st[t]) : Nest(st)[t][d] = st[t][Len(st[t]) + 1 - d]
                 /\ \A i \in 1..Len(st[t]) : Nest(st)[t][Len(st[t]) + 1 - i] = st[t][i]
                 /\ st[t] # <<>> <=> Nest(st)[t] # <<>>
                 /\ st[t] # <<>> =>
                       /\ Len(st[t]) > 0 /\ Nest(st)[t][Len(st[t])] = st[t][1]
                       /\ Head(st[t]) = st[t][1] /\ st[t][1] \in FrameType
  <1>1. ASSUME NEW t \in Threads
        PROVE  /\ Nest(st)[t] = Outward(st[t]) /\ st[t] \in Seq(FrameType)
               /\ Outward(st[t]) \in Seq(FrameType)
               /\ Len(st[t]) \in Nat /\ Len(Outward(st[t])) = Len(st[t])
               /\ \A d \in 1..Len(st[t]) : Outward(st[t])[d] = st[t][Len(st[t]) + 1 - d]
               /\ \A i \in 1..Len(st[t]) : Outward(st[t])[Len(st[t]) + 1 - i] = st[t][i]
               /\ st[t] # <<>> <=> Outward(st[t]) # <<>>
               /\ st[t] # <<>> =>
                     /\ Len(st[t]) > 0 /\ Outward(st[t])[Len(st[t])] = st[t][1]
                     /\ Head(st[t]) = st[t][1] /\ st[t][1] \in FrameType
    <2>1. st[t] \in Seq(FrameType) /\ Nest(st)[t] = Outward(st[t])
      BY DEF CallsType, Nest
    <2>2. PICK s \in Seq(FrameType) : s = st[t]
      BY <2>1
    <2>3. /\ Outward(s) \in Seq(FrameType) /\ Len(Outward(s)) = Len(s) /\ Len(s) \in Nat
          /\ \A d \in 1..Len(s) : Outward(s)[d] = s[Len(s) + 1 - d]
          /\ \A i \in 1..Len(s) : Outward(s)[Len(s) + 1 - i] = s[i]
          /\ s # <<>> <=> Outward(s) # <<>>
          /\ s # <<>> => Len(s) > 0 /\ Outward(s)[Len(s)] = s[1] /\ Head(s) = s[1]
      BY OutwardFacts
    <2>4. s # <<>> => s[1] \in FrameType
      OBVIOUS
    <2> QED
      BY <2>1, <2>2, <2>3, <2>4
  <1>2. Nest(st) \in CallsType
    <2>1. Nest(st) = [t \in Threads |-> Outward(st[t])]
      BY DEF Nest
    <2> QED
      BY <1>1, <2>1 DEF CallsType
  <1> QED
    BY <1>1, <1>2

Replaced(st, st2, t, r) == st2 = [st EXCEPT ![t] = r]

Renests(st, st2, t, r) ==
    /\ st2 \in CallsType /\ Nest(st2) \in CallsType
    /\ Others(Nest(st), Nest(st2), t)
    /\ Nest(st)[t] = Outward(st[t]) /\ Nest(st2)[t] = Outward(r)

\* The stack of one thread is replaced.
LEMMA NestReplace ==
    ASSUME NEW st \in CallsType, NEW t \in Threads, NEW r \in Seq(FrameType), NEW st2,
           Replaced(st, st2, t, r)
    PROVE  Renests(st, st2, t, r)
  <1>1. st2 \in CallsType /\ st2[t] = r /\ \A u \in Threads \ {t} : st2[u] = st[u]
    BY DEF CallsType, Replaced
  <1>2. /\ Nest(st2) \in CallsType /\ Nest(st) \in CallsType
        /\ \A u \in Threads : Nest(st)[u] = Outward(st[u]) /\ Nest(st2)[u] = Outward(st2[u])
    <2>1. /\ Nest(st) \in CallsType /\ \A u \in Threads : Nest(st)[u] = Outward(st[u])
      BY NestFacts
    <2>2. /\ Nest(st2) \in CallsType /\ \A u \in Threads : Nest(st2)[u] = Outward(st2[u])
      BY <1>1, NestFacts
    <2> QED
      BY <2>1, <2>2
  <1> QED
    BY <1>1, <1>2 DEF Others, Renests

\* It grows by a call,
LEMMA NestPush ==
    ASSUME NEW st \in CallsType, NEW t \in Threads, NEW f \in FrameType, NEW st2,
           Replaced(st, st2, t, <<f>> \o st[t])
    PROVE  /\ st2 \in CallsType /\ Nest(st2) \in CallsType
           /\ Others(Nest(st), Nest(st2), t)
           /\ Pushed(Nest(st)[t], Nest(st2)[t], f)
  <1>1. PICK s \in Seq(FrameType) : s = st[t]
    BY DEF CallsType
  <1>2. PICK r : r = <<f>> \o s
    OBVIOUS
  <1>3. r \in Seq(FrameType) /\ Pushed(Outward(s), Outward(r), f)
    BY <1>2, OutwardPush
  <1>4. Replaced(st, st2, t, r)
    BY <1>1, <1>2
  <1>5. /\ st2 \in CallsType /\ Nest(st2) \in CallsType /\ Others(Nest(st), Nest(st2), t)
        /\ Nest(st)[t] = Outward(st[t]) /\ Nest(st2)[t] = Outward(r)
    <2>1. Renests(st, st2, t, r)
      BY <1>3, <1>4, NestReplace
    <2> QED
      BY <2>1 DEF Renests
  <1> QED
    BY <1>1, <1>3, <1>5

\* shrinks by a return,
LEMMA NestPop ==
    ASSUME NEW st \in CallsType, NEW t \in Threads, st[t] # <<>>, NEW st2,
           Replaced(st, st2, t, Tail(st[t]))
    PROVE  /\ st2 \in CallsType /\ Nest(st2) \in CallsType
           /\ Others(Nest(st), Nest(st2), t)
           /\ Popped(Nest(st)[t], Nest(st2)[t])
  <1>1. PICK s \in Seq(FrameType) : s = st[t] /\ s # <<>>
    BY DEF CallsType
  <1>2. PICK r : r = Tail(s)
    OBVIOUS
  <1>3. r \in Seq(FrameType) /\ Popped(Outward(s), Outward(r))
    BY <1>1, <1>2, OutwardTail
  <1>4. Replaced(st, st2, t, r)
    BY <1>1, <1>2
  <1>5. /\ st2 \in CallsType /\ Nest(st2) \in CallsType /\ Others(Nest(st), Nest(st2), t)
        /\ Nest(st)[t] = Outward(st[t]) /\ Nest(st2)[t] = Outward(r)
    <2>1. Renests(st, st2, t, r)
      BY <1>3, <1>4, NestReplace
    <2> QED
      BY <2>1 DEF Renests
  <1> QED
    BY <1>1, <1>3, <1>5

\* or its innermost frame moves on,
LEMMA NestChange ==
    ASSUME NEW st \in CallsType, NEW t \in Threads, st[t] # <<>>, NEW st2,
           NEW g \in FrameType, Replaced(st, st2, t, [st[t] EXCEPT ![1] = g])
    PROVE  /\ st2 \in CallsType /\ Nest(st2) \in CallsType
           /\ Others(Nest(st), Nest(st2), t)
           /\ Changed(Nest(st)[t], Nest(st2)[t], g)
  <1>1. PICK s \in Seq(FrameType) : s = st[t] /\ s # <<>>
    BY DEF CallsType
  <1>2. PICK r : r = [s EXCEPT ![1] = g]
    OBVIOUS
  <1>3. r \in Seq(FrameType) /\ Changed(Outward(s), Outward(r), g)
    BY <1>1, <1>2, OutwardChange
  <1>4. Replaced(st, st2, t, r)
    BY <1>1, <1>2
  <1>5. /\ st2 \in CallsType /\ Nest(st2) \in CallsType /\ Others(Nest(st), Nest(st2), t)
        /\ Nest(st)[t] = Outward(st[t]) /\ Nest(st2)[t] = Outward(r)
    <2>1. Renests(st, st2, t, r)
      BY <1>3, <1>4, NestReplace
    <2> QED
      BY <2>1 DEF Renests
  <1> QED
    BY <1>1, <1>3, <1>5

\* calls,
LEMMA NestCall ==
    ASSUME NEW st \in CallsType, NEW t \in Threads, st[t] # <<>>, NEW st2,
           NEW g \in FrameType, NEW f \in FrameType,
           Replaced(st, st2, t, <<f, g>> \o Tail(st[t]))
    PROVE  /\ st2 \in CallsType /\ Nest(st2) \in CallsType
           /\ Others(Nest(st), Nest(st2), t)
           /\ CallsOn(Nest(st)[t], Nest(st2)[t], g, f)
  <1>1. PICK s \in Seq(FrameType) : s = st[t] /\ s # <<>>
    BY DEF CallsType
  <1>2. PICK r : r = <<f, g>> \o Tail(s)
    OBVIOUS
  <1>3. r \in Seq(FrameType) /\ CallsOn(Outward(s), Outward(r), g, f)
    BY <1>1, <1>2, OutwardCall
  <1>4. Replaced(st, st2, t, r)
    BY <1>1, <1>2
  <1>5. /\ st2 \in CallsType /\ Nest(st2) \in CallsType /\ Others(Nest(st), Nest(st2), t)
        /\ Nest(st)[t] = Outward(st[t]) /\ Nest(st2)[t] = Outward(r)
    <2>1. Renests(st, st2, t, r)
      BY <1>3, <1>4, NestReplace
    <2> QED
      BY <2>1 DEF Renests
  <1> QED
    BY <1>1, <1>3, <1>5

\* or returns to one that moves on.
LEMMA NestReturn ==
    ASSUME NEW st \in CallsType, NEW t \in Threads, Len(st[t]) > 1, NEW st2,
           NEW g \in FrameType, Replaced(st, st2, t, <<g>> \o Tail(Tail(st[t])))
    PROVE  /\ st2 \in CallsType /\ Nest(st2) \in CallsType
           /\ Others(Nest(st), Nest(st2), t)
           /\ ReturnsTo(Nest(st)[t], Nest(st2)[t], g)
  <1>1. PICK s \in Seq(FrameType) : s = st[t] /\ Len(s) > 1
    BY DEF CallsType
  <1>2. PICK r : r = <<g>> \o Tail(Tail(s))
    OBVIOUS
  <1>3. r \in Seq(FrameType) /\ ReturnsTo(Outward(s), Outward(r), g)
    BY <1>1, <1>2, OutwardReturn
  <1>4. Replaced(st, st2, t, r)
    BY <1>1, <1>2
  <1>5. /\ st2 \in CallsType /\ Nest(st2) \in CallsType /\ Others(Nest(st), Nest(st2), t)
        /\ Nest(st)[t] = Outward(st[t]) /\ Nest(st2)[t] = Outward(r)
    <2>1. Renests(st, st2, t, r)
      BY <1>3, <1>4, NestReplace
    <2> QED
      BY <2>1 DEF Renests
  <1> QED
    BY <1>1, <1>3, <1>5

\* The frames of the code are frames.
LEMMA FrameTypes ==
    /\ \A e \in Events, o \in Objects :
          /\ FireFrame(e, o) \in FrameType
          /\ FireFrame(e, o).fn = "FireEvent" /\ FireFrame(e, o).at = "lock"
          /\ FireFrame(e, o).ev = e /\ FireFrame(e, o).obj = o
    /\ \A e \in Events, t \in Threads :
          /\ CallbackFrame(e, t) \in FrameType
          /\ CallbackFrame(e, t).fn = "callback" /\ CallbackFrame(e, t).ev = e
          /\ CallbackFrame(e, t).caller = t
    /\ ModifyFrame \in FrameType /\ ModifyFrame.fn = "modify" /\ ModifyFrame.ev = NoEvent
  <1>1. Root \in Objects /\ <<>> \in Seq(Listeners)
    BY ThreadFacts
  <1> QED
    BY <1>1 DEF FireFrame, CallbackFrame, ModifyFrame, FrameType

\* The fields of a frame.
LEMMA FrameFields ==
    ASSUME NEW f \in FrameType
    PROVE  /\ f.fn \in {"FireEvent", "callback", "modify"}
           /\ f.ev \in Events \cup {NoEvent} /\ f.obj \in Objects
           /\ f.rest \in Seq(Listeners) /\ f.caller \in Threads \cup {NoThread}
           /\ f = [f EXCEPT !.rest = f.rest]
           /\ \A at : [f EXCEPT !.at = at] = [f EXCEPT !.at = at, !.rest = f.rest]
  BY DEF FrameType

-----------------------------------------------------------------------------
(* One lemma for every action.                                              *)

\* What a step keeps and what it may not do.
Kept ==
    /\ EventsInv'
    /\ \A e \in Events \ refired :
          event[e].stopped => NoNewRun(Nest(stack), Nest(stack'), e)
    /\ \A e \in Events \ refired :
          (Answered(e)' /\ ~ Answered(e) /\ ~ event[e].stopped) =>
              \A l \in due[e] : alive[l] = "live" => l \in called[e]

\* What is known of the thread that moves.
LEMMA TopFacts ==
    ASSUME TypeOK, StackInv(Nest(stack), answer), NEW t \in Threads, stack[t] # <<>>
    PROVE  /\ stack \in CallsType /\ Nest(stack) \in CallsType
           /\ Len(stack[t]) \in Nat /\ Len(stack[t]) > 0
           /\ Len(Nest(stack)[t]) = Len(stack[t])
           /\ Top(t) = stack[t][1] /\ Top(t) \in FrameType
           /\ Nest(stack)[t][Len(stack[t])] = Top(t)
           /\ FrameInv(Top(t), answer)
           /\ Top(t).fn # "modify" => Top(t).ev \in Events /\ answer[Top(t).ev] = "none"
  <1>1. stack \in CallsType
    BY DEF TypeOK, CallsType
  <1>2. /\ Nest(stack) \in CallsType
        /\ Len(stack[t]) \in Nat /\ Len(stack[t]) > 0
        /\ Len(Nest(stack)[t]) = Len(stack[t])
        /\ Nest(stack)[t][Len(stack[t])] = stack[t][1]
        /\ Head(stack[t]) = stack[t][1] /\ stack[t][1] \in FrameType
    BY <1>1, NestFacts
  <1>3. Top(t) = stack[t][1]
    BY <1>2 DEF Top
  <1>4. Len(stack[t]) \in 1..Len(Nest(stack)[t])
    BY <1>2
  <1>5. FrameInv(stack[t][1], answer)
    BY <1>2, <1>4 DEF StackInv
  <1> QED
    BY <1>1, <1>2, <1>3, <1>5 DEF FrameInv

\* FireEvent moves on without a call.
LEMMA ChangeStep ==
    ASSUME EventsInv, NEW t \in Threads, stack[t] # <<>>,
           NEW f, f = Top(t), f.fn = "FireEvent", f.at \notin {"wait", "return"},
           NEW g \in FrameType, g.fn = "FireEvent", g.ev = f.ev, g.at # "return",
           Replaced(stack, stack', t, [stack[t] EXCEPT ![1] = g]),
           f.at = "check" => ~ event[f.ev].stopped,
           UNCHANGED <<listenerMap, alive, event, due, refired, answer>>,
           holder' \in Threads \cup {NoThread},
           called' \in [Events -> SUBSET Listeners],
           \A e \in Events : called[e] \subseteq called'[e],
           \A l \in due[f.ev] : (alive[l] = "live" /\ Awaits(f, f.ev, l, listenerMap)) =>
               l \in called'[f.ev] \/ Awaits(g, f.ev, l, listenerMap)
    PROVE  Kept
  <1>1. TypeOK /\ StackInv(Nest(stack), answer)
    BY DEF EventsInv
  <1>2. PICK C : C = Nest(stack)
    OBVIOUS
  <1>3. PICK D : D = Nest(stack')
    OBVIOUS
  <1>4. PICK n : n = Len(stack[t])
    OBVIOUS
  <1>5. /\ stack \in CallsType /\ C \in CallsType /\ n \in Nat /\ n > 0 /\ Len(C[t]) = n
        /\ C[t][n] = f /\ f.ev \in Events /\ answer[f.ev] = "none" /\ f \in FrameType
        /\ n \in 1..n
    BY <1>1, <1>2, <1>4, TopFacts
  <1>6. stack' \in CallsType /\ D \in CallsType /\ Others(C, D, t) /\ Changed(C[t], D[t], g)
    BY <1>2, <1>3, <1>5, NestChange
  <1>7. StackInv(D, answer)
    BY <1>1, <1>2, <1>5, <1>6, StackMove
  <1>8. Len(D[t]) = n /\ D[t][n] = g /\ \A d \in 1..n - 1 : D[t][d] = C[t][d]
    BY <1>5, <1>6 DEF Changed
  <1>9. ASSUME NEW u \in Threads, NEW d \in 1..Len(D[u])
        PROVE  /\ d \in 1..Len(C[u])
               /\ (u = t /\ d = n) \/ D[u][d] = C[u][d]
    <2>1. CASE u # t
      BY <1>6, <2>1 DEF Others
    <2>2. CASE u = t
      <3>1. d = n \/ d \in 1..n - 1
        BY <1>5, <1>8, <2>2
      <3> QED
        BY <1>5, <1>8, <2>2, <3>1
    <2> QED
      BY <2>1, <2>2
  <1>10. ASSUME NEW u \in Threads, NEW d \in 1..Len(C[u])
         PROVE  d \in 1..Len(D[u]) /\ ((u = t /\ d = n) \/ D[u][d] = C[u][d])
    <2>1. CASE u # t
      BY <1>6, <2>1 DEF Others
    <2>2. CASE u = t
      BY <1>5, <1>8, <1>9, <2>2
    <2> QED
      BY <2>1, <2>2
  <1>11. ASSUME NEW e \in Events \ refired
         PROVE  FiringInv(D, event, e) /\ NoNewRun(C, D, e)
    <2>1. FiringInv(C, event, e)
      BY <1>2 DEF EventsInv
    <2>2. CASE e # f.ev
      <3>1. \A u \in Threads : \A d \in 1..Len(D[u]) : OldFor(C, D, u, d, e)
        BY <1>8, <1>9, <2>2 DEF OldFor
      <3> QED
        BY <1>5, <1>6, <2>1, <3>1, FiringKept
    <2>3. CASE e = f.ev
      <3>1. Firing(C[t][n], e) /\ C[t][n].at \notin {"wait", "return"}
        BY <1>5, <2>3 DEF Firing
      <3>2. ~ event[e].stopped
        BY <1>5, <2>1, <2>3, <3>1 DEF FiringInv, Stopping
      <3>3. \A d \in 1..Len(C[Main]) : ~ Running(C[Main][d], e)
        BY <1>5, <2>1, <3>1 DEF FiringInv, Paused
      <3>4. \A d \in 1..Len(D[Main]) : ~ Running(D[Main][d], e)
        BY <1>8, <1>9, <3>3, ThreadFacts DEF Running
      <3>5. \A u \in Threads : \A d \in 1..Len(D[u]) : OldFor(C, D, u, d, e) \/ (u = t /\ d = n)
        BY <1>9 DEF OldFor
      <3>6. n \in 1..Len(C[t]) /\ C[t][n].at # "return"
        BY <1>5, <3>1
      <3> QED
        BY <1>5, <1>6, <2>1, <3>1, <3>2, <3>4, <3>5, <3>6, FiringMoves
    <2> QED
      BY <2>2, <2>3
  <1>12. ASSUME NEW e \in Events \ refired, answer[e] = "none", ~ event[e].stopped,
                NEW l \in due[e], alive[l] = "live"
         PROVE  l \in called'[e] \/ SomeAwaits(D, e, l, listenerMap)
    <2>1. l \in called[e] \/ SomeAwaits(C, e, l, listenerMap)
      BY <1>2, <1>12 DEF EventsInv, HearingInv
    <2>2. CASE l \in called[e]
      BY <2>2
    <2>3. CASE SomeAwaits(C, e, l, listenerMap)
      <3>0. PICK u \in Threads : \E d \in 1..Len(C[u]) : Awaits(C[u][d], e, l, listenerMap)
        BY <2>3 DEF SomeAwaits
      <3>1. PICK d \in 1..Len(C[u]) : Awaits(C[u][d], e, l, listenerMap)
        BY <3>0
      <3>2. CASE D[u][d] = C[u][d]
        BY <1>10, <3>1, <3>2 DEF SomeAwaits
      <3>3. CASE u = t /\ d = n
        <4>1. e = f.ev /\ Awaits(f, f.ev, l, listenerMap)
          BY <1>5, <3>1, <3>3 DEF Awaits, Firing
        <4>2. l \in called'[e] \/ Awaits(D[u][d], e, l, listenerMap)
          BY <1>8, <1>12, <3>3, <4>1
        <4> QED
          BY <1>10, <4>2 DEF SomeAwaits
      <3> QED
        BY <1>10, <3>2, <3>3
    <2> QED
      BY <2>1, <2>2, <2>3
  <1>13. TypeOK'
    BY <1>1, <1>6 DEF TypeOK, CallsType
  <1>14. StackInv(Nest(stack), answer)'
    BY <1>3, <1>7
  <1>15. ListsOwnListeners' /\ HistoryInv' /\ AnswerIsWhatCallbacksDecided'
    BY DEF EventsInv, ListsOwnListeners, HistoryInv, AnswerIsWhatCallbacksDecided, Answered
  <1>16. (\A e \in Events \ refired : FiringInv(Nest(stack), event, e))'
    BY <1>3, <1>11
  <1>17. (\A e \in Events \ refired : HearingInv(Nest(stack), listenerMap, e))'
    BY <1>3, <1>12 DEF HearingInv
  <1>18. EventsInv'
    BY <1>13, <1>14, <1>15, <1>16, <1>17 DEF EventsInv
  <1>19. \A e \in Events : ~ (Answered(e)' /\ ~ Answered(e))
    BY DEF Answered
  <1> QED
    BY <1>2, <1>3, <1>11, <1>18, <1>19 DEF Kept

\* The invariant is kept by FireLock.
LEMMA FireLockStep ==
    ASSUME EventsInv, NEW t \in Threads, FireLock(t)
    PROVE  Kept
  <1>1. TypeOK /\ StackInv(Nest(stack), answer)
    BY DEF EventsInv
  <1>2. /\ stack[t] # <<>> /\ Top(t).fn = "FireEvent" /\ Top(t).at = "lock"
        /\ holder' = t
        /\ stack' = [stack EXCEPT ![t][1].at = "copy"]
        /\ UNCHANGED <<listenerMap, alive, event, due, refired, answer>>
        /\ UNCHANGED called
    BY DEF FireLock, At, Goto, listenerVars, history
  <1>3. PICK f : f = Top(t)
    OBVIOUS
  <1>4. f \in FrameType /\ f = stack[t][1] /\ f.rest \in Seq(Listeners) /\ f.ev \in Events
    BY <1>1, <1>2, <1>3, TopFacts, FrameFields
  <1>5. PICK g : g = [f EXCEPT !.at = "copy"]
    OBVIOUS
  <1>6. g \in FrameType /\ g.fn = "FireEvent" /\ g.ev = f.ev /\ g.at = "copy" /\ g.obj = f.obj
    BY <1>2, <1>3, <1>4, <1>5 DEF FrameType
  <1>7. Replaced(stack, stack', t, [stack[t] EXCEPT ![1] = g])
    BY <1>2, <1>4, <1>5 DEF Replaced
  <1>8. called' \in [Events -> SUBSET Listeners] /\ \A e \in Events : called[e] \subseteq called'[e]
    BY <1>1, <1>2 DEF TypeOK
  <1>9. \A l : Awaits(f, f.ev, l, listenerMap) => Awaits(g, f.ev, l, listenerMap)
    BY <1>2, <1>3, <1>6 DEF Awaits, Firing
  <1> QED
    BY <1>2, <1>3, <1>6, <1>7, <1>8, <1>9, ChangeStep

\* The invariant is kept by FireCopy.
LEMMA FireCopyStep ==
    ASSUME EventsInv, NEW t \in Threads, FireCopy(t)
    PROVE  Kept
  <1>1. TypeOK /\ StackInv(Nest(stack), answer)
    BY DEF EventsInv
  <1>2. /\ stack[t] # <<>> /\ Top(t).fn = "FireEvent" /\ Top(t).at = "copy"
        /\ holder' = NoThread
        /\ stack' = [stack EXCEPT ![t][1].rest = listenerMap[Top(t).obj],
                                  ![t][1].at = "loop"]
        /\ UNCHANGED <<listenerMap, alive, event, due, refired, answer>>
        /\ UNCHANGED called
    BY DEF FireCopy, At, listenerVars, history
  <1>3. PICK f : f = Top(t)
    OBVIOUS
  <1>4. f \in FrameType /\ f = stack[t][1] /\ f.obj \in Objects /\ f.ev \in Events
    BY <1>1, <1>2, <1>3, TopFacts, FrameFields
  <1>5. PICK r \in Seq(Listeners) : r = listenerMap[f.obj]
    BY <1>1, <1>4 DEF TypeOK
  <1>6. PICK g : g = [f EXCEPT !.at = "loop", !.rest = r]
    OBVIOUS
  <1>7. /\ g \in FrameType /\ g.fn = "FireEvent" /\ g.ev = f.ev /\ g.at = "loop" /\ g.obj = f.obj
        /\ g.rest = r
    BY <1>2, <1>3, <1>4, <1>6 DEF FrameType
  <1>8. Replaced(stack, stack', t, [stack[t] EXCEPT ![1] = g])
    <2>1. stack' = [stack EXCEPT ![t] = [stack[t] EXCEPT ![1] =
                       [stack[t][1] EXCEPT !.rest = r, !.at = "loop"]]]
      <3>1. stack \in [Threads -> Seq(FrameType)] /\ stack[t] \in Seq(FrameType) /\ 1 \in DOMAIN stack[t]
        BY <1>1, <1>2 DEF TypeOK
      <3> QED
        BY <1>2, <1>3, <1>4, <1>5, <3>1 DEF FrameType
    <2>2. [f EXCEPT !.rest = r, !.at = "loop"] = g
      BY <1>4, <1>6 DEF FrameType
    <2> QED
      BY <1>4, <2>1, <2>2 DEF Replaced
  <1>9. called' \in [Events -> SUBSET Listeners] /\ \A e \in Events : called[e] \subseteq called'[e]
    BY <1>1, <1>2 DEF TypeOK
  <1>10. \A l : Awaits(f, f.ev, l, listenerMap) => Awaits(g, f.ev, l, listenerMap)
    BY <1>2, <1>3, <1>5, <1>7 DEF Awaits, Firing
  <1> QED
    BY <1>2, <1>3, <1>7, <1>8, <1>9, <1>10, ChangeStep

\* The rest of a list without its head.
LEMMA TailFacts ==
    ASSUME NEW S, NEW r \in Seq(S), r # <<>>
    PROVE  Tail(r) \in Seq(S) /\ Head(r) \in S /\ Elems(r) \subseteq Elems(Tail(r)) \cup {Head(r)}
  <1>1. /\ Tail(r) \in Seq(S) /\ Len(r) \in Nat /\ Len(r) > 0 /\ Len(Tail(r)) = Len(r) - 1
        /\ Head(r) = r[1] /\ Head(r) \in S
        /\ \A i \in 1..Len(r) - 1 : Tail(r)[i] = r[i + 1]
        /\ DOMAIN Tail(r) = 1..Len(r) - 1 /\ DOMAIN r = 1..Len(r)
    OBVIOUS
  <1>2. ASSUME NEW i \in 1..Len(r)
        PROVE  r[i] \in Elems(Tail(r)) \cup {Head(r)}
    <2>1. CASE i = 1
      BY <1>1, <2>1
    <2>2. CASE i # 1
      <3>1. PICK k \in 1..Len(r) - 1 : i = k + 1
        <4>1. i - 1 \in 1..Len(r) - 1 /\ i = (i - 1) + 1
          BY <1>1, <2>2
        <4> QED
          BY <4>1
      <3> QED
        BY <1>1, <3>1 DEF Elems
    <2> QED
      BY <2>1, <2>2
  <1> QED
    BY <1>1, <1>2 DEF Elems

\* The invariant is kept by FireSkip.
LEMMA FireSkipStep ==
    ASSUME EventsInv, NEW t \in Threads, FireSkip(t)
    PROVE  Kept
  <1>1. TypeOK /\ StackInv(Nest(stack), answer)
    BY DEF EventsInv
  <1>2. /\ stack[t] # <<>> /\ Top(t).fn = "FireEvent" /\ Top(t).at = "loop"
        /\ Top(t).rest # <<>>
        /\ alive[Head(Top(t).rest)] = "deleted" \/ ~ Hears(Head(Top(t).rest), Top(t).ev)
        /\ stack' = [stack EXCEPT ![t][1].at = "check", ![t][1].rest = Tail(@)]
        /\ UNCHANGED <<listenerMap, alive, event, due, refired, answer>>
        /\ UNCHANGED <<called, holder>>
    BY DEF FireSkip, At, listenerVars, history
  <1>3. PICK f : f = Top(t)
    OBVIOUS
  <1>4. f \in FrameType /\ f = stack[t][1] /\ f.rest \in Seq(Listeners) /\ f.ev \in Events
    BY <1>1, <1>2, <1>3, TopFacts, FrameFields
  <1>5. /\ Tail(f.rest) \in Seq(Listeners)
        /\ Elems(f.rest) \subseteq Elems(Tail(f.rest)) \cup {Head(f.rest)}
    BY <1>2, <1>3, <1>4, TailFacts
  <1>6. PICK g : g = [f EXCEPT !.at = "check", !.rest = Tail(f.rest)]
    OBVIOUS
  <1>7. /\ g \in FrameType /\ g.fn = "FireEvent" /\ g.ev = f.ev /\ g.at = "check" /\ g.obj = f.obj
        /\ g.rest = Tail(f.rest)
    <2>1. PICK r \in Seq(Listeners) : r = Tail(f.rest)
      BY <1>5
    <2>2. f.fn = "FireEvent" /\ g = [f EXCEPT !.at = "check", !.rest = r]
      BY <1>2, <1>3, <1>6, <2>1
    <2> QED
      BY <1>4, <2>1, <2>2 DEF FrameType
  <1>8. Replaced(stack, stack', t, [stack[t] EXCEPT ![1] = g])
    <2>1. stack \in [Threads -> Seq(FrameType)] /\ stack[t] \in Seq(FrameType) /\ 1 \in DOMAIN stack[t]
      BY <1>1, <1>2 DEF TypeOK
    <2> QED
      BY <1>2, <1>3, <1>4, <1>6, <2>1 DEF FrameType, Replaced
  <1>9. /\ called' \in [Events -> SUBSET Listeners] /\ \A e \in Events : called[e] \subseteq called'[e]
        /\ holder' \in Threads \cup {NoThread}
    BY <1>1, <1>2 DEF TypeOK
  <1>10. ASSUME NEW l \in due[f.ev], alive[l] = "live", Awaits(f, f.ev, l, listenerMap)
         PROVE  Awaits(g, f.ev, l, listenerMap)
    <2>1. Hears(l, f.ev)
      BY <1>4 DEF EventsInv, HistoryInv
    <2>2. l # Head(f.rest)
      BY <1>2, <1>3, <1>10, <2>1
    <2> QED
      BY <1>2, <1>3, <1>5, <1>7, <1>10, <2>2 DEF Awaits, Firing
  <1> QED
    BY <1>2, <1>3, <1>7, <1>8, <1>9, <1>10, ChangeStep

\* The worker asks the main thread for a call.
LEMMA FireCallWorkerStep ==
    ASSUME EventsInv, NEW t \in Workers, FireCall(t)
    PROVE  Kept
  <1>0. t \in Threads /\ t # Main
    BY ThreadFacts
  <1>1. TypeOK /\ StackInv(Nest(stack), answer)
    BY DEF EventsInv
  <1>2. /\ stack[t] # <<>> /\ Top(t).fn = "FireEvent" /\ Top(t).at = "loop"
        /\ Top(t).rest # <<>>
        /\ called' = [called EXCEPT ![Top(t).ev] = @ \cup {Head(Top(t).rest)}]
        /\ stack' = [stack EXCEPT ![t][1].at = "call", ![t][1].rest = Tail(@)]
        /\ UNCHANGED <<listenerMap, alive, event, due, refired, answer>>
        /\ UNCHANGED holder
    BY <1>0 DEF FireCall, InvokeMethodOnMainThread, At, listenerVars
  <1>3. PICK f : f = Top(t)
    OBVIOUS
  <1>4. f \in FrameType /\ f = stack[t][1] /\ f.rest \in Seq(Listeners) /\ f.ev \in Events
    BY <1>0, <1>1, <1>2, <1>3, TopFacts, FrameFields
  <1>5. /\ Tail(f.rest) \in Seq(Listeners) /\ Head(f.rest) \in Listeners
        /\ Elems(f.rest) \subseteq Elems(Tail(f.rest)) \cup {Head(f.rest)}
    BY <1>2, <1>3, <1>4, TailFacts
  <1>6. PICK g : g = [f EXCEPT !.at = "call", !.rest = Tail(f.rest)]
    OBVIOUS
  <1>7. /\ g \in FrameType /\ g.fn = "FireEvent" /\ g.ev = f.ev /\ g.at = "call" /\ g.obj = f.obj
        /\ g.rest = Tail(f.rest)
    <2>1. PICK r \in Seq(Listeners) : r = Tail(f.rest)
      BY <1>5
    <2>2. f.fn = "FireEvent" /\ g = [f EXCEPT !.at = "call", !.rest = r]
      BY <1>2, <1>3, <1>6, <2>1
    <2> QED
      BY <1>4, <2>1, <2>2 DEF FrameType
  <1>8. Replaced(stack, stack', t, [stack[t] EXCEPT ![1] = g])
    <2>1. stack \in [Threads -> Seq(FrameType)] /\ stack[t] \in Seq(FrameType) /\ 1 \in DOMAIN stack[t]
      BY <1>0, <1>1, <1>2 DEF TypeOK
    <2> QED
      BY <1>2, <1>3, <1>4, <1>6, <2>1 DEF FrameType, Replaced
  <1>9. /\ called' \in [Events -> SUBSET Listeners] /\ \A e \in Events : called[e] \subseteq called'[e]
        /\ holder' \in Threads \cup {NoThread} /\ Head(f.rest) \in called'[f.ev]
    BY <1>1, <1>2, <1>3, <1>4, <1>5 DEF TypeOK
  <1>10. ASSUME NEW l \in due[f.ev], alive[l] = "live", Awaits(f, f.ev, l, listenerMap)
         PROVE  l \in called'[f.ev] \/ Awaits(g, f.ev, l, listenerMap)
    <2>1. CASE l = Head(f.rest)
      BY <1>9, <2>1
    <2>2. CASE l # Head(f.rest)
      BY <1>2, <1>3, <1>5, <1>7, <1>10, <2>2 DEF Awaits, Firing
    <2> QED
      BY <2>1, <2>2
  <1> QED
    BY <1>0, <1>2, <1>3, <1>7, <1>8, <1>9, <1>10, ChangeStep

\* A call of FireEvent returns; the outermost one for its event answers.
LEMMA PopStep ==
    ASSUME EventsInv, NEW t \in Threads, stack[t] # <<>>,
           NEW f, f = Top(t), f.fn = "FireEvent", f.at # "wait",
           Replaced(stack, stack', t, Tail(stack[t])),
           Answer(t),
           UNCHANGED <<listenerMap, alive, holder, event, refired>>,
           event[f.ev].stopped \/ \A l : ~ Awaits(f, f.ev, l, listenerMap)
    PROVE  Kept
  <1>1. TypeOK /\ StackInv(Nest(stack), answer)
    BY DEF EventsInv
  <1>2. PICK C : C = Nest(stack)
    OBVIOUS
  <1>3. PICK D : D = Nest(stack')
    OBVIOUS
  <1>4. PICK n : n = Len(stack[t])
    OBVIOUS
  <1>5. /\ stack \in CallsType /\ C \in CallsType /\ n \in Nat /\ n > 0 /\ Len(C[t]) = n
        /\ C[t][n] = f /\ f.ev \in Events /\ answer[f.ev] = "none" /\ f \in FrameType
        /\ n \in 1..n
    BY <1>1, <1>2, <1>4, TopFacts
  <1>6. stack' \in CallsType /\ D \in CallsType /\ Others(C, D, t) /\ Popped(C[t], D[t])
    BY <1>2, <1>3, <1>5, NestPop
  <1>7. Len(D[t]) = n - 1 /\ \A d \in 1..n - 1 : D[t][d] = C[t][d]
    BY <1>5, <1>6 DEF Popped
  <1>8. ASSUME NEW u \in Threads, NEW d \in 1..Len(D[u])
        PROVE  d \in 1..Len(C[u]) /\ D[u][d] = C[u][d] /\ ~ (u = t /\ d = n)
    <2>1. CASE u # t
      BY <1>6, <2>1 DEF Others
    <2>2. CASE u = t
      BY <1>5, <1>7, <2>2
    <2> QED
      BY <2>1, <2>2
  <1>9. ASSUME NEW u \in Threads, NEW d \in 1..Len(C[u]), ~ (u = t /\ d = n)
        PROVE  d \in 1..Len(D[u]) /\ D[u][d] = C[u][d]
    <2>1. CASE u # t
      BY <1>6, <2>1 DEF Others
    <2>2. CASE u = t
      BY <1>5, <1>7, <1>9, <2>2
    <2> QED
      BY <2>1, <2>2
  <1>10. PICK last : last = ~ \E i \in 2..Len(stack[t]) : stack[t][i].ev = f.ev
    OBVIOUS
  <1>11. /\ ~ last => UNCHANGED <<answer, due, called>>
         /\ last =>
              /\ answer' = [answer EXCEPT ![f.ev] =
                              IF event[f.ev].preventedDefault THEN "prevented" ELSE "go"]
              /\ due' = [due EXCEPT ![f.ev] = {}]
              /\ called' = [called EXCEPT ![f.ev] = {}]
    BY <1>10 DEF Answer
  <1>12. ASSUME last, NEW u \in Threads, NEW d \in 1..Len(C[u]), C[u][d].ev = f.ev
         PROVE  u = t /\ d = n
    <2>1. ASSUME NEW k \in 1..n - 1
          PROVE  C[t][k].ev # f.ev
      <3>1. PICK i \in 2..n : i = n + 1 - k
        <4>1. n + 1 - k \in 2..n
          BY <1>5
        <4> QED
          BY <4>1
      <3>2. k \in 1..n
        BY <1>5
      <3>3. C[t][k] = stack[t][n + 1 - k]
        BY <1>2, <1>4, <1>5, <3>2, NestFacts
      <3>4. stack[t][i].ev # f.ev
        BY <1>4, <1>10, <1>12
      <3> QED
        BY <3>1, <3>3, <3>4
    <2> QED
      BY <1>1, <1>2, <1>5, <1>12, <2>1, Outermost
  <1>13. ASSUME NEW u \in Threads, NEW d \in 1..Len(D[u])
         PROVE  FrameInv(D[u][d], answer')
    <2>1. FrameInv(C[u][d], answer) /\ d \in 1..Len(C[u]) /\ D[u][d] = C[u][d] /\ ~ (u = t /\ d = n)
      BY <1>1, <1>2, <1>8 DEF StackInv
    <2>2. CASE ~ last
      BY <1>11, <2>1, <2>2
    <2>3. CASE last
      <3>1. C[u][d].ev # f.ev
        BY <1>12, <2>1, <2>3
      <3>2. \A e \in Events : e # f.ev => answer'[e] = answer[e]
        BY <1>1, <1>11, <2>3 DEF TypeOK
      <3> QED
        BY <2>1, <3>1, <3>2 DEF FrameInv
    <2> QED
      BY <1>10, <2>2, <2>3
  <1>14. StackInv(D, answer')
    BY <1>1, <1>2, <1>5, <1>6, <1>13, StackPop
  <1>15. ASSUME NEW e \in Events \ refired
         PROVE  FiringInv(D, event, e) /\ NoNewRun(C, D, e)
    <2>1. FiringInv(C, event, e)
      BY <1>2 DEF EventsInv
    <2>2. \A u \in Threads : \A d \in 1..Len(D[u]) : OldFor(C, D, u, d, e)
      BY <1>8 DEF OldFor
    <2> QED
      BY <1>5, <1>6, <2>1, <2>2, FiringKept
  <1>16. ASSUME NEW e \in Events \ refired, answer[e] = "none", ~ event[e].stopped,
                NEW l \in due[e], alive[l] = "live", l \notin called[e]
         PROVE  \E u \in Threads : \E d \in 1..Len(C[u]) :
                   Awaits(C[u][d], e, l, listenerMap) /\ ~ (u = t /\ d = n)
    <2>1. SomeAwaits(C, e, l, listenerMap)
      BY <1>2, <1>16 DEF EventsInv, HearingInv
    <2>2. PICK u \in Threads : \E d \in 1..Len(C[u]) : Awaits(C[u][d], e, l, listenerMap)
      BY <2>1 DEF SomeAwaits
    <2>3. PICK d \in 1..Len(C[u]) : Awaits(C[u][d], e, l, listenerMap)
      BY <2>2
    <2>4. CASE u = t /\ d = n
      <3>1. Awaits(f, e, l, listenerMap)
        BY <1>5, <2>3, <2>4
      <3>2. e = f.ev
        BY <3>1 DEF Awaits, Firing
      <3> QED
        BY <1>16, <3>1, <3>2
    <2> QED
      BY <2>3, <2>4
  <1>17. ASSUME NEW e \in Events \ refired, answer'[e] = "none", ~ event[e].stopped,
                NEW l \in due'[e], alive[l] = "live"
         PROVE  l \in called'[e] \/ SomeAwaits(D, e, l, listenerMap)
    <2>1. answer[e] = "none" /\ due'[e] = due[e] /\ called'[e] = called[e]
      <3>1. CASE ~ last
        BY <1>11, <1>17, <3>1
      <3>2. CASE last
        <4>1. e # f.ev
          BY <1>1, <1>5, <1>11, <1>17, <3>2 DEF TypeOK
        <4> QED
          BY <1>1, <1>11, <1>17, <3>2, <4>1 DEF TypeOK
      <3> QED
        BY <1>10, <3>1, <3>2
    <2>2. CASE l \notin called[e]
      <3>1. PICK u \in Threads : \E d \in 1..Len(C[u]) :
                   Awaits(C[u][d], e, l, listenerMap) /\ ~ (u = t /\ d = n)
        BY <1>16, <1>17, <2>1, <2>2
      <3> QED
        BY <1>9, <3>1 DEF SomeAwaits
    <2> QED
      BY <2>1, <2>2
  <1>18. ASSUME NEW e \in Events \ refired, Answered(e)', ~ Answered(e), ~ event[e].stopped,
                NEW l \in due[e], alive[l] = "live"
         PROVE  l \in called[e]
    <2>1. last /\ e = f.ev
      <3>1. answer'[e] # answer[e]
        BY <1>18 DEF Answered
      <3> QED
        BY <1>1, <1>10, <1>11, <3>1 DEF TypeOK
    <2> SUFFICES ASSUME l \notin called[e]
                 PROVE  FALSE
      OBVIOUS
    <2>2. PICK u \in Threads : \E d \in 1..Len(C[u]) :
               Awaits(C[u][d], e, l, listenerMap) /\ ~ (u = t /\ d = n)
      BY <1>5, <1>16, <1>18, <2>1
    <2>3. PICK d \in 1..Len(C[u]) :
               Awaits(C[u][d], e, l, listenerMap) /\ ~ (u = t /\ d = n)
      BY <2>2
    <2>4. C[u][d].ev = f.ev
      BY <2>1, <2>3 DEF Awaits, Firing
    <2> QED
      BY <1>12, <2>1, <2>3, <2>4
  <1>19. TypeOK'
    <2>1. answer' \in [Events -> {"unfired", "none", "go", "prevented"}]
      BY <1>1, <1>10, <1>11 DEF TypeOK
    <2>2. due' \in [Events -> SUBSET Listeners] /\ called' \in [Events -> SUBSET Listeners]
      BY <1>1, <1>10, <1>11 DEF TypeOK
    <2> QED
      BY <1>1, <1>6, <2>1, <2>2 DEF TypeOK, CallsType
  <1>20. ListsOwnListeners'
    BY DEF EventsInv, ListsOwnListeners
  <1>21. HistoryInv'
    <2>1. ASSUME NEW e \in Events
          PROVE  due'[e] \subseteq due[e] /\ (answer'[e] = "unfired" => answer[e] = "unfired")
      BY <1>1, <1>10, <1>11 DEF TypeOK
    <2> QED
      BY <2>1 DEF EventsInv, HistoryInv, Hears
  <1>22. AnswerIsWhatCallbacksDecided'
    <2>1. AnswerIsWhatCallbacksDecided
      BY DEF EventsInv
    <2>2. CASE ~ last
      BY <1>11, <2>1, <2>2 DEF AnswerIsWhatCallbacksDecided, Answered
    <2>3. CASE last
      BY <1>1, <1>5, <1>11, <2>1, <2>3 DEF AnswerIsWhatCallbacksDecided, Answered, TypeOK
    <2> QED
      BY <1>10, <2>2, <2>3
  <1>23. StackInv(Nest(stack), answer)'
    BY <1>3, <1>14
  <1>24. (\A e \in Events \ refired : FiringInv(Nest(stack), event, e))'
    BY <1>3, <1>15
  <1>25. (\A e \in Events \ refired : HearingInv(Nest(stack), listenerMap, e))'
    BY <1>3, <1>17 DEF HearingInv
  <1>26. EventsInv'
    BY <1>19, <1>20, <1>21, <1>22, <1>23, <1>24, <1>25 DEF EventsInv
  <1> QED
    BY <1>2, <1>3, <1>15, <1>18, <1>26 DEF Kept

\* The invariant is kept by FireCheck.
LEMMA FireCheckStep ==
    ASSUME EventsInv, NEW t \in Threads, FireCheck(t)
    PROVE  Kept
  <1>1. TypeOK /\ StackInv(Nest(stack), answer)
    BY DEF EventsInv
  <1>2. /\ stack[t] # <<>> /\ Top(t).fn = "FireEvent" /\ Top(t).at = "check"
        /\ UNCHANGED <<listenerMap, alive, event, refired>>
        /\ UNCHANGED holder
    BY DEF FireCheck, At, listenerVars
  <1>3. CASE event[Top(t).ev].stopped
    <2>1. stack' = [stack EXCEPT ![t] = Tail(stack[t])] /\ Answer(t)
      BY <1>3 DEF FireCheck, Pop
    <2>2. Replaced(stack, stack', t, Tail(stack[t]))
      BY <2>1 DEF Replaced
    <2> QED
      BY <1>2, <1>3, <2>1, <2>2, PopStep
  <1>4. CASE ~ event[Top(t).ev].stopped
    <2>1. stack' = [stack EXCEPT ![t][1].at = "loop"] /\ UNCHANGED <<answer, due, called>>
      BY <1>4 DEF FireCheck, Goto
    <2>2. PICK f : f = Top(t)
      OBVIOUS
    <2>3. f \in FrameType /\ f = stack[t][1] /\ f.ev \in Events
      BY <1>1, <1>2, <2>2, TopFacts
    <2>4. PICK g : g = [f EXCEPT !.at = "loop"]
      OBVIOUS
    <2>5. /\ g \in FrameType /\ g.fn = "FireEvent" /\ g.ev = f.ev /\ g.at = "loop" /\ g.obj = f.obj
          /\ g.rest = f.rest
      BY <1>2, <2>2, <2>3, <2>4 DEF FrameType
    <2>6. Replaced(stack, stack', t, [stack[t] EXCEPT ![1] = g])
      BY <2>1, <2>3, <2>4 DEF Replaced
    <2>7. /\ called' \in [Events -> SUBSET Listeners] /\ \A e \in Events : called[e] \subseteq called'[e]
          /\ holder' \in Threads \cup {NoThread}
      BY <1>1, <1>2, <2>1 DEF TypeOK
    <2>8. \A l : Awaits(f, f.ev, l, listenerMap) => Awaits(g, f.ev, l, listenerMap)
      BY <1>2, <2>2, <2>5 DEF Awaits, Firing
    <2> QED
      BY <1>2, <1>4, <2>1, <2>2, <2>5, <2>6, <2>7, <2>8, ChangeStep
  <1> QED
    BY <1>3, <1>4

\* The invariant is kept by FireReturn.
LEMMA FireReturnStep ==
    ASSUME EventsInv, NEW t \in Threads, FireReturn(t)
    PROVE  Kept
  <1>1. TypeOK /\ StackInv(Nest(stack), answer)
    BY DEF EventsInv
  <1>2. /\ stack[t] # <<>> /\ Top(t).fn = "FireEvent"
        /\ \/ Top(t).at = "loop" /\ Top(t).rest = <<>> /\ Top(t).obj = Root
           \/ Top(t).at = "return"
        /\ stack' = [stack EXCEPT ![t] = Tail(stack[t])] /\ Answer(t)
        /\ UNCHANGED <<listenerMap, alive, holder, event, refired>>
    BY DEF FireReturn, At, Pop, listenerVars
  <1>3. Replaced(stack, stack', t, Tail(stack[t]))
    BY <1>2 DEF Replaced
  <1>4. \A l : ~ Awaits(Top(t), Top(t).ev, l, listenerMap)
    <2>1. Elems(<<>>) = {}
      BY DEF Elems
    <2> QED
      BY <1>2, <2>1 DEF Awaits
  <1>5. Top(t).at # "wait"
    BY <1>2
  <1> QED
    BY <1>2, <1>3, <1>4, <1>5, PopStep

\* FireEvent makes a call h, and becomes g.
LEMMA CallStep ==
    ASSUME EventsInv, NEW t \in Threads, stack[t] # <<>>,
           NEW f, f = Top(t), f.fn = "FireEvent", f.at = "loop",
           NEW g \in FrameType, g.fn = "FireEvent", g.ev = f.ev,
           NEW h \in FrameType, h.ev = f.ev,
           \/ h.fn = "FireEvent" /\ g.at = "return"
           \/ h.fn = "callback" /\ h.caller = Main /\ g.at = "wait" /\ t = Main,
           Replaced(stack, stack', t, <<h, g>> \o Tail(stack[t])),
           UNCHANGED <<listenerMap, alive, holder, event, due, refired, answer>>,
           called' \in [Events -> SUBSET Listeners],
           \A e \in Events : called[e] \subseteq called'[e],
           \A l \in due[f.ev] : (alive[l] = "live" /\ Awaits(f, f.ev, l, listenerMap)) =>
               \/ l \in called'[f.ev]
               \/ Awaits(g, f.ev, l, listenerMap)
               \/ Awaits(h, f.ev, l, listenerMap)
    PROVE  Kept
  <1>1. TypeOK /\ StackInv(Nest(stack), answer)
    BY DEF EventsInv
  <1>2. PICK C : C = Nest(stack)
    OBVIOUS
  <1>3. PICK D : D = Nest(stack')
    OBVIOUS
  <1>4. PICK n : n = Len(stack[t])
    OBVIOUS
  <1>5. /\ stack \in CallsType /\ C \in CallsType /\ n \in Nat /\ n > 0 /\ Len(C[t]) = n
        /\ C[t][n] = f /\ f.ev \in Events /\ answer[f.ev] = "none" /\ f \in FrameType
        /\ n \in 1..n
    BY <1>1, <1>2, <1>4, TopFacts
  <1>6. stack' \in CallsType /\ D \in CallsType /\ Others(C, D, t) /\ CallsOn(C[t], D[t], g, h)
    BY <1>2, <1>3, <1>5, NestCall
  <1>7. StackInv(D, answer)
    BY <1>1, <1>2, <1>5, <1>6, StackMove
  <1>8. /\ Len(D[t]) = n + 1 /\ D[t][n] = g /\ D[t][n + 1] = h
        /\ \A d \in 1..n - 1 : D[t][d] = C[t][d]
    BY <1>5, <1>6 DEF CallsOn
  <1>9. ASSUME NEW u \in Threads, NEW d \in 1..Len(D[u])
        PROVE  \/ d \in 1..Len(C[u]) /\ D[u][d] = C[u][d]
               \/ u = t /\ d \in {n, n + 1}
    <2>1. CASE u # t
      BY <1>6, <2>1 DEF Others
    <2>2. CASE u = t
      <3>1. d \in {n, n + 1} \/ d \in 1..n - 1
        BY <1>5, <1>8, <2>2
      <3> QED
        BY <1>5, <1>8, <2>2, <3>1
    <2> QED
      BY <2>1, <2>2
  <1>10. ASSUME NEW u \in Threads, NEW d \in 1..Len(C[u])
         PROVE  d \in 1..Len(D[u]) /\ ((u = t /\ d = n) \/ D[u][d] = C[u][d])
    <2>1. CASE u # t
      BY <1>6, <2>1 DEF Others
    <2>2. CASE u = t
      <3>1. d = n \/ d \in 1..n - 1
        BY <1>5, <2>2
      <3> QED
        BY <1>5, <1>8, <2>2, <3>1
    <2> QED
      BY <2>1, <2>2
  <1>11. ASSUME NEW e \in Events \ refired
         PROVE  FiringInv(D, event, e) /\ (event[e].stopped => NoNewRun(C, D, e))
    <2>1. FiringInv(C, event, e)
      BY <1>2 DEF EventsInv
    <2>2. CASE e # f.ev
      <3>1. \A u \in Threads : \A d \in 1..Len(D[u]) : OldFor(C, D, u, d, e)
        BY <1>8, <1>9, <2>2 DEF OldFor
      <3> QED
        BY <1>5, <1>6, <2>1, <3>1, FiringKept
    <2>3. CASE e = f.ev /\ h.fn = "FireEvent"
      <3>1. Firing(C[t][n], e) /\ C[t][n].at = "loop" /\ n \in 1..Len(C[t])
        BY <1>5, <2>3 DEF Firing
      <3>2. D[t][n].at = "return" /\ D[t][n + 1].fn = "FireEvent" /\ D[t][n].fn = "FireEvent"
        BY <1>8, <2>3
      <3>3. \A u \in Threads : \A d \in 1..Len(D[u]) :
               OldFor(C, D, u, d, e) \/ (u = t /\ d \in {n, n + 1})
        BY <1>9 DEF OldFor
      <3> QED
        BY <1>5, <1>6, <2>1, <3>1, <3>2, <3>3, FiringGoesOn
    <2>4. CASE e = f.ev /\ h.fn = "callback"
      <3>0. t = Main
        BY <2>4
      <3>1. Firing(C[t][n], e) /\ C[t][n].at \in {"loop", "call"} /\ n \in 1..Len(C[t])
        BY <1>5, <2>4 DEF Firing
      <3>2. D[t][n].at = "wait" /\ D[Main][n + 1].fn = "callback" /\ D[t][n].fn = "FireEvent"
        BY <1>8, <2>4
      <3>3. \A u \in Threads : \A d \in 1..Len(D[u]) :
               OldFor(C, D, u, d, e) \/ (u = t /\ d = n) \/ (u = Main /\ d = n + 1)
        BY <1>9, <3>0 DEF OldFor
      <3> QED
        BY <1>5, <1>6, <2>1, <3>1, <3>2, <3>3, FiringCalls
    <2> QED
      BY <2>2, <2>3, <2>4
  <1>12. ASSUME NEW e \in Events \ refired, answer[e] = "none", ~ event[e].stopped,
                NEW l \in due[e], alive[l] = "live"
         PROVE  l \in called'[e] \/ SomeAwaits(D, e, l, listenerMap)
    <2>1. l \in called[e] \/ SomeAwaits(C, e, l, listenerMap)
      BY <1>2, <1>12 DEF EventsInv, HearingInv
    <2>2. CASE l \in called[e]
      BY <2>2
    <2>3. CASE SomeAwaits(C, e, l, listenerMap)
      <3>0. PICK u \in Threads : \E d \in 1..Len(C[u]) : Awaits(C[u][d], e, l, listenerMap)
        BY <2>3 DEF SomeAwaits
      <3>1. PICK d \in 1..Len(C[u]) : Awaits(C[u][d], e, l, listenerMap)
        BY <3>0
      <3>2. CASE D[u][d] = C[u][d]
        BY <1>10, <3>1, <3>2 DEF SomeAwaits
      <3>3. CASE u = t /\ d = n
        <4>1. e = f.ev /\ Awaits(f, f.ev, l, listenerMap)
          BY <1>5, <3>1, <3>3 DEF Awaits, Firing
        <4>2. \/ l \in called'[e]
              \/ Awaits(D[t][n], e, l, listenerMap)
              \/ Awaits(D[t][n + 1], e, l, listenerMap)
          BY <1>8, <1>12, <4>1
        <4>3. n \in 1..Len(D[t]) /\ n + 1 \in 1..Len(D[t])
          BY <1>5, <1>8
        <4> QED
          BY <4>2, <4>3 DEF SomeAwaits
      <3> QED
        BY <1>10, <3>2, <3>3
    <2> QED
      BY <2>1, <2>2, <2>3
  <1>13. TypeOK'
    BY <1>1, <1>6 DEF TypeOK, CallsType
  <1>14. StackInv(Nest(stack), answer)'
    BY <1>3, <1>7
  <1>15. ListsOwnListeners' /\ HistoryInv' /\ AnswerIsWhatCallbacksDecided'
    BY DEF EventsInv, ListsOwnListeners, HistoryInv, AnswerIsWhatCallbacksDecided, Answered
  <1>16. (\A e \in Events \ refired : FiringInv(Nest(stack), event, e))'
    BY <1>3, <1>11
  <1>17. (\A e \in Events \ refired : HearingInv(Nest(stack), listenerMap, e))'
    BY <1>3, <1>12 DEF HearingInv
  <1>18. EventsInv'
    BY <1>13, <1>14, <1>15, <1>16, <1>17 DEF EventsInv
  <1>19. \A e \in Events : ~ (Answered(e)' /\ ~ Answered(e))
    BY DEF Answered
  <1> QED
    BY <1>2, <1>3, <1>11, <1>18, <1>19 DEF Kept

\* The main thread runs the callback itself.
LEMMA FireCallMainStep ==
    ASSUME EventsInv, FireCall(Main)
    PROVE  Kept
  <1>0. Main \in Threads
    BY ThreadFacts
  <1>1. TypeOK /\ StackInv(Nest(stack), answer)
    BY DEF EventsInv
  <1>2. /\ stack[Main] # <<>> /\ Top(Main).fn = "FireEvent" /\ Top(Main).at = "loop"
        /\ Top(Main).rest # <<>>
        /\ called' = [called EXCEPT ![Top(Main).ev] = @ \cup {Head(Top(Main).rest)}]
        /\ stack' = [stack EXCEPT ![Main] =
                        <<CallbackFrame(Top(Main).ev, Main),
                          [Top(Main) EXCEPT !.at = "wait", !.rest = Tail(@)]>>
                            \o Tail(@)]
        /\ UNCHANGED <<listenerMap, alive, holder, event, due, refired, answer>>
    BY DEF FireCall, InvokeMethodOnMainThread, At, listenerVars
  <1>3. PICK f : f = Top(Main)
    OBVIOUS
  <1>4. f \in FrameType /\ f.rest \in Seq(Listeners) /\ f.ev \in Events
    BY <1>0, <1>1, <1>2, <1>3, TopFacts, FrameFields
  <1>5. /\ Tail(f.rest) \in Seq(Listeners) /\ Head(f.rest) \in Listeners
        /\ Elems(f.rest) \subseteq Elems(Tail(f.rest)) \cup {Head(f.rest)}
    BY <1>2, <1>3, <1>4, TailFacts
  <1>6. PICK g : g = [f EXCEPT !.at = "wait", !.rest = Tail(f.rest)]
    OBVIOUS
  <1>7. /\ g \in FrameType /\ g.fn = "FireEvent" /\ g.ev = f.ev /\ g.at = "wait" /\ g.obj = f.obj
        /\ g.rest = Tail(f.rest)
    <2>1. PICK r \in Seq(Listeners) : r = Tail(f.rest)
      BY <1>5
    <2>2. f.fn = "FireEvent" /\ g = [f EXCEPT !.at = "wait", !.rest = r]
      BY <1>2, <1>3, <1>6, <2>1
    <2> QED
      BY <1>4, <2>1, <2>2 DEF FrameType
  <1>8. PICK h : h = CallbackFrame(f.ev, Main)
    OBVIOUS
  <1>9. h \in FrameType /\ h.fn = "callback" /\ h.ev = f.ev /\ h.caller = Main
    BY <1>0, <1>4, <1>8, FrameTypes
  <1>10. Replaced(stack, stack', Main, <<h, g>> \o Tail(stack[Main]))
    BY <1>2, <1>3, <1>6, <1>8 DEF Replaced
  <1>11. /\ called' \in [Events -> SUBSET Listeners] /\ \A e \in Events : called[e] \subseteq called'[e]
         /\ Head(f.rest) \in called'[f.ev]
    BY <1>1, <1>2, <1>3, <1>4, <1>5 DEF TypeOK
  <1>12. ASSUME NEW l \in due[f.ev], alive[l] = "live", Awaits(f, f.ev, l, listenerMap)
         PROVE  l \in called'[f.ev] \/ Awaits(g, f.ev, l, listenerMap)
    <2>1. CASE l = Head(f.rest)
      BY <1>11, <2>1
    <2>2. CASE l # Head(f.rest)
      BY <1>2, <1>3, <1>5, <1>7, <1>12, <2>2 DEF Awaits, Firing
    <2> QED
      BY <2>1, <2>2
  <1> QED
    BY <1>0, <1>2, <1>3, <1>7, <1>9, <1>10, <1>11, <1>12, CallStep

\* The invariant is kept by FireRoot.
LEMMA FireRootStep ==
    ASSUME EventsInv, NEW t \in Threads, FireRoot(t)
    PROVE  Kept
  <1>1. TypeOK /\ StackInv(Nest(stack), answer)
    BY DEF EventsInv
  <1>2. /\ stack[t] # <<>> /\ Top(t).fn = "FireEvent" /\ Top(t).at = "loop"
        /\ Top(t).rest = <<>> /\ Top(t).obj # Root
        /\ stack' = [stack EXCEPT ![t] = <<FireFrame(Top(t).ev, Root),
                                           [Top(t) EXCEPT !.at = "return"]>> \o Tail(@)]
        /\ UNCHANGED <<listenerMap, alive, holder, event, due, refired, answer>>
        /\ UNCHANGED called
    BY DEF FireRoot, At, listenerVars, history
  <1>3. PICK f : f = Top(t)
    OBVIOUS
  <1>4. f \in FrameType /\ f.ev \in Events
    BY <1>1, <1>2, <1>3, TopFacts
  <1>5. PICK g : g = [f EXCEPT !.at = "return"]
    OBVIOUS
  <1>6. g \in FrameType /\ g.fn = "FireEvent" /\ g.ev = f.ev /\ g.at = "return"
    BY <1>2, <1>3, <1>4, <1>5 DEF FrameType
  <1>7. PICK h : h = FireFrame(f.ev, Root)
    OBVIOUS
  <1>8. h \in FrameType /\ h.fn = "FireEvent" /\ h.ev = f.ev /\ h.at = "lock" /\ h.obj = Root
    BY <1>4, <1>7, FrameTypes, ThreadFacts
  <1>9. Replaced(stack, stack', t, <<h, g>> \o Tail(stack[t]))
    BY <1>2, <1>3, <1>5, <1>7 DEF Replaced
  <1>10. called' \in [Events -> SUBSET Listeners] /\ \A e \in Events : called[e] \subseteq called'[e]
    BY <1>1, <1>2 DEF TypeOK
  <1>11. \A l : Awaits(f, f.ev, l, listenerMap) => Awaits(h, f.ev, l, listenerMap)
    <2>1. Elems(f.rest) = {}
      BY <1>2, <1>3 DEF Elems
    <2> QED
      BY <1>2, <1>3, <1>8, <2>1 DEF Awaits, Firing
  <1> QED
    BY <1>2, <1>3, <1>6, <1>8, <1>9, <1>10, <1>11, CallStep

HandedOver(st, st2, w, g, r) == st2 = [st EXCEPT ![Main] = r, ![w][1] = g]

\* What a worker and the idle main thread do together: the worker's innermost
\* call becomes g, the callback h begins or has ended.
LEMMA HandOver ==
    ASSUME EventsInv, NEW w \in Workers, stack[w] # <<>>,
           NEW g \in FrameType, NEW r \in Seq(FrameType),
           HandedOver(stack, stack', w, g, r)
    PROVE  /\ stack' \in CallsType /\ Nest(stack') \in CallsType
           /\ Nest(stack')[Main] = Outward(r)
           /\ Changed(Nest(stack)[w], Nest(stack')[w], g)
           /\ \A u \in Threads \ {w, Main} : Nest(stack')[u] = Nest(stack)[u]
  <1>0. w \in Threads /\ w # Main /\ Main \in Threads
    BY ThreadFacts
  <1>1. stack \in CallsType
    BY DEF EventsInv, TypeOK, CallsType
  <1>2. PICK s \in Seq(FrameType) : s = stack[w] /\ s # <<>>
    BY <1>0, <1>1 DEF CallsType
  <1>3. PICK q : q = [s EXCEPT ![1] = g]
    OBVIOUS
  <1>4. q \in Seq(FrameType) /\ Changed(Outward(s), Outward(q), g)
    BY <1>2, <1>3, OutwardChange
  <1>5. /\ stack'[Main] = r /\ stack'[w] = q /\ \A u \in Threads \ {w, Main} : stack'[u] = stack[u]
        /\ stack' \in CallsType
    <2>1. stack' = [stack EXCEPT ![Main] = r, ![w] = q]
      BY <1>0, <1>1, <1>2, <1>3 DEF CallsType, HandedOver
    <2> QED
      BY <1>0, <1>1, <1>4, <2>1 DEF CallsType
  <1>6. \A u \in Threads : Nest(stack)[u] = Outward(stack[u])
    BY <1>1, NestFacts
  <1>7. Nest(stack') \in CallsType /\ \A u \in Threads : Nest(stack')[u] = Outward(stack'[u])
    BY <1>5, NestFacts
  <1> QED
    BY <1>0, <1>2, <1>4, <1>5, <1>6, <1>7

\* The invariant is kept by ServeCall.
LEMMA ServeCallStep ==
    ASSUME EventsInv, NEW w \in Workers, ServeCall(w)
    PROVE  Kept
  <1>0. w \in Threads /\ w # Main /\ Main \in Threads
    BY ThreadFacts
  <1>1. TypeOK /\ StackInv(Nest(stack), answer)
    BY DEF EventsInv
  <1>2. /\ stack[w] # <<>> /\ Top(w).fn = "FireEvent" /\ Top(w).at = "call"
        /\ stack[Main] = <<>>
        /\ stack' = [stack EXCEPT ![Main] = <<CallbackFrame(Top(w).ev, w)>>,
                                  ![w][1].at = "wait"]
        /\ UNCHANGED <<listenerMap, alive, holder, event, due, refired, answer, called>>
    BY DEF ServeCall, At, listenerVars, history
  <1>3. PICK f : f = Top(w)
    OBVIOUS
  <1>a. PICK C : C = Nest(stack)
    OBVIOUS
  <1>b. PICK D : D = Nest(stack')
    OBVIOUS
  <1>c. PICK n : n = Len(stack[w])
    OBVIOUS
  <1>4. /\ stack \in CallsType /\ C \in CallsType /\ n \in Nat /\ n > 0 /\ Len(C[w]) = n
        /\ C[w][n] = f /\ f.ev \in Events /\ answer[f.ev] = "none" /\ f \in FrameType
        /\ n \in 1..n /\ f = stack[w][1]
    BY <1>0, <1>1, <1>2, <1>3, <1>a, <1>c, TopFacts
  <1>5. PICK g : g = [f EXCEPT !.at = "wait"]
    OBVIOUS
  <1>6. /\ g \in FrameType /\ g.fn = "FireEvent" /\ g.ev = f.ev /\ g.at = "wait" /\ g.obj = f.obj
        /\ g.rest = f.rest
    BY <1>2, <1>3, <1>4, <1>5 DEF FrameType
  <1>7. PICK h : h = CallbackFrame(f.ev, w)
    OBVIOUS
  <1>8. h \in FrameType /\ h.fn = "callback" /\ h.ev = f.ev /\ h.caller = w
    BY <1>0, <1>4, <1>7, FrameTypes
  <1>9. /\ stack' \in CallsType /\ D \in CallsType /\ D[Main] = Outward(<<h>>)
        /\ Changed(C[w], D[w], g)
        /\ \A u \in Threads \ {w, Main} : D[u] = C[u]
    <2>0. \A x \in FrameType : <<x>> \in Seq(FrameType)
      OBVIOUS
    <2>1. PICK r \in Seq(FrameType) : r = <<h>>
      BY <1>8, <2>0
    <2>2. HandedOver(stack, stack', w, g, r)
      BY <1>0, <1>2, <1>3, <1>4, <1>5, <1>7, <2>1 DEF CallsType, HandedOver
    <2> QED
      BY <1>2, <1>6, <1>a, <1>b, <2>1, <2>2, HandOver
  <1>10. Len(D[Main]) = 1 /\ D[Main][1] = h /\ C[Main] = <<>>
    <2>0. \A x \in FrameType : <<x>> \in Seq(FrameType)
      OBVIOUS
    <2>1. PICK r \in Seq(FrameType) : r = <<h>>
      BY <1>8, <2>0
    <2>2. Len(r) = 1 /\ r[1] = h /\ r # <<>>
      BY <2>1
    <2>3. Len(Outward(r)) = Len(r) /\ Outward(r)[Len(r)] = r[1]
      BY <2>2, OutwardFacts
    <2>4. C[Main] = <<>>
      BY <1>0, <1>2, <1>4, <1>a, NestFacts
    <2> QED
      BY <1>9, <2>1, <2>2, <2>3, <2>4
  <1>11. StackInv(D, answer)
    BY <1>1, <1>2, <1>3, <1>4, <1>6, <1>8, <1>9, <1>10, <1>a, StackServe
  <1>12. Len(D[w]) = n /\ D[w][n] = g /\ \A d \in 1..n - 1 : D[w][d] = C[w][d]
    BY <1>4, <1>9 DEF Changed
  <1>13. ASSUME NEW u \in Threads, NEW d \in 1..Len(D[u])
         PROVE  \/ d \in 1..Len(C[u]) /\ D[u][d] = C[u][d]
                \/ u = w /\ d = n
                \/ u = Main /\ d = 1
    <2>1. CASE u = Main
      BY <1>10, <2>1
    <2>2. CASE u = w
      <3>1. d = n \/ d \in 1..n - 1
        BY <1>4, <1>12, <2>2
      <3> QED
        BY <1>4, <1>12, <2>2, <3>1
    <2>3. CASE u # Main /\ u # w
      BY <1>9, <2>3
    <2> QED
      BY <2>1, <2>2, <2>3
  <1>14. ASSUME NEW u \in Threads, NEW d \in 1..Len(C[u])
         PROVE  d \in 1..Len(D[u]) /\ ((u = w /\ d = n) \/ D[u][d] = C[u][d])
    <2>1. CASE u = Main
      BY <1>10, <2>1
    <2>2. CASE u = w
      <3>1. d = n \/ d \in 1..n - 1
        BY <1>4, <2>2
      <3> QED
        BY <1>4, <1>12, <2>2, <3>1
    <2>3. CASE u # Main /\ u # w
      BY <1>9, <2>3
    <2> QED
      BY <2>1, <2>2, <2>3
  <1>15. ASSUME NEW e \in Events \ refired
         PROVE  FiringInv(D, event, e) /\ (event[e].stopped => NoNewRun(C, D, e))
    <2>1. FiringInv(C, event, e)
      BY <1>a DEF EventsInv
    <2>2. CASE e # f.ev
      <3>1. \A u \in Threads : \A d \in 1..Len(D[u]) : OldFor(C, D, u, d, e)
        BY <1>6, <1>8, <1>10, <1>12, <1>13, <2>2 DEF OldFor
      <3> QED
        BY <1>4, <1>9, <2>1, <3>1, FiringKept
    <2>3. CASE e = f.ev
      <3>1. Firing(C[w][n], e) /\ C[w][n].at \in {"loop", "call"} /\ n \in 1..Len(C[w])
        BY <1>2, <1>3, <1>4, <2>3 DEF Firing
      <3>2. D[w][n].at = "wait" /\ D[Main][1].fn = "callback" /\ D[w][n].fn = "FireEvent"
        BY <1>6, <1>8, <1>10, <1>12
      <3>3. \A u \in Threads : \A d \in 1..Len(D[u]) :
               OldFor(C, D, u, d, e) \/ (u = w /\ d = n) \/ (u = Main /\ d = 1)
        BY <1>13 DEF OldFor
      <3> QED
        BY <1>0, <1>4, <1>9, <2>1, <3>1, <3>2, <3>3, FiringCalls
    <2> QED
      BY <2>2, <2>3
  <1>16. ASSUME NEW e, NEW l, SomeAwaits(C, e, l, listenerMap)
         PROVE  SomeAwaits(D, e, l, listenerMap)
    <2>1. PICK u \in Threads : \E d \in 1..Len(C[u]) : Awaits(C[u][d], e, l, listenerMap)
      BY <1>16 DEF SomeAwaits
    <2>2. PICK d \in 1..Len(C[u]) : Awaits(C[u][d], e, l, listenerMap)
      BY <2>1
    <2>3. CASE u = w /\ d = n
      <3>1. Awaits(g, e, l, listenerMap)
        BY <1>2, <1>3, <1>4, <1>6, <2>2, <2>3 DEF Awaits, Firing
      <3> QED
        BY <1>12, <1>14, <2>3, <3>1 DEF SomeAwaits
    <2> QED
      BY <1>14, <2>2, <2>3 DEF SomeAwaits
  <1>17. TypeOK'
    BY <1>1, <1>2, <1>9 DEF TypeOK, CallsType
  <1>18. StackInv(Nest(stack), answer)'
    BY <1>2, <1>b, <1>11
  <1>19. ListsOwnListeners' /\ HistoryInv' /\ AnswerIsWhatCallbacksDecided'
    BY <1>2 DEF EventsInv, ListsOwnListeners, HistoryInv, AnswerIsWhatCallbacksDecided, Answered
  <1>20. (\A e \in Events \ refired : FiringInv(Nest(stack), event, e))'
    BY <1>2, <1>b, <1>15
  <1>21. (\A e \in Events \ refired : HearingInv(Nest(stack), listenerMap, e))'
    BY <1>2, <1>a, <1>b, <1>16 DEF HearingInv, EventsInv
  <1>22. EventsInv'
    BY <1>17, <1>18, <1>19, <1>20, <1>21 DEF EventsInv
  <1>23. \A e \in Events : ~ (Answered(e)' /\ ~ Answered(e))
    BY <1>2 DEF Answered
  <1> QED
    BY <1>a, <1>b, <1>15, <1>22, <1>23 DEF Kept

\* The callback on the main thread, before a step of it.
LEMMA CallbackFacts ==
    ASSUME EventsInv, At(Main, "callback", "run")
    PROVE  /\ stack[Main] # <<>> /\ Top(Main).fn = "callback"
           /\ stack \in CallsType /\ Nest(stack) \in CallsType
           /\ Len(stack[Main]) \in Nat /\ Len(stack[Main]) > 0
           /\ Len(Nest(stack)[Main]) = Len(stack[Main])
           /\ Nest(stack)[Main][Len(stack[Main])] = Top(Main)
           /\ Top(Main) = stack[Main][1] /\ Top(Main) \in FrameType
           /\ Top(Main).ev \in Events /\ answer[Top(Main).ev] = "none"
           /\ CallerInv(Nest(stack), Len(stack[Main]))
  <1>1. TypeOK /\ StackInv(Nest(stack), answer) /\ Main \in Threads
    BY ThreadFacts DEF EventsInv
  <1>2. stack[Main] # <<>> /\ Top(Main).fn = "callback"
    BY DEF At
  <1>3. /\ stack \in CallsType /\ Nest(stack) \in CallsType
        /\ Len(stack[Main]) \in Nat /\ Len(stack[Main]) > 0
        /\ Len(Nest(stack)[Main]) = Len(stack[Main])
        /\ Nest(stack)[Main][Len(stack[Main])] = Top(Main)
        /\ Top(Main) = stack[Main][1] /\ Top(Main) \in FrameType
        /\ Top(Main).ev \in Events /\ answer[Top(Main).ev] = "none"
    BY <1>1, <1>2, TopFacts
  <1>4. Len(stack[Main]) \in 1..Len(Nest(stack)[Main])
    BY <1>3
  <1> QED
    BY <1>1, <1>2, <1>3, <1>4 DEF StackInv

\* The callback decides about its event.
LEMMA DecideStep ==
    ASSUME EventsInv, PreventDefault \/ StopPropagation
    PROVE  Kept
  <1>1. /\ At(Main, "callback", "run")
        /\ UNCHANGED <<listenerMap, alive, holder, stack, due, called, refired, answer>>
    BY DEF PreventDefault, StopPropagation, listenerVars, history
  <1>2. PICK x : x = Top(Main).ev
    OBVIOUS
  <1>3. x \in Events /\ answer[x] = "none"
    BY <1>1, <1>2, CallbackFacts
  <1>4. TypeOK
    BY DEF EventsInv
  <1>5. /\ event' \in [Events -> [stopped : BOOLEAN, preventedDefault : BOOLEAN]]
        /\ \A e \in Events : e # x => event'[e] = event[e]
        /\ \A e \in Events : event[e].stopped => event'[e].stopped
    <2> DEFINE Flags == [stopped : BOOLEAN, preventedDefault : BOOLEAN]
    <2>1. event \in [Events -> Flags] /\ event[x] \in Flags
      BY <1>3, <1>4 DEF TypeOK
    <2>2. \A r \in Flags : /\ [r EXCEPT !.preventedDefault = TRUE] \in Flags
                          /\ [r EXCEPT !.preventedDefault = TRUE].stopped = r.stopped
                          /\ [r EXCEPT !.stopped = TRUE, !.preventedDefault = TRUE] \in Flags
                          /\ [r EXCEPT !.stopped = TRUE, !.preventedDefault = TRUE].stopped
      OBVIOUS
    <2>3. \/ event' = [event EXCEPT ![x] = [event[x] EXCEPT !.preventedDefault = TRUE]]
          \/ event' = [event EXCEPT ![x] = [event[x] EXCEPT !.stopped = TRUE,
                                                            !.preventedDefault = TRUE]]
      BY <1>2, <1>3, <2>1 DEF PreventDefault, StopPropagation
    <2> HIDE DEF Flags
    <2>4. PICK r \in Flags : event' = [event EXCEPT ![x] = r] /\ (event[x].stopped => r.stopped)
      BY <2>1, <2>2, <2>3
    <2>5. event' \in [Events -> Flags]
      BY <1>3, <2>1, <2>4
    <2> QED
      BY <1>3, <2>1, <2>4, <2>5 DEF Flags
  <1>6. PICK C : C = Nest(stack)
    OBVIOUS
  <1>7. C = Nest(stack')
    BY <1>1, <1>6
  <1>8. TypeOK'
    BY <1>1, <1>4, <1>5 DEF TypeOK
  <1>9. StackInv(Nest(stack), answer)'
    BY <1>1, <1>6, <1>7 DEF EventsInv
  <1>10. ListsOwnListeners'
    BY <1>1 DEF EventsInv, ListsOwnListeners
  <1>11. HistoryInv'
    BY <1>1, <1>3, <1>5 DEF EventsInv, HistoryInv, Hears
  <1>12. AnswerIsWhatCallbacksDecided'
    BY <1>1, <1>3, <1>5 DEF EventsInv, AnswerIsWhatCallbacksDecided, Answered
  <1>13. ASSUME NEW e \in Events \ refired
         PROVE  FiringInv(C, event', e) /\ NoNewRun(C, C, e)
    <2>1. FiringInv(C, event, e)
      BY <1>6 DEF EventsInv
    <2>2. CASE e # x
      BY <1>5, <2>1, <2>2 DEF FiringInv, NoNewRun
    <2>3. CASE e = x
      <3>1. PICK k \in 1..Len(C[Main]) : Running(C[Main][k], e)
        <4>1. /\ Len(C[Main]) \in Nat /\ Len(C[Main]) > 0
              /\ C[Main][Len(C[Main])] = Top(Main) /\ Top(Main).fn = "callback"
          BY <1>1, <1>6, CallbackFacts
        <4>2. Len(C[Main]) \in 1..Len(C[Main]) /\ Running(C[Main][Len(C[Main])], e)
          BY <1>2, <2>3, <4>1 DEF Running
        <4> QED
          BY <4>2
      <3>2. Stopping(C, e)
        BY <2>1, <3>1 DEF FiringInv, Paused, Stopping
      <3> QED
        BY <2>1, <3>2 DEF FiringInv, NoNewRun
    <2> QED
      BY <2>2, <2>3
  <1>14. (\A e \in Events \ refired : FiringInv(Nest(stack), event, e))'
    BY <1>1, <1>7, <1>13
  <1>15. (\A e \in Events \ refired : HearingInv(Nest(stack), listenerMap, e))'
    BY <1>1, <1>5, <1>6, <1>7 DEF HearingInv, EventsInv
  <1>16. EventsInv'
    BY <1>8, <1>9, <1>10, <1>11, <1>12, <1>14, <1>15 DEF EventsInv
  <1>17. \A e \in Events : ~ (Answered(e)' /\ ~ Answered(e))
    BY <1>1 DEF Answered
  <1> QED
    BY <1>6, <1>7, <1>13, <1>16, <1>17 DEF Kept

\* The callback h at place m of the main thread is over: the call f that waits
\* for it, at place n of thread t, becomes g.
CallerGoesOn(C, D, h, m, t, n, f, g) ==
    /\ f = C[t][n] /\ Waiting(f, h.ev)
    /\ g = [f EXCEPT !.at = "check"]
    /\ n \in 1..Len(D[t]) /\ D[t][n] = g
    /\ \A u \in Threads : \A d \in 1..Len(D[u]) :
          \/ d \in 1..Len(C[u]) /\ D[u][d] = C[u][d] /\ ~ (u = Main /\ d = m)
          \/ u = t /\ d = n
    /\ \A u \in Threads : \A d \in 1..Len(C[u]) :
          \/ d \in 1..Len(D[u]) /\ D[u][d] = C[u][d]
          \/ u = t /\ d = n
          \/ u = Main /\ d = m

\* The invariant is kept by CallbackReturn.
LEMMA CallbackReturnStep ==
    ASSUME EventsInv, CallbackReturn
    PROVE  Kept
  <1>0. Main \in Threads /\ Main \notin Workers /\ \A w \in Workers : w \in Threads /\ w # Main
    BY ThreadFacts
  <1>1. TypeOK /\ StackInv(Nest(stack), answer)
    BY DEF EventsInv
  <1>2. /\ At(Main, "callback", "run")
        /\ stack' = IF Top(Main).caller = Main
                    THEN [stack EXCEPT ![Main] =
                            <<[@[2] EXCEPT !.at = "check"]>> \o Tail(Tail(@))]
                    ELSE [stack EXCEPT ![Main] = Tail(@),
                                       ![Top(Main).caller][1].at = "check"]
        /\ UNCHANGED <<listenerMap, alive, holder, event, due, refired, answer, called>>
    BY DEF CallbackReturn, listenerVars, history
  <1>3. PICK h : h = Top(Main)
    OBVIOUS
  <1>4. PICK C : C = Nest(stack)
    OBVIOUS
  <1>5. PICK D : D = Nest(stack')
    OBVIOUS
  <1>6. PICK m : m = Len(stack[Main])
    OBVIOUS
  <1>7. /\ stack \in CallsType /\ C \in CallsType /\ m \in Nat /\ m > 0 /\ Len(C[Main]) = m
        /\ C[Main][m] = h /\ h.ev \in Events /\ answer[h.ev] = "none" /\ h \in FrameType
        /\ h.fn = "callback" /\ m \in 1..m /\ stack[Main] # <<>>
        /\ CallerInv(C, m)
    BY <1>2, <1>3, <1>4, <1>6, CallbackFacts
  <1>8. \/ h.caller = Main /\ m > 1 /\ Waiting(C[Main][m - 1], h.ev)
        \/ h.caller \in Workers /\ m = 1 /\ WorkerWaits(C, h.caller, h.ev)
    BY <1>7 DEF CallerInv
  \* The callers' side: the call f at place n of thread t becomes g.
  <1>9. /\ stack' \in CallsType /\ D \in CallsType /\ StackInv(D, answer)
        /\ \E t \in Threads : \E n \in 1..Len(C[t]) : \E f, g \in FrameType :
              CallerGoesOn(C, D, h, m, t, n, f, g)
    <2>1. CASE h.caller = Main /\ m > 1 /\ Waiting(C[Main][m - 1], h.ev)
      <3>1. PICK n \in Nat : n = m - 1
        BY <1>7, <2>1
      <3>2. n > 0 /\ n \in 1..m /\ n \in 1..n /\ m = n + 1 /\ 2 \in 1..m
        BY <1>7, <2>1, <3>1
      <3>3. PICK f : f = stack[Main][2]
        OBVIOUS
      <3>4. f = C[Main][n] /\ f \in FrameType
        <4>0. \A i \in 1..m : C[Main][m + 1 - i] = stack[Main][i]
          <5>1. PICK s \in Seq(FrameType) : s = stack[Main]
            BY <1>0, <1>7 DEF CallsType
          <5>2. C[Main] = Outward(s)
            BY <1>0, <1>4, <5>1 DEF Nest
          <5>3. \A i \in 1..Len(s) : Outward(s)[Len(s) + 1 - i] = s[i]
            BY OutwardFacts
          <5> QED
            BY <1>6, <5>1, <5>2, <5>3
        <4>1. C[Main][m + 1 - 2] = stack[Main][2]
          BY <3>2, <4>0
        <4>2. m + 1 - 2 = n
          BY <3>1, <1>7
        <4>3. C[Main][n] \in FrameType
          BY <1>0, <1>7, <3>2, LenFacts
        <4> QED
          BY <3>3, <4>1, <4>2, <4>3
      <3>5. Waiting(f, h.ev) /\ f.fn = "FireEvent" /\ f.ev = h.ev
        BY <2>1, <3>1, <3>4 DEF Waiting, Firing
      <3>6. PICK g : g = [f EXCEPT !.at = "check"]
        OBVIOUS
      <3>7. g \in FrameType /\ g.fn = "FireEvent" /\ g.ev = f.ev
        BY <3>4, <3>5, <3>6 DEF FrameType
      <3>8. Replaced(stack, stack', Main, <<g>> \o Tail(Tail(stack[Main])))
        BY <1>2, <1>3, <2>1, <3>3, <3>6 DEF Replaced
      <3>9. /\ stack' \in CallsType /\ D \in CallsType
            /\ Others(C, D, Main) /\ ReturnsTo(C[Main], D[Main], g)
        BY <1>0, <1>4, <1>5, <1>6, <1>7, <2>1, <3>7, <3>8, NestReturn
      <3>10. StackInv(D, answer)
        BY <1>1, <1>4, <1>7, <3>1, <3>4, <3>5, <3>7, <3>9, StackReturn
      <3>11. Len(D[Main]) = n /\ D[Main][n] = g /\ \A d \in 1..n - 1 : D[Main][d] = C[Main][d]
        <4>1. m - 1 = n /\ m - 2 = n - 1
          BY <1>7, <3>1
        <4> QED
          BY <1>7, <3>9, <4>1 DEF ReturnsTo
      <3>12. ASSUME NEW u \in Threads, NEW d \in 1..Len(D[u])
             PROVE  \/ d \in 1..Len(C[u]) /\ D[u][d] = C[u][d] /\ ~ (u = Main /\ d = m)
                    \/ u = Main /\ d = n
        <4>1. CASE u # Main
          BY <3>9, <4>1 DEF Others
        <4>2. CASE u = Main
          <5>1. d = n \/ (d \in 1..n - 1 /\ d \in 1..m /\ d # m)
            BY <3>2, <3>11, <4>2
          <5> QED
            BY <1>7, <3>11, <4>2, <5>1
        <4> QED
          BY <4>1, <4>2
      <3>13. ASSUME NEW u \in Threads, NEW d \in 1..Len(C[u])
             PROVE  \/ d \in 1..Len(D[u]) /\ D[u][d] = C[u][d]
                    \/ u = Main /\ d = n
                    \/ u = Main /\ d = m
        <4>1. CASE u # Main
          BY <3>9, <4>1 DEF Others
        <4>2. CASE u = Main
          <5>1. d = n \/ d = m \/ (d \in 1..n - 1 /\ d \in 1..n)
            BY <1>7, <3>2, <4>2
          <5> QED
            BY <3>11, <4>2, <5>1
        <4> QED
          BY <4>1, <4>2
      <3>14. n \in 1..Len(C[Main]) /\ n \in 1..Len(D[Main])
        BY <1>7, <3>2, <3>11
      <3>15. CallerGoesOn(C, D, h, m, Main, n, f, g)
        BY <3>4, <3>5, <3>6, <3>11, <3>12, <3>13, <3>14 DEF CallerGoesOn
      <3> QED
        BY <1>0, <3>4, <3>7, <3>9, <3>10, <3>14, <3>15
    <2>2. CASE h.caller \in Workers /\ m = 1 /\ WorkerWaits(C, h.caller, h.ev)
      <3>1. PICK w \in Workers : w = h.caller
        BY <2>2
      <3>2. w \in Threads /\ w # Main /\ C[w] # <<>> /\ stack[w] # <<>>
        BY <1>0, <1>4, <1>7, <2>2, <3>1, NestFacts DEF WorkerWaits
      <3>3. PICK n : n = Len(C[w])
        OBVIOUS
      <3>4. PICK f : f = C[w][n]
        OBVIOUS
      <3>5. n \in Nat /\ n > 0 /\ n \in 1..n /\ f = stack[w][1] /\ f \in FrameType
        BY <1>4, <1>7, <3>2, <3>3, <3>4, NestFacts
      <3>6. Waiting(f, h.ev) /\ f.fn = "FireEvent" /\ f.ev = h.ev
        BY <2>2, <3>1, <3>3, <3>4 DEF WorkerWaits, Waiting, Firing
      <3>7. PICK g : g = [f EXCEPT !.at = "check"]
        OBVIOUS
      <3>8. g \in FrameType /\ g.fn = "FireEvent" /\ g.ev = f.ev
        BY <3>5, <3>6, <3>7 DEF FrameType
      <3>9. PICK r \in Seq(FrameType) : r = <<>>
        <4>1. <<>> \in Seq(FrameType)
          OBVIOUS
        <4> QED
          BY <4>1
      <3>10. Tail(stack[Main]) = r
        <4>1. PICK s \in Seq(FrameType) : s = stack[Main] /\ Len(s) = 1
          BY <1>0, <1>6, <1>7, <2>2 DEF CallsType
        <4>2. PICK q : q = Tail(stack[Main])
          OBVIOUS
        <4>3. q \in Seq(FrameType) /\ Len(q) = 0
          <5>1. s # <<>>
            BY <1>7, <4>1
          <5>2. Tail(s) \in Seq(FrameType) /\ Len(Tail(s)) = Len(s) - 1
            BY <5>1
          <5> QED
            BY <4>1, <4>2, <5>2
        <4>4. q = <<>>
          BY <4>3
        <4> QED
          BY <3>9, <4>2, <4>4
      <3>11. HandedOver(stack, stack', w, g, r)
        <4>1. h.caller # Main
          BY <3>1, <3>2
        <4>2. stack' = [stack EXCEPT ![Main] = r, ![w][1].at = "check"]
          BY <1>2, <1>3, <3>1, <3>10, <4>1
        <4> QED
          BY <1>0, <1>7, <3>2, <3>5, <3>7, <4>2 DEF HandedOver, CallsType
      <3>12. /\ stack' \in CallsType /\ D \in CallsType /\ D[Main] = Outward(r)
             /\ Changed(C[w], D[w], g)
             /\ \A u \in Threads \ {w, Main} : D[u] = C[u]
        BY <1>4, <1>5, <3>2, <3>8, <3>11, HandOver
      <3>13. D[Main] = <<>>
        BY <3>9, <3>12, OutwardFacts
      <3>14. StackInv(D, answer)
        BY <1>1, <1>4, <1>7, <3>3, <3>4, <3>6, <3>8, <3>12, <3>13, StackAnswer
      <3>15. Len(D[w]) = n /\ D[w][n] = g /\ \A d \in 1..n - 1 : D[w][d] = C[w][d]
        BY <3>3, <3>12 DEF Changed
      <3>16. ASSUME NEW u \in Threads, NEW d \in 1..Len(D[u])
             PROVE  \/ d \in 1..Len(C[u]) /\ D[u][d] = C[u][d] /\ ~ (u = Main /\ d = m)
                    \/ u = w /\ d = n
        <4>1. CASE u = Main
          BY <3>13, <4>1
        <4>2. CASE u = w
          <5>1. d = n \/ (d \in 1..n - 1 /\ d \in 1..n)
            BY <3>5, <3>15, <4>2
          <5> QED
            BY <3>2, <3>3, <3>15, <4>2, <5>1
        <4>3. CASE u # Main /\ u # w
          BY <3>12, <4>3
        <4> QED
          BY <4>1, <4>2, <4>3
      <3>17. ASSUME NEW u \in Threads, NEW d \in 1..Len(C[u])
             PROVE  \/ d \in 1..Len(D[u]) /\ D[u][d] = C[u][d]
                    \/ u = w /\ d = n
                    \/ u = Main /\ d = m
        <4>1. CASE u = Main
          BY <1>7, <2>2, <4>1
        <4>2. CASE u = w
          <5>1. d = n \/ (d \in 1..n - 1 /\ d \in 1..n)
            BY <3>3, <3>5, <4>2
          <5> QED
            BY <3>15, <4>2, <5>1
        <4>3. CASE u # Main /\ u # w
          BY <3>12, <4>3
        <4> QED
          BY <4>1, <4>2, <4>3
      <3>18. n \in 1..Len(C[w]) /\ n \in 1..Len(D[w])
        BY <3>3, <3>5, <3>15
      <3>19. CallerGoesOn(C, D, h, m, w, n, f, g)
        BY <3>4, <3>6, <3>7, <3>15, <3>16, <3>17, <3>18 DEF CallerGoesOn
      <3> QED
        BY <3>2, <3>5, <3>8, <3>12, <3>14, <3>18, <3>19
    <2> QED
      BY <1>8, <2>1, <2>2
  <1>10. PICK t \in Threads : \E n \in 1..Len(C[t]) : \E f, g \in FrameType :
            CallerGoesOn(C, D, h, m, t, n, f, g)
    BY <1>9
  <1>11. PICK n \in 1..Len(C[t]), f \in FrameType, g \in FrameType :
            CallerGoesOn(C, D, h, m, t, n, f, g)
    BY <1>10
  <1>a. /\ f = C[t][n] /\ Waiting(f, h.ev)
        /\ g = [f EXCEPT !.at = "check"]
        /\ n \in 1..Len(D[t]) /\ D[t][n] = g
        /\ \A u \in Threads : \A d \in 1..Len(D[u]) :
              \/ d \in 1..Len(C[u]) /\ D[u][d] = C[u][d] /\ ~ (u = Main /\ d = m)
              \/ u = t /\ d = n
        /\ \A u \in Threads : \A d \in 1..Len(C[u]) :
              \/ d \in 1..Len(D[u]) /\ D[u][d] = C[u][d]
              \/ u = t /\ d = n
              \/ u = Main /\ d = m
    BY <1>11 DEF CallerGoesOn
  <1>b. stack' \in CallsType /\ D \in CallsType /\ StackInv(D, answer)
    BY <1>9
  <1>12. /\ f.fn = "FireEvent" /\ f.ev = h.ev /\ f.at = "wait" /\ g.fn = "FireEvent"
         /\ g.ev = h.ev /\ g.at = "check" /\ g.obj = f.obj /\ g.rest = f.rest
    <2>1. f.fn = "FireEvent" /\ f.ev = h.ev /\ f.at = "wait"
      BY <1>a DEF Waiting, Firing
    <2>2. g = [f EXCEPT !.at = "check"] /\ f \in FrameType
      BY <1>a
    <2> QED
      BY <2>1, <2>2 DEF FrameType
  <1>13. ASSUME NEW e \in Events \ refired
         PROVE  FiringInv(D, event, e) /\ NoNewRun(C, D, e)
    <2>1. FiringInv(C, event, e)
      BY <1>4 DEF EventsInv
    <2>2. CASE e # h.ev
      <3>1. \A u \in Threads : \A d \in 1..Len(D[u]) : OldFor(C, D, u, d, e)
        BY <1>a, <1>12, <2>2 DEF OldFor
      <3> QED
        BY <1>7, <1>b, <2>1, <3>1, FiringKept
    <2>3. CASE e = h.ev
      <3>1. Firing(C[t][n], e) /\ C[t][n].at # "return" /\ D[t][n].at = "check"
        BY <1>a, <1>12, <2>3 DEF Firing
      <3>2. ASSUME NEW d \in 1..Len(D[Main]), Running(D[Main][d], e)
            PROVE  FALSE
        <4>1. CASE d \in 1..Len(C[Main]) /\ D[Main][d] = C[Main][d] /\ d # m
          <5>1. Running(C[Main][d], e) /\ Running(C[Main][m], e) /\ m \in 1..Len(C[Main])
            BY <1>7, <2>3, <3>2, <4>1 DEF Running
          <5> QED
            BY <2>1, <4>1, <5>1 DEF FiringInv, OneRuns
        <4>2. CASE Main = t /\ d = n
          BY <1>a, <1>12, <3>2, <4>2 DEF Running
        <4> QED
          BY <1>0, <1>a, <4>1, <4>2
      <3>3. \A u \in Threads : \A d \in 1..Len(D[u]) : OldFor(C, D, u, d, e) \/ (u = t /\ d = n)
        BY <1>a DEF OldFor
      <3>4. event[e].stopped => D[t][n].at \in {"wait", "check", "return"}
        BY <3>1
      <3>5. \A d \in 1..Len(D[Main]) : ~ Running(D[Main][d], e)
        BY <3>2
      <3> QED
        BY <1>7, <1>b, <2>1, <3>1, <3>3, <3>4, <3>5, FiringMoves
    <2> QED
      BY <2>2, <2>3
  <1>16. ASSUME NEW e, NEW l, SomeAwaits(C, e, l, listenerMap)
         PROVE  SomeAwaits(D, e, l, listenerMap)
    <2>1. PICK u \in Threads : \E d \in 1..Len(C[u]) : Awaits(C[u][d], e, l, listenerMap)
      BY <1>16 DEF SomeAwaits
    <2>2. PICK d \in 1..Len(C[u]) : Awaits(C[u][d], e, l, listenerMap)
      BY <2>1
    <2>3. CASE u = t /\ d = n
      <3>1. Awaits(g, e, l, listenerMap)
        BY <1>a, <1>12, <2>2, <2>3 DEF Awaits, Firing
      <3> QED
        BY <1>a, <3>1 DEF SomeAwaits
    <2>4. CASE u = Main /\ d = m
      BY <1>7, <2>2, <2>4 DEF Awaits, Firing
    <2>5. CASE d \in 1..Len(D[u]) /\ D[u][d] = C[u][d]
      BY <2>2, <2>5 DEF SomeAwaits
    <2> QED
      BY <1>a, <2>3, <2>4, <2>5
  <1>17. TypeOK'
    BY <1>1, <1>2, <1>b DEF TypeOK, CallsType
  <1>18. StackInv(Nest(stack), answer)'
    BY <1>2, <1>5, <1>b
  <1>19. ListsOwnListeners' /\ HistoryInv' /\ AnswerIsWhatCallbacksDecided'
    BY <1>2 DEF EventsInv, ListsOwnListeners, HistoryInv, AnswerIsWhatCallbacksDecided, Answered
  <1>20. (\A e \in Events \ refired : FiringInv(Nest(stack), event, e))'
    BY <1>2, <1>5, <1>13
  <1>21. (\A e \in Events \ refired : HearingInv(Nest(stack), listenerMap, e))'
    <2>1. ASSUME NEW e \in Events \ refired, answer[e] = "none", ~ event[e].stopped,
                 NEW l \in due[e], alive[l] = "live"
          PROVE  l \in called[e] \/ SomeAwaits(D, e, l, listenerMap)
      <3>1. l \in called[e] \/ SomeAwaits(C, e, l, listenerMap)
        BY <1>4, <2>1 DEF HearingInv, EventsInv
      <3> QED
        BY <1>16, <3>1
    <2> QED
      BY <1>2, <1>5, <2>1 DEF HearingInv
  <1>22. EventsInv'
    BY <1>17, <1>18, <1>19, <1>20, <1>21 DEF EventsInv
  <1>23. \A e \in Events : ~ (Answered(e)' /\ ~ Answered(e))
    BY <1>2 DEF Answered
  <1> QED
    BY <1>4, <1>5, <1>13, <1>22, <1>23 DEF Kept

\* User code of a thread makes a call: C are the calls before it, D those after.
MakesCall(C, D, t, f) ==
    /\ C \in CallsType /\ D \in CallsType
    /\ Others(C, D, t) /\ Pushed(C[t], D[t], f)
    /\ t \in Workers => C[t] = <<>>
    /\ \A u \in Threads : \A d \in 1..Len(C[u]) :
          d \in 1..Len(D[u]) /\ D[u][d] = C[u][d]
    /\ Len(C[t]) \in Nat
    /\ Len(C[t]) + 1 \in 1..Len(D[t])
    /\ D[t][Len(C[t]) + 1] = f
    /\ \A u \in Threads : \A d \in 1..Len(D[u]) :
          \/ d \in 1..Len(C[u]) /\ D[u][d] = C[u][d]
          \/ u = t /\ d = Len(C[t]) + 1

\* Code of a listener or of the program makes a call.
LEMMA PushFacts ==
    ASSUME EventsInv, NEW t \in Threads, InUserCode(t), NEW f \in FrameType,
           Replaced(stack, stack', t, <<f>> \o stack[t])
    PROVE  stack' \in CallsType /\ MakesCall(Nest(stack), Nest(stack'), t, f)
  <1>1. TypeOK /\ StackInv(Nest(stack), answer)
    BY DEF EventsInv
  <1>2. PICK C : C = Nest(stack)
    OBVIOUS
  <1>3. PICK D : D = Nest(stack')
    OBVIOUS
  <1>4. stack \in CallsType
    BY <1>1 DEF TypeOK, CallsType
  <1>5. C \in CallsType
    BY <1>2, <1>4, NestFacts
  <1>6. stack' \in CallsType /\ D \in CallsType /\ Others(C, D, t) /\ Pushed(C[t], D[t], f)
    BY <1>2, <1>3, <1>4, NestPush
  <1>7. ASSUME t \in Workers
        PROVE  C[t] = <<>>
    <2> SUFFICES ASSUME stack[t] # <<>>
                 PROVE  FALSE
      BY <1>2, <1>4, NestFacts
    <2>1. Top(t).fn = "callback"
      BY DEF InUserCode
    <2>2. C[t][Len(C[t])] = Top(t) /\ Len(C[t]) \in 1..Len(C[t])
      BY <1>1, <1>2, TopFacts
    <2> QED
      BY <1>1, <1>2, <1>7, <2>1, <2>2 DEF StackInv, WorkerInv
  <1>8. C[t] \in Seq(FrameType) /\ Len(C[t]) \in Nat
    BY <1>5 DEF CallsType
  <1>9. PICK n \in Nat : n = Len(C[t])
    BY <1>8
  <1>10. Len(D[t]) = n + 1 /\ D[t][n + 1] = f /\ \A i \in 1..n : D[t][i] = C[t][i]
    BY <1>6, <1>9 DEF Pushed
  <1>11. ASSUME NEW u \in Threads, NEW d \in 1..Len(C[u])
         PROVE  d \in 1..Len(D[u]) /\ D[u][d] = C[u][d]
    <2>1. CASE u # t
      BY <1>6, <2>1 DEF Others
    <2>2. CASE u = t
      BY <1>9, <1>10, <2>2
    <2> QED
      BY <2>1, <2>2
  <1>12. ASSUME NEW u \in Threads, NEW d \in 1..Len(D[u])
         PROVE  \/ d \in 1..Len(C[u]) /\ D[u][d] = C[u][d]
                \/ u = t /\ d = Len(C[t]) + 1
    <2>1. CASE u # t
      BY <1>6, <2>1 DEF Others
    <2>2. CASE u = t
      <3>1. d = n + 1 \/ d \in 1..n
        BY <1>9, <1>10, <2>2
      <3> QED
        BY <1>9, <1>10, <2>2, <3>1
    <2> QED
      BY <2>1, <2>2
  <1>13. n + 1 \in 1..n + 1
    OBVIOUS
  <1> QED
    BY <1>2, <1>3, <1>5, <1>6, <1>7, <1>8, <1>9, <1>10, <1>11, <1>12, <1>13 DEF MakesCall

\* The invariant is kept by BeginModify.
LEMMA BeginModifyStep ==
    ASSUME EventsInv, NEW t \in Threads, BeginModify(t)
    PROVE  Kept
  <1>1. TypeOK /\ StackInv(Nest(stack), answer)
    BY DEF EventsInv
  <1>2. /\ InUserCode(t)
        /\ stack' = [stack EXCEPT ![t] = <<ModifyFrame>> \o @]
        /\ UNCHANGED <<listenerMap, alive, holder, event, due, refired, answer, called>>
    BY DEF BeginModify, Push, listenerVars, history
  <1>3. PICK f : f = ModifyFrame
    OBVIOUS
  <1>4. f \in FrameType /\ f.fn = "modify" /\ f.ev = NoEvent
    BY <1>3, FrameTypes
  <1>5. Replaced(stack, stack', t, <<f>> \o stack[t])
    BY <1>2, <1>3 DEF Replaced
  <1>6. PICK C : C = Nest(stack)
    OBVIOUS
  <1>7. PICK D : D = Nest(stack')
    OBVIOUS
  <1>p8. stack' \in CallsType /\ MakesCall(C, D, t, f)
    BY <1>2, <1>4, <1>5, <1>6, <1>7, PushFacts
  <1>8. /\ D \in CallsType /\ C \in CallsType
        /\ Others(C, D, t) /\ Pushed(C[t], D[t], f)
        /\ t \in Workers => C[t] = <<>>
        /\ \A u \in Threads : \A d \in 1..Len(C[u]) :
              d \in 1..Len(D[u]) /\ D[u][d] = C[u][d]
        /\ D[t][Len(C[t]) + 1] = f
        /\ \A u \in Threads : \A d \in 1..Len(D[u]) :
              \/ d \in 1..Len(C[u]) /\ D[u][d] = C[u][d]
              \/ u = t /\ d = Len(C[t]) + 1
    BY <1>p8 DEF MakesCall
  <1>9. FrameInv(f, answer) /\ \A u \in Threads : \A d \in 1..Len(C[u]) : FrameInv(C[u][d], answer)
    BY <1>1, <1>4, <1>6 DEF FrameInv, StackInv
  <1>10. StackInv(D, answer)
    <2>1. f.fn # "callback"
      BY <1>4
    <2> QED
      BY <1>1, <1>4, <1>6, <1>8, <1>9, <2>1, StackPush
  <1>11. ASSUME NEW e \in Events \ refired
         PROVE  FiringInv(D, event, e) /\ NoNewRun(C, D, e)
    <2>1. FiringInv(C, event, e)
      BY <1>6 DEF EventsInv
    <2>2. \A u \in Threads : \A d \in 1..Len(D[u]) : OldFor(C, D, u, d, e)
      BY <1>4, <1>8 DEF OldFor
    <2> QED
      BY <1>8, <2>1, <2>2, FiringKept
  <1>12. ASSUME NEW e \in Events \ refired, answer[e] = "none", ~ event[e].stopped,
                NEW l \in due[e], alive[l] = "live"
         PROVE  l \in called[e] \/ SomeAwaits(D, e, l, listenerMap)
    <2>1. l \in called[e] \/ SomeAwaits(C, e, l, listenerMap)
      BY <1>6, <1>12 DEF EventsInv, HearingInv
    <2> QED
      BY <1>8, <2>1 DEF SomeAwaits
  <1>13. TypeOK'
    BY <1>1, <1>2, <1>p8 DEF TypeOK, CallsType
  <1>14. StackInv(Nest(stack), answer)'
    BY <1>2, <1>7, <1>10
  <1>15. ListsOwnListeners' /\ HistoryInv' /\ AnswerIsWhatCallbacksDecided'
    BY <1>2 DEF EventsInv, ListsOwnListeners, HistoryInv, AnswerIsWhatCallbacksDecided, Answered
  <1>16. (\A e \in Events \ refired : FiringInv(Nest(stack), event, e))'
    BY <1>2, <1>7, <1>11
  <1>17. (\A e \in Events \ refired : HearingInv(Nest(stack), listenerMap, e))'
    BY <1>2, <1>7, <1>12 DEF HearingInv
  <1>18. EventsInv'
    BY <1>13, <1>14, <1>15, <1>16, <1>17 DEF EventsInv
  <1>19. \A e \in Events : ~ (Answered(e)' /\ ~ Answered(e))
    BY <1>2 DEF Answered
  <1> QED
    BY <1>6, <1>7, <1>11, <1>18, <1>19 DEF Kept

\* The invariant is kept by RefireEvent.
LEMMA RefireEventStep ==
    ASSUME EventsInv, RefireEvent
    PROVE  Kept
  <1>0. Main \in Threads
    BY ThreadFacts
  <1>1. TypeOK /\ StackInv(Nest(stack), answer)
    BY DEF EventsInv
  <1>2. /\ At(Main, "callback", "run")
        /\ refired' = refired \cup {Top(Main).ev}
        /\ stack' = [stack EXCEPT ![Main] = <<FireFrame(Top(Main).ev, Root)>> \o @]
        /\ UNCHANGED <<listenerMap, alive, holder, event, due, answer, called>>
    BY DEF RefireEvent, Push, listenerVars
  <1>3. PICK x : x = Top(Main).ev
    OBVIOUS
  <1>4. PICK f : f = FireFrame(x, Root)
    OBVIOUS
  <1>5. PICK C : C = Nest(stack)
    OBVIOUS
  <1>6. PICK D : D = Nest(stack')
    OBVIOUS
  <1>7. /\ x \in Events /\ answer[x] = "none" /\ Top(Main).fn = "callback"
        /\ Len(C[Main]) \in 1..Len(C[Main]) /\ C[Main][Len(C[Main])].ev = x
    BY <1>2, <1>3, <1>5, CallbackFacts
  <1>8. f \in FrameType /\ f.fn = "FireEvent" /\ f.ev = x
    BY <1>4, <1>7, FrameTypes, ThreadFacts
  <1>9. Replaced(stack, stack', Main, <<f>> \o stack[Main]) /\ InUserCode(Main)
    BY <1>2, <1>3, <1>4, <1>7 DEF Replaced, InUserCode
  <1>p10. stack' \in CallsType /\ MakesCall(C, D, Main, f)
    BY <1>0, <1>5, <1>6, <1>8, <1>9, PushFacts
  <1>10. /\ D \in CallsType /\ C \in CallsType
         /\ Others(C, D, Main) /\ Pushed(C[Main], D[Main], f)
         /\ Main \in Workers => C[Main] = <<>>
         /\ \A u \in Threads : \A d \in 1..Len(C[u]) :
               d \in 1..Len(D[u]) /\ D[u][d] = C[u][d]
         /\ D[Main][Len(C[Main]) + 1] = f
         /\ \A u \in Threads : \A d \in 1..Len(D[u]) :
               \/ d \in 1..Len(C[u]) /\ D[u][d] = C[u][d]
               \/ u = Main /\ d = Len(C[Main]) + 1
    BY <1>p10 DEF MakesCall
  <1>11. FrameInv(f, answer) /\ \A u \in Threads : \A d \in 1..Len(C[u]) : FrameInv(C[u][d], answer)
    BY <1>1, <1>5, <1>7, <1>8 DEF FrameInv, StackInv
  <1>12. StackInv(D, answer)
    <2>1. f.fn # "callback" /\ \E d \in 1..Len(C[Main]) : C[Main][d].ev = f.ev
      BY <1>7, <1>8
    <2> QED
      BY <1>0, <1>1, <1>5, <1>10, <1>11, <2>1, StackPush
  <1>13. ASSUME NEW e \in Events \ refired, e # x
         PROVE  FiringInv(D, event, e)
    <2>1. FiringInv(C, event, e)
      BY <1>5 DEF EventsInv
    <2>2. \A u \in Threads : \A d \in 1..Len(D[u]) : OldFor(C, D, u, d, e)
      BY <1>8, <1>10, <1>13 DEF OldFor
    <2> QED
      BY <1>10, <2>1, <2>2, FiringKept
  <1>14. ASSUME NEW e \in Events
         PROVE  NoNewRun(C, D, e)
    BY <1>0, <1>8, <1>10 DEF NoNewRun, Running
  <1>15. ASSUME NEW e \in Events \ refired, answer[e] = "none", ~ event[e].stopped,
                NEW l \in due[e], alive[l] = "live"
         PROVE  l \in called[e] \/ SomeAwaits(D, e, l, listenerMap)
    <2>1. l \in called[e] \/ SomeAwaits(C, e, l, listenerMap)
      BY <1>5, <1>15 DEF EventsInv, HearingInv
    <2> QED
      BY <1>10, <2>1 DEF SomeAwaits
  <1>16. TypeOK'
    BY <1>1, <1>2, <1>3, <1>7, <1>p10 DEF TypeOK, CallsType
  <1>17. StackInv(Nest(stack), answer)'
    BY <1>2, <1>6, <1>12
  <1>18. ListsOwnListeners' /\ HistoryInv' /\ AnswerIsWhatCallbacksDecided'
    BY <1>2 DEF EventsInv, ListsOwnListeners, HistoryInv, AnswerIsWhatCallbacksDecided, Answered
  <1>19. (\A e \in Events \ refired : FiringInv(Nest(stack), event, e))'
    BY <1>2, <1>3, <1>6, <1>13
  <1>20. (\A e \in Events \ refired : HearingInv(Nest(stack), listenerMap, e))'
    BY <1>2, <1>6, <1>15 DEF HearingInv
  <1>21. EventsInv'
    BY <1>16, <1>17, <1>18, <1>19, <1>20 DEF EventsInv
  <1>22. \A e \in Events : ~ (Answered(e)' /\ ~ Answered(e))
    BY <1>2 DEF Answered
  <1> QED
    BY <1>5, <1>6, <1>14, <1>21, <1>22 DEF Kept

\* The invariant is kept by FireEvent.
LEMMA FireEventStep ==
    ASSUME EventsInv, NEW t \in Threads, NEW o \in Objects, NEW x \in Events, FireEvent(t, o, x)
    PROVE  Kept
  <1>1. TypeOK /\ StackInv(Nest(stack), answer)
    BY DEF EventsInv
  <1>2. /\ InUserCode(t)
        /\ answer[x] = "unfired"
        /\ answer' = [answer EXCEPT ![x] = "none"]
        /\ due' = [due EXCEPT ![x] =
                     {l \in Elems(listenerMap[o]) \cup Elems(listenerMap[Root]) : Hears(l, x)}]
        /\ stack' = [stack EXCEPT ![t] = <<FireFrame(x, o)>> \o @]
        /\ UNCHANGED <<listenerMap, alive, holder, event, called, refired>>
    BY DEF FireEvent, Push, listenerVars
  <1>4. PICK f : f = FireFrame(x, o)
    OBVIOUS
  <1>5. PICK C : C = Nest(stack)
    OBVIOUS
  <1>6. PICK D : D = Nest(stack')
    OBVIOUS
  <1>8. f \in FrameType /\ f.fn = "FireEvent" /\ f.ev = x /\ f.at = "lock" /\ f.obj = o
    BY <1>4, FrameTypes
  <1>9. Replaced(stack, stack', t, <<f>> \o stack[t])
    BY <1>2, <1>4 DEF Replaced
  <1>p10. stack' \in CallsType /\ MakesCall(C, D, t, f)
    BY <1>2, <1>5, <1>6, <1>8, <1>9, PushFacts
  <1>10. /\ D \in CallsType /\ C \in CallsType
         /\ Others(C, D, t) /\ Pushed(C[t], D[t], f)
         /\ t \in Workers => C[t] = <<>>
         /\ \A u \in Threads : \A d \in 1..Len(C[u]) :
               d \in 1..Len(D[u]) /\ D[u][d] = C[u][d]
         /\ Len(C[t]) + 1 \in 1..Len(D[t])
         /\ D[t][Len(C[t]) + 1] = f
         /\ \A u \in Threads : \A d \in 1..Len(D[u]) :
               \/ d \in 1..Len(C[u]) /\ D[u][d] = C[u][d]
               \/ u = t /\ d = Len(C[t]) + 1
    BY <1>p10 DEF MakesCall
  <1>11. ASSUME NEW u \in Threads, NEW d \in 1..Len(C[u])
         PROVE  C[u][d].ev # x /\ FrameInv(C[u][d], answer')
    <2>1. FrameInv(C[u][d], answer)
      BY <1>1, <1>5 DEF StackInv
    <2>2. C[u][d].ev # x
      <3>1. C[u][d].fn = "modify" \/ answer[C[u][d].ev] = "none"
        BY <2>1 DEF FrameInv
      <3>2. C[u][d].fn = "modify" => C[u][d].ev = NoEvent
        BY <2>1 DEF FrameInv
      <3> QED
        BY <1>2, <3>1, <3>2, ThreadFacts
    <2>3. \A e \in Events : e # x => answer'[e] = answer[e]
      BY <1>1, <1>2 DEF TypeOK
    <2> QED
      BY <2>1, <2>2, <2>3 DEF FrameInv
  <1>12. answer'[x] = "none" /\ FrameInv(f, answer')
    <2>1. answer'[x] = "none"
      BY <1>1, <1>2 DEF TypeOK
    <2> QED
      BY <1>8, <2>1 DEF FrameInv
  <1>13. StackInv(D, answer')
    <2>1. f.fn # "callback" /\ \A u \in Threads : \A d \in 1..Len(C[u]) : C[u][d].ev # f.ev
      BY <1>8, <1>11
    <2> QED
      BY <1>1, <1>5, <1>10, <1>11, <1>12, <2>1, StackPush
  <1>14. ASSUME NEW e \in Events \ refired
         PROVE  FiringInv(D, event, e) /\ NoNewRun(C, D, e)
    <2>1. FiringInv(C, event, e)
      BY <1>5 DEF EventsInv
    <2>2. CASE e # x
      <3>1. \A u \in Threads : \A d \in 1..Len(D[u]) : OldFor(C, D, u, d, e)
        BY <1>8, <1>10, <2>2 DEF OldFor
      <3> QED
        BY <1>10, <2>1, <3>1, FiringKept
    <2>3. CASE e = x
      <3>1. ~ event[e].stopped
        BY <1>2, <2>3 DEF EventsInv, HistoryInv
      <3>n. PICK n : n = Len(C[t]) + 1
        OBVIOUS
      <3>2. \A u \in Threads : \A d \in 1..Len(D[u]) :
               D[u][d].ev = e => u = t /\ d = n /\ D[u][d].fn = "FireEvent"
        BY <1>8, <1>10, <1>11, <2>3, <3>n
      <3>c. C \in CallsType /\ D \in CallsType
        BY <1>10
      <3>3. FiringInv(D, event, e)
        BY <3>c, <3>1, <3>2, FiringBegins
      <3>4. NoNewRun(C, D, e)
        BY <3>2, ThreadFacts DEF NoNewRun, Running
      <3> QED
        BY <3>3, <3>4
    <2> QED
      BY <2>2, <2>3
  <1>15. ASSUME NEW e \in Events \ refired, answer'[e] = "none", ~ event[e].stopped,
                NEW l \in due'[e], alive[l] = "live"
         PROVE  l \in called[e] \/ SomeAwaits(D, e, l, listenerMap)
    <2>1. CASE e # x
      <3>1. answer[e] = "none" /\ l \in due[e]
        BY <1>1, <1>2, <1>15, <2>1 DEF TypeOK
      <3>2. l \in called[e] \/ SomeAwaits(C, e, l, listenerMap)
        BY <1>5, <1>15, <3>1 DEF EventsInv, HearingInv
      <3> QED
        BY <1>10, <3>2 DEF SomeAwaits
    <2>2. CASE e = x
      <3>1. l \in Elems(listenerMap[o]) \/ l \in Elems(listenerMap[Root])
        BY <1>1, <1>2, <2>2 DEF TypeOK
      <3>2. Awaits(f, e, l, listenerMap)
        BY <1>8, <2>2, <3>1 DEF Awaits, Firing
      <3> QED
        BY <1>10, <3>2 DEF SomeAwaits
    <2> QED
      BY <2>1, <2>2
  <1>a. Elems(listenerMap[o]) \cup Elems(listenerMap[Root]) \in SUBSET Listeners
    <2>1. listenerMap[o] \in Seq(Listeners) /\ listenerMap[Root] \in Seq(Listeners)
      BY <1>1, ThreadFacts DEF TypeOK
    <2>2. \A s \in Seq(Listeners) : Elems(s) \subseteq Listeners
      BY DEF Elems
    <2> QED
      BY <2>1, <2>2
  <1>16. TypeOK'
    <2>1. answer' \in [Events -> {"unfired", "none", "go", "prevented"}]
      BY <1>1, <1>2 DEF TypeOK
    <2>2. due' \in [Events -> SUBSET Listeners]
      BY <1>1, <1>2, <1>a DEF TypeOK
    <2> QED
      BY <1>1, <1>2, <1>p10, <2>1, <2>2 DEF TypeOK, CallsType
  <1>17. StackInv(Nest(stack), answer)'
    BY <1>6, <1>13
  <1>18. ListsOwnListeners'
    BY <1>2 DEF EventsInv, ListsOwnListeners
  <1>b. HistoryInv'
    <2>1. ASSUME NEW e \in Events, NEW l \in due'[e]
          PROVE  alive[l] # "none" /\ Hears(l, e)
      <3>1. CASE e # x
        <4>1. l \in due[e]
          BY <1>1, <1>2, <3>1 DEF TypeOK
        <4> QED
          BY <4>1 DEF EventsInv, HistoryInv
      <3>2. CASE e = x
        <4>1. Hears(l, e) /\ l \in Listeners /\ \E p \in Objects : l \in Elems(listenerMap[p])
          BY <1>1, <1>2, <1>a, <3>2, ThreadFacts DEF TypeOK
        <4>2. alive[l] = "live"
          BY <4>1 DEF EventsInv, ListsOwnListeners
        <4> QED
          BY <4>1, <4>2
      <3> QED
        BY <3>1, <3>2
    <2>2. ASSUME NEW e \in Events, answer'[e] = "unfired"
          PROVE  answer[e] = "unfired"
      BY <1>1, <1>2, <2>2 DEF TypeOK
    <2> QED
      BY <1>2, <2>1, <2>2 DEF EventsInv, HistoryInv, Hears
  <1>c. AnswerIsWhatCallbacksDecided'
    BY <1>1, <1>2 DEF EventsInv, AnswerIsWhatCallbacksDecided, Answered, TypeOK
  <1>19. (\A e \in Events \ refired : FiringInv(Nest(stack), event, e))'
    BY <1>2, <1>6, <1>14
  <1>20. (\A e \in Events \ refired : HearingInv(Nest(stack), listenerMap, e))'
    BY <1>2, <1>6, <1>15 DEF HearingInv
  <1>21. EventsInv'
    BY <1>16, <1>17, <1>18, <1>19, <1>20, <1>b, <1>c DEF EventsInv
  <1>22. \A e \in Events : ~ (Answered(e)' /\ ~ Answered(e))
    BY <1>1, <1>2 DEF Answered, TypeOK
  <1> QED
    BY <1>5, <1>6, <1>14, <1>21, <1>22 DEF Kept

\* What a change of the lists does to a listener that there was.
KeepsOld(l) ==
    /\ alive'[l] # "none"
    /\ alive'[l] = "live" =>
          /\ alive[l] = "live"
          /\ \A o \in Objects : l \in Elems(listenerMap[o]) => l \in Elems(listenerMap'[o])

\* A call that changes listeners is done.
LEMMA ModifyStep ==
    ASSUME EventsInv, NEW t \in Threads, At(t, "modify", "lock"), Pop(t),
           listenerMap' \in [Objects -> Seq(Listeners)],
           alive' \in [Listeners -> {"none", "live", "deleted"}],
           ListsOwnListeners',
           \A l \in Listeners : alive[l] # "none" => KeepsOld(l),
           UNCHANGED <<holder, event, due, called, refired, answer>>
    PROVE  Kept
  <1>1. TypeOK /\ StackInv(Nest(stack), answer)
    BY DEF EventsInv
  <1>2. PICK C : C = Nest(stack)
    OBVIOUS
  <1>3. PICK D : D = Nest(stack')
    OBVIOUS
  <1>4. PICK n : n = Len(stack[t])
    OBVIOUS
  <1>f. PICK f : f = Top(t)
    OBVIOUS
  <1>a. stack[t] # <<>> /\ f.fn = "modify" /\ f.at = "lock"
    BY <1>f DEF At
  <1>5. /\ stack \in CallsType /\ C \in CallsType /\ n \in Nat /\ n > 0 /\ Len(C[t]) = n
        /\ C[t][n] = f /\ n \in 1..n
    BY <1>1, <1>2, <1>4, <1>a, <1>f, TopFacts
  <1>b. Replaced(stack, stack', t, Tail(stack[t]))
    BY DEF Pop, Replaced
  <1>6. stack' \in CallsType /\ D \in CallsType /\ Others(C, D, t) /\ Popped(C[t], D[t])
    BY <1>2, <1>3, <1>5, <1>a, <1>b, NestPop
  <1>7. Len(D[t]) = n - 1 /\ \A d \in 1..n - 1 : D[t][d] = C[t][d]
    BY <1>5, <1>6 DEF Popped
  <1>8. ASSUME NEW u \in Threads, NEW d \in 1..Len(D[u])
        PROVE  d \in 1..Len(C[u]) /\ D[u][d] = C[u][d]
    <2>1. CASE u # t
      BY <1>6, <2>1 DEF Others
    <2>2. CASE u = t
      BY <1>5, <1>7, <2>2
    <2> QED
      BY <2>1, <2>2
  <1>9. ASSUME NEW u \in Threads, NEW d \in 1..Len(C[u]), ~ (u = t /\ d = n)
        PROVE  d \in 1..Len(D[u]) /\ D[u][d] = C[u][d]
    <2>1. CASE u # t
      BY <1>6, <2>1 DEF Others
    <2>2. CASE u = t
      BY <1>5, <1>7, <1>9, <2>2
    <2> QED
      BY <2>1, <2>2
  <1>10. \A u \in Threads : \A d \in 1..Len(D[u]) : FrameInv(D[u][d], answer)
    BY <1>1, <1>2, <1>8 DEF StackInv
  <1>11. StackInv(D, answer)
    BY <1>1, <1>2, <1>5, <1>6, <1>10, <1>a, StackPop
  <1>12. ASSUME NEW e \in Events \ refired
         PROVE  FiringInv(D, event, e) /\ NoNewRun(C, D, e)
    <2>1. FiringInv(C, event, e)
      BY <1>2 DEF EventsInv
    <2>2. \A u \in Threads : \A d \in 1..Len(D[u]) : OldFor(C, D, u, d, e)
      BY <1>8 DEF OldFor
    <2> QED
      BY <1>5, <1>6, <2>1, <2>2, FiringKept
  <1>13. ASSUME NEW e \in Events, NEW l \in due[e]
         PROVE  l \in Listeners /\ alive[l] # "none" /\ Hears(l, e) /\ KeepsOld(l)
    <2>1. l \in Listeners
      BY <1>1 DEF TypeOK
    <2>2. alive[l] # "none" /\ Hears(l, e)
      BY DEF EventsInv, HistoryInv
    <2> QED
      BY <2>1, <2>2
  <1>14. ASSUME NEW e \in Events \ refired, answer[e] = "none", ~ event[e].stopped,
                NEW l \in due[e], alive'[l] = "live"
         PROVE  l \in called[e] \/ SomeAwaits(D, e, l, listenerMap')
    <2>1. alive[l] = "live" /\
          \A o \in Objects : l \in Elems(listenerMap[o]) => l \in Elems(listenerMap'[o])
      BY <1>13, <1>14 DEF KeepsOld
    <2>2. l \in called[e] \/ SomeAwaits(C, e, l, listenerMap)
      BY <1>2, <1>14, <2>1 DEF EventsInv, HearingInv
    <2>3. CASE SomeAwaits(C, e, l, listenerMap)
      <3>0. PICK u \in Threads : \E d \in 1..Len(C[u]) : Awaits(C[u][d], e, l, listenerMap)
        BY <2>3 DEF SomeAwaits
      <3>1. PICK d \in 1..Len(C[u]) : Awaits(C[u][d], e, l, listenerMap)
        BY <3>0
      <3>2. ~ (u = t /\ d = n)
        BY <1>5, <1>a, <3>1 DEF Awaits, Firing
      <3>3. C[u][d] \in FrameType
        BY <1>5, LenFacts
      <3>4. C[u][d].obj \in Objects /\ Root \in Objects
        BY <3>3, FrameFields, ThreadFacts
      <3>5. Awaits(C[u][d], e, l, listenerMap')
        BY <2>1, <3>1, <3>4 DEF Awaits
      <3>6. d \in 1..Len(D[u]) /\ D[u][d] = C[u][d]
        BY <1>9, <3>2
      <3> QED
        BY <3>5, <3>6 DEF SomeAwaits
    <2> QED
      BY <2>2, <2>3
  <1>15. TypeOK'
    BY <1>1, <1>6 DEF TypeOK, CallsType
  <1>16. StackInv(Nest(stack), answer)'
    BY <1>3, <1>11
  <1>17. AnswerIsWhatCallbacksDecided'
    BY DEF EventsInv, AnswerIsWhatCallbacksDecided, Answered
  <1>18. HistoryInv'
    <2>1. \A e \in Events : \A l \in due[e] : alive'[l] # "none" /\ Hears(l, e)
      BY <1>13 DEF KeepsOld
    <2> QED
      BY <2>1 DEF EventsInv, HistoryInv, Hears
  <1>19. (\A e \in Events \ refired : FiringInv(Nest(stack), event, e))'
    BY <1>3, <1>12
  <1>20. (\A e \in Events \ refired : HearingInv(Nest(stack), listenerMap, e))'
    BY <1>3, <1>14 DEF HearingInv
  <1>21. EventsInv'
    BY <1>15, <1>16, <1>17, <1>18, <1>19, <1>20 DEF EventsInv
  <1>22. \A e \in Events : ~ (Answered(e)' /\ ~ Answered(e))
    BY DEF Answered
  <1> QED
    BY <1>2, <1>3, <1>12, <1>21, <1>22 DEF Kept

\* The invariant is kept by AddEventListener.
LEMMA AddEventListenerStep ==
    ASSUME EventsInv, NEW t \in Threads, NEW o \in Objects, NEW x \in Listeners,
           AddEventListener(t, o, x)
    PROVE  Kept
  <1>1. TypeOK /\ ListsOwnListeners
    BY DEF EventsInv
  <1>2. /\ At(t, "modify", "lock") /\ Pop(t)
        /\ alive[x] = "none"
        /\ alive' = [alive EXCEPT ![x] = "live"]
        /\ listenerMap' = [listenerMap EXCEPT ![o] = Append(@, x)]
        /\ UNCHANGED <<holder, event, due, called, refired, answer>>
    BY DEF AddEventListener, history
  <1>3. PICK s : s = listenerMap[o]
    OBVIOUS
  <1>4. PICK r : r = Append(s, x)
    OBVIOUS
  <1>5. s \in Seq(Listeners)
    BY <1>1, <1>3 DEF TypeOK
  <1>6. PICK n : n = Len(s)
    OBVIOUS
  <1>7. /\ n \in Nat /\ r \in Seq(Listeners) /\ r[n + 1] = x
        /\ DOMAIN s = 1..n /\ DOMAIN r = 1..n + 1
        /\ \A i \in 1..n : r[i] = s[i]
    BY <1>4, <1>5, <1>6
  <1>8. /\ listenerMap'[o] = r
        /\ \A p \in Objects : p # o => listenerMap'[p] = listenerMap[p]
        /\ listenerMap' \in [Objects -> Seq(Listeners)]
    BY <1>1, <1>2, <1>3, <1>4, <1>7 DEF TypeOK
  <1>9. /\ alive'[x] = "live"
        /\ \A l \in Listeners : l # x => alive'[l] = alive[l]
        /\ alive' \in [Listeners -> {"none", "live", "deleted"}]
    BY <1>1, <1>2 DEF TypeOK
  <1>10. \A i \in 1..n + 1 : i \in 1..n \/ i = n + 1
    BY <1>7
  <1>11. \A l : l \in Elems(r) <=> l \in Elems(s) \/ l = x
    <2>1. \A i \in 1..n : i \in 1..n + 1
      BY <1>7
    <2>2. n + 1 \in 1..n + 1
      BY <1>7
    <2> QED
      BY <1>7, <1>10, <2>1, <2>2 DEF Elems
  <1>12. \A p \in Objects : \A i \in DOMAIN listenerMap[p] : listenerMap[p][i] # x
    <2>1. \A p \in Objects : x \notin Elems(listenerMap[p])
      BY <1>1, <1>2 DEF ListsOwnListeners
    <2> QED
      BY <2>1 DEF Elems
  <1>13. ASSUME NEW l \in Listeners
         PROVE  alive'[l] = "live" <=> \E p \in Objects : l \in Elems(listenerMap'[p])
    <2>1. CASE l = x
      BY <1>8, <1>9, <1>11, <2>1
    <2>2. CASE l # x
      <3>1. alive[l] = "live" <=> \E p \in Objects : l \in Elems(listenerMap[p])
        BY <1>1 DEF ListsOwnListeners
      <3>2. \A p \in Objects : l \in Elems(listenerMap'[p]) <=> l \in Elems(listenerMap[p])
        BY <1>3, <1>8, <1>11, <2>2
      <3> QED
        BY <1>9, <2>2, <3>1, <3>2
    <2> QED
      BY <2>1, <2>2
  <1>14. ASSUME NEW p \in Objects, NEW q \in Objects,
                NEW i \in DOMAIN listenerMap'[p], NEW k \in DOMAIN listenerMap'[q],
                listenerMap'[p][i] = listenerMap'[q][k]
         PROVE  p = q /\ i = k
    <2>1. \A u \in Objects : \A j \in DOMAIN listenerMap'[u] :
             \/ j \in DOMAIN listenerMap[u] /\ listenerMap'[u][j] = listenerMap[u][j]
             \/ u = o /\ j = n + 1 /\ listenerMap'[u][j] = x
      BY <1>3, <1>7, <1>8, <1>10
    <2>2. CASE i \in DOMAIN listenerMap[p] /\ listenerMap'[p][i] = listenerMap[p][i]
      <3>1. k \in DOMAIN listenerMap[q] /\ listenerMap'[q][k] = listenerMap[q][k]
        BY <1>12, <1>14, <2>1, <2>2
      <3>2. listenerMap[p][i] = listenerMap[q][k]
        BY <1>14, <2>2, <3>1
      <3> QED
        BY <1>1, <2>2, <3>1, <3>2 DEF ListsOwnListeners
    <2>3. CASE p = o /\ i = n + 1 /\ listenerMap'[p][i] = x
      BY <1>12, <1>14, <2>1, <2>3
    <2> QED
      BY <2>1, <2>2, <2>3
  <1>15. ListsOwnListeners'
    BY <1>13, <1>14 DEF ListsOwnListeners
  <1>16. ASSUME NEW l \in Listeners, alive[l] # "none"
         PROVE  KeepsOld(l)
    <2>1. l # x
      BY <1>2, <1>16
    <2>2. \A p \in Objects : l \in Elems(listenerMap[p]) => l \in Elems(listenerMap'[p])
      BY <1>3, <1>8, <1>11
    <2> QED
      BY <1>9, <1>16, <2>1, <2>2 DEF KeepsOld
  <1> QED
    BY <1>2, <1>8, <1>9, <1>15, <1>16, ModifyStep

\* The invariant is kept by RemoveEventListener.
LEMMA RemoveEventListenerStep ==
    ASSUME EventsInv, NEW t \in Threads, NEW o \in Objects, NEW name, NEW id, NEW callback,
           RemoveEventListener(t, o, name, id, callback)
    PROVE  Kept
  <1>1. TypeOK /\ ListsOwnListeners
    BY DEF EventsInv
  <1>g. PICK gone : gone = {l \in Elems(listenerMap[o]) : Matches(l, name, id, callback)}
    OBVIOUS
  <1>2. /\ At(t, "modify", "lock") /\ Pop(t)
        /\ alive' = [l \in Listeners |-> IF l \in gone THEN "deleted" ELSE alive[l]]
        /\ listenerMap' = [listenerMap EXCEPT ![o] = Without(@, gone)]
        /\ UNCHANGED <<holder, event, due, called, refired, answer>>
    BY <1>g DEF RemoveEventListener, history
  <1>3. PICK s : s = listenerMap[o]
    OBVIOUS
  <1>4. PICK r : r = Without(s, gone)
    OBVIOUS
  <1>5. s \in Seq(Listeners)
    BY <1>1, <1>3 DEF TypeOK
  <1>6. /\ r \in Seq(Listeners) /\ Elems(r) = Elems(s) \ gone
        /\ (\A i, k \in 1..Len(s) : s[i] = s[k] => i = k) =>
               \A i, k \in 1..Len(r) : r[i] = r[k] => i = k
    BY <1>4, <1>5, WithoutElems
  <1>7. DOMAIN s = 1..Len(s) /\ DOMAIN r = 1..Len(r)
    BY <1>5, <1>6
  <1>8. /\ listenerMap'[o] = r
        /\ \A p \in Objects : p # o => listenerMap'[p] = listenerMap[p]
        /\ listenerMap' \in [Objects -> Seq(Listeners)]
    BY <1>1, <1>2, <1>3, <1>4, <1>6 DEF TypeOK
  <1>9. /\ \A l \in Listeners : /\ l \in gone => alive'[l] = "deleted"
                                /\ l \notin gone => alive'[l] = alive[l]
        /\ alive' \in [Listeners -> {"none", "live", "deleted"}]
    BY <1>1, <1>2 DEF TypeOK
  <1>10. \A p \in Objects : \A l : l \in Elems(listenerMap[p]) <=>
            \E i \in DOMAIN listenerMap[p] : listenerMap[p][i] = l
    BY DEF Elems
  <1>11. ASSUME NEW p \in Objects, NEW l \in gone, l \in Elems(listenerMap[p])
         PROVE  p = o
    <2>1. l \in Elems(listenerMap[o])
      BY <1>g
    <2>2. PICK i \in DOMAIN listenerMap[p] : listenerMap[p][i] = l
      BY <1>10, <1>11
    <2>3. PICK k \in DOMAIN listenerMap[o] : listenerMap[o][k] = l
      BY <1>10, <2>1
    <2> QED
      BY <1>1, <2>2, <2>3 DEF ListsOwnListeners
  <1>12. \A p \in Objects : \A l : l \in Elems(listenerMap'[p]) <=>
            l \in Elems(listenerMap[p]) /\ l \notin gone
    BY <1>3, <1>6, <1>8, <1>11
  <1>13. ASSUME NEW l \in Listeners
         PROVE  alive'[l] = "live" <=> \E p \in Objects : l \in Elems(listenerMap'[p])
    <2>1. CASE l \in gone
      BY <1>9, <1>12, <2>1
    <2>2. CASE l \notin gone
      <3>1. alive[l] = "live" <=> \E p \in Objects : l \in Elems(listenerMap[p])
        BY <1>1 DEF ListsOwnListeners
      <3> QED
        BY <1>9, <1>12, <2>2, <3>1
    <2> QED
      BY <2>1, <2>2
  <1>14. ASSUME NEW p \in Objects, NEW q \in Objects,
                NEW i \in DOMAIN listenerMap'[p], NEW k \in DOMAIN listenerMap'[q],
                listenerMap'[p][i] = listenerMap'[q][k]
         PROVE  p = q /\ i = k
    <2>1. PICK l : l = listenerMap'[p][i] /\ l = listenerMap'[q][k]
      BY <1>14
    <2>2. l \in Elems(listenerMap'[p]) /\ l \in Elems(listenerMap'[q])
      BY <2>1 DEF Elems
    <2>3. l \in Elems(listenerMap[p]) /\ l \in Elems(listenerMap[q])
      BY <1>12, <2>2
    <2>4. p = q
      <3>1. PICK a \in DOMAIN listenerMap[p] : listenerMap[p][a] = l
        BY <1>10, <2>3
      <3>2. PICK b \in DOMAIN listenerMap[q] : listenerMap[q][b] = l
        BY <1>10, <2>3
      <3> QED
        BY <1>1, <3>1, <3>2 DEF ListsOwnListeners
    <2>5. CASE p # o
      BY <1>1, <1>8, <1>14, <2>4, <2>5 DEF ListsOwnListeners
    <2>6. CASE p = o
      <3>1. \A a, b \in 1..Len(s) : s[a] = s[b] => a = b
        BY <1>1, <1>3, <1>7 DEF ListsOwnListeners
      <3>2. i \in 1..Len(r) /\ k \in 1..Len(r) /\ r[i] = r[k]
        BY <1>7, <1>8, <1>14, <2>4, <2>6
      <3> QED
        BY <1>6, <2>4, <3>1, <3>2
    <2> QED
      BY <2>5, <2>6
  <1>15. ListsOwnListeners'
    BY <1>13, <1>14 DEF ListsOwnListeners
  <1>16. ASSUME NEW l \in Listeners, alive[l] # "none"
         PROVE  KeepsOld(l)
    <2>1. CASE l \in gone
      BY <1>9, <2>1 DEF KeepsOld
    <2>2. CASE l \notin gone
      <3>1. alive'[l] = alive[l]
        BY <1>9, <2>2
      <3> QED
        BY <1>12, <1>16, <2>2, <3>1 DEF KeepsOld
    <2> QED
      BY <2>1, <2>2
  <1> QED
    BY <1>2, <1>8, <1>9, <1>15, <1>16, ModifyStep

-----------------------------------------------------------------------------
(* The invariant and the theorems.                                          *)

\* The invariant holds initially.
LEMMA EventsInvInit ==
    ASSUME Init
    PROVE  EventsInv
  <1>1. TypeOK
    <2>1. <<>> \in Seq(Listeners) /\ <<>> \in Seq(FrameType)
      OBVIOUS
    <2>2. NoThread \in Threads \cup {NoThread}
      OBVIOUS
    <2>3. [stopped |-> FALSE, preventedDefault |-> FALSE]
             \in [stopped : BOOLEAN, preventedDefault : BOOLEAN]
      OBVIOUS
    <2> QED
      BY <2>1, <2>2, <2>3 DEF Init, TypeOK
  <1>2. \A t \in Threads : Nest(stack)[t] = <<>> /\ Len(Nest(stack)[t]) = 0
    <2>1. stack \in CallsType /\ \A t \in Threads : stack[t] = <<>>
      BY <1>1 DEF Init, TypeOK, CallsType
    <2>2. \A t \in Threads : Nest(stack)[t] = <<>> /\ Len(Nest(stack)[t]) = Len(stack[t])
      BY <2>1, NestFacts
    <2> QED
      BY <2>1, <2>2
  <1>3. 1..0 = {}
    OBVIOUS
  <1>4. StackInv(Nest(stack), answer)
    BY <1>2, <1>3, ThreadFacts DEF StackInv, WorkerInv, OneThreadFires
  <1>5. ListsOwnListeners
    <2>1. \A o \in Objects : DOMAIN listenerMap[o] = {} /\ Elems(listenerMap[o]) = {}
      BY DEF Init, Elems
    <2>2. \A l \in Listeners : alive[l] = "none"
      BY DEF Init
    <2> QED
      BY <2>1, <2>2 DEF ListsOwnListeners
  <1>6. HistoryInv
    <2>1. \A e \in Events : due[e] = {} /\ ~ event[e].stopped /\ ~ event[e].preventedDefault
      BY DEF Init
    <2> QED
      BY <2>1 DEF HistoryInv
  <1>7. AnswerIsWhatCallbacksDecided
    BY DEF Init, AnswerIsWhatCallbacksDecided, Answered
  <1>8. \A e \in Events : FiringInv(Nest(stack), event, e)
    BY <1>2, <1>3, ThreadFacts DEF Init, FiringInv, OneFires, Paused, OneRuns, Stopping
  <1>9. \A e \in Events : HearingInv(Nest(stack), listenerMap, e)
    BY DEF Init, HearingInv
  <1> QED
    BY <1>1, <1>4, <1>5, <1>6, <1>7, <1>8, <1>9 DEF EventsInv

\* The steps of a dispatch, together.
LEMMA FireStep ==
    ASSUME EventsInv, NEW t \in Threads, Fire(t)
    PROVE  Kept
  <1>1. CASE FireCopy(t)
    BY <1>1, FireCopyStep
  <1>2. CASE FireCall(t)
    <2>1. CASE t = Main
      BY <1>2, <2>1, FireCallMainStep
    <2>2. CASE t # Main
      <3>1. t \in Workers
        BY <2>2, ThreadFacts
      <3> QED
        BY <1>2, <3>1, FireCallWorkerStep
    <2> QED
      BY <2>1, <2>2
  <1>3. CASE FireSkip(t)
    BY <1>3, FireSkipStep
  <1>4. CASE FireCheck(t)
    BY <1>4, FireCheckStep
  <1>5. CASE FireRoot(t)
    BY <1>5, FireRootStep
  <1>6. CASE FireReturn(t)
    BY <1>6, FireReturnStep
  <1> QED
    BY <1>1, <1>2, <1>3, <1>4, <1>5, <1>6 DEF Fire

\* Every step keeps the invariant: one case per action.
LEMMA EventsInvNext ==
    ASSUME EventsInv, Next
    PROVE  Kept
  <1>1. ASSUME NEW t \in Threads, BeginModify(t)
        PROVE  Kept
    BY <1>1, BeginModifyStep
  <1>2. ASSUME NEW t \in Threads, Modify(t)
        PROVE  Kept
    <2>1. PICK o \in Objects :
             \/ \E l \in Listeners : AddEventListener(t, o, l)
             \/ \E n \in Names, c \in Callbacks : RemoveEventListener(t, o, n, NoListener, c)
             \/ \E n \in Names, l \in Listeners \cup {NoListener} :
                   RemoveEventListener(t, o, n, l, NoCallback)
      BY <1>2 DEF Modify
    <2>2. CASE \E l \in Listeners : AddEventListener(t, o, l)
      BY <2>2, AddEventListenerStep
    <2>3. CASE \E n, l, c : RemoveEventListener(t, o, n, l, c)
      BY <2>3, RemoveEventListenerStep
    <2> QED
      BY <2>1, <2>2, <2>3
  <1>3. ASSUME NEW t \in Threads, NEW o \in Objects, NEW e \in Events, FireEvent(t, o, e)
        PROVE  Kept
    BY <1>3, FireEventStep
  <1>4. ASSUME NEW t \in Threads, FireLock(t)
        PROVE  Kept
    BY <1>4, FireLockStep
  <1>5. ASSUME NEW t \in Threads, Fire(t)
        PROVE  Kept
    BY <1>5, FireStep
  <1>6. ASSUME NEW w \in Workers, ServeCall(w)
        PROVE  Kept
    BY <1>6, ServeCallStep
  <1>7. CASE RefireEvent
    BY <1>7, RefireEventStep
  <1>8. CASE CallbackReturn
    BY <1>8, CallbackReturnStep
  <1>9. CASE PreventDefault \/ StopPropagation
    BY <1>9, DecideStep
  <1> QED
    BY <1>1, <1>2, <1>3, <1>4, <1>5, <1>6, <1>7, <1>8, <1>9 DEF Next

\* Nothing changes in a stuttering step.
LEMMA EventsInvStutters ==
    ASSUME EventsInv, UNCHANGED vars
    PROVE  EventsInv'
  <1>1. /\ listenerMap' = listenerMap /\ holder' = holder /\ alive' = alive /\ event' = event
        /\ stack' = stack /\ due' = due /\ called' = called /\ refired' = refired
        /\ answer' = answer
    BY DEF vars
  <1>2. TypeOK'
    BY <1>1 DEF EventsInv, TypeOK
  <1>3. StackInv(Nest(stack), answer)'
    BY <1>1 DEF EventsInv
  <1>4. ListsOwnListeners' /\ HistoryInv' /\ AnswerIsWhatCallbacksDecided'
    BY <1>1 DEF EventsInv, ListsOwnListeners, HistoryInv, AnswerIsWhatCallbacksDecided, Answered
  <1>5. (\A e \in Events \ refired : FiringInv(Nest(stack), event, e))'
    BY <1>1 DEF EventsInv
  <1>6. (\A e \in Events \ refired : HearingInv(Nest(stack), listenerMap, e))'
    BY <1>1 DEF EventsInv, HearingInv
  <1> QED
    BY <1>2, <1>3, <1>4, <1>5, <1>6 DEF EventsInv

\* The inductive invariant holds in every state.
LEMMA EventsInvHolds == Spec => []EventsInv
  <1>1. Init => EventsInv
    BY EventsInvInit
  <1>2. EventsInv /\ [Next]_vars => EventsInv'
    <2>1. EventsInv /\ Next => EventsInv'
      BY EventsInvNext DEF Kept
    <2>2. EventsInv /\ UNCHANGED vars => EventsInv'
      BY EventsInvStutters
    <2> QED
      BY <2>1, <2>2
  <1> QED
    BY <1>1, <1>2, PTL DEF Spec

\* The state of event objects and of the calls into them has its type, however
\* deep callbacks nest (k_event_object.cpp:44-152).
THEOREM EventsTypeCorrect == Spec => []TypeOK
  <1>1. EventsInv => TypeOK
    BY DEF EventsInv
  <1> QED
    BY <1>1, EventsInvHolds, PTL

\* A listener exists exactly while it is in a list, in one and once, whatever
\* threads and callbacks add and remove (k_event_object.cpp:73-98).
THEOREM ListsOwn == Spec => []ListsOwnListeners
  <1>1. EventsInv => ListsOwnListeners
    BY DEF EventsInv
  <1> QED
    BY <1>1, EventsInvHolds, PTL

\* FireEvent answers what the callbacks decided: a prevention is not lost between
\* the threads (k_event_object.cpp:145,151).
THEOREM AnswersAreDecisions == Spec => []AnswerIsWhatCallbacksDecided
  <1>1. EventsInv => AnswerIsWhatCallbacksDecided
    BY DEF EventsInv
  <1> QED
    BY <1>1, EventsInvHolds, PTL

\* When FireEvent returns and the event was not stopped, every listener it was
\* meant for and that still exists has been called (k_event_object.cpp:127-152).
THEOREM EveryoneHears == Spec => EveryListenerHears
  <1>1. EventsInv /\ [Next]_vars =>
          [\A e \in Events \ refired :
              (Answered(e)' /\ ~ Answered(e) /\ ~ event[e].stopped) =>
                  \A l \in due[e] : alive[l] = "live" => l \in called[e]]_vars
    BY EventsInvNext DEF Kept
  <1> QED
    BY <1>1, EventsInvHolds, PTL DEF Spec, EveryListenerHears

\* The callbacks a thread runs with an event are not more than before when none
\* begins.
LEMMA NoMoreRun ==
    ASSUME NEW st \in CallsType, NEW st2 \in CallsType, NEW e,
           NoNewRun(Nest(st), Nest(st2), e)
    PROVE  Cardinality({i \in DOMAIN st2[Main] : st2[Main][i].fn = "callback" /\ st2[Main][i].ev = e})
             <= Cardinality({i \in DOMAIN st[Main] : st[Main][i].fn = "callback" /\ st[Main][i].ev = e})
  <1>0. Main \in Threads
    BY ThreadFacts
  <1>1. PICK n, m : n = Len(st[Main]) /\ m = Len(st2[Main])
    OBVIOUS
  <1>2. /\ n \in Nat /\ DOMAIN st[Main] = 1..n /\ Len(Nest(st)[Main]) = n
        /\ \A d \in 1..n : Nest(st)[Main][d] = st[Main][n + 1 - d]
    <2>1. st[Main] \in Seq(FrameType)
      BY <1>0 DEF CallsType
    <2>2. DOMAIN st[Main] = 1..n
      BY <1>1, <2>1
    <2>3. \A d \in 1..n : Nest(st)[Main][d] = st[Main][n + 1 - d]
      BY <1>0, <1>1, NestFacts
    <2> QED
      BY <1>0, <1>1, <2>2, <2>3, NestFacts
  <1>3. /\ m \in Nat /\ DOMAIN st2[Main] = 1..m /\ Len(Nest(st2)[Main]) = m
        /\ \A i \in 1..m : Nest(st2)[Main][m + 1 - i] = st2[Main][i]
    <2>1. st2[Main] \in Seq(FrameType)
      BY <1>0 DEF CallsType
    <2> QED
      BY <1>0, <1>1, <2>1, NestFacts
  <1>4. PICK A : A = {i \in 1..n : st[Main][i].fn = "callback" /\ st[Main][i].ev = e}
    OBVIOUS
  <1>5. PICK B : B = {i \in 1..m : st2[Main][i].fn = "callback" /\ st2[Main][i].ev = e}
    OBVIOUS
  <1>6. ASSUME NEW i \in B
        PROVE  n - m + i \in A
    <2>1. i \in 1..m /\ st2[Main][i].fn = "callback" /\ st2[Main][i].ev = e
      BY <1>5
    <2>2. PICK d \in Int : d = m + 1 - i
      BY <1>3, <2>1
    <2>3. d \in 1..m /\ Nest(st2)[Main][d] = st2[Main][i]
      BY <1>3, <2>1, <2>2
    <2>4. Running(Nest(st2)[Main][d], e)
      BY <2>1, <2>3 DEF Running
    <2>5. d \in 1..n /\ Running(Nest(st)[Main][d], e)
      BY <1>2, <1>3, <2>3, <2>4 DEF NoNewRun
    <2>6. n + 1 - d = n - m + i /\ n + 1 - d \in 1..n
      BY <1>2, <1>3, <2>1, <2>2, <2>5
    <2>7. st[Main][n + 1 - d].fn = "callback" /\ st[Main][n + 1 - d].ev = e
      BY <1>2, <2>5 DEF Running
    <2> QED
      BY <1>4, <2>6, <2>7
  <1>7. PICK g : g = [i \in B |-> n - m + i]
    OBVIOUS
  <1>8. g \in Injection(B, A)
    <2>1. g \in [B -> A]
      BY <1>6, <1>7
    <2>2. \A i, k \in B : g[i] = g[k] => i = k
      <3>1. \A i \in B : i \in Int
        BY <1>3, <1>5
      <3> QED
        BY <1>2, <1>3, <1>7, <3>1
    <2> QED
      BY <2>1, <2>2 DEF Injection, IsInjective
  <1>9. IsFiniteSet(A)
    <2>1. IsFiniteSet(1..n) /\ A \subseteq 1..n
      BY <1>2, <1>4, FS_Interval
    <2> QED
      BY <2>1, FS_Subset
  <1>10. Cardinality(B) <= Cardinality(A)
    BY <1>8, <1>9, FS_Injection
  <1> QED
    BY <1>2, <1>3, <1>4, <1>5, <1>10

\* Once a callback has stopped an event no other one begins to run with it
\* (k_event_object.cpp:144-145).
THEOREM StoppedGoesNoFurther == Spec => StoppedEventGoesNoFurther
  <1>1. EventsInv /\ Next =>
          \A e \in Events \ refired : event[e].stopped => Calls(e)' <= Calls(e)
    <2> SUFFICES ASSUME EventsInv, Next, NEW e \in Events \ refired, event[e].stopped
                 PROVE  Calls(e)' <= Calls(e)
      OBVIOUS
    <2>1. EventsInv' /\ NoNewRun(Nest(stack), Nest(stack'), e)
      BY EventsInvNext DEF Kept
    <2>2. stack \in CallsType /\ stack' \in CallsType
      BY <2>1 DEF EventsInv, TypeOK, CallsType
    <2> QED
      BY <2>1, <2>2, NoMoreRun DEF Calls
  <1>2. EventsInv /\ [Next]_vars =>
          [\A e \in Events \ refired : event[e].stopped => Calls(e)' <= Calls(e)]_vars
    BY <1>1
  <1> QED
    BY <1>2, EventsInvHolds, PTL DEF Spec, StoppedEventGoesNoFurther
=============================================================================
