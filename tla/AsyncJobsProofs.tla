--------------------------- MODULE AsyncJobsProofs ---------------------------
(***************************************************************************)
(* Theorems about AsyncJobs for every set of jobs and of requests and for   *)
(* every bound: the installer serves its own call, the references of a job  *)
(* are counted right, and callbacks are told of the outcome once.           *)
(***************************************************************************)
EXTENDS AsyncJobs, FiniteSetTheorems, TLAPS

-----------------------------------------------------------------------------
(* The inductive invariants.                                                *)

CallRecords ==
    [kind : Kinds, job : AsyncJobs, callback : 1..MaxCallbacks]
        \cup [kind : {"installed"}, job : {NoAsyncJob}, callback : Requests \cup {NoRequest}]

JobRecords ==
    [count : Nat, sharedThis : BOOLEAN, completed : BOOLEAN, hadError : BOOLEAN,
     cancelled : BOOLEAN, progress : 0..2]

ControlRecords ==
    [at : {"none", "idle", "executing", "reporting", "adapter", "done",
           "escaped"},
     thread : {"none", "own", "main"}, loop : Kinds \cup {"none"},
     i : 1..MaxCallbacks + 1, raced : BOOLEAN, changes : 0..MaxProgress,
     due : 0..MaxCallbacks]

AsyncTypes ==
    /\ AsyncJobsTypeOK
    /\ calls \in Seq(CallRecords)
    /\ main = "call" => turn <= Len(calls)

\* Between taking the mutex and giving it back, the installer's fields are those
\* of the one request that has it.
InstallerOwned ==
    \A r \in Requests :
        /\ install[r].at \in {"started", "installing", "installed", "posted"} =>
              installer = [locked |-> TRUE, dependencies |-> r, callback |-> r]
        /\ install[r].ran \in {r, NoRequest}
        /\ install[r].told \in {r, NoRequest}

\* sharedThis is set from the constructor to the end of Run, and the job's thread
\* walks over callbacks in between only.
RunPhases ==
    \A j \in AsyncJobs :
        /\ job[j].sharedThis <=> control[j].at \in {"idle", "executing", "reporting", "escaped"}
        /\ control[j].loop # "none" => control[j].at \in {"executing", "reporting"}
        /\ control[j].loop \in {"completed", "error"} <=>
              control[j].loop # "none" /\ control[j].at = "reporting"

\* The places of the calls that are still to be served, or being served, and hold
\* a reference to the job.
Places(s, t, j) == {i \in t..Len(s) : s[i].job = j}
CallsOf(j) == Places(calls, turn, j)

\* A job's count is the number of its references: its own, the main thread's and
\* one for each posted call.
CountIsReferences ==
    \A j \in AsyncJobs :
        job[j].count = (IF job[j].sharedThis THEN 1 ELSE 0)
                          + (IF j \in held THEN 1 ELSE 0) + Cardinality(CallsOf(j))

\* Nobody knows of a job that was not created.
UnbornUnknown ==
    \A j \in AsyncJobs :
        control[j].at = "none" =>
            /\ j \notin held
            /\ \A i \in 1..Len(calls) : calls[i].job # j

RefInv == AsyncTypes /\ RunPhases /\ CountIsReferences /\ UnbornUnknown

Early == {"none", "idle", "executing", "escaped"}
Late == {"reporting", "adapter", "done"}

\* The outcome's kind of a job whose run has an outcome.
OutcomeKind(j) == IF job[j].hadError THEN "error" ELSE "completed"

\* A job has no outcome before its code is over, and then one; its callbacks
\* loop over that kind; calls of its outcome name the kind.
OneOutcome(j) ==
    /\ control[j].at \in Early => ~ job[j].completed /\ ~ job[j].hadError
    /\ control[j].at \in Late => job[j].completed = ~ job[j].hadError
    /\ control[j].at = "reporting" => control[j].loop \in {OutcomeKind(j), "none"}
    /\ \A i \in 1..Len(calls) :
          calls[i].job = j /\ calls[i].kind # "progress" =>
              control[j].at \in Late /\ calls[i].kind = OutcomeKind(j)

PostedOnce(j, k, n) == \E p \in 1..Len(calls) : {i \in 1..Len(calls) : calls[i] = JobCall(j, k, n)} = {p}
NotPosted(j, k, n) == \A i \in 1..Len(calls) : calls[i] # JobCall(j, k, n)

\* Of the callbacks of the outcome, those the loop has passed were posted once and
\* the others not yet; when the loop is over, those that were due were posted.
LoopProgress(j) ==
    control[j].at \in Late =>
        /\ control[j].due <= callbacks[j][OutcomeKind(j)]
        /\ control[j].at = "reporting" /\ control[j].loop # "none" =>
              \A n \in 1..MaxCallbacks :
                 IF n < control[j].i THEN PostedOnce(j, OutcomeKind(j), n)
                                     ELSE NotPosted(j, OutcomeKind(j), n)
        /\ control[j].loop = "none" =>
              \A n \in 1..control[j].due : PostedOnce(j, OutcomeKind(j), n)

OutcomeInv == \A j \in AsyncJobs : OneOutcome(j) /\ LoopProgress(j)

-----------------------------------------------------------------------------
(* Types.                                                                   *)

\* The state in the parts that steps change together.
JobTypes == job \in [AsyncJobs -> JobRecords]
ControlTypes == control \in [AsyncJobs -> ControlRecords]
CallbackTypes == callbacks \in [AsyncJobs -> [Kinds -> 0..MaxCallbacks]] /\ held \subseteq AsyncJobs
CallTypes ==
    /\ calls \in Seq(CallRecords)
    /\ turn \in 1..Len(calls) + 1
    /\ main \in {"idle", "call", "run"}
    /\ main = "call" => turn <= Len(calls)
    /\ threw \subseteq (1..turn - 1) \X (0..MaxCallbacks)
InstallTypes ==
    /\ installer \in [locked : BOOLEAN, dependencies : Requests \cup {NoRequest},
                      callback : Requests \cup {NoRequest}]
    /\ install \in [Requests ->
          [at : {"none", "refused", "started", "installing", "installed", "posted", "done"},
           ran : Requests \cup {NoRequest}, told : Requests \cup {NoRequest}]]

\* The type invariant is that of jobs, threads, callbacks, calls and the installer.
LEMMA TypeParts ==
    AsyncTypes <=> /\ JobTypes /\ ControlTypes /\ CallbackTypes
                   /\ CallTypes /\ InstallTypes /\ crashed \in BOOLEAN
  BY DEF AsyncTypes, AsyncJobsTypeOK, JobTypes, ControlTypes, CallbackTypes,
         CallTypes, InstallTypes, JobRecords, ControlRecords

\* The same after a step.
LEMMA TypePartsNext ==
    AsyncTypes' <=> /\ JobTypes' /\ ControlTypes' /\ CallbackTypes'
                    /\ CallTypes' /\ InstallTypes' /\ crashed' \in BOOLEAN
  BY DEF AsyncTypes, AsyncJobsTypeOK, JobTypes, ControlTypes, CallbackTypes,
         CallTypes, InstallTypes, JobRecords, ControlRecords

\* One job's fields are changed.
LEMMA JobChanged ==
    ASSUME JobTypes, NEW j \in AsyncJobs, NEW r \in JobRecords,
           job' = [job EXCEPT ![j] = r]
    PROVE  /\ JobTypes'
           /\ job'[j] = r
           /\ \A q \in AsyncJobs : q # j => job'[q] = job[q]
  BY DEF JobTypes

\* One job's thread moves.
LEMMA ControlChanged ==
    ASSUME ControlTypes, NEW j \in AsyncJobs, NEW c \in ControlRecords,
           control' = [control EXCEPT ![j] = c]
    PROVE  /\ ControlTypes'
           /\ control'[j] = c
           /\ \A q \in AsyncJobs : q # j => control'[q] = control[q]
  BY DEF ControlTypes

\* A count is changed.
LEMMA CountChanged ==
    ASSUME NEW r \in JobRecords, NEW n \in Nat
    PROVE  /\ [r EXCEPT !.count = n] \in JobRecords
           /\ [r EXCEPT !.count = n].count = n
           /\ [r EXCEPT !.count = n].sharedThis = r.sharedThis
           /\ [r EXCEPT !.count = n].completed = r.completed
           /\ [r EXCEPT !.count = n].hadError = r.hadError
  BY DEF JobRecords

\* A loop over the callbacks of a kind starts.
LEMMA LoopStarted ==
    ASSUME NEW c \in ControlRecords, NEW k \in Kinds
    PROVE  /\ StartLoop(c, k) \in ControlRecords
           /\ StartLoop(c, k).at = c.at
           /\ StartLoop(c, k).loop = k
           /\ StartLoop(c, k).i = 1
           /\ StartLoop(c, k).due = c.due
           /\ StartLoop(c, k).raced = c.raced
  <1>1. 1 \in 1..MaxCallbacks + 1
    BY AsyncJobsAssumption
  <1> DEFINE d == [c EXCEPT !.loop = k]
  <1>2. /\ d \in ControlRecords /\ d.at = c.at /\ d.loop = k /\ d.due = c.due
        /\ d.raced = c.raced
    BY DEF ControlRecords
  <1>3. StartLoop(c, k) = [d EXCEPT !.i = 1]
    BY DEF StartLoop
  <1> HIDE DEF d
  <1> QED
    BY <1>1, <1>2, <1>3 DEF ControlRecords
-----------------------------------------------------------------------------
(* The installer.                                                           *)

\* Initially no installation is under way.
LEMMA InstallerOwnedInit == AsyncJobsInit => InstallerOwned
  BY DEF AsyncJobsInit, InstallerOwned

\* Every step keeps the installer mutex with the call that took it.
LEMMA InstallerOwnedNext ==
    AsyncTypes /\ InstallerOwned /\ [AsyncJobsNext]_asyncVars => InstallerOwned'
  <1> SUFFICES ASSUME AsyncTypes, InstallerOwned, [AsyncJobsNext]_asyncVars
               PROVE  InstallerOwned'
    OBVIOUS
  <1> USE DEF InstallerOwned, AsyncTypes, AsyncJobsTypeOK
  <1>1. ASSUME NEW r \in Requests, InstallDependencies(r)
        PROVE  InstallerOwned'
    <2>1. CASE installer.locked
      <3>1. /\ install' = [install EXCEPT ![r].at = "refused"]
            /\ installer' = installer
        BY <1>1, <2>1 DEF InstallDependencies
      <3> QED
        BY <3>1
    <2>2. CASE ~ installer.locked
      <3>1. /\ install[r].at = "none"
            /\ install' = [install EXCEPT ![r].at = "started"]
            /\ installer' = [locked |-> TRUE, dependencies |-> r, callback |-> r]
        BY <1>1, <2>2 DEF InstallDependencies
      <3>2. \A q \in Requests :
                install[q].at \notin {"started", "installing", "installed", "posted"}
        BY <2>2
      <3> QED
        BY <3>1, <3>2
    <2> QED
      BY <2>1, <2>2
  <1>2. ASSUME NEW r \in Requests, BeginInstaller(r)
        PROVE  InstallerOwned'
    BY <1>2 DEF BeginInstaller
  <1>3. ASSUME NEW r \in Requests, EndInstaller(r)
        PROVE  InstallerOwned'
    BY <1>3 DEF EndInstaller
  <1>4. ASSUME NEW r \in Requests, PostInstalled(r)
        PROVE  InstallerOwned'
    BY <1>4 DEF PostInstalled
  <1>5. ASSUME NEW r \in Requests, UnlockInstaller(r)
        PROVE  InstallerOwned'
    <2>1. /\ install[r].at = "posted"
          /\ install' = [install EXCEPT ![r].at = "done"]
      BY <1>5 DEF UnlockInstaller
    <2>2. \A q \in Requests : q # r =>
              install[q].at \notin {"started", "installing", "installed", "posted"}
      BY <2>1
    <2> QED
      BY <2>1, <2>2
  <1>6. CASE JobStep
    <2>1. UNCHANGED installVars
      BY <1>6 DEF JobStep, NewJob, Hold, DropHeld, Cancel, RunAsynchronously,
                  RunSynchronously, Returns, Throws, Escapes, DoCallback, LoopEnds,
                  LoopRunsAway, EndRun, DeleteAdapter, AddCallback, SetProgress
    <2> QED
      BY <2>1 DEF installVars
  <1>7. CASE ServeStep
    BY <1>7 DEF ServeStep, ServeAsyncCall, AsyncCallEnds, AsyncCallThrows, CallIsDeleted,
                installVars
  <1>8. CASE UNCHANGED asyncVars
    BY <1>8 DEF asyncVars
  <1> QED
    BY <1>1, <1>2, <1>3, <1>4, <1>5, <1>6, <1>7, <1>8 DEF AsyncJobsNext, InstallStep

-----------------------------------------------------------------------------
(* Calls waiting for the main thread, counted by their places.              *)

\* The places that hold a reference to a job are finitely many, so they can be counted.
LEMMA PlacesFinite ==
    ASSUME NEW S, NEW s \in Seq(S), NEW t \in Nat, NEW j
    PROVE  /\ IsFiniteSet(Places(s, t, j))
           /\ Cardinality(Places(s, t, j)) \in Nat
  <1>1. IsFiniteSet(t..Len(s))
    BY FS_Interval
  <1>2. Places(s, t, j) \in SUBSET (t..Len(s))
    BY DEF Places
  <1>3. IsFiniteSet(Places(s, t, j))
    BY <1>1, <1>2, FS_Subset
  <1> QED
    BY <1>3, FS_CardinalityType

\* A call is posted.
LEMMA PlacesAppend ==
    ASSUME NEW S, NEW s \in Seq(S), NEW t \in 1..Len(s) + 1, NEW c \in S, NEW j
    PROVE  Cardinality(Places(Append(s, c), t, j)) =
              Cardinality(Places(s, t, j)) + (IF c.job = j THEN 1 ELSE 0)
  <1>1. /\ Len(s) \in Nat /\ t \in Nat
        /\ Len(Append(s, c)) = Len(s) + 1
        /\ Append(s, c)[Len(s) + 1] = c
        /\ \A i \in t..Len(s) : Append(s, c)[i] = s[i]
    OBVIOUS
  <1>2. t..Len(s) + 1 = (t..Len(s)) \cup {Len(s) + 1}
    BY <1>1
  <1>3. Len(s) + 1 \notin Places(s, t, j)
    BY <1>1 DEF Places
  <1>4. IsFiniteSet(Places(s, t, j)) /\ Cardinality(Places(s, t, j)) \in Nat
    BY <1>1, PlacesFinite
  <1>5. CASE c.job = j
    <2>1. Places(Append(s, c), t, j) = Places(s, t, j) \cup {Len(s) + 1}
      BY <1>1, <1>2, <1>5 DEF Places
    <2> QED
      BY <1>3, <1>4, <1>5, <2>1, FS_AddElement
  <1>6. CASE c.job # j
    <2>1. Places(Append(s, c), t, j) = Places(s, t, j)
      BY <1>1, <1>2, <1>6 DEF Places
    <2> QED
      BY <1>4, <1>6, <2>1
  <1> QED
    BY <1>5, <1>6

\* The main thread is done with a call.
LEMMA PlacesAdvance ==
    ASSUME NEW S, NEW s \in Seq(S), NEW t \in 1..Len(s), NEW j
    PROVE  Cardinality(Places(s, t + 1, j)) =
              Cardinality(Places(s, t, j)) - (IF s[t].job = j THEN 1 ELSE 0)
  <1>1. /\ Len(s) \in Nat /\ t \in Nat /\ t \in t..Len(s)
        /\ (t + 1)..Len(s) = (t..Len(s)) \ {t}
    OBVIOUS
  <1>2. IsFiniteSet(Places(s, t, j)) /\ Cardinality(Places(s, t, j)) \in Nat
    BY <1>1, PlacesFinite
  <1>3. Places(s, t + 1, j) = Places(s, t, j) \ {t}
    BY <1>1 DEF Places
  <1>4. t \in Places(s, t, j) <=> s[t].job = j
    BY <1>1 DEF Places
  <1> QED
    BY <1>2, <1>3, <1>4, FS_RemoveElement
-----------------------------------------------------------------------------
(* References.                                                              *)

\* The parts of a count, and when it is not zero.
LEMMA CountFacts ==
    ASSUME RefInv, NEW j \in AsyncJobs
    PROVE  /\ Cardinality(CallsOf(j)) \in Nat
           /\ job[j].count \in Nat
           /\ job[j].sharedThis => job[j].count > 0
           /\ j \in held => job[j].count > 0
           /\ (\E i \in turn..Len(calls) : calls[i].job = j) => job[j].count > 0
           /\ Given(j) => job[j].count > 0
  <1> DEFINE n == Cardinality(CallsOf(j))
  <1>1. turn \in Nat /\ turn >= 1 /\ calls \in Seq(CallRecords) /\ Len(calls) \in Nat
    BY DEF RefInv, AsyncTypes, AsyncJobsTypeOK
  <1>2. IsFiniteSet(CallsOf(j)) /\ n \in Nat
    BY <1>1, PlacesFinite DEF CallsOf
  <1>3. job[j].count = (IF job[j].sharedThis THEN 1 ELSE 0)
                          + (IF j \in held THEN 1 ELSE 0) + n
    BY DEF RefInv, CountIsReferences
  <1>4. (\E i \in turn..Len(calls) : calls[i].job = j) => n # 0
    <2> SUFFICES ASSUME NEW i \in turn..Len(calls), calls[i].job = j
                 PROVE  n # 0
      OBVIOUS
    <2>1. i \in CallsOf(j)
      BY DEF CallsOf, Places
    <2> QED
      BY <1>2, <2>1, FS_EmptySet
  <1>5. Given(j) => \E i \in turn..Len(calls) : calls[i].job = j
    <2>1. main = "call" => turn \in turn..Len(calls)
      BY <1>1 DEF RefInv, AsyncTypes
    <2> QED
      BY <2>1 DEF Given
  <1> HIDE DEF n
  <1>6. job[j].count \in Nat
    BY <1>2, <1>3
  <1>7. /\ job[j].sharedThis => job[j].count > 0
        /\ j \in held => job[j].count > 0
        /\ n # 0 => job[j].count > 0
    BY <1>2, <1>3
  <1> QED
    BY <1>2, <1>4, <1>5, <1>6, <1>7 DEF n

\* Initially every count is zero, and nobody holds a job.
LEMMA RefInvInit == AsyncJobsInit => RefInv
  <1> SUFFICES ASSUME AsyncJobsInit PROVE RefInv
    OBVIOUS
  <1> USE DEF AsyncJobsInit
  <1>1. AsyncTypes
    <2>1. job \in [AsyncJobs -> [count : Nat, sharedThis : BOOLEAN, completed : BOOLEAN,
                              hadError : BOOLEAN, cancelled : BOOLEAN, progress : 0..2]]
      OBVIOUS
    <2>2. callbacks \in [AsyncJobs -> [Kinds -> 0..MaxCallbacks]]
      BY AsyncJobsAssumption
    <2>3. control \in [AsyncJobs ->
              [at : {"none", "idle", "executing", "reporting", "adapter", "done",
                     "escaped"},
               thread : {"none", "own", "main"}, loop : Kinds \cup {"none"},
               i : 1..MaxCallbacks + 1, raced : BOOLEAN, changes : 0..MaxProgress,
               due : 0..MaxCallbacks]]
      BY AsyncJobsAssumption
    <2>4. calls = <<>> /\ calls \in Seq(CallRecords) /\ Len(calls) = 0
      OBVIOUS
    <2>5. turn \in 1..Len(calls) + 1 /\ held \subseteq AsyncJobs
      BY <2>4
    <2>6. /\ main \in {"idle", "call", "run"} /\ main # "call"
          /\ crashed \in BOOLEAN
          /\ threw \subseteq (1..turn - 1) \X (0..MaxCallbacks)
      OBVIOUS
    <2>7. /\ installer \in [locked : BOOLEAN, dependencies : Requests \cup {NoRequest},
                            callback : Requests \cup {NoRequest}]
          /\ install \in [Requests ->
                [at : {"none", "refused", "started", "installing", "installed", "posted", "done"},
                 ran : Requests \cup {NoRequest}, told : Requests \cup {NoRequest}]]
      OBVIOUS
    <2> HIDE DEF AsyncJobsInit
    <2> QED
      BY <2>1, <2>2, <2>3, <2>4, <2>5, <2>6, <2>7 DEF AsyncTypes, AsyncJobsTypeOK
  <1>2. RunPhases /\ UnbornUnknown
    BY DEF RunPhases, UnbornUnknown
  <1>3. CountIsReferences
    <2> SUFFICES ASSUME NEW j \in AsyncJobs
                 PROVE  Cardinality(CallsOf(j)) = 0
      BY DEF CountIsReferences
    <2>1. CallsOf(j) = {}
      BY DEF CallsOf, Places
    <2> QED
      BY <2>1, FS_EmptySet
  <1> QED
    BY <1>1, <1>2, <1>3 DEF RefInv

-----------------------------------------------------------------------------
(* Every operation keeps the counts right.                                  *)

\* A new job starts with the reference of its creator.
LEMMA RefInvNewJob ==
    ASSUME RefInv, NEW j \in AsyncJobs, NewJob(j)
    PROVE  RefInv'
  <1>1. /\ control[j].at = "none"
        /\ job' = [job EXCEPT ![j].count = 1, ![j].sharedThis = TRUE, ![j].progress = 0]
        /\ control' = [control EXCEPT ![j].at = "idle"]
        /\ UNCHANGED <<callbacks, held, calls, turn, threw, main, crashed, installer, install>>
    BY DEF NewJob, installVars
  <1>2. AsyncTypes'
    <2> DEFINE r == [job[j] EXCEPT !.count = 1, !.sharedThis = TRUE, !.progress = 0]
               c == [control[j] EXCEPT !.at = "idle"]
    <2>1. JobTypes /\ ControlTypes /\ CallbackTypes /\ CallTypes /\ InstallTypes
              /\ crashed \in BOOLEAN
      BY TypeParts DEF RefInv
    <2>2. job' = [job EXCEPT ![j] = r] /\ control' = [control EXCEPT ![j] = c]
      BY <1>1
    <2>3. r \in JobRecords /\ c \in ControlRecords
      <3>1. job[j] \in JobRecords /\ control[j] \in ControlRecords
        BY <2>1 DEF JobTypes, ControlTypes
      <3>2. r \in JobRecords
        <4> DEFINE r1 == [job[j] EXCEPT !.count = 1]
                   r2 == [r1 EXCEPT !.sharedThis = TRUE]
        <4>1. r1 \in JobRecords
          BY <3>1 DEF JobRecords
        <4> HIDE DEF r1
        <4>2. r2 \in JobRecords
          BY <4>1 DEF JobRecords
        <4> HIDE DEF r2
        <4>3. [r2 EXCEPT !.progress = 0] \in JobRecords
          BY <4>2 DEF JobRecords
        <4> QED
          BY <4>3 DEF r1, r2
      <3>3. c \in ControlRecords
        BY <3>1 DEF ControlRecords
      <3> QED
        BY <3>2, <3>3
    <2> HIDE DEF r, c
    <2>4. JobTypes' /\ ControlTypes'
      BY <2>1, <2>2, <2>3, JobChanged, ControlChanged
    <2> QED
      BY <1>1, <2>1, <2>4, TypePartsNext DEF CallbackTypes, CallTypes, InstallTypes
  <1>3. RunPhases'
    BY <1>1 DEF RefInv, RunPhases, AsyncTypes, AsyncJobsTypeOK
  <1>4. UnbornUnknown'
    BY <1>1 DEF RefInv, UnbornUnknown, AsyncTypes, AsyncJobsTypeOK
  <1>5. \A q \in AsyncJobs : CallsOf(q)' = CallsOf(q)
    BY <1>1 DEF CallsOf
  <1>6. Cardinality(CallsOf(j)) = 0 /\ j \notin held
    <2>1. j \notin held /\ \A i \in 1..Len(calls) : calls[i].job # j
      BY <1>1 DEF RefInv, UnbornUnknown
    <2>2. CallsOf(j) = {}
      BY <2>1 DEF CallsOf, Places, RefInv, AsyncTypes, AsyncJobsTypeOK
    <2> QED
      BY <2>1, <2>2, FS_EmptySet
  <1>7. CountIsReferences'
    <2> SUFFICES ASSUME NEW q \in AsyncJobs
                 PROVE  job'[q].count = (IF job'[q].sharedThis THEN 1 ELSE 0)
                          + (IF q \in held' THEN 1 ELSE 0) + Cardinality(CallsOf(q))
      BY <1>5 DEF CountIsReferences
    <2>1. CASE q = j
      <3>1. job'[j].count = 1 /\ job'[j].sharedThis = TRUE /\ j \notin held'
        BY <1>1, <1>6 DEF RefInv, AsyncTypes, AsyncJobsTypeOK
      <3> QED
        BY <2>1, <1>6, <3>1
    <2>2. CASE q # j
      <3>1. job'[q] = job[q] /\ held' = held
        BY <1>1, <2>2 DEF RefInv, AsyncTypes, AsyncJobsTypeOK
      <3> QED
        BY <3>1 DEF RefInv, CountIsReferences
    <2> QED
      BY <2>1, <2>2
  <1> QED
    BY <1>2, <1>3, <1>4, <1>7 DEF RefInv

\* The main thread takes or drops a reference of its own.
LEMMA RefInvHeld ==
    ASSUME RefInv, NEW j \in AsyncJobs, Hold(j) \/ DropHeld(j)
    PROVE  RefInv'
  <1>1. UNCHANGED <<control, callbacks, calls, turn, threw, main, crashed, installer, install>>
    BY DEF Hold, DropHeld, installVars
  <1>2. job[j].count \in Nat /\ (j \in held => job[j].count > 0)
    BY CountFacts
  <1>3. PICK d \in {-1, 1} :
           /\ d = 1 <=> j \notin held
           /\ job' = [job EXCEPT ![j].count = @ + d]
           /\ held' = IF d = 1 THEN held \cup {j} ELSE held \ {j}
    <2>1. CASE Hold(j)
      BY <2>1 DEF Hold
    <2>2. CASE DropHeld(j)
      <3>1. job' = [job EXCEPT ![j].count = @ + (-1)]
        BY <2>2, <1>2 DEF DropHeld, RefInv, AsyncTypes, AsyncJobsTypeOK
      <3>2. j \in held /\ held' = held \ {j} /\ -1 # 1
        BY <2>2 DEF DropHeld
      <3> QED
        BY <3>1, <3>2
    <2> QED
      BY <2>1, <2>2
  <1>4. /\ job'[j] = [job[j] EXCEPT !.count = @ + d]
        /\ \A q \in AsyncJobs : q # j => job'[q] = job[q]
        /\ job'[j].count = job[j].count + d
        /\ job'[j].count \in Nat
        /\ job'[j].sharedThis = job[j].sharedThis
    BY <1>2, <1>3 DEF RefInv, AsyncTypes, AsyncJobsTypeOK
  <1>5. AsyncTypes'
    <2>1. JobTypes /\ ControlTypes /\ CallbackTypes /\ CallTypes /\ InstallTypes
              /\ crashed \in BOOLEAN
      BY TypeParts DEF RefInv
    <2>2. job[j] \in JobRecords /\ job[j].count + d \in Nat
      BY <2>1, <1>4 DEF JobTypes
    <2>3. [job[j] EXCEPT !.count = job[j].count + d] \in JobRecords
      BY <2>2, CountChanged
    <2>4. job' = [job EXCEPT ![j] = [job[j] EXCEPT !.count = job[j].count + d]]
      BY <1>3
    <2>5. JobTypes'
      BY <2>1, <2>3, <2>4, JobChanged
    <2>6. CallbackTypes'
      BY <1>1, <1>3, <2>1 DEF CallbackTypes
    <2> QED
      BY <1>1, <2>1, <2>5, <2>6, TypePartsNext DEF ControlTypes, CallTypes, InstallTypes
  <1>6. RunPhases'
    BY <1>1, <1>4 DEF RefInv, RunPhases
  <1>7. control[j].at # "none"
    <2>1. CASE DropHeld(j)
      BY <2>1 DEF DropHeld, RefInv, UnbornUnknown
    <2>2. CASE Hold(j)
      <3>1. CASE job[j].sharedThis
        BY <3>1 DEF RefInv, RunPhases
      <3>2. CASE Given(j)
        <4>1. turn \in 1..Len(calls) /\ calls[turn].job = j
          BY <3>2 DEF Given, RefInv, AsyncTypes, AsyncJobsTypeOK
        <4> QED
          BY <4>1 DEF RefInv, UnbornUnknown
      <3> QED
        BY <2>2, <3>1, <3>2 DEF Hold
    <2> QED
      BY <2>1, <2>2
  <1>8. UnbornUnknown'
    BY <1>1, <1>3, <1>7 DEF RefInv, UnbornUnknown
  <1>9. CountIsReferences'
    <2>1. \A q \in AsyncJobs : CallsOf(q)' = CallsOf(q) /\ Cardinality(CallsOf(q)) \in Nat
      BY <1>1, CountFacts DEF CallsOf
    <2> SUFFICES ASSUME NEW q \in AsyncJobs
                 PROVE  job'[q].count = (IF job'[q].sharedThis THEN 1 ELSE 0)
                          + (IF q \in held' THEN 1 ELSE 0) + Cardinality(CallsOf(q))
      BY <2>1 DEF CountIsReferences
    <2>2. job[q].count = (IF job[q].sharedThis THEN 1 ELSE 0)
                          + (IF q \in held THEN 1 ELSE 0) + Cardinality(CallsOf(q))
      BY DEF RefInv, CountIsReferences
    <2>3. CASE q = j
      BY <1>3, <1>4, <2>1, <2>2, <2>3
    <2>4. CASE q # j
      BY <1>3, <1>4, <2>2, <2>4
    <2> QED
      BY <2>3, <2>4
  <1> QED
    BY <1>5, <1>6, <1>8, <1>9 DEF RefInv

\* DoCallback posts a call that holds a reference.
LEMMA RefInvDoCallback ==
    ASSUME RefInv, NEW j \in AsyncJobs, DoCallback(j)
    PROVE  RefInv'
  <1> DEFINE k == control[j].loop
             c == JobCall(j, k, control[j].i)
  <1>1. /\ k # "none"
        /\ control[j].i <= callbacks[j][k]
        /\ calls' = Append(calls, c)
        /\ job' = [job EXCEPT ![j].count = @ + 1]
        /\ control' = [control EXCEPT ![j].i = @ + 1]
        /\ UNCHANGED <<callbacks, held, turn, threw, main, crashed, installer, install>>
    BY DEF DoCallback, installVars
  <1>2. k \in Kinds /\ control[j].i \in 1..MaxCallbacks
    BY <1>1, AsyncJobsAssumption DEF RefInv, AsyncTypes, AsyncJobsTypeOK
  <1>3. c \in CallRecords /\ c.job = j
    BY <1>2 DEF JobCall, CallRecords
  <1> HIDE DEF k, c
  <1>4. /\ calls \in Seq(CallRecords) /\ Len(calls) \in Nat
        /\ turn \in 1..Len(calls) + 1
        /\ calls' \in Seq(CallRecords)
        /\ Len(calls') = Len(calls) + 1
        /\ calls'[Len(calls) + 1] = c
        /\ \A i \in 1..Len(calls) : calls'[i] = calls[i]
    BY <1>1, <1>3 DEF RefInv, AsyncTypes, AsyncJobsTypeOK
  <1>5. /\ job'[j].count = job[j].count + 1
        /\ job'[j].sharedThis = job[j].sharedThis
        /\ \A q \in AsyncJobs : q # j => job'[q] = job[q]
        /\ \A q \in AsyncJobs : control'[q].at = control[q].at /\ control'[q].loop = control[q].loop
    BY <1>1 DEF RefInv, AsyncTypes, AsyncJobsTypeOK
  <1>6. AsyncTypes'
    <2>1. job[j].count \in Nat
      BY CountFacts
    <2>2. JobTypes /\ ControlTypes /\ CallbackTypes /\ CallTypes /\ InstallTypes
              /\ crashed \in BOOLEAN
      BY TypeParts DEF RefInv
    <2>3. CallTypes'
      BY <1>1, <1>4, <2>2 DEF CallTypes
    <2>4. JobTypes'
      <3>1. job[j] \in JobRecords /\ job[j].count + 1 \in Nat
        BY <2>1, <2>2 DEF JobTypes
      <3>2. [job[j] EXCEPT !.count = job[j].count + 1] \in JobRecords
        BY <3>1, CountChanged
      <3>3. job' = [job EXCEPT ![j] = [job[j] EXCEPT !.count = job[j].count + 1]]
        BY <1>1
      <3> QED
        BY <2>2, <3>2, <3>3, JobChanged
    <2>5. ControlTypes'
      <3>1. control[j] \in ControlRecords /\ control[j].i + 1 \in 1..MaxCallbacks + 1
        BY <1>2, <2>2, AsyncJobsAssumption DEF ControlTypes
      <3>2. [control[j] EXCEPT !.i = control[j].i + 1] \in ControlRecords
        BY <3>1 DEF ControlRecords
      <3>3. control' = [control EXCEPT ![j] = [control[j] EXCEPT !.i = control[j].i + 1]]
        BY <1>1
      <3> QED
        BY <2>2, <3>2, <3>3, ControlChanged
    <2> QED
      BY <1>1, <2>2, <2>3, <2>4, <2>5, TypePartsNext DEF CallbackTypes, InstallTypes
  <1>7. RunPhases'
    BY <1>5 DEF RefInv, RunPhases
  <1>8. UnbornUnknown'
    <2>1. control[j].at # "none"
      BY <1>1 DEF RefInv, RunPhases, k
    <2> SUFFICES ASSUME NEW q \in AsyncJobs, control[q].at = "none", NEW i \in 1..Len(calls')
                 PROVE  q \notin held /\ calls'[i].job # q
      BY <1>1, <1>4, <1>5 DEF UnbornUnknown
    <2>2. q # j /\ q \notin held /\ \A p \in 1..Len(calls) : calls[p].job # q
      BY <2>1 DEF RefInv, UnbornUnknown
    <2> QED
      BY <1>3, <1>4, <2>2
  <1>9. CountIsReferences'
    <2> SUFFICES ASSUME NEW q \in AsyncJobs
                 PROVE  job'[q].count = (IF job'[q].sharedThis THEN 1 ELSE 0)
                          + (IF q \in held' THEN 1 ELSE 0) + Cardinality(CallsOf(q)')
      BY DEF CountIsReferences
    <2>1. Cardinality(CallsOf(q)') = Cardinality(CallsOf(q)) + (IF q = j THEN 1 ELSE 0)
      <3>1. CallsOf(q)' = Places(Append(calls, c), turn, q)
        BY <1>1 DEF CallsOf
      <3>2. Cardinality(Places(Append(calls, c), turn, q)) =
               Cardinality(Places(calls, turn, q)) + (IF c.job = q THEN 1 ELSE 0)
        BY <1>3, <1>4, PlacesAppend
      <3> QED
        BY <1>3, <3>1, <3>2 DEF CallsOf
    <2>2. /\ job[q].count = (IF job[q].sharedThis THEN 1 ELSE 0)
                          + (IF q \in held THEN 1 ELSE 0) + Cardinality(CallsOf(q))
          /\ Cardinality(CallsOf(q)) \in Nat
      BY CountFacts DEF RefInv, CountIsReferences
    <2>3. held' = held
      BY <1>1
    <2>4. CASE q = j
      BY <1>5, <2>1, <2>2, <2>3, <2>4
    <2>5. CASE q # j
      BY <1>5, <2>1, <2>2, <2>3, <2>5
    <2> QED
      BY <2>4, <2>5
  <1> QED
    BY <1>6, <1>7, <1>8, <1>9 DEF RefInv

\* The end of Run drops the job's own reference.
LEMMA RefInvEndRun ==
    ASSUME RefInv, NEW j \in AsyncJobs, EndRun(j)
    PROVE  RefInv'
  <1>1. PICK a \in {"adapter", "done"} :
           /\ control' = [control EXCEPT ![j].at = a]
           /\ main' \in {main, "idle"}
    BY DEF EndRun
  <1>2. /\ control[j].at = "reporting"
        /\ control[j].loop = "none"
        /\ job' = [job EXCEPT ![j].sharedThis = FALSE, ![j].count = @ - 1]
        /\ UNCHANGED <<callbacks, held, calls, turn, threw, crashed, installer, install>>
    BY DEF EndRun, installVars
  <1>3. /\ JobTypes /\ ControlTypes /\ CallbackTypes /\ CallTypes /\ InstallTypes
        /\ crashed \in BOOLEAN
    BY TypeParts DEF RefInv
  <1>4. job[j].sharedThis
    BY <1>2 DEF RefInv, RunPhases
  <1>5. job[j].count - 1 \in Nat
    <2>1. job[j].count \in Nat /\ job[j].count > 0
      BY <1>4, CountFacts
    <2> QED
      BY <2>1
  <1> DEFINE r == [job[j] EXCEPT !.sharedThis = FALSE, !.count = job[j].count - 1]
             c == [control[j] EXCEPT !.at = a]
  <1>6. job[j] \in JobRecords /\ control[j] \in ControlRecords
    BY <1>3 DEF JobTypes, ControlTypes
  <1>7. /\ r \in JobRecords
        /\ r.count = job[j].count - 1
        /\ r.sharedThis = FALSE
    BY <1>5, <1>6 DEF JobRecords
  <1>8. /\ c \in ControlRecords
        /\ c.at = a
        /\ c.loop = "none"
    BY <1>2, <1>6 DEF ControlRecords
  <1>9. job' = [job EXCEPT ![j] = r] /\ control' = [control EXCEPT ![j] = c]
    BY <1>1, <1>2
  <1> HIDE DEF r, c
  <1>10. /\ JobTypes' /\ job'[j] = r
         /\ \A q \in AsyncJobs : q # j => job'[q] = job[q]
    BY <1>3, <1>7, <1>9, JobChanged
  <1>11. /\ ControlTypes' /\ control'[j] = c
         /\ \A q \in AsyncJobs : q # j => control'[q] = control[q]
    BY <1>3, <1>8, <1>9, ControlChanged
  <1>12. AsyncTypes'
    <2>1. CallbackTypes' /\ CallTypes' /\ InstallTypes' /\ crashed' \in BOOLEAN
      BY <1>1, <1>2, <1>3 DEF CallbackTypes, CallTypes, InstallTypes
    <2> QED
      BY <1>10, <1>11, <2>1, TypePartsNext
  <1>13. RunPhases'
    BY <1>7, <1>8, <1>10, <1>11 DEF RefInv, RunPhases
  <1>14. UnbornUnknown'
    BY <1>2, <1>8, <1>11 DEF RefInv, UnbornUnknown
  <1>15. CountIsReferences'
    <2>1. \A q \in AsyncJobs : CallsOf(q)' = CallsOf(q) /\ Cardinality(CallsOf(q)) \in Nat
      BY <1>2, CountFacts DEF CallsOf
    <2> SUFFICES ASSUME NEW q \in AsyncJobs
                 PROVE  job'[q].count = (IF job'[q].sharedThis THEN 1 ELSE 0)
                          + (IF q \in held THEN 1 ELSE 0) + Cardinality(CallsOf(q))
      BY <1>2, <2>1 DEF CountIsReferences
    <2>2. job[q].count = (IF job[q].sharedThis THEN 1 ELSE 0)
                          + (IF q \in held THEN 1 ELSE 0) + Cardinality(CallsOf(q))
      BY DEF RefInv, CountIsReferences
    <2>3. CASE q = j
      BY <1>4, <1>7, <1>10, <2>1, <2>2, <2>3
    <2>4. CASE q # j
      BY <1>10, <2>2, <2>4
    <2> QED
      BY <2>3, <2>4
  <1> QED
    BY <1>12, <1>13, <1>14, <1>15 DEF RefInv

\* The main thread is done with a call: its arguments are released.
LEMMA RefInvCallEnds ==
    ASSUME RefInv, CallIsDeleted,
           threw' = threw \/ \E n \in 0..MaxCallbacks : threw' = threw \cup {<<turn, n>>}
    PROVE  RefInv'
  <1> DEFINE g == calls[turn].job
  <1>1. /\ main = "call" /\ main' = "idle" /\ turn' = turn + 1
        /\ job' = [j \in AsyncJobs |->
                     IF g = j THEN [job[j] EXCEPT !.count = @ - 1] ELSE job[j]]
        /\ UNCHANGED <<control, callbacks, held, calls, crashed, installer, install>>
    BY DEF CallIsDeleted, installVars
  <1>2. /\ JobTypes /\ ControlTypes /\ CallbackTypes /\ CallTypes /\ InstallTypes
        /\ crashed \in BOOLEAN
    BY TypeParts DEF RefInv
  <1>3. turn \in 1..Len(calls) /\ Len(calls) \in Nat /\ calls \in Seq(CallRecords)
    BY <1>1, <1>2 DEF CallTypes
  <1>4. ASSUME NEW q \in AsyncJobs
        PROVE  /\ job'[q] \in JobRecords
               /\ job'[q].sharedThis = job[q].sharedThis
               /\ job'[q].count = job[q].count - (IF g = q THEN 1 ELSE 0)
    <2>1. job[q] \in JobRecords
      BY <1>2 DEF JobTypes
    <2>2. CASE g = q
      <3>1. job[q].count - 1 \in Nat
        <4>1. Given(q)
          BY <1>1, <2>2 DEF Given
        <4>2. job[q].count \in Nat /\ job[q].count > 0
          BY <4>1, CountFacts
        <4> QED
          BY <4>2
      <3>2. job'[q] = [job[q] EXCEPT !.count = job[q].count - 1]
        BY <1>1, <2>2
      <3> HIDE DEF g
      <3> QED
        BY <2>1, <2>2, <3>1, <3>2, CountChanged
    <2>3. CASE g # q
      <3>1. job'[q] = job[q] /\ job[q].count \in Nat
        BY <1>1, <2>1, <2>3 DEF JobRecords
      <3> QED
        BY <2>1, <2>3, <3>1
    <2> QED
      BY <2>2, <2>3
  <1> HIDE DEF g
  <1>5. AsyncTypes'
    <2>1. JobTypes'
      <3>1. job' = [q \in AsyncJobs |-> job'[q]]
        BY <1>1
      <3> QED
        BY <1>4, <3>1 DEF JobTypes
    <2>2. CallTypes'
      <3>1. threw' \subseteq (1..turn' - 1) \X (0..MaxCallbacks)
        <4>1. turn' - 1 = turn /\ threw \subseteq (1..turn - 1) \X (0..MaxCallbacks)
          BY <1>1, <1>2, <1>3 DEF CallTypes
        <4>2. \A t \in 1..turn - 1 : t \in 1..turn
          BY <1>3
        <4>3. turn \in 1..turn
          BY <1>3
        <4>4. threw \subseteq (1..turn) \X (0..MaxCallbacks)
          BY ONLY <4>1, <4>2
        <4> QED
          BY <4>1, <4>3, <4>4
      <3> QED
        BY <1>1, <1>3, <1>2, <3>1 DEF CallTypes
    <2> QED
      BY <1>1, <1>2, <2>1, <2>2, TypePartsNext DEF ControlTypes, CallbackTypes, InstallTypes
  <1>6. RunPhases'
    BY <1>1, <1>4 DEF RefInv, RunPhases
  <1>7. UnbornUnknown'
    BY <1>1 DEF RefInv, UnbornUnknown
  <1>8. CountIsReferences'
    <2> SUFFICES ASSUME NEW q \in AsyncJobs
                 PROVE  job'[q].count = (IF job'[q].sharedThis THEN 1 ELSE 0)
                          + (IF q \in held THEN 1 ELSE 0) + Cardinality(CallsOf(q)')
      BY <1>1 DEF CountIsReferences
    <2>1. Cardinality(CallsOf(q)') = Cardinality(CallsOf(q)) - (IF g = q THEN 1 ELSE 0)
      <3>1. CallsOf(q)' = Places(calls, turn + 1, q)
        BY <1>1 DEF CallsOf
      <3>2. Cardinality(Places(calls, turn + 1, q)) =
               Cardinality(Places(calls, turn, q)) - (IF calls[turn].job = q THEN 1 ELSE 0)
        BY <1>3, PlacesAdvance
      <3> QED
        BY <3>1, <3>2 DEF CallsOf, g
    <2>2. /\ job[q].count = (IF job[q].sharedThis THEN 1 ELSE 0)
                          + (IF q \in held THEN 1 ELSE 0) + Cardinality(CallsOf(q))
          /\ Cardinality(CallsOf(q)) \in Nat
      BY CountFacts DEF RefInv, CountIsReferences
    <2> QED
      BY <1>4, <2>1, <2>2
  <1> QED
    BY <1>5, <1>6, <1>7, <1>8 DEF RefInv

\* The installer thread posts a call that holds no job.
LEMMA RefInvPostInstalled ==
    ASSUME RefInv, NEW r \in Requests, PostInstalled(r)
    PROVE  RefInv'
  <1> DEFINE c == InstallCall(installer.callback)
  <1>1. /\ calls' = Append(calls, c)
        /\ install' = [install EXCEPT ![r].at = "posted", ![r].told = installer.callback]
        /\ UNCHANGED <<job, control, callbacks, held, turn, threw, main, crashed, installer>>
    BY DEF PostInstalled, jobVars
  <1>2. /\ JobTypes /\ ControlTypes /\ CallbackTypes /\ CallTypes /\ InstallTypes
        /\ crashed \in BOOLEAN
    BY TypeParts DEF RefInv
  <1>3. c \in CallRecords /\ c.job = NoAsyncJob
    BY <1>2 DEF InstallTypes, InstallCall, CallRecords
  <1> HIDE DEF c
  <1>4. /\ calls \in Seq(CallRecords) /\ Len(calls) \in Nat
        /\ turn \in 1..Len(calls) + 1
        /\ calls' \in Seq(CallRecords)
        /\ Len(calls') = Len(calls) + 1
        /\ calls'[Len(calls) + 1] = c
        /\ \A i \in 1..Len(calls) : calls'[i] = calls[i]
    BY <1>1, <1>2, <1>3 DEF CallTypes
  <1>5. AsyncTypes'
    <2>1. CallTypes'
      BY <1>1, <1>2, <1>4 DEF CallTypes
    <2>2. InstallTypes'
      BY <1>1, <1>2 DEF InstallTypes
    <2> QED
      BY <1>1, <1>2, <2>1, <2>2, TypePartsNext DEF JobTypes, ControlTypes, CallbackTypes
  <1>6. RunPhases'
    BY <1>1 DEF RefInv, RunPhases
  <1>7. UnbornUnknown'
    <2> SUFFICES ASSUME NEW q \in AsyncJobs, control[q].at = "none", NEW i \in 1..Len(calls')
                 PROVE  q \notin held /\ calls'[i].job # q
      BY <1>1, <1>4 DEF UnbornUnknown
    <2>1. q # NoAsyncJob /\ q \notin held /\ \A p \in 1..Len(calls) : calls[p].job # q
      BY AsyncJobsAssumption DEF RefInv, UnbornUnknown
    <2> QED
      BY <1>3, <1>4, <2>1
  <1>8. CountIsReferences'
    <2> SUFFICES ASSUME NEW q \in AsyncJobs
                 PROVE  Cardinality(CallsOf(q)') = Cardinality(CallsOf(q))
      BY <1>1 DEF RefInv, CountIsReferences
    <2>1. CallsOf(q)' = Places(Append(calls, c), turn, q)
      BY <1>1 DEF CallsOf
    <2>2. Cardinality(Places(Append(calls, c), turn, q)) =
             Cardinality(Places(calls, turn, q)) + (IF c.job = q THEN 1 ELSE 0)
      BY <1>3, <1>4, PlacesAppend
    <2>3. q # NoAsyncJob
      BY AsyncJobsAssumption
    <2>4. Cardinality(CallsOf(q)) \in Nat
      BY CountFacts
    <2> QED
      BY <1>3, <2>1, <2>2, <2>3, <2>4 DEF CallsOf
  <1> QED
    BY <1>5, <1>6, <1>7, <1>8 DEF RefInv

\* The job's thread or its code moves, and no reference is taken or dropped.
LEMMA RefInvMove ==
    ASSUME RefInv, NEW j \in AsyncJobs, NEW r \in JobRecords, NEW c \in ControlRecords,
           job' = [job EXCEPT ![j] = r],
           control' = [control EXCEPT ![j] = c],
           callbacks' \in [AsyncJobs -> [Kinds -> 0..MaxCallbacks]],
           main' \in {main, "run", "idle"}, crashed' \in BOOLEAN,
           UNCHANGED <<held, calls, turn, threw, installer, install>>,
           r.count = job[j].count, r.sharedThis = job[j].sharedThis,
           c.at # "none", control[j].at # "none",
           c.at \in {"idle", "executing", "reporting", "escaped"} <=>
              control[j].at \in {"idle", "executing", "reporting", "escaped"},
           c.loop # "none" => c.at \in {"executing", "reporting"},
           c.loop \in {"completed", "error"} <=> c.loop # "none" /\ c.at = "reporting"
    PROVE  RefInv'
  <1>1. /\ JobTypes /\ ControlTypes /\ CallbackTypes /\ CallTypes /\ InstallTypes
    BY TypeParts DEF RefInv
  <1>2. /\ JobTypes' /\ job'[j] = r
        /\ \A q \in AsyncJobs : q # j => job'[q] = job[q]
    BY <1>1, JobChanged
  <1>3. /\ ControlTypes' /\ control'[j] = c
        /\ \A q \in AsyncJobs : q # j => control'[q] = control[q]
    BY <1>1, ControlChanged
  <1>4. AsyncTypes'
    <2>1. CallbackTypes' /\ CallTypes' /\ InstallTypes'
      BY <1>1 DEF CallbackTypes, CallTypes, InstallTypes
    <2> QED
      BY <1>2, <1>3, <2>1, TypePartsNext
  <1>5. RunPhases'
    BY <1>2, <1>3 DEF RefInv, RunPhases
  <1>6. CountIsReferences'
    <2>1. \A q \in AsyncJobs : CallsOf(q)' = CallsOf(q)
      BY DEF CallsOf
    <2> QED
      BY <1>2, <2>1 DEF RefInv, CountIsReferences
  <1>7. UnbornUnknown'
    BY <1>3 DEF RefInv, UnbornUnknown
  <1> QED
    BY <1>4, <1>5, <1>6, <1>7 DEF RefInv

\* Every step changes a count by what it changes in the places that hold the job.
LEMMA RefInvNext == RefInv /\ [AsyncJobsNext]_asyncVars => RefInv'
  <1> SUFFICES ASSUME RefInv, [AsyncJobsNext]_asyncVars
               PROVE  RefInv'
    OBVIOUS
  <1>1. /\ JobTypes /\ ControlTypes /\ CallbackTypes /\ CallTypes /\ InstallTypes
        /\ crashed \in BOOLEAN
    BY TypeParts DEF RefInv
  <1>2. ASSUME NEW j \in AsyncJobs
        PROVE  /\ job[j] \in JobRecords /\ control[j] \in ControlRecords
               /\ job = [job EXCEPT ![j] = job[j]]
               /\ control = [control EXCEPT ![j] = control[j]]
               /\ job[j].sharedThis <=> control[j].at \in {"idle", "executing", "reporting", "escaped"}
               /\ control[j].loop # "none" => control[j].at \in {"executing", "reporting"}
               /\ control[j].loop \in {"completed", "error"} <=>
                     control[j].loop # "none" /\ control[j].at = "reporting"
    BY <1>1 DEF JobTypes, ControlTypes, RefInv, RunPhases
  <1>3. ASSUME NEW j \in AsyncJobs, Reaches(j)
        PROVE  control[j].at # "none"
    <2>1. CASE j \in held
      BY <2>1 DEF RefInv, UnbornUnknown
    <2>2. CASE Given(j)
      <3>1. turn \in 1..Len(calls) /\ calls[turn].job = j
        BY <1>1, <2>2 DEF Given, CallTypes
      <3> QED
        BY <3>1 DEF RefInv, UnbornUnknown
    <2> QED
      BY <1>3, <2>1, <2>2 DEF Reaches
  <1>4. callbacks \in [AsyncJobs -> [Kinds -> 0..MaxCallbacks]]
    BY <1>1 DEF CallbackTypes
  <1>5. ASSUME NEW j \in AsyncJobs, Cancel(j)
        PROVE  RefInv'
    <2> DEFINE r == [job[j] EXCEPT !.cancelled = TRUE]
               c == control[j]
    <2>1. /\ job' = [job EXCEPT ![j] = r]
          /\ control' = [control EXCEPT ![j] = c]
          /\ main' \in {main, "run", "idle"}
          /\ crashed' \in BOOLEAN
          /\ UNCHANGED <<held, calls, turn, threw, installer, install>>
      BY <1>1, <1>2, <1>5 DEF Cancel, installVars
    <2>2. callbacks' \in [AsyncJobs -> [Kinds -> 0..MaxCallbacks]]
      BY <1>4, <1>5 DEF Cancel
    <2>3. r \in JobRecords /\ r.count = job[j].count /\ r.sharedThis = job[j].sharedThis
      BY <1>2 DEF JobRecords
    <2>4. /\ c \in ControlRecords
          /\ c.at # "none" /\ control[j].at # "none"
          /\ c.at \in {"idle", "executing", "reporting", "escaped"} <=>
                control[j].at \in {"idle", "executing", "reporting", "escaped"}
          /\ c.loop # "none" => c.at \in {"executing", "reporting"}
          /\ c.loop \in {"completed", "error"} <=> c.loop # "none" /\ c.at = "reporting"
      BY <1>2, <1>3, <1>4, <1>5, AsyncJobsAssumption DEF Cancel, ControlRecords, StartLoop, Kinds
    <2> HIDE DEF r, c
    <2> QED
      BY <2>1, <2>2, <2>3, <2>4, RefInvMove
  <1>6. ASSUME NEW j \in AsyncJobs, NEW k \in Kinds, AddCallback(j, k)
        PROVE  RefInv'
    <2> DEFINE r == job[j]
               c == [control[j] EXCEPT !.raced = @ \/ control[j].loop = k]
    <2>1. /\ job' = [job EXCEPT ![j] = r]
          /\ control' = [control EXCEPT ![j] = c]
          /\ main' \in {main, "run", "idle"}
          /\ crashed' \in BOOLEAN
          /\ UNCHANGED <<held, calls, turn, threw, installer, install>>
      BY <1>1, <1>2, <1>6 DEF AddCallback, installVars
    <2>2. callbacks' \in [AsyncJobs -> [Kinds -> 0..MaxCallbacks]]
      <3>1. callbacks' = [callbacks EXCEPT ![j][k] = @ + 1] /\ callbacks[j][k] < MaxCallbacks
        BY <1>6 DEF AddCallback
      <3>2. callbacks[j][k] + 1 \in 0..MaxCallbacks /\ callbacks[j] \in [Kinds -> 0..MaxCallbacks]
        BY <1>4, <3>1, AsyncJobsAssumption
      <3>3. [callbacks[j] EXCEPT ![k] = callbacks[j][k] + 1] \in [Kinds -> 0..MaxCallbacks]
        BY <3>2
      <3>4. callbacks' = [callbacks EXCEPT ![j] = [callbacks[j] EXCEPT ![k] = callbacks[j][k] + 1]]
        BY <3>1
      <3> QED
        BY <1>4, <3>3, <3>4
    <2>3. r \in JobRecords /\ r.count = job[j].count /\ r.sharedThis = job[j].sharedThis
      BY <1>2 DEF JobRecords
    <2>4. /\ c \in ControlRecords
          /\ c.at # "none" /\ control[j].at # "none"
          /\ c.at \in {"idle", "executing", "reporting", "escaped"} <=>
                control[j].at \in {"idle", "executing", "reporting", "escaped"}
          /\ c.loop # "none" => c.at \in {"executing", "reporting"}
          /\ c.loop \in {"completed", "error"} <=> c.loop # "none" /\ c.at = "reporting"
      BY <1>2, <1>3, <1>4, <1>6, AsyncJobsAssumption DEF AddCallback, ControlRecords, StartLoop, Kinds
    <2> HIDE DEF r, c
    <2> QED
      BY <2>1, <2>2, <2>3, <2>4, RefInvMove
  <1>7. ASSUME NEW j \in AsyncJobs, RunAsynchronously(j)
        PROVE  RefInv'
    <2> DEFINE r == job[j]
               c == [control[j] EXCEPT !.at = "executing", !.thread = "own"]
    <2>1. /\ job' = [job EXCEPT ![j] = r]
          /\ control' = [control EXCEPT ![j] = c]
          /\ main' \in {main, "run", "idle"}
          /\ crashed' \in BOOLEAN
          /\ UNCHANGED <<held, calls, turn, threw, installer, install>>
      BY <1>1, <1>2, <1>7 DEF RunAsynchronously, installVars
    <2>2. callbacks' \in [AsyncJobs -> [Kinds -> 0..MaxCallbacks]]
      BY <1>4, <1>7 DEF RunAsynchronously
    <2>3. r \in JobRecords /\ r.count = job[j].count /\ r.sharedThis = job[j].sharedThis
      BY <1>2 DEF JobRecords
    <2>4. /\ c \in ControlRecords
          /\ c.at # "none" /\ control[j].at # "none"
          /\ c.at \in {"idle", "executing", "reporting", "escaped"} <=>
                control[j].at \in {"idle", "executing", "reporting", "escaped"}
          /\ c.loop # "none" => c.at \in {"executing", "reporting"}
          /\ c.loop \in {"completed", "error"} <=> c.loop # "none" /\ c.at = "reporting"
      BY <1>2, <1>3, <1>4, <1>7, AsyncJobsAssumption DEF RunAsynchronously, ControlRecords, StartLoop, Kinds
    <2> HIDE DEF r, c
    <2> QED
      BY <2>1, <2>2, <2>3, <2>4, RefInvMove
  <1>8. ASSUME NEW j \in AsyncJobs, RunSynchronously(j)
        PROVE  RefInv'
    <2> DEFINE r == job[j]
               c == [control[j] EXCEPT !.at = "executing", !.thread = "main"]
    <2>1. /\ job' = [job EXCEPT ![j] = r]
          /\ control' = [control EXCEPT ![j] = c]
          /\ main' \in {main, "run", "idle"}
          /\ crashed' \in BOOLEAN
          /\ UNCHANGED <<held, calls, turn, threw, installer, install>>
      BY <1>1, <1>2, <1>8 DEF RunSynchronously, installVars
    <2>2. callbacks' \in [AsyncJobs -> [Kinds -> 0..MaxCallbacks]]
      BY <1>4, <1>8 DEF RunSynchronously
    <2>3. r \in JobRecords /\ r.count = job[j].count /\ r.sharedThis = job[j].sharedThis
      BY <1>2 DEF JobRecords
    <2>4. /\ c \in ControlRecords
          /\ c.at # "none" /\ control[j].at # "none"
          /\ c.at \in {"idle", "executing", "reporting", "escaped"} <=>
                control[j].at \in {"idle", "executing", "reporting", "escaped"}
          /\ c.loop # "none" => c.at \in {"executing", "reporting"}
          /\ c.loop \in {"completed", "error"} <=> c.loop # "none" /\ c.at = "reporting"
      BY <1>2, <1>3, <1>4, <1>8, AsyncJobsAssumption DEF RunSynchronously, ControlRecords, StartLoop, Kinds
    <2> HIDE DEF r, c
    <2> QED
      BY <2>1, <2>2, <2>3, <2>4, RefInvMove
  <1>9. ASSUME NEW j \in AsyncJobs, NEW p \in {-1, 1, 3}, SetProgress(j, p)
        PROVE  RefInv'
    <2> DEFINE r == [job[j] EXCEPT !.progress = Clamp(p)]
               d == [control[j] EXCEPT !.changes = @ + 1]
               c == StartLoop(d, "progress")
    <2>1. /\ job' = [job EXCEPT ![j] = r]
          /\ control' = [control EXCEPT ![j] = c]
          /\ main' \in {main, "run", "idle"}
          /\ crashed' \in BOOLEAN
          /\ UNCHANGED <<held, calls, turn, threw, installer, install>>
      <3>1. job' = [job EXCEPT ![j] = r]
        BY <1>9 DEF SetProgress
      <3>2. control' = [control EXCEPT ![j] = c]
        BY <1>9 DEF SetProgress, StartLoop
      <3>3. UNCHANGED <<held, calls, turn, threw, main, crashed, installer, install>>
        BY <1>9 DEF SetProgress, installVars
      <3> QED
        BY <1>1, <3>1, <3>2, <3>3
    <2>2. callbacks' \in [AsyncJobs -> [Kinds -> 0..MaxCallbacks]]
      BY <1>4, <1>9 DEF SetProgress
    <2>3. r \in JobRecords /\ r.count = job[j].count /\ r.sharedThis = job[j].sharedThis
      BY <1>2 DEF JobRecords, Clamp
    <2>4. d \in ControlRecords /\ d.at = control[j].at
      BY <1>2, <1>4, <1>9, AsyncJobsAssumption DEF SetProgress, ControlRecords, Kinds
    <2>5. control[j].at = "executing"
      BY <1>9 DEF SetProgress
    <2> HIDE DEF d
    <2>6. /\ c \in ControlRecords
          /\ c.at # "none" /\ control[j].at # "none"
          /\ c.at \in {"idle", "executing", "reporting", "escaped"} <=>
                control[j].at \in {"idle", "executing", "reporting", "escaped"}
          /\ c.loop # "none" => c.at \in {"executing", "reporting"}
          /\ c.loop \in {"completed", "error"} <=> c.loop # "none" /\ c.at = "reporting"
      BY <2>4, <2>5, LoopStarted DEF Kinds
    <2> HIDE DEF r, c
    <2> QED
      BY <2>1, <2>2, <2>3, <2>5, <2>6, RefInvMove
  <1>10. ASSUME NEW j \in AsyncJobs, Returns(j)
        PROVE  RefInv'
    <2> DEFINE r == [job[j] EXCEPT !.completed = TRUE]
               d == [control[j] EXCEPT !.at = "reporting", !.due = callbacks[j]["completed"]]
               c == StartLoop(d, "completed")
    <2>1. /\ job' = [job EXCEPT ![j] = r]
          /\ control' = [control EXCEPT ![j] = c]
          /\ main' \in {main, "run", "idle"}
          /\ crashed' \in BOOLEAN
          /\ UNCHANGED <<held, calls, turn, threw, installer, install>>
      BY <1>1, <1>2, <1>10 DEF Returns, installVars
    <2>2. callbacks' \in [AsyncJobs -> [Kinds -> 0..MaxCallbacks]]
      BY <1>4, <1>10 DEF Returns
    <2>3. r \in JobRecords /\ r.count = job[j].count /\ r.sharedThis = job[j].sharedThis
      BY <1>2 DEF JobRecords
    <2>4. d \in ControlRecords /\ d.at = "reporting"
      <3>1. callbacks[j]["completed"] \in 0..MaxCallbacks
        BY <1>4 DEF Kinds
      <3>2. control[j] \in ControlRecords
        BY <1>2
      <3> QED
        BY <3>1, <3>2 DEF ControlRecords
    <2>5. control[j].at = "executing"
      BY <1>10 DEF Returns
    <2> HIDE DEF d
    <2>6. /\ c \in ControlRecords
          /\ c.at # "none" /\ control[j].at # "none"
          /\ c.at \in {"idle", "executing", "reporting", "escaped"} <=>
                control[j].at \in {"idle", "executing", "reporting", "escaped"}
          /\ c.loop # "none" => c.at \in {"executing", "reporting"}
          /\ c.loop \in {"completed", "error"} <=> c.loop # "none" /\ c.at = "reporting"
      BY <2>4, <2>5, LoopStarted DEF Kinds
    <2> HIDE DEF r, c
    <2> QED
      BY <2>1, <2>2, <2>3, <2>5, <2>6, RefInvMove
  <1>11. ASSUME NEW j \in AsyncJobs, Throws(j)
        PROVE  RefInv'
    <2> DEFINE r == [job[j] EXCEPT !.hadError = TRUE]
               d == [control[j] EXCEPT !.at = "reporting", !.due = callbacks[j]["error"]]
               c == StartLoop(d, "error")
    <2>1. /\ job' = [job EXCEPT ![j] = r]
          /\ control' = [control EXCEPT ![j] = c]
          /\ main' \in {main, "run", "idle"}
          /\ crashed' \in BOOLEAN
          /\ UNCHANGED <<held, calls, turn, threw, installer, install>>
      BY <1>1, <1>2, <1>11 DEF Throws, installVars
    <2>2. callbacks' \in [AsyncJobs -> [Kinds -> 0..MaxCallbacks]]
      BY <1>4, <1>11 DEF Throws
    <2>3. r \in JobRecords /\ r.count = job[j].count /\ r.sharedThis = job[j].sharedThis
      BY <1>2 DEF JobRecords
    <2>4. d \in ControlRecords /\ d.at = "reporting"
      <3>1. callbacks[j]["error"] \in 0..MaxCallbacks
        BY <1>4 DEF Kinds
      <3>2. control[j] \in ControlRecords
        BY <1>2
      <3> QED
        BY <3>1, <3>2 DEF ControlRecords
    <2>5. control[j].at = "executing"
      BY <1>11 DEF Throws
    <2> HIDE DEF d
    <2>6. /\ c \in ControlRecords
          /\ c.at # "none" /\ control[j].at # "none"
          /\ c.at \in {"idle", "executing", "reporting", "escaped"} <=>
                control[j].at \in {"idle", "executing", "reporting", "escaped"}
          /\ c.loop # "none" => c.at \in {"executing", "reporting"}
          /\ c.loop \in {"completed", "error"} <=> c.loop # "none" /\ c.at = "reporting"
      BY <2>4, <2>5, LoopStarted DEF Kinds
    <2> HIDE DEF r, c
    <2> QED
      BY <2>1, <2>2, <2>3, <2>5, <2>6, RefInvMove
  <1>12. ASSUME NEW j \in AsyncJobs, LoopEnds(j)
        PROVE  RefInv'
    <2> DEFINE r == job[j]
               c == [control[j] EXCEPT !.loop = "none"]
    <2>1. /\ job' = [job EXCEPT ![j] = r]
          /\ control' = [control EXCEPT ![j] = c]
          /\ main' \in {main, "run", "idle"}
          /\ crashed' \in BOOLEAN
          /\ UNCHANGED <<held, calls, turn, threw, installer, install>>
      BY <1>1, <1>2, <1>12 DEF LoopEnds, installVars
    <2>2. callbacks' \in [AsyncJobs -> [Kinds -> 0..MaxCallbacks]]
      BY <1>4, <1>12 DEF LoopEnds
    <2>3. r \in JobRecords /\ r.count = job[j].count /\ r.sharedThis = job[j].sharedThis
      BY <1>2 DEF JobRecords
    <2>4. /\ c \in ControlRecords
          /\ c.at # "none" /\ control[j].at # "none"
          /\ c.at \in {"idle", "executing", "reporting", "escaped"} <=>
                control[j].at \in {"idle", "executing", "reporting", "escaped"}
          /\ c.loop # "none" => c.at \in {"executing", "reporting"}
          /\ c.loop \in {"completed", "error"} <=> c.loop # "none" /\ c.at = "reporting"
      BY <1>2, <1>3, <1>4, <1>12, AsyncJobsAssumption DEF LoopEnds, ControlRecords, StartLoop, Kinds
    <2> HIDE DEF r, c
    <2> QED
      BY <2>1, <2>2, <2>3, <2>4, RefInvMove
  <1>13. ASSUME NEW j \in AsyncJobs, LoopRunsAway(j)
        PROVE  RefInv'
    <2> DEFINE r == job[j]
               c == control[j]
    <2>1. /\ job' = [job EXCEPT ![j] = r]
          /\ control' = [control EXCEPT ![j] = c]
          /\ main' \in {main, "run", "idle"}
          /\ crashed' \in BOOLEAN
          /\ UNCHANGED <<held, calls, turn, threw, installer, install>>
      BY <1>1, <1>2, <1>13 DEF LoopRunsAway, installVars
    <2>2. callbacks' \in [AsyncJobs -> [Kinds -> 0..MaxCallbacks]]
      BY <1>4, <1>13 DEF LoopRunsAway
    <2>3. r \in JobRecords /\ r.count = job[j].count /\ r.sharedThis = job[j].sharedThis
      BY <1>2 DEF JobRecords
    <2>4. /\ c \in ControlRecords
          /\ c.at # "none" /\ control[j].at # "none"
          /\ c.at \in {"idle", "executing", "reporting", "escaped"} <=>
                control[j].at \in {"idle", "executing", "reporting", "escaped"}
          /\ c.loop # "none" => c.at \in {"executing", "reporting"}
          /\ c.loop \in {"completed", "error"} <=> c.loop # "none" /\ c.at = "reporting"
      BY <1>2, <1>3, <1>4, <1>13, AsyncJobsAssumption DEF LoopRunsAway, ControlRecords, StartLoop, Kinds
    <2> HIDE DEF r, c
    <2> QED
      BY <2>1, <2>2, <2>3, <2>4, RefInvMove
  <1>14. ASSUME NEW j \in AsyncJobs, DeleteAdapter(j)
        PROVE  RefInv'
    <2> DEFINE r == job[j]
               c == [control[j] EXCEPT !.at = "done"]
    <2>1. /\ job' = [job EXCEPT ![j] = r]
          /\ control' = [control EXCEPT ![j] = c]
          /\ main' \in {main, "run", "idle"}
          /\ crashed' \in BOOLEAN
          /\ UNCHANGED <<held, calls, turn, threw, installer, install>>
      BY <1>1, <1>2, <1>14 DEF DeleteAdapter, installVars
    <2>2. callbacks' \in [AsyncJobs -> [Kinds -> 0..MaxCallbacks]]
      BY <1>4, <1>14 DEF DeleteAdapter
    <2>3. r \in JobRecords /\ r.count = job[j].count /\ r.sharedThis = job[j].sharedThis
      BY <1>2 DEF JobRecords
    <2>4. /\ c \in ControlRecords
          /\ c.at # "none" /\ control[j].at # "none"
          /\ c.at \in {"idle", "executing", "reporting", "escaped"} <=>
                control[j].at \in {"idle", "executing", "reporting", "escaped"}
          /\ c.loop # "none" => c.at \in {"executing", "reporting"}
          /\ c.loop \in {"completed", "error"} <=> c.loop # "none" /\ c.at = "reporting"
      BY <1>2, <1>3, <1>4, <1>14, AsyncJobsAssumption DEF DeleteAdapter, ControlRecords, StartLoop, Kinds
    <2> HIDE DEF r, c
    <2> QED
      BY <2>1, <2>2, <2>3, <2>4, RefInvMove
  <1>22. ASSUME NEW j \in AsyncJobs, Escapes(j)
        PROVE  RefInv'
    <2> DEFINE r == job[j]
               c == [control[j] EXCEPT !.at = "escaped"]
    <2>1. /\ job' = [job EXCEPT ![j] = r]
          /\ control' = [control EXCEPT ![j] = c]
          /\ main' \in {main, "run", "idle"}
          /\ crashed' \in BOOLEAN
          /\ UNCHANGED <<held, calls, turn, threw, installer, install>>
      BY <1>1, <1>2, <1>22 DEF Escapes, installVars
    <2>2. callbacks' \in [AsyncJobs -> [Kinds -> 0..MaxCallbacks]]
      BY <1>4, <1>22 DEF Escapes
    <2>3. r \in JobRecords /\ r.count = job[j].count /\ r.sharedThis = job[j].sharedThis
      BY <1>2 DEF JobRecords
    <2>4. /\ c \in ControlRecords
          /\ c.at # "none" /\ control[j].at # "none"
          /\ c.at \in {"idle", "executing", "reporting", "escaped"} <=>
                control[j].at \in {"idle", "executing", "reporting", "escaped"}
          /\ c.loop # "none" => c.at \in {"executing", "reporting"}
          /\ c.loop \in {"completed", "error"} <=> c.loop # "none" /\ c.at = "reporting"
      BY <1>2, <1>22 DEF Escapes, ControlRecords
    <2> HIDE DEF r, c
    <2> QED
      BY <2>1, <2>2, <2>3, <2>4, RefInvMove
  <1>15. CASE UNCHANGED <<job, control, callbacks, held, calls, turn, threw>>
                /\ CallTypes' /\ InstallTypes' /\ crashed' \in BOOLEAN
    <2>1. AsyncTypes'
      BY <1>1, <1>15, TypePartsNext DEF JobTypes, ControlTypes, CallbackTypes
    <2>2. RunPhases' /\ UnbornUnknown'
      BY <1>15 DEF RefInv, RunPhases, UnbornUnknown
    <2>3. CountIsReferences'
      <3>1. \A q \in AsyncJobs : CallsOf(q)' = CallsOf(q)
        BY <1>15 DEF CallsOf
      <3> QED
        BY <1>15, <3>1 DEF RefInv, CountIsReferences
    <2> QED
      BY <2>1, <2>2, <2>3 DEF RefInv
  <1>16. ASSUME ServeAsyncCall
         PROVE  RefInv'
    <2>1. /\ UNCHANGED <<job, control, callbacks, held, calls, turn, threw>>
          /\ CallTypes' /\ InstallTypes' /\ crashed' \in BOOLEAN
      BY <1>1, <1>16 DEF ServeAsyncCall, installVars, CallTypes, InstallTypes
    <2> QED
      BY <1>15, <2>1
  <1>17. ASSUME NEW r \in Requests,
                InstallDependencies(r) \/ BeginInstaller(r) \/ EndInstaller(r)
                   \/ UnlockInstaller(r)
         PROVE  RefInv'
    <2>1. InstallTypes'
      <3>1. CASE InstallDependencies(r)
        <4>1. CASE installer.locked
          BY <1>1, <3>1, <4>1 DEF InstallDependencies, InstallTypes
        <4>2. CASE ~ installer.locked
          <5>1. /\ installer' = [locked |-> TRUE, dependencies |-> r, callback |-> r]
                /\ install' = [install EXCEPT ![r].at = "started"]
            BY <3>1, <4>2 DEF InstallDependencies
          <5>2. installer' \in [locked : BOOLEAN, dependencies : Requests \cup {NoRequest},
                                callback : Requests \cup {NoRequest}]
            BY <5>1
          <5> QED
            BY <1>1, <5>1, <5>2 DEF InstallTypes
        <4> QED
          BY <4>1, <4>2
      <3>2. CASE BeginInstaller(r)
        <4>1. /\ installer.dependencies \in Requests \cup {NoRequest}
              /\ install' = [install EXCEPT ![r].at = "installing",
                                           ![r].ran = installer.dependencies]
              /\ installer' = installer
          BY <1>1, <3>2 DEF BeginInstaller, InstallTypes
        <4> DEFINE R == [at : {"none", "refused", "started", "installing", "installed",
                               "posted", "done"},
                         ran : Requests \cup {NoRequest}, told : Requests \cup {NoRequest}]
                   m == [install[r] EXCEPT !.at = "installing", !.ran = installer.dependencies]
        <4>2. install \in [Requests -> R] /\ install[r] \in R
          BY <1>1 DEF InstallTypes
        <4>3. m \in R
          BY <4>1, <4>2
        <4>4. install' = [install EXCEPT ![r] = m]
          BY <4>1, <4>2
        <4> HIDE DEF m
        <4>5. install' \in [Requests -> R]
          <5> HIDE DEF R
          <5> QED
            BY <4>2, <4>3, <4>4
        <4> QED
          BY <1>1, <4>1, <4>5 DEF InstallTypes
      <3>3. CASE EndInstaller(r)
        BY <1>1, <3>3 DEF EndInstaller, InstallTypes
      <3>4. CASE UnlockInstaller(r)
        BY <1>1, <3>4 DEF UnlockInstaller, InstallTypes
      <3> QED
        BY <1>17, <3>1, <3>2, <3>3, <3>4
    <2>2. UNCHANGED <<job, control, callbacks, held, calls, turn, threw, main, crashed>>
      BY <1>17 DEF InstallDependencies, BeginInstaller, EndInstaller,
                   UnlockInstaller, jobVars
    <2>3. CallTypes' /\ crashed' \in BOOLEAN
      BY <1>1, <2>2 DEF CallTypes
    <2> QED
      BY <1>15, <2>1, <2>2, <2>3
  <1>18. CASE UNCHANGED asyncVars
    <2>1. /\ UNCHANGED <<job, control, callbacks, held, calls, turn, threw>>
          /\ CallTypes' /\ InstallTypes' /\ crashed' \in BOOLEAN
      BY <1>1, <1>18 DEF asyncVars, CallTypes, InstallTypes
    <2> QED
      BY <1>15, <2>1
  <1>19. CASE JobStep
    BY <1>5, <1>6, <1>7, <1>8, <1>9, <1>10, <1>11, <1>12, <1>13, <1>14, <1>19, <1>22,
       RefInvNewJob, RefInvHeld, RefInvDoCallback, RefInvEndRun DEF JobStep
  <1>20. CASE ServeStep
    <2>1. ASSUME NEW j \in AsyncJobs, AsyncCallThrows(j)
          PROVE  RefInv'
      <3>1. callbacks[j]["error"] \in 0..MaxCallbacks
        BY <1>4 DEF Kinds
      <3>2. CallIsDeleted /\ threw' = threw \cup {<<turn, callbacks[j]["error"]>>}
        BY <2>1 DEF AsyncCallThrows
      <3> QED
        BY <3>1, <3>2, RefInvCallEnds
    <2>2. ASSUME AsyncCallEnds
          PROVE  RefInv'
      BY <2>2, RefInvCallEnds DEF AsyncCallEnds
    <2> QED
      BY <1>16, <1>20, <2>1, <2>2 DEF ServeStep
  <1>21. CASE InstallStep
    BY <1>17, <1>21, RefInvPostInstalled DEF InstallStep
  <1> QED
    BY <1>18, <1>19, <1>20, <1>21 DEF AsyncJobsNext

-----------------------------------------------------------------------------
(* Outcomes.                                                                *)

\* Initially no outcome was reported.
LEMMA OutcomeInit == AsyncJobsInit => OutcomeInv
  BY DEF AsyncJobsInit, OutcomeInv, OneOutcome, LoopProgress, Early, Late

\* Calls are as they were, but for at most one more that is none of this job's
\* outcome.
CallsKept(j) ==
    \/ calls' = calls
    \/ \E c \in CallRecords :
          calls' = Append(calls, c) /\ (c.job # j \/ c.kind = "progress")

\* A step that posts nothing about job j but progress leaves the other calls where they were.
LEMMA CallsKeptFacts ==
    ASSUME CallTypes, NEW j \in AsyncJobs, CallsKept(j)
    PROVE  /\ Len(calls) \in Nat /\ Len(calls') \in Nat /\ Len(calls) <= Len(calls')
           /\ \A i \in 1..Len(calls) : calls'[i] = calls[i]
           /\ \A i \in 1..Len(calls') :
                 i \in 1..Len(calls) \/ calls'[i].job # j \/ calls'[i].kind = "progress"
  <1>1. CASE calls' = calls
    BY <1>1 DEF CallTypes
  <1>2. ASSUME NEW c \in CallRecords, calls' = Append(calls, c), c.job # j \/ c.kind = "progress"
        PROVE  /\ Len(calls) \in Nat /\ Len(calls') \in Nat /\ Len(calls) <= Len(calls')
               /\ \A i \in 1..Len(calls) : calls'[i] = calls[i]
               /\ \A i \in 1..Len(calls') :
                     i \in 1..Len(calls) \/ calls'[i].job # j \/ calls'[i].kind = "progress"
    <2>1. /\ Len(calls) \in Nat /\ Len(calls') = Len(calls) + 1
          /\ calls'[Len(calls) + 1] = c
          /\ \A i \in 1..Len(calls) : calls'[i] = calls[i]
      BY <1>2 DEF CallTypes
    <2>2. \A i \in 1..Len(calls') : i \in 1..Len(calls) \/ i = Len(calls) + 1
      BY <2>1
    <2> QED
      BY <1>2, <2>1, <2>2
  <1> QED
    BY <1>1, <1>2 DEF CallsKept

\* What has been posted stays posted, and no more of it is.
LEMMA PostedKept ==
    ASSUME CallTypes, NEW j \in AsyncJobs, NEW k \in {"completed", "error"}, NEW n,
           CallsKept(j)
    PROVE  /\ PostedOnce(j, k, n) => PostedOnce(j, k, n)'
           /\ NotPosted(j, k, n) => NotPosted(j, k, n)'
  <1> DEFINE c == JobCall(j, k, n)
  <1>1. /\ Len(calls) \in Nat /\ Len(calls') \in Nat /\ Len(calls) <= Len(calls')
        /\ \A i \in 1..Len(calls) : calls'[i] = calls[i]
        /\ \A i \in 1..Len(calls') :
              i \in 1..Len(calls) \/ calls'[i].job # j \/ calls'[i].kind = "progress"
    BY CallsKeptFacts
  <1>2. c.job = j /\ c.kind = k /\ k # "progress"
    BY DEF JobCall
  <1> HIDE DEF c
  <1>3. \A i \in 1..Len(calls') : calls'[i] = c <=> i \in 1..Len(calls) /\ calls[i] = c
    BY <1>1, <1>2
  <1>4. {i \in 1..Len(calls') : calls'[i] = c} = {i \in 1..Len(calls) : calls[i] = c}
    BY <1>1, <1>3
  <1>5. 1..Len(calls) \subseteq 1..Len(calls')
    BY <1>1
  <1>6. PostedOnce(j, k, n) => PostedOnce(j, k, n)'
    BY <1>4, <1>5 DEF PostedOnce, c
  <1>7. NotPosted(j, k, n) => NotPosted(j, k, n)'
    BY <1>3 DEF NotPosted, c
  <1> QED
    BY <1>6, <1>7

\* A step of a job that is not yet over.
LEMMA OutcomeEarly ==
    ASSUME CallTypes, NEW j \in AsyncJobs, OneOutcome(j), CallsKept(j),
           control[j].at \in Early, control'[j].at \in Early,
           job'[j].completed = job[j].completed, job'[j].hadError = job[j].hadError
    PROVE  OneOutcome(j)' /\ LoopProgress(j)'
  <1>1. control'[j].at \notin Late /\ control[j].at \notin Late
    BY DEF Early, Late
  <1>2. LoopProgress(j)'
    BY <1>1 DEF LoopProgress
  <1>3. control'[j].at # "reporting"
    BY <1>1 DEF Late
  <1>4. \A i \in 1..Len(calls') : calls'[i].job = j => calls'[i].kind = "progress"
    <2>1. \A i \in 1..Len(calls) : calls[i].job = j => calls[i].kind = "progress"
      BY <1>1 DEF OneOutcome
    <2> QED
      BY <2>1, CallsKeptFacts
  <1> QED
    BY <1>1, <1>2, <1>3, <1>4 DEF OneOutcome

\* A step of a job that is over, or of others.
LEMMA OutcomeLate ==
    ASSUME CallTypes, ControlTypes, NEW j \in AsyncJobs,
           OneOutcome(j), LoopProgress(j), calls' = calls \/
              \E c \in CallRecords : calls' = Append(calls, c) /\ c.job # j,
           control[j].at \in Late, control'[j].at \in Late,
           control'[j].at = "reporting" => control[j].at = "reporting",
           job'[j].completed = job[j].completed, job'[j].hadError = job[j].hadError,
           control'[j].loop = control[j].loop, control'[j].i = control[j].i,
           control'[j].due = control[j].due,
           \A k \in Kinds : callbacks[j][k] <= callbacks'[j][k],
           callbacks[j] \in [Kinds -> Nat], callbacks'[j] \in [Kinds -> Nat]
    PROVE  OneOutcome(j)' /\ LoopProgress(j)'
  <1>1. PICK k \in {"completed", "error"} : k = OutcomeKind(j) /\ k = OutcomeKind(j)'
    BY DEF OutcomeKind
  <1>2. CallsKept(j)
    BY DEF CallsKept
  <1>3. OneOutcome(j)'
    <2>1. ASSUME NEW i \in 1..Len(calls'), calls'[i].job = j, calls'[i].kind # "progress"
          PROVE  calls'[i].kind = k
      <3>1. i \in 1..Len(calls) /\ calls'[i] = calls[i]
        BY <1>2, <2>1, CallsKeptFacts
      <3> QED
        BY <1>1, <2>1, <3>1 DEF OneOutcome
    <2>2. control'[j].at \notin Early
      BY DEF Early, Late
    <2>3. control'[j].at = "reporting" => control'[j].loop \in {k, "none"}
      BY <1>1 DEF OneOutcome
    <2>4. job'[j].completed = ~ job'[j].hadError
      BY DEF OneOutcome
    <2> QED
      BY <1>1, <2>1, <2>2, <2>3, <2>4 DEF OneOutcome
  <1>4. \A n : PostedOnce(j, k, n) => PostedOnce(j, k, n)'
    BY <1>1, <1>2, PostedKept
  <1>5. \A n : NotPosted(j, k, n) => NotPosted(j, k, n)'
    BY <1>1, <1>2, PostedKept
  <1>6. LoopProgress(j)'
    <2>1. control[j].due \in Nat /\ control[j].due <= callbacks[j][k]
      BY <1>1 DEF LoopProgress, ControlTypes, ControlRecords
    <2>2. control'[j].due <= callbacks'[j][k]
      BY <2>1 DEF Kinds
    <2>3. control'[j].at = "reporting" /\ control'[j].loop # "none" =>
              \A n \in 1..MaxCallbacks :
                 IF n < control'[j].i THEN PostedOnce(j, k, n)'
                                     ELSE NotPosted(j, k, n)'
      BY <1>1, <1>4, <1>5 DEF LoopProgress
    <2>4. control'[j].loop = "none" =>
              \A n \in 1..control'[j].due : PostedOnce(j, k, n)'
      BY <1>1, <1>4 DEF LoopProgress
    <2> QED
      BY <1>1, <2>2, <2>3, <2>4 DEF LoopProgress
  <1> QED
    BY <1>3, <1>6

\* The job's code is over: Run goes through the callbacks of its outcome.
LEMMA OutcomeKnown ==
    ASSUME RefInv, RefInv', NEW j \in AsyncJobs, OneOutcome(j), Returns(j) \/ Throws(j)
    PROVE  OneOutcome(j)' /\ LoopProgress(j)'
  <1>1. /\ JobTypes /\ ControlTypes /\ CallbackTypes /\ CallTypes
        /\ ControlTypes'
    BY TypeParts, TypePartsNext DEF RefInv
  <1>2. PICK k \in {"completed", "error"} :
           /\ job' = IF k = "error" THEN [job EXCEPT ![j].hadError = TRUE]
                                    ELSE [job EXCEPT ![j].completed = TRUE]
           /\ control' = [control EXCEPT ![j] =
                            StartLoop([@ EXCEPT !.at = "reporting", !.due = callbacks[j][k]], k)]
    BY DEF Returns, Throws
  <1>3. control[j].at = "executing" /\ UNCHANGED <<callbacks, calls>>
    BY DEF Returns, Throws
  <1>4. ~ job[j].completed /\ ~ job[j].hadError
    BY <1>3 DEF OneOutcome, Early
  <1>5. /\ job'[j].hadError = (k = "error")
        /\ job'[j].completed = (k = "completed")
    BY <1>1, <1>2, <1>4 DEF JobTypes, JobRecords
  <1>6. OutcomeKind(j)' = k
    BY <1>5 DEF OutcomeKind
  <1>7. /\ control'[j].at = "reporting" /\ control'[j].loop = k /\ control'[j].i = 1
        /\ control'[j].due = callbacks[j][k]
    <2> DEFINE d == [control[j] EXCEPT !.at = "reporting", !.due = callbacks[j][k]]
    <2>1. callbacks[j][k] \in 0..MaxCallbacks /\ control[j] \in ControlRecords /\ k \in Kinds
      BY <1>1 DEF CallbackTypes, Kinds, ControlTypes
    <2>2. d \in ControlRecords /\ d.at = "reporting" /\ d.due = callbacks[j][k]
      BY <2>1 DEF ControlRecords
    <2>3. control'[j] = StartLoop(d, k)
      BY <1>1, <1>2 DEF ControlTypes
    <2> HIDE DEF d
    <2> QED
      BY <2>1, <2>2, <2>3, LoopStarted
  <1>8. \A i \in 1..Len(calls') : calls'[i].job = j => calls'[i].kind = "progress"
    BY <1>3 DEF OneOutcome, Late
  <1>9. OneOutcome(j)'
    BY <1>5, <1>6, <1>7, <1>8 DEF OneOutcome, Early
  <1>10. \A n : NotPosted(j, k, n)'
    <2> SUFFICES ASSUME NEW n, NEW i \in 1..Len(calls')
                 PROVE  calls'[i] # JobCall(j, k, n)
      BY DEF NotPosted
    <2>1. JobCall(j, k, n).job = j /\ JobCall(j, k, n).kind = k /\ k # "progress"
      BY DEF JobCall
    <2> QED
      BY <1>8, <2>1
  <1>11. LoopProgress(j)'
    <2>1. callbacks[j][k] <= callbacks[j][k]
      BY <1>1 DEF CallbackTypes, Kinds
    <2>2. \A n \in 1..MaxCallbacks : ~ (n < 1)
      OBVIOUS
    <2> QED
      BY <1>3, <1>6, <1>7, <1>10, <2>1, <2>2 DEF LoopProgress
  <1> QED
    BY <1>9, <1>11

\* The loop over the outcome's callbacks posts the one it is at.
LEMMA OutcomePosted ==
    ASSUME RefInv, NEW j \in AsyncJobs, OneOutcome(j), LoopProgress(j),
           DoCallback(j), control[j].at = "reporting"
    PROVE  OneOutcome(j)' /\ LoopProgress(j)'
  <1>1. /\ JobTypes /\ ControlTypes /\ CallbackTypes /\ CallTypes
    BY TypeParts DEF RefInv
  <1>2. PICK k \in {"completed", "error"}, m \in 1..MaxCallbacks :
           /\ k = OutcomeKind(j) /\ k = control[j].loop /\ m = control[j].i
           /\ calls' = Append(calls, JobCall(j, k, m))
           /\ job' = [job EXCEPT ![j].count = @ + 1]
           /\ control' = [control EXCEPT ![j].i = @ + 1]
           /\ callbacks' = callbacks
    <2>1. control[j].loop = OutcomeKind(j) /\ OutcomeKind(j) \in {"completed", "error"}
      BY DEF DoCallback, OneOutcome, OutcomeKind
    <2>2. control[j].i \in 1..MaxCallbacks
      <3>1. control[j].i \in 1..MaxCallbacks + 1 /\ control[j].i <= callbacks[j][control[j].loop]
        BY <1>1 DEF DoCallback, ControlTypes, ControlRecords
      <3>2. callbacks[j][control[j].loop] \in 0..MaxCallbacks
        BY <1>1, <2>1 DEF CallbackTypes, Kinds
      <3> QED
        BY <3>1, <3>2, AsyncJobsAssumption
    <2> QED
      BY <2>1, <2>2 DEF DoCallback
  <1>3. /\ job'[j].completed = job[j].completed /\ job'[j].hadError = job[j].hadError
        /\ control'[j].at = "reporting" /\ control'[j].loop = k /\ control'[j].i = m + 1
        /\ control'[j].due = control[j].due
    BY <1>1, <1>2 DEF JobTypes, JobRecords, ControlTypes, ControlRecords
  <1>4. OutcomeKind(j)' = k
    BY <1>2, <1>3 DEF OutcomeKind
  <1> DEFINE c == JobCall(j, k, m)
  <1>5. c.job = j /\ c.kind = k /\ c.callback = m
    BY DEF JobCall
  <1>6. /\ Len(calls) \in Nat /\ Len(calls') = Len(calls) + 1
        /\ calls'[Len(calls) + 1] = c
        /\ \A i \in 1..Len(calls) : calls'[i] = calls[i]
    <2>1. c \in CallRecords
      BY DEF JobCall, CallRecords, Kinds
    <2> HIDE DEF c
    <2>2. calls' = Append(calls, c)
      BY <1>2 DEF c
    <2> QED
      BY <1>1, <2>1, <2>2 DEF CallTypes
  <1>7. \A i \in 1..Len(calls') : i \in 1..Len(calls) \/ i = Len(calls) + 1
    BY <1>6
  <1>8. OneOutcome(j)'
    <2>1. \A i \in 1..Len(calls') :
             calls'[i].job = j /\ calls'[i].kind # "progress" => calls'[i].kind = k
      <3>1. \A i \in 1..Len(calls) :
               calls[i].job = j /\ calls[i].kind # "progress" => calls[i].kind = k
        BY <1>2 DEF OneOutcome
      <3> HIDE DEF c
      <3> QED
        BY <1>5, <1>6, <1>7, <3>1
    <2>2. job'[j].completed = ~ job'[j].hadError
      BY <1>3 DEF OneOutcome, Late
    <2> QED
      BY <1>3, <1>4, <2>1, <2>2 DEF OneOutcome, Early, Late
  <1>9. ASSUME NEW n \in 1..MaxCallbacks
        PROVE  IF n < m + 1 THEN PostedOnce(j, k, n)' ELSE NotPosted(j, k, n)'
    <2> DEFINE b == JobCall(j, k, n)
    <2>1. IF n < m THEN PostedOnce(j, k, n) ELSE NotPosted(j, k, n)
      BY <1>2 DEF LoopProgress, Late
    <2>2. b = c <=> n = m
      BY <1>5 DEF JobCall
    <2> HIDE DEF b, c
    <2>3. CASE n < m
      <3>1. PICK p \in 1..Len(calls) : {i \in 1..Len(calls) : calls[i] = b} = {p}
        BY <2>1, <2>3 DEF PostedOnce, b
      <3>2. {i \in 1..Len(calls') : calls'[i] = b} = {p}
        <4>1. \A i \in 1..Len(calls') : calls'[i] = b <=> i \in 1..Len(calls) /\ calls[i] = b
          BY <1>6, <1>7, <2>2, <2>3
        <4>2. 1..Len(calls) \subseteq 1..Len(calls')
          BY <1>6
        <4> QED
          BY <3>1, <4>1, <4>2
      <3>3. p \in 1..Len(calls')
        BY <1>6
      <3>4. PostedOnce(j, k, n)'
        BY <3>2, <3>3 DEF PostedOnce, b
      <3> QED
        BY <2>3, <3>4
    <2>4. CASE n = m
      <3>1. \A i \in 1..Len(calls) : calls[i] # b
        BY <2>1, <2>4 DEF NotPosted, b
      <3>2. {i \in 1..Len(calls') : calls'[i] = b} = {Len(calls) + 1}
        BY <1>6, <1>7, <2>2, <2>4, <3>1
      <3>3. Len(calls) + 1 \in 1..Len(calls')
        BY <1>6
      <3>4. PostedOnce(j, k, n)'
        BY <3>2, <3>3 DEF PostedOnce, b
      <3> QED
        BY <2>4, <3>4
    <2>5. CASE n > m
      <3>1. \A i \in 1..Len(calls) : calls[i] # b
        BY <2>1, <2>5 DEF NotPosted, b
      <3>2. \A i \in 1..Len(calls') : calls'[i] # b
        BY <1>6, <1>7, <2>2, <2>5, <3>1
      <3>3. NotPosted(j, k, n)'
        BY <3>2 DEF NotPosted, b
      <3> QED
        BY <2>5, <3>3
    <2> QED
      BY <2>3, <2>4, <2>5
  <1>10. LoopProgress(j)'
    <2>1. control'[j].due <= callbacks'[j][k]
      BY <1>2, <1>3 DEF LoopProgress, Late
    <2> QED
      BY <1>3, <1>4, <1>9, <2>1 DEF LoopProgress
  <1> QED
    BY <1>8, <1>10

\* The loop over the outcome's callbacks is over.
LEMMA OutcomeLoopEnds ==
    ASSUME RefInv, NEW j \in AsyncJobs, OneOutcome(j), LoopProgress(j),
           LoopEnds(j), control[j].at = "reporting"
    PROVE  OneOutcome(j)' /\ LoopProgress(j)'
  <1>1. /\ ControlTypes /\ CallbackTypes
    BY TypeParts DEF RefInv
  <1>2. PICK k \in {"completed", "error"} :
           /\ k = OutcomeKind(j) /\ k = control[j].loop
           /\ control[j].i > callbacks[j][k]
    BY DEF LoopEnds, OneOutcome, OutcomeKind
  <1>3. /\ UNCHANGED <<job, callbacks, calls>>
        /\ control' = [control EXCEPT ![j].loop = "none"]
    BY DEF LoopEnds
  <1>4. /\ control'[j].at = "reporting" /\ control'[j].loop = "none"
        /\ control'[j].due = control[j].due
    BY <1>1, <1>3 DEF ControlTypes, ControlRecords
  <1>5. OutcomeKind(j)' = k
    BY <1>2, <1>3 DEF OutcomeKind
  <1>6. OneOutcome(j)'
    BY <1>2, <1>3, <1>4, <1>5 DEF OneOutcome, Late, Early
  <1>7. ASSUME NEW n \in 1..control[j].due
        PROVE  PostedOnce(j, k, n)'
    <2>1. /\ control[j].due \in 0..MaxCallbacks /\ control[j].i \in Nat
          /\ callbacks[j][k] \in Nat
      BY <1>1 DEF ControlTypes, ControlRecords, CallbackTypes, Kinds
    <2>2. control[j].due <= callbacks[j][k]
      BY <1>2 DEF LoopProgress, Late
    <2>3. n \in 1..MaxCallbacks /\ n < control[j].i
      BY <1>2, <2>1, <2>2, AsyncJobsAssumption
    <2>4. PostedOnce(j, k, n)
      BY <1>2, <2>3 DEF LoopProgress, Late
    <2> QED
      BY <1>3, <2>4 DEF PostedOnce
  <1>8. LoopProgress(j)'
    <2>1. control'[j].due <= callbacks'[j][k]
      BY <1>2, <1>3, <1>4 DEF LoopProgress, Late
    <2> QED
      BY <1>4, <1>5, <1>7, <2>1 DEF LoopProgress
  <1> QED
    BY <1>6, <1>8

\* A job that the step is not about, or whose outcome it leaves alone.
LEMMA OutcomeApart ==
    ASSUME RefInv, RefInv', NEW j \in AsyncJobs, OneOutcome(j), LoopProgress(j),
           calls' = calls \/ \E c \in CallRecords : calls' = Append(calls, c) /\ c.job # j,
           \/ control'[j].at = control[j].at
           \/ control[j].at \in Early /\ control'[j].at \in Early
           \/ control[j].at \in Late /\ control'[j].at \in {"adapter", "done"},
           job'[j].completed = job[j].completed, job'[j].hadError = job[j].hadError,
           control'[j].loop = control[j].loop, control'[j].i = control[j].i,
           control'[j].due = control[j].due,
           \A k \in Kinds : callbacks[j][k] <= callbacks'[j][k]
    PROVE  OneOutcome(j)' /\ LoopProgress(j)'
  <1>1. /\ CallTypes /\ ControlTypes /\ CallbackTypes /\ ControlTypes' /\ CallbackTypes'
    BY TypeParts, TypePartsNext DEF RefInv
  <1>2. control[j].at \in Early \cup Late
    BY <1>1 DEF ControlTypes, ControlRecords, Early, Late
  <1>3. callbacks[j] \in [Kinds -> Nat] /\ callbacks'[j] \in [Kinds -> Nat]
    BY <1>1 DEF CallbackTypes
  <1>4. CASE control[j].at \in Early
    <2>1. control'[j].at \in Early
      BY <1>4 DEF Early, Late
    <2>2. CallsKept(j)
      BY DEF CallsKept
    <2> QED
      BY <1>1, <1>4, <2>1, <2>2, OutcomeEarly
  <1>5. CASE control[j].at \in Late
    <2>1. /\ control'[j].at \in Late
          /\ control'[j].at = "reporting" => control[j].at = "reporting"
      BY <1>5 DEF Early, Late
    <2> QED
      BY <1>1, <1>3, <1>5, <2>1, OutcomeLate
  <1> QED
    BY <1>2, <1>4, <1>5

\* Every step keeps posted and delivered callbacks in agreement with the job.
LEMMA OutcomeNext ==
    RefInv /\ RefInv' /\ OutcomeInv /\ [AsyncJobsNext]_asyncVars => OutcomeInv'
  <1> SUFFICES ASSUME RefInv, RefInv', OutcomeInv, [AsyncJobsNext]_asyncVars,
                      NEW j \in AsyncJobs
               PROVE  OneOutcome(j)' /\ LoopProgress(j)'
    BY DEF OutcomeInv
  <1>1. JobTypes /\ ControlTypes /\ CallbackTypes /\ CallTypes /\ InstallTypes
    BY TypeParts DEF RefInv
  <1>2. OneOutcome(j) /\ LoopProgress(j)
    BY DEF OutcomeInv
  <1>3. /\ job[j] \in JobRecords /\ control[j] \in ControlRecords
        /\ callbacks[j] \in [Kinds -> 0..MaxCallbacks]
        /\ \A k \in Kinds : callbacks[j][k] \in Nat /\ callbacks[j][k] <= callbacks[j][k]
    BY <1>1 DEF JobTypes, ControlTypes, CallbackTypes
  \* Steps of another job, of the main thread and of the installer.
  <1>4. CASE /\ calls' = calls \/ \E c \in CallRecords : calls' = Append(calls, c) /\ c.job # j
             /\ job'[j].completed = job[j].completed /\ job'[j].hadError = job[j].hadError
             /\ control'[j] = control[j] /\ callbacks'[j] = callbacks[j]
    <2>1. \A k \in Kinds : callbacks[j][k] <= callbacks'[j][k]
      BY <1>3, <1>4
    <2> QED
      BY <1>2, <1>4, <2>1, OutcomeApart
  <1>5. ASSUME NEW q \in AsyncJobs, NewJob(q) \/ Hold(q) \/ DropHeld(q) \/ Cancel(q)
                 \/ RunAsynchronously(q) \/ RunSynchronously(q) \/ Escapes(q)
        PROVE  OneOutcome(j)' /\ LoopProgress(j)'
    <2>1. calls' = calls /\ callbacks' = callbacks
      BY <1>5 DEF NewJob, Hold, DropHeld, Cancel, RunAsynchronously, RunSynchronously, Escapes
    <2>2. job'[j].completed = job[j].completed /\ job'[j].hadError = job[j].hadError
      BY <1>1, <1>3, <1>5 DEF JobTypes, JobRecords,
             NewJob, Hold, DropHeld, Cancel, RunAsynchronously, RunSynchronously, Escapes
    <2>3. /\ control'[j].loop = control[j].loop /\ control'[j].i = control[j].i
          /\ control'[j].due = control[j].due
          /\ \/ control'[j].at = control[j].at
             \/ control[j].at \in Early /\ control'[j].at \in Early
      BY <1>1, <1>3, <1>5 DEF ControlTypes, ControlRecords, Early,
             NewJob, Hold, DropHeld, Cancel, RunAsynchronously, RunSynchronously, Escapes
    <2>4. \A k \in Kinds : callbacks[j][k] <= callbacks'[j][k]
      BY <1>3, <2>1
    <2> QED
      BY <1>2, <2>1, <2>2, <2>3, <2>4, OutcomeApart
  <1>6. ASSUME NEW q \in AsyncJobs, NEW k \in Kinds, AddCallback(q, k)
        PROVE  OneOutcome(j)' /\ LoopProgress(j)'
    <2>1. /\ UNCHANGED <<job, calls>>
          /\ callbacks' = [callbacks EXCEPT ![q][k] = @ + 1]
          /\ control' = [control EXCEPT ![q].raced = @ \/ control[q].loop = k]
      BY <1>6 DEF AddCallback
    <2>2. /\ control'[j].loop = control[j].loop /\ control'[j].i = control[j].i
          /\ control'[j].due = control[j].due /\ control'[j].at = control[j].at
      BY <1>1, <1>3, <2>1 DEF ControlTypes, ControlRecords
    <2>3. \A l \in Kinds : callbacks[j][l] <= callbacks'[j][l]
      BY <1>1, <1>3, <2>1 DEF CallbackTypes
    <2> QED
      BY <1>2, <2>1, <2>2, <2>3, OutcomeApart
  <1>7. ASSUME NEW q \in AsyncJobs, NEW p \in {-1, 1, 3}, SetProgress(q, p)
        PROVE  OneOutcome(j)' /\ LoopProgress(j)'
    <2>1. /\ control[q].at = "executing" /\ calls' = calls /\ callbacks' = callbacks
          /\ job' = [job EXCEPT ![q].progress = Clamp(p)]
          /\ \E d : control' = [control EXCEPT ![q] = d] /\ d.at = control[q].at
      <3>1. control' = [control EXCEPT ![q] =
                          StartLoop([control[q] EXCEPT !.changes = control[q].changes + 1], "progress")]
        BY <1>7 DEF SetProgress
      <3>2. StartLoop([control[q] EXCEPT !.changes = control[q].changes + 1], "progress").at
               = control[q].at
        BY <1>1 DEF StartLoop, ControlTypes, ControlRecords
      <3>3. /\ control[q].at = "executing" /\ calls' = calls /\ callbacks' = callbacks
            /\ job' = [job EXCEPT ![q].progress = Clamp(p)]
        BY <1>7 DEF SetProgress
      <3> QED
        BY <3>1, <3>2, <3>3
    <2>2. job'[j].completed = job[j].completed /\ job'[j].hadError = job[j].hadError
      BY <1>1, <1>3, <2>1 DEF JobTypes, JobRecords
    <2>3. CASE q # j
      <3>1. control'[j] = control[j]
        BY <1>1, <2>1, <2>3 DEF ControlTypes
      <3> QED
        BY <1>4, <2>1, <2>2, <3>1
    <2>4. CASE q = j
      <3>1. control[j].at \in Early /\ control'[j].at \in Early
        BY <1>1, <2>1, <2>4 DEF ControlTypes, Early
      <3>2. CallsKept(j)
        BY <2>1 DEF CallsKept
      <3> QED
        BY <1>1, <1>2, <2>2, <3>1, <3>2, OutcomeEarly
    <2> QED
      BY <2>3, <2>4
  <1>8. ASSUME NEW q \in AsyncJobs, Returns(q) \/ Throws(q)
        PROVE  OneOutcome(j)' /\ LoopProgress(j)'
    <2>1. CASE q # j
      <3>1. job'[j] = job[j] /\ control'[j] = control[j] /\ callbacks' = callbacks /\ calls' = calls
        BY <1>1, <1>8, <2>1 DEF Returns, Throws, JobTypes, ControlTypes
      <3> QED
        BY <1>4, <3>1
    <2>2. CASE q = j
      BY <1>2, <1>8, <2>2, OutcomeKnown
    <2> QED
      BY <2>1, <2>2
  <1>9. ASSUME NEW q \in AsyncJobs, DoCallback(q)
        PROVE  OneOutcome(j)' /\ LoopProgress(j)'
    <2> DEFINE c == JobCall(q, control[q].loop, control[q].i)
    <2>1. /\ control[q].loop # "none"
          /\ calls' = Append(calls, c) /\ callbacks' = callbacks
          /\ job' = [job EXCEPT ![q].count = @ + 1]
          /\ control' = [control EXCEPT ![q].i = @ + 1]
      BY <1>9 DEF DoCallback
    <2>2. c \in CallRecords /\ c.job = q /\ c.kind = control[q].loop
      <3>1. control[q].loop \in Kinds
        BY <1>1, <2>1 DEF ControlTypes, ControlRecords
      <3>2. control[q].i \in 1..MaxCallbacks
        <4>1. control[q].i \in 1..MaxCallbacks + 1 /\ control[q].i <= callbacks[q][control[q].loop]
          BY <1>1, <1>9 DEF DoCallback, ControlTypes, ControlRecords
        <4>2. callbacks[q][control[q].loop] \in 0..MaxCallbacks
          BY <1>1, <3>1 DEF CallbackTypes
        <4> QED
          BY <4>1, <4>2, AsyncJobsAssumption
      <3> QED
        BY <3>1, <3>2 DEF JobCall, CallRecords
    <2> HIDE DEF c
    <2>3. job'[j].completed = job[j].completed /\ job'[j].hadError = job[j].hadError
      BY <1>1, <1>3, <2>1 DEF JobTypes, JobRecords
    <2>4. CASE q # j
      <3>1. control'[j] = control[j]
        BY <1>1, <2>1, <2>4 DEF ControlTypes
      <3>2. \E b \in CallRecords : calls' = Append(calls, b) /\ b.job # j
        BY <2>1, <2>2, <2>4
      <3> QED
        BY <1>4, <2>1, <2>3, <3>1, <3>2
    <2>5. CASE q = j
      <3>1. control[j].at \in {"executing", "reporting"}
            /\ (control[j].at = "executing" => control[j].loop = "progress")
        BY <1>3, <2>1, <2>5 DEF RefInv, RunPhases, ControlRecords, Kinds
      <3>2. CASE control[j].at = "executing"
        <4>1. control'[j].at = "executing"
          BY <1>1, <2>1, <3>2 DEF ControlTypes, ControlRecords
        <4>2. CallsKept(j)
          BY <2>1, <2>2, <2>5, <3>1, <3>2 DEF CallsKept
        <4> QED
          BY <1>1, <1>2, <2>3, <3>2, <4>1, <4>2, OutcomeEarly DEF Early
      <3>3. CASE control[j].at = "reporting"
        BY <1>2, <1>9, <2>5, <3>3, OutcomePosted
      <3> QED
        BY <3>1, <3>2, <3>3
    <2> QED
      BY <2>4, <2>5
  <1>10. ASSUME NEW q \in AsyncJobs, LoopEnds(q)
         PROVE  OneOutcome(j)' /\ LoopProgress(j)'
    <2>1. /\ control[q].loop # "none"
          /\ UNCHANGED <<job, callbacks, calls>>
          /\ control' = [control EXCEPT ![q].loop = "none"]
      BY <1>10 DEF LoopEnds
    <2>2. CASE q # j
      <3>1. control'[j] = control[j]
        BY <1>1, <2>1, <2>2 DEF ControlTypes
      <3> QED
        BY <1>4, <2>1, <3>1
    <2>3. CASE q = j
      <3>1. control[j].at \in {"executing", "reporting"}
        BY <2>1, <2>3 DEF RefInv, RunPhases
      <3>2. CASE control[j].at = "executing"
        <4>1. control'[j].at = "executing"
          BY <1>1, <2>1, <3>2 DEF ControlTypes, ControlRecords
        <4>2. CallsKept(j)
          BY <2>1 DEF CallsKept
        <4> QED
          BY <1>1, <1>2, <2>1, <3>2, <4>1, <4>2, OutcomeEarly DEF Early
      <3>3. CASE control[j].at = "reporting"
        BY <1>2, <1>10, <2>3, <3>3, OutcomeLoopEnds
      <3> QED
        BY <3>1, <3>2, <3>3
    <2> QED
      BY <2>2, <2>3
  <1>11. ASSUME NEW q \in AsyncJobs, EndRun(q) \/ DeleteAdapter(q)
         PROVE  OneOutcome(j)' /\ LoopProgress(j)'
    <2>1. /\ UNCHANGED <<callbacks, calls>>
          /\ control[q].at \in {"reporting", "adapter"}
      BY <1>11 DEF EndRun, DeleteAdapter
    <2>2. PICK a \in {"adapter", "done"} : control' = [control EXCEPT ![q].at = a]
      BY <1>11 DEF EndRun, DeleteAdapter
    <2>3. job'[j].completed = job[j].completed /\ job'[j].hadError = job[j].hadError
      <3>1. CASE EndRun(q)
        <4>1. job' = [job EXCEPT ![q].sharedThis = FALSE, ![q].count = @ - 1]
          BY <3>1 DEF EndRun
        <4> QED
          BY <1>1, <1>3, <4>1 DEF JobTypes, JobRecords
      <3>2. CASE DeleteAdapter(q)
        BY <3>2 DEF DeleteAdapter
      <3> QED
        BY <1>11, <3>1, <3>2
    <2>4. /\ control'[j].loop = control[j].loop /\ control'[j].i = control[j].i
          /\ control'[j].due = control[j].due
          /\ \/ control'[j].at = control[j].at
             \/ control[j].at \in Late /\ control'[j].at \in {"adapter", "done"}
      BY <1>1, <1>3, <2>1, <2>2 DEF ControlTypes, ControlRecords, Late
    <2>5. \A k \in Kinds : callbacks[j][k] <= callbacks'[j][k]
      BY <1>3, <2>1
    <2> QED
      BY <1>2, <2>1, <2>3, <2>4, <2>5, OutcomeApart
  <1>12. CASE JobStep
    <2>1. ASSUME NEW q \in AsyncJobs, LoopRunsAway(q)
          PROVE  OneOutcome(j)' /\ LoopProgress(j)'
      BY <1>4, <2>1 DEF LoopRunsAway
    <2> QED
      BY <1>5, <1>6, <1>7, <1>8, <1>9, <1>10, <1>11, <1>12, <2>1 DEF JobStep
  <1>13. CASE ServeStep
    <2>1. job'[j].completed = job[j].completed /\ job'[j].hadError = job[j].hadError
      BY <1>1, <1>3, <1>13 DEF ServeStep, ServeAsyncCall, AsyncCallEnds, AsyncCallThrows,
                               CallIsDeleted, JobTypes, JobRecords
    <2>2. UNCHANGED <<calls, control, callbacks>>
      BY <1>13 DEF ServeStep, ServeAsyncCall, AsyncCallEnds, AsyncCallThrows, CallIsDeleted
    <2> QED
      BY <1>4, <2>1, <2>2
  <1>14. CASE InstallStep
    <2>1. UNCHANGED <<job, control, callbacks>>
      BY <1>14 DEF InstallStep, InstallDependencies, BeginInstaller, EndInstaller,
                   PostInstalled, UnlockInstaller, jobVars
    <2>2. calls' = calls \/ \E c \in CallRecords : calls' = Append(calls, c) /\ c.job # j
      <3>1. InstallCall(installer.callback) \in CallRecords
            /\ InstallCall(installer.callback).job # j
        BY <1>1, AsyncJobsAssumption DEF InstallTypes, InstallCall, CallRecords
      <3> QED
        BY <1>14, <3>1 DEF InstallStep, InstallDependencies, BeginInstaller, EndInstaller,
                           PostInstalled, UnlockInstaller
    <2> QED
      BY <1>4, <2>1, <2>2
  <1>15. CASE UNCHANGED asyncVars
    BY <1>4, <1>15 DEF asyncVars
  <1> QED
    BY <1>12, <1>13, <1>14, <1>15 DEF AsyncJobsNext

-----------------------------------------------------------------------------
(* What the runs check, for every set of jobs and requests.                 *)

AsyncInv == RefInv /\ InstallerOwned /\ OutcomeInv

\* The inductive invariant holds in every state.
LEMMA AsyncInvHolds == AsyncJobsSpec => []AsyncInv
  <1>1. AsyncJobsInit => AsyncInv
    BY RefInvInit, InstallerOwnedInit, OutcomeInit DEF AsyncInv
  <1>2. AsyncInv /\ [AsyncJobsNext]_asyncVars => AsyncInv'
    <2> SUFFICES ASSUME AsyncInv, [AsyncJobsNext]_asyncVars
                 PROVE  AsyncInv'
      OBVIOUS
    <2>1. RefInv'
      BY RefInvNext DEF AsyncInv
    <2>2. InstallerOwned'
      BY InstallerOwnedNext DEF AsyncInv, RefInv
    <2>3. OutcomeInv'
      BY <2>1, OutcomeNext DEF AsyncInv
    <2> QED
      BY <2>1, <2>2, <2>3 DEF AsyncInv
  <1> QED
    BY <1>1, <1>2, PTL DEF AsyncJobsSpec

\* Type correctness: every field of a job, its thread and the installer keeps to
\* its values; the callback index never passes the end of the vector by more than
\* one and no reference count goes below zero.
THEOREM AsyncJobsTypeCorrect == AsyncJobsSpec => []AsyncJobsTypeOK
  <1>1. AsyncInv => AsyncJobsTypeOK
    BY DEF AsyncInv, RefInv, AsyncTypes
  <1> QED
    BY <1>1, AsyncInvHolds, PTL

\* The references of a job are counted right (reference_counted.h, async_job.cpp
\* sharedThis): its run, a waiting call and code that kept it find it alive,
\* whatever the main thread and the jobs' threads do in between.
THEOREM NoJobFreedWhileReachable == AsyncJobsSpec => []JobsLiveWhileReachable
  <1>1. AsyncInv => JobsLiveWhileReachable
    <2> SUFFICES ASSUME AsyncInv, NEW j \in AsyncJobs,
                        \/ control[j].at \in {"idle", "executing", "reporting", "escaped"}
                        \/ j \in held
                        \/ \E c \in Waiting : c.job = j
                 PROVE  job[j].count > 0
      BY DEF JobsLiveWhileReachable, Exists
    <2>1. RefInv
      BY DEF AsyncInv
    <2>2. control[j].at \in {"idle", "executing", "reporting", "escaped"} => job[j].sharedThis
      BY <2>1 DEF RefInv, RunPhases
    <2>3. (\E c \in Waiting : c.job = j) => \E i \in turn..Len(calls) : calls[i].job = j
      BY DEF Waiting
    <2> QED
      BY <2>1, <2>2, <2>3, CountFacts
  <1> QED
    BY <1>1, AsyncInvHolds, PTL

\* A completed callback finds the job complete and not failed, an error callback
\* finds it failed and not complete (async_job.cpp, Run and Error), however late
\* the main thread serves it.
THEOREM CallbacksSeeOutcome == AsyncJobsSpec => []CallbacksSeeTheirOutcome
  <1>1. AsyncInv => CallbacksSeeTheirOutcome
    <2> SUFFICES ASSUME AsyncInv, NEW c \in Waiting
                 PROVE  /\ c.kind = "completed" => job[c.job].completed /\ ~job[c.job].hadError
                        /\ c.kind = "error" => job[c.job].hadError /\ ~job[c.job].completed
      BY DEF CallbacksSeeTheirOutcome
    <2>1. CallTypes /\ JobTypes
      BY TypeParts DEF AsyncInv, RefInv
    <2>2. PICK i \in 1..Len(calls) : c = calls[i]
      BY <2>1 DEF Waiting, CallTypes
    <2>3. c \in CallRecords
      BY <2>1, <2>2 DEF CallTypes
    <2>4. CASE c.kind \notin {"completed", "error"}
      BY <2>4
    <2>5. CASE c.kind \in {"completed", "error"}
      <3>1. c.job \in AsyncJobs
        BY <2>3, <2>5 DEF CallRecords
      <3>2. OneOutcome(c.job)
        BY <3>1 DEF AsyncInv, OutcomeInv
      <3>3. control[c.job].at \in Late /\ c.kind = OutcomeKind(c.job)
        BY <2>2, <2>5, <3>2 DEF OneOutcome
      <3>4. job[c.job].completed = ~ job[c.job].hadError
        BY <3>2, <3>3 DEF OneOutcome
      <3>5. job[c.job].completed \in BOOLEAN /\ job[c.job].hadError \in BOOLEAN
        BY <2>1, <3>1 DEF JobTypes, JobRecords
      <3> QED
        BY <2>5, <3>3, <3>4, <3>5 DEF OutcomeKind
    <2> QED
      BY <2>4, <2>5
  <1> QED
    BY <1>1, AsyncInvHolds, PTL

\* Every callback that was due when a job's outcome became known is posted exactly
\* once, and none of the other outcome is (Run's and Error's loops over vectors that
\* the main thread appends to meanwhile).
THEOREM OutcomeToldOnce == AsyncJobsSpec => []OutcomeReportedOnce
  <1>1. AsyncInv => OutcomeReportedOnce
    <2> SUFFICES ASSUME AsyncInv, NEW j \in AsyncJobs,
                        control[j].at \in {"adapter", "done"}
                 PROVE  /\ \A n \in 1..control[j].due :
                             Cardinality({i \in DOMAIN calls : calls[i] = JobCall(j, OutcomeKind(j), n)}) = 1
                        /\ job[j].hadError => \A i \in DOMAIN calls :
                             calls[i].job = j => calls[i].kind # "completed"
      BY DEF OutcomeReportedOnce, OutcomeKind
    <2>1. CallTypes
      BY TypeParts DEF AsyncInv, RefInv
    <2>2. DOMAIN calls = 1..Len(calls)
      BY <2>1 DEF CallTypes
    <2>3. OneOutcome(j) /\ LoopProgress(j)
      BY DEF AsyncInv, OutcomeInv
    <2>4. control[j].loop = "none"
      BY DEF AsyncInv, RefInv, RunPhases
    <2>5. job[j].hadError => \A i \in 1..Len(calls) :
             calls[i].job = j => calls[i].kind # "completed"
      BY <2>3 DEF OneOutcome, OutcomeKind
    <2>6. ASSUME NEW n \in 1..control[j].due
          PROVE  Cardinality({i \in 1..Len(calls) : calls[i] = JobCall(j, OutcomeKind(j), n)}) = 1
      <3>1. PostedOnce(j, OutcomeKind(j), n)
        BY <2>3, <2>4 DEF LoopProgress, Late
      <3>2. PICK p \in 1..Len(calls) :
               {i \in 1..Len(calls) : calls[i] = JobCall(j, OutcomeKind(j), n)} = {p}
        BY <3>1 DEF PostedOnce
      <3> QED
        BY <3>2, FS_Singleton
    <2> QED
      BY <2>2, <2>5, <2>6
  <1> QED
    BY <1>1, AsyncInvHolds, PTL

\* An installer installs what its own call asked for and tells that call, and no
\* two run at once, although the mutex is taken on the main thread and given back
\* on the installer's (api_binding.cpp, installerMutex).
THEOREM OneInstallerAtATime == AsyncJobsSpec => []InstallerServesItsCall
  <1>1. AsyncInv => InstallerServesItsCall
    <2> SUFFICES ASSUME AsyncInv PROVE InstallerServesItsCall
      OBVIOUS
    <2> DEFINE A == {r \in Requests : install[r].at \in {"started", "installing", "installed"}}
    <2>1. \A r \in Requests : install[r].ran \in {r, NoRequest} /\ install[r].told \in {r, NoRequest}
      BY DEF AsyncInv, InstallerOwned
    <2>2. \A r, q \in A : r = q
      <3> SUFFICES ASSUME NEW r \in A, NEW q \in A PROVE r = q
        OBVIOUS
      <3>1. /\ installer = [locked |-> TRUE, dependencies |-> r, callback |-> r]
            /\ installer = [locked |-> TRUE, dependencies |-> q, callback |-> q]
        BY DEF AsyncInv, InstallerOwned
      <3>2. installer.callback = r /\ installer.callback = q
        BY <3>1
      <3> QED
        BY <3>2
    <2> HIDE DEF A
    <2>3. Cardinality(A) <= 1
      <3>1. CASE A = {}
        BY <3>1, FS_EmptySet
      <3>2. CASE A # {}
        <4>1. PICK r : A = {r}
          BY <2>2, <3>2
        <4> QED
          BY <4>1, FS_Singleton
      <3> QED
        BY <3>1, <3>2
    <2> QED
      BY <2>1, <2>3 DEF InstallerServesItsCall, A
  <1> QED
    BY <1>1, AsyncInvHolds, PTL
=============================================================================
