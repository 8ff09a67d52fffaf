--------------------------- MODULE HostLoopProofs ---------------------------
(***************************************************************************)
(* Theorems about HostLoop for every set of workers and jobs and every      *)
(* bound: the types of the host's state, and that the Windows host loses no *)
(* wake-up.                                                                 *)
(***************************************************************************)
EXTENDS HostLoop, TLAPS

-----------------------------------------------------------------------------
(* The main thread's stack as a sequence: what the three ways in which the  *)
(* actions change it keep.                                                  *)

\* Pushing a frame keeps the others, one place further down.
LEMMA PushFrame ==
    ASSUME NEW S, NEW s \in Seq(S), NEW f \in S
    PROVE  /\ <<f>> \o s \in Seq(S)
           /\ Len(<<f>> \o s) = Len(s) + 1
           /\ (<<f>> \o s)[1] = f
           /\ \A i \in 2 .. Len(s) + 1 : (<<f>> \o s)[i] = s[i - 1]
  OBVIOUS

\* Popping a frame keeps the others, one place further up.
LEMMA PopFrame ==
    ASSUME NEW S, NEW s \in Seq(S), s # <<>>
    PROVE  /\ Head(s) = s[1]
           /\ Tail(s) \in Seq(S)
           /\ Len(s) \in Nat \ {0}
           /\ Len(Tail(s)) = Len(s) - 1
           /\ \A i \in 1 .. Len(s) - 1 : Tail(s)[i] = s[i + 1]
  OBVIOUS

\* A stack that is neither empty nor a single frame has two.
LEMMA AtLeastTwo == \A n \in Nat : n # 0 /\ n # 1 => n >= 2
  OBVIOUS

\* Heads, tails and appends of sequences.
LEMMA SeqFacts ==
    ASSUME NEW S
    PROVE  /\ <<>> \in Seq(S)
           /\ \A s \in Seq(S), x \in S : Append(s, x) \in Seq(S)
           /\ \A s \in Seq(S) : Len(s) # 0 => s # <<>>
  OBVIOUS

\* The members of a queue that a job joins.
LEMMA ElemsAppend ==
    ASSUME NEW S, NEW s \in Seq(S), NEW x \in S
    PROVE  Elems(Append(s, x)) = Elems(s) \cup {x}
  <1> DEFINE t == Append(s, x)
  <1>1. /\ DOMAIN t = 1 .. Len(s) + 1
        /\ DOMAIN s = 1 .. Len(s)
        /\ Len(s) \in Nat
        /\ t[Len(s) + 1] = x
        /\ \A i \in 1 .. Len(s) : t[i] = s[i]
    OBVIOUS
  <1>2. 1 .. Len(s) + 1 = (1 .. Len(s)) \cup {Len(s) + 1}
    BY <1>1
  <1>3. ASSUME NEW y PROVE y \in Elems(t) <=> y \in Elems(s) \cup {x}
    BY <1>1, <1>2, Zenon DEF Elems
  <1> QED
    BY <1>3

\* An empty queue holds nothing.
LEMMA ElemsEmpty == Elems(<<>>) = {}
  BY DEF Elems
-----------------------------------------------------------------------------
(* The inductive invariant behind TypeOK.  An inline call returns to the    *)
(* frame below it and a caller reads the outcome of its own job: that these *)
(* have a type needs that the frame and the job exist.                      *)

\* Only the outermost frame is a callback or a job of the handler; frames that
\* run or await a job name it.
StackShape ==
    \A i \in 1 .. Len(stack) :
        /\ stack[i].via \in {"callback", "handler"} <=> i = Len(stack)
        /\ stack[i].via \in {"inline", "handler", "wait"} => stack[i].job \in Jobs

\* A worker inside InvokeMethodOnMainThread has a job.
WorkersHaveJobs == \A w \in Workers : pc[w] # "idle" => wjob[w] \in Jobs

TypeInv == TypeOK /\ StackShape /\ WorkersHaveJobs

\* The strengthened type invariant holds initially.
LEMMA TypeInvInit == Init => TypeInv
  <1> SUFFICES ASSUME Init PROVE TypeInv
    OBVIOUS
  <1>1. TypeOK
    <2>1. mainThread \in {Main, NoThread}
      <3>1. CASE platform = "linux"
        BY <3>1 DEF Init
      <3>2. CASE platform # "linux"
        BY <3>2 DEF Init
      <3> QED
        BY <3>1, <3>2
    <2>2. sync \in [Jobs -> BOOLEAN] /\ tickled \in [Jobs -> BOOLEAN]
      BY Zenon DEF Init
    <2>3. jobs \in Seq(Jobs) /\ batch \in Seq(Jobs) /\ stack \in Seq(Frames)
      BY SeqFacts, Zenon DEF Init
    <2>4. /\ alive \in [Jobs -> {"none", "live", "freed"}]
          /\ sem \in [Jobs -> {0, 1}]
          /\ outcome \in [Jobs -> Outcomes \cup {"none"}]
          /\ returned \in [Jobs -> Outcomes \cup {"none"}]
      BY DEF Init, Outcomes
    <2> QED
      BY <2>1, <2>2, <2>3, <2>4 DEF Init, TypeOK, Phases, HandlerStates, WorkerStates,
                        Outcomes
  <1>2. StackShape
    BY DEF Init, StackShape
  <1>3. WorkersHaveJobs
    BY DEF Init, WorkersHaveJobs
  <1> QED
    BY <1>1, <1>2, <1>3 DEF TypeInv

\* What the tail of InvokeMethodOnMainThread does to a worker.
LEMMA AfterPostTypes ==
    ASSUME TypeOK, WorkersHaveJobs, NEW w \in Workers, pc[w] # "idle",
           AfterPost(w)
    PROVE  /\ pc' \in [Workers -> WorkerStates]
           /\ wjob' \in [Workers -> Jobs \cup {NoJob}]
           /\ WorkersHaveJobs'
  <1>1. CASE sync[wjob[w]]
    BY <1>1 DEF AfterPost, TypeOK, WorkersHaveJobs, WorkerStates
  <1>2. CASE ~ sync[wjob[w]]
    BY <1>2 DEF AfterPost, TypeOK, WorkersHaveJobs, WorkerStates
  <1> QED
    BY <1>1, <1>2

\* A tickle keeps the types of the message queue.
LEMMA PostTickleTypes ==
    ASSUME TypeOK, NEW j, PostTickle(j)
    PROVE  tickles' \in Nat /\ tickled' \in [Jobs -> BOOLEAN]
  <1>1. tickles' \in Nat
    BY DEF PostTickle, TypeOK
  <1>2. tickled' \in [Jobs -> BOOLEAN]
    <2> DEFINE delivered == platform = "win32" /\ mainThread = Main
    <2>1. delivered \in BOOLEAN
      OBVIOUS
    <2>2. tickled' = [tickled EXCEPT ![j] = delivered]
      BY DEF PostTickle
    <2> HIDE DEF delivered
    <2> QED
      BY <2>1, <2>2 DEF TypeOK
  <1> QED
    BY <1>1, <1>2

\* Every step keeps the strengthened type invariant.
LEMMA TypeInvNext == TypeInv /\ [Next]_vars => TypeInv'
  <1> SUFFICES ASSUME TypeInv, [Next]_vars PROVE TypeInv'
    OBVIOUS
  <1> USE ConstantsAssumption
      DEF TypeInv, TypeOK, WorkersHaveJobs, Phases, HandlerStates, WorkerStates,
          Outcomes
  <1>1. ASSUME NEW w \in Workers, NEW j \in Jobs, NEW s \in BOOLEAN,
               WorkerCall(w, j, s)
        PROVE  TypeInv'
    BY <1>1 DEF WorkerCall, NewJob, StackShape, runVars, handlerVars
  <1>2. ASSUME NEW w \in Workers, WorkerPush(w)
        PROVE  TypeInv'
    <2>1. jobs' \in Seq(Jobs)
      BY <1>2 DEF WorkerPush
    <2>2. /\ pc' \in [Workers -> WorkerStates]
          /\ wjob' \in [Workers -> Jobs \cup {NoJob}]
          /\ WorkersHaveJobs'
      <3>1. CASE platform = "win32"
        BY <1>2, <3>1 DEF WorkerPush
      <3>2. CASE platform # "win32"
        BY <1>2, <3>2, AfterPostTypes DEF WorkerPush
      <3> QED
        BY <3>1, <3>2
    <2> QED
      BY <1>2, <2>1, <2>2 DEF WorkerPush, StackShape, runVars, handlerVars,
                              jobVars
  <1>3. ASSUME NEW w \in Workers, WorkerPost(w)
        PROVE  TypeInv'
    BY <1>3, AfterPostTypes, PostTickleTypes
       DEF WorkerPost, StackShape, runVars, handlerVars, jobVars
  <1>4. ASSUME NEW w \in Workers, WorkerWait(w)
        PROVE  TypeInv'
    BY <1>4 DEF WorkerWait, StackShape, runVars, handlerVars
  <1>5. ASSUME NEW w \in Workers, WorkerCollect(w)
        PROVE  TypeInv'
    BY <1>5 DEF WorkerCollect, StackShape, runVars, handlerVars
  <1>6. ASSUME NEW w \in Workers, WorkerExit(w)
        PROVE  TypeInv'
    BY <1>6 DEF WorkerExit, StackShape, runVars, handlerVars, jobVars
  <1>7. ASSUME NEW w \in Workers, NEW p \in BOOLEAN, WorkerExitDecide(w, p)
        PROVE  TypeInv'
    BY <1>7 DEF WorkerExitDecide, ExitDecision, StackShape, handlerVars, jobVars
  <1>8. ASSUME CallbackBegin
        PROVE  TypeInv'
    BY <1>8 DEF CallbackBegin, Idle, StackShape, Frame, Frames, runVars,
                handlerVars, jobVars, workerVars
  <1>9. ASSUME CallbackReturn \/ CallbackThrow
        PROVE  TypeInv'
    <2>1. /\ stack' = Tail(stack)
          /\ stack # <<>>
      BY <1>9 DEF CallbackReturn, CallbackThrow, Running
    <2>2. StackShape' /\ stack' \in Seq(Frames)
      BY <2>1, PopFrame DEF StackShape
    <2> QED
      BY <1>9, <2>2 DEF CallbackReturn, CallbackThrow, handlerVars, jobVars,
                        workerVars
  <1>10. ASSUME NEW j \in Jobs, MainCallSync(j)
         PROVE  TypeInv'
    <2>1. stack # <<>>
      BY <1>10 DEF MainCallSync, InUserCode, Running
    <2> DEFINE f == IF mainThread = Main THEN Frame("inline", j)
                    ELSE Frame("wait", j)
    <2>2. /\ stack' = <<f>> \o stack
          /\ f \in Frames
          /\ f.via \in {"inline", "wait"}
          /\ f.job = j
      BY <1>10 DEF MainCallSync, Frame, Frames
    <2>3. StackShape' /\ stack' \in Seq(Frames)
      <3> HIDE DEF f
      <3> QED
        BY <2>1, <2>2, PushFrame DEF StackShape
    <2>4. jobs' = jobs \/ jobs' = Append(jobs, j)
      BY <1>10 DEF MainCallSync
    <2>5. jobs' \in Seq(Jobs)
      <3>1. jobs \in Seq(Jobs)
        OBVIOUS
      <3>2. Append(jobs, j) \in Seq(Jobs)
        BY <3>1, SeqFacts
      <3> HIDE DEF TypeInv
      <3> QED
        BY <2>4, <3>1, <3>2, Zenon
    <2> QED
      BY <1>10, <2>3, <2>5 DEF MainCallSync, NewJob, runVars, handlerVars,
                               workerVars
  <1>11. ASSUME NEW o \in Outcomes, InlineReturn(o)
         PROVE  TypeInv'
    <2>1. stack # <<>> /\ Head(stack).via = "inline"
      BY <1>11 DEF InlineReturn, Running
    <2>2. /\ Tail(stack) \in Seq(Frames)
          /\ Tail(stack) # <<>>
      <3>1. /\ Head(stack) = stack[1]
            /\ Len(stack) \in Nat \ {0}
            /\ Tail(stack) \in Seq(Frames)
            /\ Len(Tail(stack)) = Len(stack) - 1
        BY <2>1, PopFrame
      <3>2. 1 \in 1 .. Len(stack) /\ stack[1].via = "inline"
        BY <2>1, <3>1
      <3>3. Len(stack) # 1
        BY <3>2 DEF StackShape
      <3>4. Len(Tail(stack)) # 0
        BY <3>1, <3>3
      <3> QED
        BY <3>1, <3>4, SeqFacts, Zenon
    <2> DEFINE caller == Head(Tail(stack))
               back == [caller EXCEPT !.fired = (caller.via = "exit")]
    <2>3. /\ caller \in Frames
          /\ caller = stack[2]
          /\ Len(stack) >= 2
          /\ Tail(Tail(stack)) \in Seq(Frames)
          /\ Len(Tail(Tail(stack))) = Len(stack) - 2
          /\ \A i \in 1 .. Len(stack) - 2 : Tail(Tail(stack))[i] = stack[i + 2]
      BY <2>1, <2>2, PopFrame
    <2>4. back \in Frames /\ back.via = caller.via /\ back.job = caller.job
      BY <2>3 DEF Frames
    <2>5. stack' = <<back>> \o Tail(Tail(stack))
      BY <1>11 DEF InlineReturn
    <2>6. StackShape' /\ stack' \in Seq(Frames)
      <3> HIDE DEF back, caller
      <3> QED
        BY <2>3, <2>4, <2>5, PushFrame DEF StackShape
    <2>7. /\ outcome' \in [Jobs -> Outcomes \cup {"none"}]
          /\ returned' \in [Jobs -> Outcomes \cup {"none"}]
          /\ alive' \in [Jobs -> {"none", "live", "freed"}]
      BY <1>11 DEF InlineReturn
    <2>8. tickles' \in Nat /\ tickled' \in [Jobs -> BOOLEAN]
      BY <1>11, PostTickleTypes DEF InlineReturn
    <2> QED
      BY <1>11, <2>6, <2>7, <2>8 DEF InlineReturn, runVars, handlerVars,
                                     workerVars
  <1>12. ASSUME NEW j \in Jobs, MainCallAsync(j)
         PROVE  TypeInv'
    BY <1>12, PostTickleTypes DEF MainCallAsync, NewJob, StackShape, runVars,
                                  handlerVars, workerVars
  <1>13. ASSUME MainExit
         PROVE  TypeInv'
    <2>1. stack # <<>>
      BY <1>13 DEF MainExit, InUserCode, Running
    <2> DEFINE f == Frame("exit", NoJob)
    <2>2. stack' = <<f>> \o stack /\ f \in Frames /\ f.via = "exit"
      BY <1>13 DEF MainExit, Frame, Frames
    <2>3. StackShape' /\ stack' \in Seq(Frames)
      <3> HIDE DEF f
      <3> QED
        BY <2>1, <2>2, PushFrame DEF StackShape
    <2> QED
      BY <1>13, <2>3 DEF MainExit, runVars, handlerVars, jobVars, workerVars
  <1>14. ASSUME NEW p \in BOOLEAN, MainExitDecide(p)
         PROVE  TypeInv'
    <2>1. stack' = Tail(stack) /\ stack # <<>>
      BY <1>14 DEF MainExitDecide, Running
    <2>2. StackShape' /\ stack' \in Seq(Frames)
      BY <2>1, PopFrame DEF StackShape
    <2> QED
      BY <1>14, <2>2 DEF MainExitDecide, ExitDecision, handlerVars, jobVars,
                         workerVars
  <1>15. ASSUME TimerFires \/ TickleReceived \/ HandlerCopy \/ HandlerClear
         PROVE  TypeInv'
    <2>1. CASE TimerFires \/ TickleReceived
      BY <2>1 DEF TimerFires, TickleReceived, StackShape, runVars, jobVars,
                  workerVars
    <2>2. CASE HandlerCopy
      BY <2>2 DEF HandlerCopy, StackShape, runVars, jobVars, workerVars
    <2>3. CASE HandlerClear
      BY <2>3 DEF HandlerClear, StackShape, runVars, jobVars, workerVars
    <2> QED
      BY <1>15, <2>1, <2>2, <2>3
  <1>16. ASSUME HandlerExecute
         PROVE  TypeInv'
    <2>1. /\ Head(batch) \in Jobs
          /\ Tail(batch) \in Seq(Jobs)
      BY <1>16 DEF HandlerExecute
    <2>2. /\ stack' = <<Frame("handler", Head(batch))>>
          /\ Frame("handler", Head(batch)) \in Frames
          /\ Frame("handler", Head(batch)).via = "handler"
          /\ Frame("handler", Head(batch)).job = Head(batch)
      BY <1>16, <2>1 DEF HandlerExecute, Frame, Frames
    <2>3. StackShape' /\ stack' \in Seq(Frames)
      BY <2>1, <2>2 DEF StackShape
    <2> QED
      BY <1>16, <2>1, <2>3 DEF HandlerExecute, runVars, jobVars, workerVars
  <1>17. ASSUME NEW o \in Outcomes, HandlerExecuted(o)
         PROVE  TypeInv'
    <2>1. stack' = <<>> /\ stack' \in Seq(Frames)
      BY <1>17 DEF HandlerExecuted
    <2>2. StackShape'
      BY <2>1 DEF StackShape
    <2>3. /\ outcome' \in [Jobs -> Outcomes \cup {"none"}]
          /\ sem' \in [Jobs -> {0, 1}]
      BY <1>17 DEF HandlerExecuted
    <2> QED
      BY <1>17, <2>1, <2>2, <2>3 DEF HandlerExecuted, runVars, workerVars
  <1>18. ASSUME HandlerCleanup \/ HandlerReturn
         PROVE  TypeInv'
    BY <1>18 DEF HandlerCleanup, HandlerReturn, StackShape, runVars, jobVars,
                 workerVars
  <1>19. ASSUME NEW ui \in BOOLEAN, LoadDone(ui)
         PROVE  TypeInv'
    BY <1>19 DEF LoadDone, StackShape, handlerVars, jobVars, workerVars
  <1>20. ASSUME CheckRunning \/ EnterGtkMain \/ LeaveGtkMain \/ StopDone
         PROVE  TypeInv'
    BY <1>20 DEF CheckRunning, EnterGtkMain, LeaveGtkMain, StopDone, StackShape,
                 handlerVars, jobVars, workerVars
  <1>21. ASSUME UNCHANGED vars
         PROVE  TypeInv'
    BY <1>21 DEF vars, StackShape, runVars, handlerVars, jobVars, workerVars
  <1> QED
    BY <1>1, <1>2, <1>3, <1>4, <1>5, <1>6, <1>7, <1>8, <1>9, <1>10, <1>11,
       <1>12, <1>13, <1>14, <1>15, <1>16, <1>17, <1>18, <1>19, <1>20, <1>21
       DEF Next, Handler, UserCode, Run, Worker

\* Type correctness of the host's state, jobs and threads: a frame, a job or a
\* semaphore that the code relies on is there whenever it is used.
THEOREM TypeCorrect == Spec => []TypeOK
  <1>1. Spec => []TypeInv
    BY TypeInvInit, TypeInvNext, PTL DEF Spec
  <1> QED
    BY <1>1, PTL DEF TypeInv
-----------------------------------------------------------------------------
(* No lost wake-up on Windows.  TickleCoversQueue is not inductive: a job   *)
(* must join the queue before its own tickle is posted, so no tickle may    *)
(* ever be posted for a job on somebody else's behalf.  Hence the job of a  *)
(* worker is its own, and not one that runs inline on the main thread.      *)

\* The job of a worker was allocated, and no other worker has it.
OwnJobs ==
    \A w \in Workers :
        pc[w] # "idle" =>
            /\ alive[wjob[w]] # "none"
            /\ \A v \in Workers : (v # w /\ pc[v] # "idle") => wjob[v] # wjob[w]

\* A job that runs inline was allocated, and no worker has it.
InlineJobs ==
    \A i \in 1 .. Len(stack) :
        stack[i].via = "inline" =>
            /\ alive[stack[i].job] # "none"
            /\ \A w \in Workers : pc[w] # "idle" => wjob[w] # stack[i].job

\* No tickle was posted for a job that is not in the queue yet.
NoEarlyTickle ==
    /\ \A j \in Jobs : alive[j] = "none" => ~ tickled[j]
    /\ \A w \in Workers : pc[w] = "push" => ~ tickled[wjob[w]]

TickleInv == OwnJobs /\ InlineJobs /\ NoEarlyTickle /\ TickleCoversQueue

\* Initially the queue is empty and no tickle was posted.
LEMMA TickleInvInit == Init => TickleInv
  <1> SUFFICES ASSUME Init PROVE TickleInv
    OBVIOUS
  <1>1. OwnJobs
    BY DEF Init, OwnJobs
  <1>2. InlineJobs
    BY DEF Init, InlineJobs
  <1>3. NoEarlyTickle
    BY DEF Init, NoEarlyTickle
  <1>4. TickleCoversQueue
    BY ElemsEmpty DEF Init, TickleCoversQueue
  <1> QED
    BY <1>1, <1>2, <1>3, <1>4 DEF TickleInv

\* A tickle posted for job j is for no other; if it is delivered there is one.
LEMMA PostTickleEffect ==
    ASSUME TypeOK, NEW j \in Jobs, PostTickle(j)
    PROVE  /\ tickles' \in Nat
           /\ tickles' >= tickles
           /\ \A k \in Jobs : k # j => tickled'[k] = tickled[k]
           /\ tickled'[j] => tickles' > 0
  <1> DEFINE delivered == platform = "win32" /\ mainThread = Main
  <1>1. /\ tickled' = [tickled EXCEPT ![j] = delivered]
        /\ tickles' = IF delivered THEN tickles + 1 ELSE tickles
        /\ delivered \in BOOLEAN
    BY DEF PostTickle
  <1>2. tickled \in [Jobs -> BOOLEAN] /\ tickles \in Nat
    BY DEF TypeOK
  <1>3. /\ tickled'[j] = delivered
        /\ \A k \in Jobs : k # j => tickled'[k] = tickled[k]
    <2> HIDE DEF delivered
    <2> QED
      BY <1>1, <1>2
  <1> HIDE DEF delivered
  <1>4. CASE delivered
    BY <1>1, <1>2, <1>3, <1>4
  <1>5. CASE ~ delivered
    <2>1. ~ tickled'[j]
      BY <1>3, <1>5, Zenon
    <2> QED
      BY <1>1, <1>2, <1>3, <1>5, <2>1
  <1> QED
    BY <1>4, <1>5

\* Posting a tickle for a job, in the queue or not, leaves the queue covered.
LEMMA PostTickleCovers ==
    ASSUME TypeOK, TickleCoversQueue, NEW j \in Jobs, PostTickle(j),
           Elems(jobs') \subseteq Elems(jobs) \cup {j},
           UNCHANGED <<platform, handler>>
    PROVE  TickleCoversQueue'
  <1>1. /\ tickles' \in Nat /\ tickles \in Nat
        /\ tickles' >= tickles
        /\ \A k \in Jobs : k # j => tickled'[k] = tickled[k]
        /\ tickled'[j] => tickles' > 0
    BY PostTickleEffect DEF TypeOK
  <1>2. Elems(jobs) \subseteq Jobs
    BY DEF Elems, TypeOK
  <1> SUFFICES ASSUME platform = "win32", NEW k \in Elems(jobs'), tickled'[k]
               PROVE  tickles' > 0 \/ handler \in {"copy", "clear"}
    BY DEF TickleCoversQueue
  <1>3. CASE k = j
    BY <1>1, <1>3
  <1>4. CASE k # j
    <2>1. k \in Elems(jobs) /\ k \in Jobs
      BY <1>2, <1>4
    <2>2. tickled[k]
      BY <1>1, <1>4, <2>1, Zenon
    <2> QED
      BY <1>1, <2>1, <2>2 DEF TickleCoversQueue
  <1> QED
    BY <1>3, <1>4

\* While the handler copies and clears the queue, nothing else is active on the
\* main thread.
HandlerAlone == handler \in {"copy", "clear"} => stack = <<>>

\* Initially the handler is not active.
LEMMA HandlerAloneInit == Init => HandlerAlone
  BY DEF Init, HandlerAlone

\* Every step keeps the handler alone while it empties the queue.
LEMMA HandlerAloneNext == HandlerAlone /\ [Next]_vars => HandlerAlone'
  <1> SUFFICES ASSUME HandlerAlone, [Next]_vars PROVE HandlerAlone'
    OBVIOUS
  <1> USE DEF HandlerAlone
  <1>1. CASE Handler
    BY <1>1 DEF Handler, HandlerCopy, HandlerClear, HandlerExecute,
                HandlerExecuted, HandlerCleanup, HandlerReturn
  <1>2. CASE UserCode
    <2>1. handler' = handler
      BY <1>2 DEF UserCode, CallbackBegin, CallbackReturn, CallbackThrow,
                  MainCallSync, MainCallAsync, InlineReturn, MainExit,
                  MainExitDecide, handlerVars
    <2>2. stack # <<>> \/ handler = "idle"
      BY <1>2 DEF UserCode, CallbackBegin, CallbackReturn, CallbackThrow,
                  MainCallSync, MainCallAsync, InlineReturn, MainExit,
                  MainExitDecide, InUserCode, Running, Idle
    <2> QED
      BY <2>1, <2>2
  <1>3. CASE Run
    BY <1>3 DEF Run, LoadDone, CheckRunning, EnterGtkMain, LeaveGtkMain,
                TimerFires, TickleReceived, StopDone, Idle, handlerVars
  <1>4. ASSUME NEW w \in Workers, Worker(w) PROVE HandlerAlone'
    BY <1>4 DEF Worker, WorkerCall, WorkerPush, WorkerPost, WorkerWait,
                WorkerCollect, WorkerExit, WorkerExitDecide, handlerVars
  <1>5. CASE UNCHANGED vars
    BY <1>5 DEF vars, handlerVars
  <1> QED
    BY <1>1, <1>2, <1>3, <1>4, <1>5 DEF Next

\* Every step keeps a tickle for each job that was announced.
LEMMA TickleInvNext ==
    TypeInv /\ HandlerAlone /\ TickleInv /\ [Next]_vars => TickleInv'
  <1> SUFFICES ASSUME TypeInv, HandlerAlone, TickleInv, [Next]_vars
               PROVE  TickleInv'
    OBVIOUS
  <1> USE DEF TypeInv, TickleInv
  \* Steps that leave the workers, the queue, the jobs and the tickles alone and
  \* at most pop a frame or start a callback or an exit.
  <1>a. ASSUME UNCHANGED <<platform, tickles, tickled, jobs, alive, pc, wjob>>,
               handler' = handler,
               InlineJobs'
        PROVE  TickleInv'
    BY <1>a DEF OwnJobs, NoEarlyTickle, TickleCoversQueue
  <1>b. ASSUME UNCHANGED <<pc, wjob, alive>>,
               stack # <<>> /\ stack' = Tail(stack)
        PROVE  InlineJobs'
    BY <1>b, PopFrame DEF InlineJobs, TypeOK
  <1>1. ASSUME NEW w \in Workers, NEW j \in Jobs, NEW s \in BOOLEAN,
               WorkerCall(w, j, s)
        PROVE  TickleInv'
    <2>1. /\ alive[j] = "none"
          /\ alive' = [alive EXCEPT ![j] = "live"]
          /\ pc[w] = "idle"
          /\ pc' = [pc EXCEPT ![w] = "push"]
          /\ wjob' = [wjob EXCEPT ![w] = j]
          /\ UNCHANGED <<platform, tickles, tickled, jobs, stack, handler>>
      BY <1>1 DEF WorkerCall, NewJob, handlerVars
    <2>2. OwnJobs'
      BY <2>1 DEF OwnJobs, TypeOK, WorkersHaveJobs
    <2>3. InlineJobs'
      BY <2>1 DEF InlineJobs, TypeOK, StackShape
    <2>4. NoEarlyTickle'
      BY <2>1 DEF NoEarlyTickle, TypeOK, WorkersHaveJobs
    <2>5. TickleCoversQueue'
      BY <2>1 DEF TickleCoversQueue
    <2> QED
      BY <2>2, <2>3, <2>4, <2>5
  <1>2. ASSUME NEW w \in Workers, WorkerPush(w)
        PROVE  TickleInv'
    <2>1. /\ pc[w] = "push"
          /\ wjob[w] \in Jobs
          /\ jobs' = Append(jobs, wjob[w])
          /\ handler # "clear"
          /\ UNCHANGED <<platform, tickles, tickled, alive, stack, handler>>
      BY <1>2 DEF WorkerPush, QueueUnlocked, handlerVars, jobVars,
                  WorkersHaveJobs
    <2>2. /\ \A v \in Workers : v # w => pc'[v] = pc[v] /\ wjob'[v] = wjob[v]
          /\ pc'[w] # "idle" => wjob'[w] = wjob[w]
          /\ pc'[w] # "push"
      <3>1. CASE platform = "win32"
        BY <1>2, <3>1 DEF WorkerPush, TypeOK
      <3>2. CASE platform # "win32" /\ sync[wjob[w]]
        BY <1>2, <3>2 DEF WorkerPush, AfterPost, TypeOK
      <3>3. CASE platform # "win32" /\ ~ sync[wjob[w]]
        BY <1>2, <3>3 DEF WorkerPush, AfterPost, TypeOK
      <3> QED
        BY <3>1, <3>2, <3>3
    <2>3. OwnJobs'
      BY <2>1, <2>2 DEF OwnJobs
    <2>4. InlineJobs'
      BY <2>1, <2>2 DEF InlineJobs
    <2>5. NoEarlyTickle'
      BY <2>1, <2>2 DEF NoEarlyTickle
    <2>6. TickleCoversQueue'
      <3>1. Elems(jobs') = Elems(jobs) \cup {wjob[w]}
        BY <2>1, ElemsAppend DEF TypeOK
      <3>2. ~ tickled[wjob[w]]
        BY <2>1 DEF NoEarlyTickle
      <3> QED
        BY <2>1, <3>1, <3>2 DEF TickleCoversQueue
    <2> QED
      BY <2>3, <2>4, <2>5, <2>6
  <1>3. ASSUME NEW w \in Workers, WorkerPost(w)
        PROVE  TickleInv'
    <2>1. /\ pc[w] = "post"
          /\ wjob[w] \in Jobs
          /\ PostTickle(wjob[w])
          /\ UNCHANGED <<platform, jobs, alive, stack, handler>>
      BY <1>3 DEF WorkerPost, handlerVars, jobVars, WorkersHaveJobs
    <2>2. /\ \A v \in Workers : v # w => pc'[v] = pc[v] /\ wjob'[v] = wjob[v]
          /\ pc'[w] # "idle" => wjob'[w] = wjob[w]
          /\ pc'[w] # "push"
      <3>1. CASE sync[wjob[w]]
        BY <1>3, <3>1 DEF WorkerPost, AfterPost, TypeOK
      <3>2. CASE ~ sync[wjob[w]]
        BY <1>3, <3>2 DEF WorkerPost, AfterPost, TypeOK
      <3> QED
        BY <3>1, <3>2
    <2>3. /\ tickles' >= tickles
          /\ \A k \in Jobs : k # wjob[w] => tickled'[k] = tickled[k]
          /\ tickled'[wjob[w]] => tickles' > 0
      BY <2>1, PostTickleEffect
    <2>4. OwnJobs'
      BY <2>1, <2>2 DEF OwnJobs
    <2>5. InlineJobs'
      BY <2>1, <2>2 DEF InlineJobs
    <2>6. NoEarlyTickle'
      BY <2>1, <2>2, <2>3 DEF NoEarlyTickle, OwnJobs, WorkersHaveJobs
    <2>7. TickleCoversQueue'
      BY <2>1, PostTickleCovers
    <2> QED
      BY <2>4, <2>5, <2>6, <2>7
  <1>4. ASSUME NEW w \in Workers, WorkerWait(w)
        PROVE  TickleInv'
    <2>1. /\ pc[w] = "wait"
          /\ pc' = [pc EXCEPT ![w] = "collect"]
          /\ UNCHANGED <<platform, tickles, tickled, jobs, alive, stack, handler,
                         wjob>>
      BY <1>4 DEF WorkerWait, handlerVars
    <2> QED
      BY <2>1 DEF OwnJobs, InlineJobs, NoEarlyTickle, TickleCoversQueue, TypeOK
  <1>5. ASSUME NEW w \in Workers, WorkerCollect(w)
        PROVE  TickleInv'
    <2>1. /\ pc[w] = "collect"
          /\ pc' = [pc EXCEPT ![w] = "idle"]
          /\ wjob' = [wjob EXCEPT ![w] = NoJob]
          /\ alive' = [alive EXCEPT ![wjob[w]] = "freed"]
          /\ UNCHANGED <<platform, tickles, tickled, jobs, stack, handler>>
      BY <1>5 DEF WorkerCollect, handlerVars
    <2>2. OwnJobs'
      BY <2>1 DEF OwnJobs, TypeOK, WorkersHaveJobs
    <2>3. InlineJobs'
      BY <2>1 DEF InlineJobs, TypeOK, StackShape
    <2>4. NoEarlyTickle'
      BY <2>1 DEF NoEarlyTickle, TypeOK, WorkersHaveJobs
    <2>5. TickleCoversQueue'
      BY <2>1 DEF TickleCoversQueue
    <2> QED
      BY <2>2, <2>3, <2>4, <2>5
  <1>6. ASSUME NEW w \in Workers, NEW p \in BOOLEAN,
               WorkerExit(w) \/ WorkerExitDecide(w, p)
        PROVE  TickleInv'
    BY <1>6, <1>a DEF WorkerExit, WorkerExitDecide, InlineJobs, handlerVars,
                      jobVars
  <1>7. ASSUME CallbackBegin
        PROVE  TickleInv'
    <2>1. InlineJobs'
      BY <1>7 DEF CallbackBegin, Frame, InlineJobs, jobVars, workerVars
    <2> QED
      BY <1>7, <1>a, <2>1 DEF CallbackBegin, handlerVars, jobVars, workerVars
  <1>8. ASSUME NEW p \in BOOLEAN,
               CallbackReturn \/ CallbackThrow \/ MainExitDecide(p)
        PROVE  TickleInv'
    <2>1. stack # <<>> /\ stack' = Tail(stack)
      BY <1>8 DEF CallbackReturn, CallbackThrow, MainExitDecide, Running
    <2>2. UNCHANGED <<platform, tickles, tickled, jobs, alive, pc, wjob, handler>>
      BY <1>8 DEF CallbackReturn, CallbackThrow, MainExitDecide, handlerVars,
                  jobVars, workerVars
    <2> QED
      BY <1>a, <1>b, <2>1, <2>2
  <1>9. ASSUME NEW j \in Jobs, MainCallSync(j)
        PROVE  TickleInv'
    <2> DEFINE f == IF mainThread = Main THEN Frame("inline", j)
                    ELSE Frame("wait", j)
    <2>1. /\ stack' = <<f>> \o stack
          /\ f \in Frames
          /\ f.job = j
      BY <1>9 DEF MainCallSync, Frame, Frames
    <2>2. /\ alive[j] = "none"
          /\ alive' = [alive EXCEPT ![j] = "live"]
          /\ jobs' = jobs \/ jobs' = Append(jobs, j)
          /\ UNCHANGED <<platform, tickles, tickled, handler, pc, wjob>>
      BY <1>9 DEF MainCallSync, NewJob, handlerVars, workerVars
    <2>3. OwnJobs'
      BY <2>2 DEF OwnJobs, TypeOK, WorkersHaveJobs
    <2>4. InlineJobs'
      <3> HIDE DEF f
      <3>1. \A w \in Workers : pc[w] # "idle" => wjob[w] # j
        BY <2>2 DEF OwnJobs
      <3>2. stack \in Seq(Frames)
        BY DEF TypeOK
      <3>3. \A i \in 1 .. Len(stack') :
                (i = 1 /\ stack'[i] = f) \/ (i - 1 \in 1 .. Len(stack) /\ stack'[i] = stack[i - 1])
        BY <2>1, <3>2, PushFrame
      <3> QED
        BY <2>1, <2>2, <3>1, <3>3 DEF InlineJobs, TypeOK, StackShape
    <2>5. NoEarlyTickle'
      BY <2>2 DEF NoEarlyTickle, TypeOK, WorkersHaveJobs
    <2>6. TickleCoversQueue'
      <3>1. Elems(jobs') \subseteq Elems(jobs) \cup {j}
        <4>1. jobs \in Seq(Jobs)
          BY DEF TypeOK
        <4>2. Elems(Append(jobs, j)) = Elems(jobs) \cup {j}
          BY <4>1, ElemsAppend
        <4> QED
          BY <2>2, <4>2
      <3>2. ~ tickled[j]
        BY <2>2 DEF NoEarlyTickle
      <3> QED
        BY <2>2, <3>1, <3>2 DEF TickleCoversQueue
    <2> QED
      BY <2>3, <2>4, <2>5, <2>6
  <1>10. ASSUME NEW o \in Outcomes, InlineReturn(o)
         PROVE  TickleInv'
    <2> DEFINE j == Head(stack).job
               caller == Head(Tail(stack))
               back == [caller EXCEPT !.fired = (caller.via = "exit")]
    <2>1. /\ stack # <<>>
          /\ stack[1] = Head(stack)
          /\ stack[1].via = "inline"
          /\ Len(stack) \in Nat \ {0}
          /\ Tail(stack) \in Seq(Frames)
          /\ Len(Tail(stack)) = Len(stack) - 1
          /\ \A i \in 1 .. Len(stack) - 1 : Tail(stack)[i] = stack[i + 1]
      BY <1>10, PopFrame DEF InlineReturn, Running, TypeOK
    <2>2. j \in Jobs /\ Len(stack) # 1
      <3>1. 1 \in 1 .. Len(stack)
        BY <2>1
      <3>2. stack[1].job \in Jobs /\ Len(stack) # 1
        BY <2>1, <3>1 DEF StackShape
      <3> QED
        BY <2>1, <3>2
    <2>3. Tail(stack) # <<>>
      <3>1. Len(Tail(stack)) # 0
        BY <2>1, <2>2
      <3> QED
        BY <2>1, <3>1, SeqFacts
    <2>4. /\ caller = stack[2]
          /\ caller \in Frames
          /\ Tail(Tail(stack)) \in Seq(Frames)
          /\ Len(Tail(Tail(stack))) = Len(stack) - 2
          /\ \A i \in 1 .. Len(stack) - 2 : Tail(Tail(stack))[i] = stack[i + 2]
      BY <2>1, <2>2, <2>3, PopFrame
    <2>5. back \in Frames /\ back.via = caller.via /\ back.job = caller.job
      BY <2>4 DEF Frames
    <2>6. /\ stack' = <<back>> \o Tail(Tail(stack))
          /\ alive' = [alive EXCEPT ![j] = "freed"]
          /\ PostTickle(j)
          /\ UNCHANGED <<platform, jobs, handler, pc, wjob>>
      BY <1>10 DEF InlineReturn, handlerVars, workerVars
    <2>7. /\ tickles' >= tickles
          /\ \A k \in Jobs : k # j => tickled'[k] = tickled[k]
          /\ tickled'[j] => tickles' > 0
      BY <2>2, <2>6, PostTickleEffect
    <2>8. /\ alive[j] # "none"
          /\ \A w \in Workers : pc[w] # "idle" => wjob[w] # j
      BY <2>1 DEF InlineJobs
    <2> HIDE DEF j, caller, back
    <2>9. OwnJobs'
      BY <2>2, <2>6 DEF OwnJobs, TypeOK, WorkersHaveJobs
    <2>10. InlineJobs'
      <3>1. \A i \in 1 .. Len(stack') :
                /\ i + 1 \in 1 .. Len(stack)
                /\ stack'[i].via = stack[i + 1].via
                /\ stack'[i].job = stack[i + 1].job
        <4>1. PICK rest \in Seq(Frames) : rest = Tail(Tail(stack))
          BY <2>4
        <4>2. PICK n \in Nat : n = Len(stack) /\ n >= 2 /\ Len(rest) = n - 2
          <5>1. Len(stack) \in Nat /\ Len(stack) # 0 /\ Len(stack) # 1
            BY <2>1, <2>2
          <5>2. Len(stack) >= 2
            BY ONLY <5>1, AtLeastTwo, Zenon
          <5> QED
            BY <2>4, <4>1, <5>1, <5>2
        <4>3. /\ stack' = <<back>> \o rest /\ Len(stack') = Len(rest) + 1
              /\ stack'[1] = back
              /\ \A i \in 2 .. Len(rest) + 1 : stack'[i] = rest[i - 1]
          BY <2>5, <2>6, <4>1, PushFrame
        <4>4. \A i \in 1 .. n - 2 : rest[i] = stack[i + 2]
          BY <2>4, <4>1, <4>2
        <4>5. Len(stack') = n - 1
          BY <4>2, <4>3
        <4>6. ASSUME NEW i \in 1 .. n - 1
              PROVE  /\ i + 1 \in 1 .. n
                     /\ stack'[i].via = stack[i + 1].via
                     /\ stack'[i].job = stack[i + 1].job
          <5>1. CASE i = 1
            BY <2>4, <2>5, <4>2, <4>3, <5>1
          <5>2. CASE i # 1
            <6>1. /\ i \in 2 .. n - 1 /\ i - 1 \in 1 .. n - 2 /\ (i - 1) + 2 = i + 1
                  /\ i + 1 \in 1 .. n
              BY <5>2
            <6>2. stack'[i] = rest[i - 1]
              BY <4>2, <4>3, <6>1
            <6>3. rest[i - 1] = stack[i + 1]
              BY <4>4, <6>1
            <6> QED
              BY <6>1, <6>2, <6>3
          <5> QED
            BY <5>1, <5>2
        <4> QED
          BY <4>2, <4>5, <4>6
      <3>2. \A k \in Jobs : alive[k] # "none" => alive'[k] # "none"
        BY <2>2, <2>6 DEF TypeOK
      <3>3. ASSUME NEW i \in 1 .. Len(stack'), stack'[i].via = "inline"
            PROVE  /\ alive'[stack'[i].job] # "none"
                   /\ \A w \in Workers : pc'[w] # "idle" => wjob'[w] # stack'[i].job
        <4>1. i + 1 \in 1 .. Len(stack) /\ stack[i + 1].via = "inline"
              /\ stack'[i].job = stack[i + 1].job
          BY <3>1, <3>3
        <4>2. /\ stack[i + 1].job \in Jobs
              /\ alive[stack[i + 1].job] # "none"
              /\ \A w \in Workers : pc[w] # "idle" => wjob[w] # stack[i + 1].job
          BY <4>1 DEF InlineJobs, StackShape
        <4> QED
          BY <2>6, <3>2, <4>1, <4>2
      <3> QED
        BY <3>3 DEF InlineJobs
    <2>11. NoEarlyTickle'
      BY <2>2, <2>6, <2>7, <2>8 DEF NoEarlyTickle, TypeOK, WorkersHaveJobs
    <2>12. TickleCoversQueue'
      BY <2>2, <2>6, PostTickleCovers
    <2> QED
      BY <2>9, <2>10, <2>11, <2>12
  <1>11. ASSUME NEW j \in Jobs, MainCallAsync(j)
         PROVE  TickleInv'
    <2>1. /\ alive[j] = "none"
          /\ alive' = [alive EXCEPT ![j] = "live"]
          /\ jobs' = Append(jobs, j)
          /\ PostTickle(j)
          /\ UNCHANGED <<platform, handler, stack, pc, wjob>>
      BY <1>11 DEF MainCallAsync, NewJob, handlerVars, workerVars
    <2>2. /\ tickles' >= tickles
          /\ \A k \in Jobs : k # j => tickled'[k] = tickled[k]
          /\ tickled'[j] => tickles' > 0
      BY <2>1, PostTickleEffect
    <2>3. OwnJobs'
      BY <2>1 DEF OwnJobs, TypeOK, WorkersHaveJobs
    <2>4. InlineJobs'
      BY <2>1 DEF InlineJobs, TypeOK, StackShape
    <2>5. NoEarlyTickle'
      BY <2>1, <2>2 DEF NoEarlyTickle, OwnJobs, TypeOK, WorkersHaveJobs
    <2>6. TickleCoversQueue'
      <3>1. Elems(jobs') = Elems(jobs) \cup {j}
        BY <2>1, ElemsAppend DEF TypeOK
      <3> QED
        BY <2>1, <3>1, PostTickleCovers
    <2> QED
      BY <2>3, <2>4, <2>5, <2>6
  <1>12. ASSUME MainExit
         PROVE  TickleInv'
    <2> DEFINE f == Frame("exit", NoJob)
    <2>1. stack' = <<f>> \o stack /\ f \in Frames /\ f.via = "exit"
      BY <1>12 DEF MainExit, Frame, Frames
    <2>2. UNCHANGED <<platform, tickles, tickled, jobs, alive, pc, wjob, handler>>
      BY <1>12 DEF MainExit, handlerVars, jobVars, workerVars
    <2>3. InlineJobs'
      <3> HIDE DEF f
      <3>1. stack \in Seq(Frames)
        BY DEF TypeOK
      <3>2. \A i \in 1 .. Len(stack') :
                \/ stack'[i] = f
                \/ i - 1 \in 1 .. Len(stack) /\ stack'[i] = stack[i - 1]
        BY <2>1, <3>1, PushFrame
      <3> QED
        BY <2>1, <2>2, <3>2 DEF InlineJobs
    <2> QED
      BY <1>a, <2>2, <2>3
  <1>13. ASSUME TimerFires \/ TickleReceived
         PROVE  TickleInv'
    <2>1. /\ handler' = "copy"
          /\ UNCHANGED <<platform, tickled, jobs, alive, pc, wjob, stack>>
      BY <1>13 DEF TimerFires, TickleReceived, jobVars, workerVars
    <2> QED
      BY <2>1 DEF OwnJobs, InlineJobs, NoEarlyTickle, TickleCoversQueue
  <1>14. ASSUME HandlerCopy
         PROVE  TickleInv'
    <2>1. /\ handler' = "clear"
          /\ UNCHANGED <<platform, tickled, jobs, alive, pc, wjob, stack>>
      BY <1>14 DEF HandlerCopy, jobVars, workerVars
    <2> QED
      BY <2>1 DEF OwnJobs, InlineJobs, NoEarlyTickle, TickleCoversQueue
  <1>15. ASSUME HandlerClear
         PROVE  TickleInv'
    <2>1. /\ jobs' = <<>>
          /\ UNCHANGED <<platform, tickled, alive, pc, wjob, stack>>
      BY <1>15 DEF HandlerClear, jobVars, workerVars
    <2> QED
      BY <2>1, ElemsEmpty DEF OwnJobs, InlineJobs, NoEarlyTickle,
                              TickleCoversQueue
  <1>16. ASSUME HandlerExecute
         PROVE  TickleInv'
    <2>1. /\ handler = "next"
          /\ stack' = <<Frame("handler", Head(batch))>>
          /\ Frame("handler", Head(batch)).via = "handler"
          /\ UNCHANGED <<platform, tickles, tickled, jobs, alive, pc, wjob>>
      BY <1>16 DEF HandlerExecute, Frame, jobVars, workerVars
    <2>2. InlineJobs'
      BY <2>1 DEF InlineJobs
    <2> QED
      BY <2>1, <2>2 DEF OwnJobs, NoEarlyTickle, TickleCoversQueue
  <1>17. ASSUME NEW o \in Outcomes, HandlerExecuted(o)
         PROVE  TickleInv'
    <2>1. /\ stack' = <<>>
          /\ stack # <<>>
          /\ UNCHANGED <<platform, tickles, tickled, jobs, alive, pc, wjob>>
      BY <1>17 DEF HandlerExecuted, Running, workerVars
    <2>2. InlineJobs'
      BY <2>1 DEF InlineJobs
    <2> QED
      BY <2>1, <2>2 DEF OwnJobs, NoEarlyTickle, TickleCoversQueue, HandlerAlone
  <1>18. ASSUME HandlerCleanup
         PROVE  TickleInv'
    <2>1. /\ handler = "after"
          /\ alive' = alive \/ alive' = [alive EXCEPT ![hjob] = "freed"]
          /\ UNCHANGED <<platform, tickles, tickled, jobs, pc, wjob, stack>>
      BY <1>18 DEF HandlerCleanup, workerVars
    <2>2. \A j \in Jobs : alive'[j] = "none" => alive[j] = "none"
      BY <2>1 DEF TypeOK
    <2>3. OwnJobs'
      BY <2>1, <2>2 DEF OwnJobs, WorkersHaveJobs
    <2>4. InlineJobs'
      BY <2>1, <2>2 DEF InlineJobs, StackShape
    <2>5. NoEarlyTickle'
      BY <2>1, <2>2 DEF NoEarlyTickle
    <2>6. TickleCoversQueue'
      BY <2>1 DEF TickleCoversQueue
    <2> QED
      BY <2>3, <2>4, <2>5, <2>6
  <1>19. ASSUME HandlerReturn
         PROVE  TickleInv'
    <2>1. /\ handler = "next"
          /\ UNCHANGED <<platform, tickles, tickled, jobs, alive, pc, wjob, stack>>
      BY <1>19 DEF HandlerReturn, jobVars, workerVars
    <2> QED
      BY <2>1 DEF OwnJobs, InlineJobs, NoEarlyTickle, TickleCoversQueue
  <1>20. ASSUME NEW ui \in BOOLEAN,
                \/ LoadDone(ui) \/ CheckRunning \/ EnterGtkMain
                \/ LeaveGtkMain \/ StopDone \/ UNCHANGED vars
         PROVE  TickleInv'
    <2>1. UNCHANGED <<platform, tickles, tickled, jobs, alive, pc, wjob, stack,
                      handler>>
      BY <1>20 DEF LoadDone, CheckRunning, EnterGtkMain, LeaveGtkMain, StopDone,
                   vars, handlerVars, jobVars, workerVars
    <2> QED
      BY <1>a, <2>1 DEF InlineJobs
  <1> QED
    BY <1>1, <1>2, <1>3, <1>4, <1>5, <1>6, <1>7, <1>8, <1>9, <1>10, <1>11,
       <1>12, <1>13, <1>14, <1>15, <1>16, <1>17, <1>18, <1>19, <1>20
       DEF Next, Handler, UserCode, Run, Worker

\* The Windows host loses no wake-up, for any number of threads and jobs: a
\* tickle is posted after its job joined the queue, and the handler that eats
\* a tickle takes the whole queue (host/win32/host.cpp:133-138,161-172).
THEOREM NoLostWakeUp == Spec => []TickleCoversQueue
  <1>1. Init => TypeInv /\ HandlerAlone /\ TickleInv
    BY TypeInvInit, HandlerAloneInit, TickleInvInit
  <1>2. TypeInv /\ HandlerAlone /\ TickleInv /\ [Next]_vars
            => TypeInv' /\ HandlerAlone' /\ TickleInv'
    BY TypeInvNext, HandlerAloneNext, TickleInvNext
  <1>3. TickleInv => TickleCoversQueue
    BY DEF TickleInv
  <1> QED
    BY <1>1, <1>2, <1>3, PTL DEF Spec

-----------------------------------------------------------------------------
(***************************************************************************)
(* Who owns a job.  InvokeMethodOnMainThread allocates it; the queue, the   *)
(* handler's copy, the main thread's stack and the caller's local variable  *)
(* point to it; the caller deletes a synchronous job and the handler an     *)
(* asynchronous one.  From the invariant that says who may still follow a   *)
(* pointer to a job follow, for every set of workers and jobs, that no job  *)
(* is used after it was deleted or never deleted, and that the job queues   *)
(* of both hosts implement MainThreadCalls.                                 *)
(***************************************************************************)

Queued == Elems(jobs) \cup Elems(batch)
FrameJobs == {stack[i].job : i \in 1 .. Len(stack)} \ {NoJob}
Distinct(s) == \A i, k \in DOMAIN s : s[i] = s[k] => i = k

\* What the handler's local variables say at each of its lines: the copy and
\* the queue are the same between copying and clearing, the job executed is the
\* one of the outermost frame, and `asynchronous' was read from that job.
HandlerShape ==
    /\ handler \in {"idle", "copy"} => batch = <<>>
    /\ handler = "clear" => batch = jobs
    /\ handler \in {"copy", "clear", "next", "after"} => stack = <<>>
    /\ \A i \in 1 .. Len(stack) :
          stack[i].via = "handler" => handler = "executing" /\ stack[i].job = hjob
    /\ handler \in {"executing", "after"} => 
          hjob \in Jobs /\ alive[hjob] # "none" /\ hasync = ~ sync[hjob]

StackDistinct ==
    \A i, k \in 1 .. Len(stack) :
        stack[i].job = stack[k].job /\ stack[i].job # NoJob => i = k

\* A job is at most once in the queue and the handler's copy together, and at
\* most once on the stack; one that runs is in neither, one that the main thread
\* waits for may be queued.
JobsInOnePlace ==
    /\ Distinct(jobs)
    /\ Distinct(batch)
    /\ handler # "clear" => Elems(jobs) \cap Elems(batch) = {}
    /\ StackDistinct
    /\ \A i \in 1 .. Len(stack) :
          /\ stack[i].via \in {"callback", "exit"} => stack[i].job = NoJob
          /\ stack[i].via # "wait" => stack[i].job \notin Queued

\* What queue, copy and stack hold is allocated and has not run to its end.
MainJobsLive ==
    \A j \in Queued \cup FrameJobs : alive[j] = "live" /\ outcome[j] = "none"

\* The handler keeps what it executed only to delete it.
HandlerJobLive ==
    handler = "after" =>
        /\ outcome[hjob] # "none"
        /\ hasync => alive[hjob] = "live"

\* A worker has its job for itself until it queued it; it waits for a
\* synchronous job only, collects one that has run, and deletes nobody else's.
WorkerJobsLive ==
    \A w \in Workers :
        /\ pc[w] = "push" =>
              /\ alive[wjob[w]] = "live"
              /\ outcome[wjob[w]] = "none"
              /\ wjob[w] \notin Queued \cup FrameJobs
        /\ pc[w] \in {"wait", "collect"} => sync[wjob[w]]
        /\ pc[w] = "collect" => outcome[wjob[w]] # "none"
        /\ pc[w] # "idle" /\ sync[wjob[w]] => alive[wjob[w]] = "live"
        /\ pc[w] # "idle" => returned[wjob[w]] = "none"

\* Nothing has happened to a job that is not allocated; a semaphore is signalled
\* by a method that has run.
FreshJobs ==
    \A j \in Jobs :
        /\ alive[j] = "none" => outcome[j] = "none" /\ returned[j] = "none"
        /\ sem[j] = 1 => outcome[j] # "none"

\* The caller of a synchronous job: a worker, or the main thread itself.
CallerOf(j) ==
    \/ \E w \in Workers : pc[w] # "idle" /\ wjob[w] = j
    \/ \E i \in 1 .. Len(stack) :
          stack[i].job = j /\ stack[i].via \in {"inline", "wait"}

\* The way of an asynchronous job to the handler that deletes it.
HandedOver(j) ==
    \/ j \in Queued \cup FrameJobs \cup HandlerHolds
    \/ \E w \in Workers : pc[w] = "push" /\ wjob[w] = j

\* Somebody who will delete it has every allocated job.
LiveJobsOwned ==
    \A j \in Jobs :
        alive[j] = "live" =>
            /\ sync[j] => CallerOf(j)
            /\ ~ sync[j] => HandedOver(j)

OwnershipInv ==
    /\ HandlerShape
    /\ JobsInOnePlace
    /\ MainJobsLive
    /\ HandlerJobLive
    /\ WorkerJobsLive
    /\ FreshJobs
    /\ LiveJobsOwned

-----------------------------------------------------------------------------
(* The queue and its copy as sets.                                          *)

\* A job joins the end of a queue it is not in.
LEMMA DistinctAppend ==
    ASSUME NEW S, NEW s \in Seq(S), NEW x \in S, Distinct(s), x \notin Elems(s)
    PROVE  Distinct(Append(s, x))
  BY DEF Distinct, Elems

\* The first job leaves a queue in which it is once.
LEMMA DistinctPop ==
    ASSUME NEW S, NEW s \in Seq(S), s # <<>>, Distinct(s)
    PROVE  /\ Head(s) \in S
           /\ Distinct(Tail(s))
           /\ Elems(s) = {Head(s)} \cup Elems(Tail(s))
           /\ Head(s) \notin Elems(Tail(s))
  <1>1. /\ Tail(s) \in Seq(S)
        /\ Head(s) = s[1]
        /\ Len(s) \in Nat \ {0}
        /\ DOMAIN s = 1 .. Len(s)
        /\ DOMAIN Tail(s) = 1 .. Len(s) - 1
        /\ \A i \in 1 .. Len(s) - 1 : Tail(s)[i] = s[i + 1]
    OBVIOUS
  <1>2. Distinct(Tail(s))
    BY <1>1 DEF Distinct
  <1>3. Head(s) \notin Elems(Tail(s))
    BY <1>1 DEF Distinct, Elems
  <1>4. ASSUME NEW y \in Elems(s)
        PROVE  y \in {Head(s)} \cup Elems(Tail(s))
    <2>1. PICK i \in 1 .. Len(s) : y = s[i]
      BY <1>1 DEF Elems
    <2>2. CASE i = 1
      BY <1>1, <2>1, <2>2
    <2>3. CASE i # 1
      <3>1. i - 1 \in 1 .. Len(s) - 1 /\ Tail(s)[i - 1] = s[i]
        BY <1>1, <2>3
      <3> QED
        BY <1>1, <2>1, <3>1 DEF Elems
    <2> QED
      BY <2>2, <2>3
  <1>5. ASSUME NEW y \in {Head(s)} \cup Elems(Tail(s))
        PROVE  y \in Elems(s)
    BY <1>1 DEF Elems
  <1> QED
    BY <1>1, <1>2, <1>3, <1>4, <1>5

\* The elements of a sequence are of its type.
LEMMA ElemsType ==
    ASSUME NEW S, NEW s \in Seq(S)
    PROVE  Elems(s) \subseteq S
  BY DEF Elems

\* Initially no job exists.
LEMMA OwnershipInit == Init => OwnershipInv
  <1> SUFFICES ASSUME Init PROVE OwnershipInv
    OBVIOUS
  <1>1. jobs = <<>> /\ batch = <<>> /\ stack = <<>> /\ Queued = {} /\ FrameJobs = {}
    BY ElemsEmpty DEF Init, Queued, FrameJobs
  <1>2. HandlerShape /\ HandlerJobLive /\ MainJobsLive
    BY <1>1 DEF Init, HandlerShape, HandlerJobLive, MainJobsLive
  <1>3. JobsInOnePlace
    BY <1>1, ElemsEmpty DEF JobsInOnePlace, StackDistinct, Distinct
  <1>4. WorkerJobsLive
    BY DEF Init, WorkerJobsLive
  <1>5. FreshJobs /\ LiveJobsOwned
    BY DEF Init, FreshJobs, LiveJobsOwned
  <1> QED
    BY <1>2, <1>3, <1>4, <1>5 DEF OwnershipInv

\* Steps that leave jobs, queue, handler, stack and callers alone.
LEMMA OwnershipFrame ==
    ASSUME OwnershipInv,
           UNCHANGED <<jobs, handlerVars, stack, jobVars, pc, wjob>>
    PROVE  OwnershipInv'
  BY DEF OwnershipInv, HandlerShape, JobsInOnePlace, MainJobsLive, HandlerJobLive,
         WorkerJobsLive, FreshJobs, LiveJobsOwned, CallerOf,
         HandedOver, HandlerHolds, Queued,
         FrameJobs, StackDistinct, handlerVars, jobVars

\* The queue, the copy and the frames hold jobs.
LEMMA MainJobsType ==
    ASSUME TypeOK
    PROVE  Queued \cup FrameJobs \subseteq Jobs
  <1>1. Queued \subseteq Jobs
    <2>1. jobs \in Seq(Jobs) /\ batch \in Seq(Jobs)
      BY DEF TypeOK
    <2>2. Elems(jobs) \subseteq Jobs /\ Elems(batch) \subseteq Jobs
      BY <2>1, ElemsType
    <2> QED
      BY <2>2 DEF Queued
  <1>2. FrameJobs \subseteq Jobs
    <2>1. stack \in Seq(Frames)
      BY DEF TypeOK
    <2>2. \A i \in 1 .. Len(stack) : stack[i].job \in Jobs \cup {NoJob}
      <3>1. \A i \in 1 .. Len(stack) : stack[i] \in Frames
        BY <2>1
      <3>2. \A f \in Frames : f.job \in Jobs \cup {NoJob}
        BY DEF Frames
      <3> QED
        BY <3>1, <3>2
    <2> QED
      BY <2>2 DEF FrameJobs
  <1> QED
    BY <1>1, <1>2

\* A worker enters InvokeMethodOnMainThread.
LEMMA OwnershipCall ==
    ASSUME TypeInv, TickleInv, OwnershipInv,
           NEW w \in Workers, NEW j \in Jobs, NEW s \in BOOLEAN,
           WorkerCall(w, j, s)
    PROVE  OwnershipInv'
  <1> USE DEF OwnershipInv, TypeInv
  <1>1. /\ alive[j] = "none"
        /\ alive' = [alive EXCEPT ![j] = "live"]
        /\ sync' = [sync EXCEPT ![j] = s]
        /\ pc[w] = "idle"
        /\ pc' = [pc EXCEPT ![w] = "push"]
        /\ wjob' = [wjob EXCEPT ![w] = j]
        /\ UNCHANGED <<jobs, handler, batch, hjob, hasync, stack, sem, outcome,
                       returned>>
    BY DEF WorkerCall, NewJob, handlerVars
  <1>2. Queued' = Queued /\ FrameJobs' = FrameJobs /\ HandlerHolds' = HandlerHolds
    BY <1>1 DEF Queued, FrameJobs, HandlerHolds
  <1>3. /\ j \notin Queued \cup FrameJobs
        /\ outcome[j] = "none" /\ returned[j] = "none"
        /\ \A v \in Workers : pc[v] # "idle" => wjob[v] # j
    BY <1>1 DEF MainJobsLive, FreshJobs, TickleInv, OwnJobs
  <1>4. /\ \A k \in Jobs : k # j => alive'[k] = alive[k]
        /\ alive'[j] = "live"
        /\ \A v \in Workers : v # w => pc'[v] = pc[v] /\ wjob'[v] = wjob[v]
        /\ pc'[w] = "push" /\ wjob'[w] = j
    BY <1>1 DEF TypeOK
  <1>5. /\ \A k \in Jobs : k # j => sync'[k] = sync[k]
        /\ sync'[j] = s
    BY <1>1 DEF TypeOK
  <1>6. Queued \cup FrameJobs \subseteq Jobs
    BY MainJobsType
  <1>7. HandlerShape'
    BY <1>1, <1>4, <1>5 DEF HandlerShape
  <1>8. JobsInOnePlace'
    BY <1>1, <1>2 DEF JobsInOnePlace, StackDistinct
  <1>9. MainJobsLive'
    BY <1>1, <1>2, <1>3, <1>4, <1>6 DEF MainJobsLive
  <1>10. HandlerJobLive'
    BY <1>1, <1>4 DEF HandlerJobLive, HandlerShape
  <1>11. WorkerJobsLive'
    BY <1>1, <1>2, <1>3, <1>4, <1>5 DEF WorkerJobsLive, WorkersHaveJobs
  <1>12. FreshJobs'
    BY <1>1, <1>4 DEF FreshJobs
  <1>13. LiveJobsOwned'
    <2> SUFFICES ASSUME NEW k \in Jobs, alive'[k] = "live"
                 PROVE  /\ sync'[k] => CallerOf(k)'
                        /\ ~ sync'[k] => HandedOver(k)'
      BY Zenon DEF LiveJobsOwned
    <2>1. CASE k = j
      BY <1>4, <2>1 DEF CallerOf, HandedOver
    <2>2. CASE k # j
      <3>1. alive[k] = "live" /\ sync'[k] = sync[k]
        BY <1>4, <1>5, <2>2
      <3>2. \A v \in Workers : pc[v] # "idle" => pc'[v] = pc[v] /\ wjob'[v] = wjob[v]
        BY <1>1, <1>4
      <3> QED
        BY <1>1, <1>2, <3>1, <3>2 DEF LiveJobsOwned, CallerOf, HandedOver
    <2> QED
      BY <2>1, <2>2
  <1> QED
    BY <1>7, <1>8, <1>9, <1>10, <1>11, <1>12, <1>13

\* It queues its job.
LEMMA OwnershipPush ==
    ASSUME TypeInv, TickleInv, OwnershipInv, NEW w \in Workers, WorkerPush(w)
    PROVE  OwnershipInv'
  <1> USE DEF OwnershipInv, TypeInv
  <1> DEFINE j == wjob[w]
  <1>1. /\ pc[w] = "push"
        /\ j \in Jobs
        /\ jobs' = Append(jobs, j)
        /\ handler # "clear"
        /\ UNCHANGED <<handler, batch, hjob, hasync, stack, alive, sync, sem,
                       outcome, returned>>
    BY DEF WorkerPush, QueueUnlocked, handlerVars, jobVars, WorkersHaveJobs
  <1>2. /\ \A v \in Workers : v # w => pc'[v] = pc[v] /\ wjob'[v] = wjob[v]
        /\ pc'[w] # "push" /\ pc'[w] # "collect"
        /\ pc'[w] # "idle" => wjob'[w] = j
        /\ pc'[w] = "wait" => sync[j]
        /\ sync[j] => pc'[w] # "idle"
    <2>1. CASE platform = "win32"
      BY <1>1, <2>1 DEF WorkerPush, TypeOK
    <2>2. CASE platform # "win32" /\ sync[wjob[w]]
      BY <1>1, <2>2 DEF WorkerPush, AfterPost, TypeOK
    <2>3. CASE platform # "win32" /\ ~ sync[wjob[w]]
      BY <1>1, <2>3 DEF WorkerPush, AfterPost, TypeOK
    <2> QED
      BY <2>1, <2>2, <2>3
  <1>3. /\ alive[j] = "live" /\ outcome[j] = "none"
        /\ j \notin Queued \cup FrameJobs
        /\ returned[j] = "none"
        /\ \A v \in Workers : v # w /\ pc[v] # "idle" => wjob[v] # j
    BY <1>1 DEF WorkerJobsLive, TickleInv, OwnJobs
  <1> HIDE DEF j
  <1>4. /\ Elems(jobs') = Elems(jobs) \cup {j}
        /\ Queued' = Queued \cup {j}
        /\ FrameJobs' = FrameJobs
        /\ HandlerHolds' = HandlerHolds
    <2>1. Elems(jobs') = Elems(jobs) \cup {j}
      BY <1>1, ElemsAppend DEF TypeOK
    <2> QED
      BY <1>1, <2>1 DEF Queued, FrameJobs, HandlerHolds
  <1>7. HandlerShape'
    BY <1>1 DEF HandlerShape
  <1>8. JobsInOnePlace'
    <2>1. Distinct(jobs')
      BY <1>1, <1>3, DistinctAppend DEF JobsInOnePlace, Queued, TypeOK
    <2>2. Elems(jobs') \cap Elems(batch') = {}
      BY <1>1, <1>3, <1>4 DEF JobsInOnePlace, Queued
    <2>3. \A i \in 1 .. Len(stack) : stack[i].job # j
      <3>1. j # NoJob
        BY <1>1, ConstantsAssumption
      <3> QED
        BY <1>3, <3>1 DEF FrameJobs
    <2> QED
      BY <1>1, <1>4, <2>1, <2>2, <2>3 DEF JobsInOnePlace, StackDistinct
  <1>9. MainJobsLive'
    BY <1>1, <1>3, <1>4 DEF MainJobsLive
  <1>10. HandlerJobLive'
    BY <1>1 DEF HandlerJobLive
  <1>11. WorkerJobsLive'
    BY <1>1, <1>2, <1>3, <1>4 DEF WorkerJobsLive, WorkersHaveJobs
  <1>12. FreshJobs'
    BY <1>1 DEF FreshJobs
  <1>13. LiveJobsOwned'
    <2> SUFFICES ASSUME NEW k \in Jobs, alive'[k] = "live"
                 PROVE  /\ sync'[k] => CallerOf(k)'
                        /\ ~ sync'[k] => HandedOver(k)'
      BY Zenon DEF LiveJobsOwned
    <2>1. CASE k = j
      BY <1>1, <1>2, <1>4, <2>1 DEF CallerOf, HandedOver
    <2>2. CASE k # j /\ sync[k]
      BY <1>1, <1>2, <2>2 DEF LiveJobsOwned, CallerOf, j
    <2>3. CASE k # j /\ ~ sync[k]
      BY <1>1, <1>2, <1>4, <2>3 DEF LiveJobsOwned, HandedOver, j
    <2> QED
      BY <2>1, <2>2, <2>3
  <1> QED
    BY <1>7, <1>8, <1>9, <1>10, <1>11, <1>12, <1>13

\* Steps that only move a worker on inside InvokeMethodOnMainThread: it stays
\* with a synchronous job, and is done with an asynchronous one.
LEMMA OwnershipWorkerMoves ==
    ASSUME TypeInv, OwnershipInv, NEW w \in Workers,
           pc[w] \in {"post", "wait"},
           UNCHANGED <<jobs, handler, batch, hjob, hasync, stack, alive, sync,
                       outcome, returned>>,
           \A k \in Jobs : sem'[k] = 1 => sem[k] = 1,
           \A v \in Workers : v # w => pc'[v] = pc[v] /\ wjob'[v] = wjob[v],
           pc'[w] \in {"idle", "wait", "collect"},
           pc'[w] # "idle" => wjob'[w] = wjob[w] /\ sync[wjob[w]],
           pc'[w] = "collect" => outcome[wjob[w]] # "none",
           sync[wjob[w]] => pc'[w] # "idle"
    PROVE  OwnershipInv'
  <1> USE DEF OwnershipInv
  <1>1. Queued' = Queued /\ FrameJobs' = FrameJobs /\ HandlerHolds' = HandlerHolds
    BY DEF Queued, FrameJobs, HandlerHolds
  <1>2. HandlerShape' /\ JobsInOnePlace' /\ MainJobsLive' /\ HandlerJobLive' /\ FreshJobs'
    BY <1>1 DEF HandlerShape, JobsInOnePlace, StackDistinct, MainJobsLive, HandlerJobLive,
                FreshJobs
  <1>3. WorkerJobsLive'
    BY <1>1 DEF WorkerJobsLive
  <1>4. LiveJobsOwned'
    <2> SUFFICES ASSUME NEW k \in Jobs, alive'[k] = "live"
                 PROVE  /\ sync'[k] => CallerOf(k)'
                        /\ ~ sync'[k] => HandedOver(k)'
      BY Zenon DEF LiveJobsOwned
    <2>1. CASE sync[k]
      BY <2>1 DEF LiveJobsOwned, CallerOf
    <2>2. CASE ~ sync[k]
      BY <1>1, <2>2 DEF LiveJobsOwned, HandedOver
    <2> QED
      BY <2>1, <2>2
  <1> QED
    BY <1>2, <1>3, <1>4

\* It reads the outcome of its job, deletes it and returns.
LEMMA OwnershipCollect ==
    ASSUME TypeInv, TickleInv, OwnershipInv, NEW w \in Workers, WorkerCollect(w)
    PROVE  OwnershipInv'
  <1> USE DEF OwnershipInv, TypeInv
  <1> DEFINE j == wjob[w]
  <1>1. /\ pc[w] = "collect"
        /\ j \in Jobs
        /\ returned' = [returned EXCEPT ![j] = outcome[j]]
        /\ alive' = [alive EXCEPT ![j] = "freed"]
        /\ pc' = [pc EXCEPT ![w] = "idle"]
        /\ wjob' = [wjob EXCEPT ![w] = NoJob]
        /\ UNCHANGED <<jobs, handler, batch, hjob, hasync, stack, sync, sem,
                       outcome>>
    BY DEF WorkerCollect, handlerVars, WorkersHaveJobs
  <1>2. /\ outcome[j] # "none" /\ sync[j]
        /\ \A v \in Workers : v # w /\ pc[v] # "idle" => wjob[v] # j
        /\ j \notin Queued \cup FrameJobs
    BY <1>1 DEF WorkerJobsLive, MainJobsLive, TickleInv, OwnJobs
  <1> HIDE DEF j
  <1>3. /\ \A k \in Jobs : k # j => alive'[k] = alive[k] /\ returned'[k] = returned[k]
        /\ alive'[j] = "freed"
        /\ \A v \in Workers : v # w => pc'[v] = pc[v] /\ wjob'[v] = wjob[v]
        /\ pc'[w] = "idle"
    BY <1>1 DEF TypeOK
  <1>4. Queued' = Queued /\ FrameJobs' = FrameJobs /\ HandlerHolds' = HandlerHolds
    BY <1>1 DEF Queued, FrameJobs, HandlerHolds
  <1>5. Queued \cup FrameJobs \subseteq Jobs
    BY MainJobsType
  <1>6. HandlerShape'
    BY <1>1, <1>3 DEF HandlerShape
  <1>7. JobsInOnePlace'
    BY <1>1, <1>4 DEF JobsInOnePlace, StackDistinct
  <1>8. MainJobsLive'
    BY <1>1, <1>2, <1>3, <1>4, <1>5 DEF MainJobsLive
  <1>9. HandlerJobLive'
    <2>1. handler = "after" /\ hasync => hjob # j /\ hjob \in Jobs
      BY <1>2 DEF HandlerShape
    <2> QED
      BY <1>1, <1>3, <2>1 DEF HandlerJobLive
  <1>10. WorkerJobsLive'
    BY <1>1, <1>2, <1>3, <1>4 DEF WorkerJobsLive, WorkersHaveJobs
  <1>11. FreshJobs'
    BY <1>1, <1>3 DEF FreshJobs
  <1>12. LiveJobsOwned'
    <2> SUFFICES ASSUME NEW k \in Jobs, alive'[k] = "live"
                 PROVE  /\ sync'[k] => CallerOf(k)'
                        /\ ~ sync'[k] => HandedOver(k)'
      BY Zenon DEF LiveJobsOwned
    <2>1. k # j /\ alive[k] = "live"
      BY <1>3
    <2>2. CASE sync[k]
      BY <1>1, <1>3, <2>1, <2>2 DEF LiveJobsOwned, CallerOf, j
    <2>3. CASE ~ sync[k]
      BY <1>1, <1>3, <1>4, <2>1, <2>3 DEF LiveJobsOwned, HandedOver, j
    <2> QED
      BY <2>2, <2>3
  <1> QED
    BY <1>6, <1>7, <1>8, <1>9, <1>10, <1>11, <1>12
-----------------------------------------------------------------------------
(* The main thread's stack as a set of jobs.                                *)

\* A frame with no job, or with one that is not on the stack, is pushed.
LEMMA PushedFrame ==
    ASSUME TypeOK, StackDistinct, NEW f \in Frames, stack' = <<f>> \o stack,
           f.job \notin FrameJobs
    PROVE  /\ StackDistinct'
           /\ FrameJobs' = FrameJobs \cup ({f.job} \ {NoJob})
           /\ \A i \in 1 .. Len(stack') :
                 stack'[i] = f \/ \E k \in 1 .. Len(stack) : stack'[i] = stack[k]
           /\ \A k \in 1 .. Len(stack) :
                 \E i \in 1 .. Len(stack') : stack'[i] = stack[k]
           /\ \E i \in 1 .. Len(stack') : stack'[i] = f
  <1>1. /\ stack \in Seq(Frames)
        /\ Len(stack) \in Nat
        /\ Len(stack') = Len(stack) + 1
        /\ stack'[1] = f
        /\ \A i \in 2 .. Len(stack) + 1 : stack'[i] = stack[i - 1]
    BY PushFrame DEF TypeOK
  <1>2. \A i \in 1 .. Len(stack') :
            \/ i = 1
            \/ /\ i \in 2 .. Len(stack) + 1
               /\ i - 1 \in 1 .. Len(stack)
               /\ stack'[i] = stack[i - 1]
    BY <1>1
  <1>3. \A k \in 1 .. Len(stack) :
            k + 1 \in 1 .. Len(stack') /\ stack'[k + 1] = stack[k]
    BY <1>1
  <1>4. 1 \in 1 .. Len(stack')
    BY <1>1
  <1>5. StackDistinct'
    BY <1>1, <1>2 DEF StackDistinct, FrameJobs
  <1>6. FrameJobs' = FrameJobs \cup ({f.job} \ {NoJob})
    BY <1>1, <1>2, <1>3, <1>4 DEF FrameJobs
  <1> QED
    BY <1>1, <1>2, <1>3, <1>4, <1>5, <1>6

\* The innermost frame is popped; the one below may change its flag `fired'.
LEMMA PoppedFrame ==
    ASSUME StackDistinct, Len(stack) \in Nat \ {0}, Len(stack') = Len(stack) - 1,
           \A i \in 1 .. Len(stack') :
              stack'[i].job = stack[i + 1].job /\ stack'[i].via = stack[i + 1].via
    PROVE  /\ StackDistinct'
           /\ FrameJobs = FrameJobs' \cup ({stack[1].job} \ {NoJob})
           /\ stack[1].job \notin FrameJobs'
           /\ \A i \in 1 .. Len(stack') : \E k \in 1 .. Len(stack) :
                 stack'[i].job = stack[k].job /\ stack'[i].via = stack[k].via
           /\ \A k \in 1 .. Len(stack) :
                 \/ k = 1
                 \/ \E i \in 1 .. Len(stack') :
                       stack'[i].job = stack[k].job /\ stack'[i].via = stack[k].via
  <1>1. \A i \in 1 .. Len(stack') : i + 1 \in 1 .. Len(stack) /\ i + 1 # 1
    OBVIOUS
  <1>2. \A k \in 1 .. Len(stack) : k = 1 \/ (k - 1 \in 1 .. Len(stack') /\ (k - 1) + 1 = k)
    OBVIOUS
  <1>3. 1 \in 1 .. Len(stack)
    OBVIOUS
  <1>4. StackDistinct'
    BY <1>1 DEF StackDistinct
  <1>5. FrameJobs = FrameJobs' \cup ({stack[1].job} \ {NoJob})
    <2>1. ASSUME NEW x \in FrameJobs PROVE x \in FrameJobs' \cup ({stack[1].job} \ {NoJob})
      <3>1. PICK k \in 1 .. Len(stack) : x = stack[k].job /\ x # NoJob
        BY DEF FrameJobs
      <3>2. CASE k = 1
        BY <3>1, <3>2
      <3>3. CASE k # 1
        <4>1. k - 1 \in 1 .. Len(stack') /\ stack'[k - 1].job = stack[k].job
          BY <1>2, <3>3
        <4> QED
          BY <3>1, <4>1 DEF FrameJobs
      <3> QED
        BY <3>2, <3>3
    <2>2. ASSUME NEW x \in FrameJobs' \cup ({stack[1].job} \ {NoJob}) PROVE x \in FrameJobs
      BY <1>1, <1>3 DEF FrameJobs
    <2> QED
      BY <2>1, <2>2
  <1>6. stack[1].job \notin FrameJobs'
    <2> SUFFICES ASSUME NEW i \in 1 .. Len(stack'), stack'[i].job = stack[1].job,
                        stack[1].job # NoJob
                 PROVE  FALSE
      BY DEF FrameJobs
    <2> QED
      BY <1>1, <1>3 DEF StackDistinct
  <1>7. \A i \in 1 .. Len(stack') : \E k \in 1 .. Len(stack) :
            stack'[i].job = stack[k].job /\ stack'[i].via = stack[k].via
    BY <1>1
  <1>8. \A k \in 1 .. Len(stack) :
            \/ k = 1
            \/ \E i \in 1 .. Len(stack') :
                  stack'[i].job = stack[k].job /\ stack'[i].via = stack[k].via
    <2> TAKE k \in 1 .. Len(stack)
    <2>1. CASE k = 1
      BY <2>1
    <2>2. CASE k # 1
      <3>1. /\ k - 1 \in 1 .. Len(stack')
            /\ stack'[k - 1].job = stack[k].job /\ stack'[k - 1].via = stack[k].via
        BY <1>2, <2>2
      <3> QED
        BY <3>1
    <2> QED
      BY <2>1, <2>2
  <1> QED
    BY <1>4, <1>5, <1>6, <1>7, <1>8

\* Steps that push or pop frames without a job.
LEMMA OwnershipCallbacks ==
    ASSUME OwnershipInv, StackDistinct',
           UNCHANGED <<jobs, handlerVars, jobVars, pc, wjob>>,
           FrameJobs' = FrameJobs,
           handler \in {"copy", "clear", "next", "after"} => stack' = <<>>,
           \A i \in 1 .. Len(stack') :
              \/ stack'[i].job = NoJob /\ stack'[i].via \in {"callback", "exit"}
              \/ \E k \in 1 .. Len(stack) :
                    stack'[i].job = stack[k].job /\ stack'[i].via = stack[k].via,
           \A k \in 1 .. Len(stack) :
              \/ stack[k].via \in {"callback", "exit"}
              \/ \E i \in 1 .. Len(stack') :
                    stack'[i].job = stack[k].job /\ stack'[i].via = stack[k].via,
           NoJob \notin Queued
    PROVE  OwnershipInv'
  <1> USE DEF OwnershipInv
  <1>1. UNCHANGED <<jobs, handler, batch, hjob, hasync, alive, sync, sem, outcome,
                    returned, pc, wjob>>
    BY DEF handlerVars, jobVars
  <1>2. Queued' = Queued /\ HandlerHolds' = HandlerHolds
    BY <1>1 DEF Queued, HandlerHolds
  <1>3. HandlerShape'
    BY <1>1 DEF HandlerShape
  <1>4. JobsInOnePlace'
    BY <1>1, <1>2 DEF JobsInOnePlace
  <1>5. MainJobsLive' /\ HandlerJobLive' /\ FreshJobs' /\ WorkerJobsLive'
    BY <1>1, <1>2 DEF MainJobsLive, HandlerJobLive, FreshJobs, WorkerJobsLive
  <1>6. LiveJobsOwned'
    <2> SUFFICES ASSUME NEW k \in Jobs, alive'[k] = "live"
                 PROVE  /\ sync'[k] => CallerOf(k)'
                        /\ ~ sync'[k] => HandedOver(k)'
      BY Zenon DEF LiveJobsOwned
    <2>1. CASE sync[k]
      <3> SUFFICES ASSUME NEW i \in 1 .. Len(stack), stack[i].job = k,
                          stack[i].via \in {"inline", "wait"}
                   PROVE  \E n \in 1 .. Len(stack') :
                              stack'[n].job = k /\ stack'[n].via \in {"inline", "wait"}
        BY <1>1, <2>1 DEF LiveJobsOwned, CallerOf
      <3> QED
        OBVIOUS
    <2>2. CASE ~ sync[k]
      BY <1>1, <1>2, <2>2 DEF LiveJobsOwned, HandedOver
    <2> QED
      BY <2>1, <2>2
  <1> QED
    BY <1>3, <1>4, <1>5, <1>6

\* Nobody has a job that is not allocated yet.
LEMMA FreshJobFacts ==
    ASSUME TypeInv, TickleInv, OwnershipInv, NEW j \in Jobs, alive[j] = "none"
    PROVE  /\ j # NoJob
           /\ j \notin Queued \cup FrameJobs
           /\ outcome[j] = "none" /\ returned[j] = "none"
           /\ \A w \in Workers : pc[w] # "idle" => wjob[w] # j
           /\ handler \in {"executing", "after"} => hjob # j
  BY ConstantsAssumption
     DEF OwnershipInv, MainJobsLive, FreshJobs, TickleInv, OwnJobs, HandlerShape

\* Main-thread code makes an asynchronous call.
LEMMA OwnershipAsync ==
    ASSUME TypeInv, TickleInv, OwnershipInv, NEW j \in Jobs, MainCallAsync(j)
    PROVE  OwnershipInv'
  <1> USE DEF OwnershipInv, TypeInv
  <1>1. /\ stack # <<>>
        /\ alive[j] = "none"
        /\ alive' = [alive EXCEPT ![j] = "live"]
        /\ sync' = [sync EXCEPT ![j] = FALSE]
        /\ jobs' = Append(jobs, j)
        /\ UNCHANGED <<handler, batch, hjob, hasync, stack, sem, outcome, returned,
                       pc, wjob>>
    BY DEF MainCallAsync, NewJob, InUserCode, Running, handlerVars, workerVars
  <1>2. /\ j # NoJob
        /\ j \notin Queued \cup FrameJobs
        /\ outcome[j] = "none" /\ returned[j] = "none"
        /\ \A w \in Workers : pc[w] # "idle" => wjob[w] # j
        /\ handler \in {"executing", "after"} => hjob # j
    BY <1>1, FreshJobFacts
  <1>3. /\ \A k \in Jobs : k # j => alive'[k] = alive[k]
        /\ alive'[j] = "live"
    BY <1>1 DEF TypeOK
  <1>4. /\ \A k \in Jobs : k # j => sync'[k] = sync[k]
        /\ ~ sync'[j]
    BY <1>1 DEF TypeOK
  <1>5. /\ Elems(jobs') = Elems(jobs) \cup {j}
        /\ Queued' = Queued \cup {j}
        /\ FrameJobs' = FrameJobs
        /\ HandlerHolds' = HandlerHolds
    <2>1. Elems(jobs') = Elems(jobs) \cup {j}
      BY <1>1, ElemsAppend DEF TypeOK
    <2> QED
      BY <1>1, <2>1 DEF Queued, FrameJobs, HandlerHolds
  <1>6. Queued \cup FrameJobs \subseteq Jobs
    BY MainJobsType
  <1>7. HandlerShape'
    BY <1>1, <1>2, <1>3, <1>4 DEF HandlerShape
  <1>8. JobsInOnePlace'
    <2>1. Distinct(jobs')
      BY <1>1, <1>2, DistinctAppend DEF JobsInOnePlace, Queued, TypeOK
    <2>2. handler # "clear" => Elems(jobs') \cap Elems(batch') = {}
      BY <1>1, <1>2, <1>5 DEF JobsInOnePlace, Queued
    <2>3. \A i \in 1 .. Len(stack) : stack[i].job # j
      BY <1>2 DEF FrameJobs
    <2> QED
      BY <1>1, <1>5, <2>1, <2>2, <2>3 DEF JobsInOnePlace, StackDistinct
  <1>9. MainJobsLive'
    BY <1>1, <1>2, <1>3, <1>5, <1>6 DEF MainJobsLive
  <1>10. HandlerJobLive'
    BY <1>1, <1>2, <1>3 DEF HandlerJobLive, HandlerShape
  <1>11. WorkerJobsLive'
    BY <1>1, <1>2, <1>3, <1>4, <1>5 DEF WorkerJobsLive, WorkersHaveJobs
  <1>12. FreshJobs'
    BY <1>1, <1>3 DEF FreshJobs
  <1>13. LiveJobsOwned'
    <2> SUFFICES ASSUME NEW k \in Jobs, alive'[k] = "live"
                 PROVE  /\ sync'[k] => CallerOf(k)'
                        /\ ~ sync'[k] => HandedOver(k)'
      BY Zenon DEF LiveJobsOwned
    <2>1. CASE k = j
      BY <1>4, <1>5, <2>1 DEF HandedOver
    <2>2. CASE k # j
      <3>1. alive[k] = "live" /\ sync'[k] = sync[k]
        BY <1>3, <1>4, <2>2
      <3> QED
        BY <1>1, <1>5, <3>1 DEF LiveJobsOwned, CallerOf, HandedOver
    <2> QED
      BY <2>1, <2>2
  <1> QED
    BY <1>7, <1>8, <1>9, <1>10, <1>11, <1>12, <1>13

\* Main-thread code makes a synchronous call: the job runs inline, or is queued
\* and waited for.
LEMMA OwnershipSync ==
    ASSUME TypeInv, TickleInv, OwnershipInv, NEW j \in Jobs, MainCallSync(j)
    PROVE  OwnershipInv'
  <1> USE DEF OwnershipInv, TypeInv
  <1> DEFINE f == IF mainThread = Main THEN Frame("inline", j)
                  ELSE Frame("wait", j)
  <1>1. /\ stack # <<>>
        /\ stack' = <<f>> \o stack
        /\ f \in Frames
        /\ f.job = j
        /\ f.via \in {"inline", "wait"}
        /\ IF f.via = "wait" THEN jobs' = Append(jobs, j) ELSE jobs' = jobs
    BY DEF MainCallSync, InUserCode, Running, Frame, Frames
  <1>2. /\ alive[j] = "none"
        /\ alive' = [alive EXCEPT ![j] = "live"]
        /\ sync' = [sync EXCEPT ![j] = TRUE]
        /\ UNCHANGED <<handler, batch, hjob, hasync, sem, outcome, returned, pc,
                       wjob>>
    BY DEF MainCallSync, NewJob, handlerVars, workerVars
  <1> HIDE DEF f
  <1>3. /\ j # NoJob
        /\ j \notin Queued \cup FrameJobs
        /\ outcome[j] = "none" /\ returned[j] = "none"
        /\ \A w \in Workers : pc[w] # "idle" => wjob[w] # j
        /\ handler \in {"executing", "after"} => hjob # j
    BY <1>2, FreshJobFacts
  <1>4. /\ \A k \in Jobs : k # j => alive'[k] = alive[k]
        /\ alive'[j] = "live"
    BY <1>2 DEF TypeOK
  <1>5. /\ \A k \in Jobs : k # j => sync'[k] = sync[k]
        /\ sync'[j]
    BY <1>2 DEF TypeOK
  <1>6. /\ StackDistinct'
        /\ FrameJobs' = FrameJobs \cup {j}
        /\ \A i \in 1 .. Len(stack') :
              stack'[i] = f \/ \E k \in 1 .. Len(stack) : stack'[i] = stack[k]
        /\ \A k \in 1 .. Len(stack) :
              \E i \in 1 .. Len(stack') : stack'[i] = stack[k]
        /\ \E i \in 1 .. Len(stack') : stack'[i] = f
    <2>1. f.job \notin FrameJobs
      BY <1>1, <1>3
    <2>2. {f.job} \ {NoJob} = {j}
      BY <1>1, <1>3
    <2> QED
      BY <1>1, <2>1, <2>2, PushedFrame DEF JobsInOnePlace
  <1>7. /\ Elems(jobs') = Elems(jobs) \cup (IF f.via = "wait" THEN {j} ELSE {})
        /\ Queued' = Queued \cup (IF f.via = "wait" THEN {j} ELSE {})
        /\ HandlerHolds' = HandlerHolds
        /\ Distinct(jobs')
    <2>1. CASE f.via = "wait"
      <3>1. jobs \in Seq(Jobs) /\ Distinct(jobs) /\ j \notin Elems(jobs)
        BY <1>3 DEF JobsInOnePlace, Queued, TypeOK
      <3>2. Elems(Append(jobs, j)) = Elems(jobs) \cup {j}
        BY <3>1, ElemsAppend
      <3>3. Distinct(Append(jobs, j))
        BY <3>1, DistinctAppend
      <3>4. jobs' = Append(jobs, j)
        BY <1>1, <2>1
      <3> QED
        BY <1>2, <2>1, <3>2, <3>3, <3>4 DEF Queued, HandlerHolds
    <2>2. CASE f.via # "wait"
      BY <1>1, <1>2, <2>2 DEF Queued, HandlerHolds, JobsInOnePlace
    <2> QED
      BY <2>1, <2>2
  <1>8. Queued \cup FrameJobs \subseteq Jobs
    BY MainJobsType
  <1>9. HandlerShape'
    <2>1. handler \notin {"copy", "clear", "next", "after"}
      BY <1>1 DEF HandlerShape
    <2>2. \A i \in 1 .. Len(stack') :
             stack'[i].via = "handler" => handler = "executing" /\ stack'[i].job = hjob
      BY <1>1, <1>6 DEF HandlerShape
    <2> QED
      BY <1>2, <1>3, <1>4, <1>5, <2>1, <2>2 DEF HandlerShape
  <1>10. JobsInOnePlace'
    <2>1. handler # "clear" => Elems(jobs') \cap Elems(batch') = {}
      BY <1>2, <1>3, <1>7 DEF JobsInOnePlace, Queued
    <2>2. \A i \in 1 .. Len(stack) : stack[i].job # j
      BY <1>3 DEF FrameJobs
    <2>3. ASSUME NEW i \in 1 .. Len(stack')
          PROVE  /\ stack'[i].via \in {"callback", "exit"} => stack'[i].job = NoJob
                 /\ stack'[i].via # "wait" => stack'[i].job \notin Queued'
      <3>1. CASE stack'[i] = f
        BY <1>1, <1>3, <1>7, <3>1
      <3>2. ASSUME NEW k \in 1 .. Len(stack), stack'[i] = stack[k]
            PROVE  /\ stack'[i].via \in {"callback", "exit"} => stack'[i].job = NoJob
                   /\ stack'[i].via # "wait" => stack'[i].job \notin Queued'
        BY <1>7, <2>2, <3>2 DEF JobsInOnePlace
      <3> QED
        BY <1>6, <3>1, <3>2
    <2>4. Distinct(batch')
      BY <1>2 DEF JobsInOnePlace
    <2> QED
      BY <1>2, <1>6, <1>7, <2>1, <2>3, <2>4 DEF JobsInOnePlace
  <1>11. MainJobsLive'
    BY <1>2, <1>3, <1>4, <1>6, <1>7, <1>8 DEF MainJobsLive
  <1>12. HandlerJobLive'
    BY <1>2, <1>3, <1>4 DEF HandlerJobLive, HandlerShape
  <1>13. WorkerJobsLive'
    BY <1>2, <1>3, <1>4, <1>5, <1>6, <1>7 DEF WorkerJobsLive, WorkersHaveJobs
  <1>14. FreshJobs'
    BY <1>2, <1>4 DEF FreshJobs
  <1>15. LiveJobsOwned'
    <2> SUFFICES ASSUME NEW k \in Jobs, alive'[k] = "live"
                 PROVE  /\ sync'[k] => CallerOf(k)'
                        /\ ~ sync'[k] => HandedOver(k)'
      BY Zenon DEF LiveJobsOwned
    <2>1. CASE k = j
      BY <1>1, <1>5, <1>6, <2>1 DEF CallerOf
    <2>2. CASE k # j
      <3>1. alive[k] = "live" /\ sync'[k] = sync[k]
        BY <1>4, <1>5, <2>2
      <3>2. CASE sync[k]
        BY <1>2, <1>6, <3>1, <3>2 DEF LiveJobsOwned, CallerOf
      <3>3. CASE ~ sync[k]
        BY <1>2, <1>6, <1>7, <3>1, <3>3 DEF LiveJobsOwned, HandedOver
      <3> QED
        BY <3>1, <3>2, <3>3
    <2> QED
      BY <2>1, <2>2
  <1> QED
    BY <1>9, <1>10, <1>11, <1>12, <1>13, <1>14, <1>15

\* Where an inline call returns to: the frame below its own.
LEMMA InlineReturnFrames ==
    ASSUME TypeInv, NEW o \in Outcomes, InlineReturn(o)
    PROVE  /\ Len(stack) \in Nat \ {0}
           /\ Len(stack') = Len(stack) - 1
           /\ stack[1] = Head(stack)
           /\ stack[1].via = "inline"
           /\ stack[1].job \in Jobs
           /\ \A i \in 1 .. Len(stack') :
                 stack'[i].job = stack[i + 1].job /\ stack'[i].via = stack[i + 1].via
  <1> USE DEF TypeInv
  <1> DEFINE caller == Head(Tail(stack))
             back == [caller EXCEPT !.fired = (caller.via = "exit")]
  <1>1. /\ stack # <<>>
        /\ stack[1] = Head(stack)
        /\ stack[1].via = "inline"
        /\ Len(stack) \in Nat \ {0}
        /\ Tail(stack) \in Seq(Frames)
        /\ Len(Tail(stack)) = Len(stack) - 1
        /\ \A i \in 1 .. Len(stack) - 1 : Tail(stack)[i] = stack[i + 1]
    BY PopFrame DEF InlineReturn, Running, TypeOK
  <1>2. stack[1].job \in Jobs /\ Len(stack) # 1
    <2>1. 1 \in 1 .. Len(stack)
      BY <1>1
    <2> QED
      BY <1>1, <2>1 DEF StackShape
  <1>3. Tail(stack) # <<>>
    <2>1. Len(Tail(stack)) # 0
      BY <1>1, <1>2
    <2> QED
      BY <1>1, <2>1, SeqFacts
  <1>4. /\ caller = stack[2]
        /\ caller \in Frames
        /\ Tail(Tail(stack)) \in Seq(Frames)
        /\ Len(Tail(Tail(stack))) = Len(stack) - 2
        /\ \A i \in 1 .. Len(stack) - 2 : Tail(Tail(stack))[i] = stack[i + 2]
    BY <1>1, <1>2, <1>3, PopFrame
  <1>5. back \in Frames /\ back.via = caller.via /\ back.job = caller.job
    BY <1>4 DEF Frames
  <1>6. stack' = <<back>> \o Tail(Tail(stack))
    BY DEF InlineReturn
  <1> HIDE DEF caller, back
  <1>7. Len(stack') = Len(stack) - 1
    BY <1>1, <1>4, <1>5, <1>6, PushFrame
  <1>8. \A i \in 1 .. Len(stack') :
            stack'[i].job = stack[i + 1].job /\ stack'[i].via = stack[i + 1].via
    <2>1. /\ stack'[1] = back
          /\ \A i \in 2 .. Len(stack) - 1 : stack'[i] = Tail(Tail(stack))[i - 1]
      BY <1>1, <1>4, <1>5, <1>6, PushFrame
    <2>2. \A i \in 2 .. Len(stack) - 1 : stack'[i] = stack[i + 1]
      <3> TAKE i \in 2 .. Len(stack) - 1
      <3>1. i - 1 \in 1 .. Len(stack) - 2 /\ (i - 1) + 2 = i + 1
        BY <1>1
      <3> QED
        BY <1>4, <2>1, <3>1
    <2>3. \A i \in 1 .. Len(stack') : i = 1 \/ i \in 2 .. Len(stack) - 1
      BY <1>1, <1>7
    <2> QED
      BY <1>4, <1>5, <2>1, <2>2, <2>3
  <1> QED
    BY <1>1, <1>2, <1>7, <1>8

\* The job of an inline call is deleted and its caller has the outcome.
LEMMA OwnershipInline ==
    ASSUME TypeInv, TickleInv, OwnershipInv, NEW o \in Outcomes, InlineReturn(o)
    PROVE  OwnershipInv'
  <1> USE DEF OwnershipInv, TypeInv
  <1> DEFINE j == Head(stack).job
  <1>1. /\ alive' = [alive EXCEPT ![j] = "freed"]
        /\ outcome' = [outcome EXCEPT ![j] = o]
        /\ returned' = [returned EXCEPT ![j] = o]
        /\ UNCHANGED <<jobs, handler, batch, hjob, hasync, sync, sem, pc, wjob>>
    BY DEF InlineReturn, handlerVars, workerVars
  <1>2. /\ Len(stack) \in Nat \ {0}
        /\ Len(stack') = Len(stack) - 1
        /\ j = stack[1].job
        /\ stack[1].via = "inline"
        /\ j \in Jobs
        /\ \A i \in 1 .. Len(stack') :
              stack'[i].job = stack[i + 1].job /\ stack'[i].via = stack[i + 1].via
    BY InlineReturnFrames
  <1> HIDE DEF j
  <1>3. 1 \in 1 .. Len(stack) /\ stack # <<>>
    BY <1>2
  <1>4. /\ j # NoJob
        /\ j \notin Queued
        /\ \A w \in Workers : pc[w] # "idle" => wjob[w] # j
        /\ handler \notin {"copy", "clear", "next", "after"}
    BY <1>2, <1>3, ConstantsAssumption
       DEF JobsInOnePlace, TickleInv, InlineJobs, HandlerShape
  <1>5. /\ StackDistinct'
        /\ FrameJobs = FrameJobs' \cup {j}
        /\ j \notin FrameJobs'
        /\ \A i \in 1 .. Len(stack') : \E k \in 1 .. Len(stack) :
              stack'[i].job = stack[k].job /\ stack'[i].via = stack[k].via
        /\ \A k \in 1 .. Len(stack) :
              \/ k = 1
              \/ \E i \in 1 .. Len(stack') :
                    stack'[i].job = stack[k].job /\ stack'[i].via = stack[k].via
    <2>1. {stack[1].job} \ {NoJob} = {j}
      BY <1>2, <1>4
    <2> QED
      BY <1>2, <2>1, PoppedFrame DEF JobsInOnePlace
  <1>6. /\ \A k \in Jobs : k # j => /\ alive'[k] = alive[k]
                                    /\ outcome'[k] = outcome[k]
                                    /\ returned'[k] = returned[k]
        /\ alive'[j] = "freed"
        /\ outcome'[j] = o /\ o # "none"
    BY <1>1, <1>2 DEF TypeOK, Outcomes
  <1>7. Queued' = Queued /\ HandlerHolds' = HandlerHolds
    BY <1>1 DEF Queued, HandlerHolds
  <1>8. Queued \cup FrameJobs \subseteq Jobs
    BY MainJobsType
  <1>9. HandlerShape'
    <2>1. \A i \in 1 .. Len(stack') :
             stack'[i].via = "handler" => handler = "executing" /\ stack'[i].job = hjob
      BY <1>5 DEF HandlerShape
    <2> QED
      BY <1>1, <1>4, <1>6, <2>1 DEF HandlerShape
  <1>10. JobsInOnePlace'
    BY <1>1, <1>5, <1>7 DEF JobsInOnePlace
  <1>11. MainJobsLive'
    BY <1>4, <1>5, <1>6, <1>7, <1>8 DEF MainJobsLive
  <1>12. HandlerJobLive'
    BY <1>1, <1>4 DEF HandlerJobLive
  <1>13. WorkerJobsLive'
    BY <1>1, <1>4, <1>5, <1>6, <1>7 DEF WorkerJobsLive, WorkersHaveJobs
  <1>14. FreshJobs'
    BY <1>1, <1>6 DEF FreshJobs
  <1>15. LiveJobsOwned'
    <2> SUFFICES ASSUME NEW k \in Jobs, alive'[k] = "live"
                 PROVE  /\ sync'[k] => CallerOf(k)'
                        /\ ~ sync'[k] => HandedOver(k)'
      BY Zenon DEF LiveJobsOwned
    <2>1. k # j /\ alive[k] = "live"
      BY <1>6
    <2>2. CASE sync[k]
      <3>1. CallerOf(k) /\ sync'[k] = sync[k]
        BY <1>1, <2>1, <2>2 DEF LiveJobsOwned
      <3>2. ASSUME NEW i \in 1 .. Len(stack),
                   stack[i].job = k, stack[i].via \in {"inline", "wait"}
            PROVE  CallerOf(k)'
        <4>1. i # 1
          BY <1>2, <2>1, <3>2
        <4> QED
          BY <1>5, <3>2, <4>1 DEF CallerOf
      <3>3. ASSUME NEW v \in Workers, pc[v] # "idle", wjob[v] = k
            PROVE  CallerOf(k)'
        BY <1>1, <3>3 DEF CallerOf
      <3>4. CallerOf(k)'
        BY <3>1, <3>2, <3>3 DEF CallerOf
      <3> QED
        BY <2>2, <3>1, <3>4
    <2>3. CASE ~ sync[k]
      BY <1>1, <1>5, <1>7, <2>1, <2>3 DEF LiveJobsOwned, HandedOver
    <2> QED
      BY <2>2, <2>3, Zenon
  <1> QED
    BY <1>9, <1>10, <1>11, <1>12, <1>13, <1>14, <1>15
-----------------------------------------------------------------------------
(* The handler.                                                             *)

\* Steps of the handler that touch no job and at most rearrange the queue and
\* the copy while nothing is on the stack.
LEMMA OwnershipQueue ==
    ASSUME OwnershipInv, stack = <<>>,
           UNCHANGED <<hjob, hasync, stack, jobVars, pc, wjob>>,
           handler \in {"idle", "copy", "clear", "next"},
           handler' \in {"idle", "copy", "clear", "next"},
           Queued' = Queued,
           Distinct(jobs'), Distinct(batch'),
           handler' # "clear" => Elems(jobs') \cap Elems(batch') = {},
           handler' \in {"idle", "copy"} => batch' = <<>>,
           handler' = "clear" => batch' = jobs'
    PROVE  OwnershipInv'
  <1> USE DEF OwnershipInv
  <1>1. /\ UNCHANGED <<hjob, hasync, stack, alive, sync, sem, outcome, returned,
                       pc, wjob>>
        /\ FrameJobs' = FrameJobs
        /\ HandlerHolds' = HandlerHolds
    BY DEF jobVars, FrameJobs, HandlerHolds
  <1>2. HandlerShape' /\ HandlerJobLive'
    BY <1>1 DEF HandlerShape, HandlerJobLive
  <1>3. JobsInOnePlace'
    BY <1>1 DEF JobsInOnePlace, StackDistinct
  <1>4. MainJobsLive' /\ WorkerJobsLive' /\ FreshJobs'
    BY <1>1 DEF MainJobsLive, WorkerJobsLive, FreshJobs
  <1>5. LiveJobsOwned'
    BY <1>1 DEF LiveJobsOwned, CallerOf, HandedOver
  <1> QED
    BY <1>2, <1>3, <1>4, <1>5

\* It takes the next job of its copy.
LEMMA OwnershipExecute ==
    ASSUME TypeInv, TickleInv, OwnershipInv, HandlerExecute
    PROVE  OwnershipInv'
  <1> USE DEF OwnershipInv, TypeInv
  <1> DEFINE j == Head(batch)
             f == Frame("handler", j)
  <1>1. /\ handler = "next" /\ handler' = "executing"
        /\ batch # <<>> /\ batch' = Tail(batch)
        /\ hjob' = j
        /\ hasync' = ~ sync[j]
        /\ UNCHANGED <<jobs, alive, sync, sem, outcome, returned, pc, wjob>>
    BY DEF HandlerExecute, jobVars, workerVars
  <1>2. /\ stack' = <<f>>
        /\ f.job = j /\ f.via = "handler"
    BY DEF HandlerExecute, Frame
  <1>3. /\ j \in Jobs
        /\ Distinct(batch')
        /\ Elems(batch) = {j} \cup Elems(batch')
        /\ j \notin Elems(batch')
    BY <1>1, DistinctPop DEF JobsInOnePlace, TypeOK
  <1> HIDE DEF f, j
  <1>4. /\ Len(stack') = 1 /\ stack'[1] = f
        /\ stack = <<>>
        /\ FrameJobs = {}
        /\ FrameJobs' = {j}
    <2>1. Len(stack') = 1 /\ stack'[1] = f
      BY <1>2
    <2>2. stack = <<>>
      BY <1>1 DEF HandlerShape
    <2>3. FrameJobs = {}
      BY <2>2 DEF FrameJobs
    <2>4. j # NoJob
      BY <1>3, ConstantsAssumption
    <2>5. FrameJobs' = {j}
      BY <1>2, <2>1, <2>4 DEF FrameJobs
    <2> QED
      BY <2>1, <2>2, <2>3, <2>5
  <1>5. /\ Queued = Queued' \cup {j}
        /\ j \notin Queued'
        /\ HandlerHolds = {} /\ HandlerHolds' = {}
    BY <1>1, <1>3 DEF Queued, HandlerHolds, JobsInOnePlace
  <1>6. alive[j] = "live" /\ outcome[j] = "none"
    BY <1>5 DEF MainJobsLive
  <1>7. HandlerShape'
    BY <1>1, <1>2, <1>3, <1>4, <1>6 DEF HandlerShape
  <1>8. JobsInOnePlace'
    <2>1. StackDistinct'
      BY <1>4 DEF StackDistinct
    <2>2. \A i \in 1 .. Len(stack') :
             /\ stack'[i].via \in {"callback", "exit"} => stack'[i].job = NoJob
             /\ stack'[i].via # "wait" => stack'[i].job \notin Queued'
      BY <1>2, <1>4, <1>5
    <2> QED
      BY <1>1, <1>3, <2>1, <2>2 DEF JobsInOnePlace
  <1>9. MainJobsLive'
    BY <1>1, <1>4, <1>5, <1>6 DEF MainJobsLive
  <1>10. HandlerJobLive'
    BY <1>1 DEF HandlerJobLive
  <1>11. WorkerJobsLive'
    BY <1>1, <1>4, <1>5 DEF WorkerJobsLive
  <1>12. FreshJobs'
    BY <1>1 DEF FreshJobs
  <1>13. LiveJobsOwned'
    BY <1>1, <1>4, <1>5 DEF LiveJobsOwned, CallerOf, HandedOver
  <1> QED
    BY <1>7, <1>8, <1>9, <1>10, <1>11, <1>12, <1>13

\* The frame of a job that the handler executes is the only one when it returns.
LEMMA HandlerFrame ==
    ASSUME TypeInv, OwnershipInv, Running("handler")
    PROVE  /\ Len(stack) = 1
           /\ stack[1] = Head(stack)
           /\ stack[1].via = "handler"
           /\ stack[1].job = hjob
           /\ handler = "executing"
           /\ hjob \in Jobs
           /\ FrameJobs = {hjob}
  <1>1. /\ stack[1] = Head(stack)
        /\ Len(stack) \in Nat \ {0}
        /\ stack[1].via = "handler"
    BY PopFrame DEF Running, TypeInv, TypeOK
  <1>2. 1 \in 1 .. Len(stack)
    BY <1>1
  <1>3. Len(stack) = 1
    BY <1>1, <1>2 DEF TypeInv, StackShape
  <1>4. stack[1].job = hjob /\ handler = "executing" /\ hjob \in Jobs
    BY <1>1, <1>2 DEF OwnershipInv, HandlerShape
  <1>5. FrameJobs = {hjob}
    <2>1. hjob # NoJob
      BY <1>4, ConstantsAssumption
    <2> QED
      BY <1>3, <1>4, <2>1 DEF FrameJobs
  <1> QED
    BY <1>1, <1>3, <1>4, <1>5

\* The job has run: from here on a synchronous one belongs to its caller.
LEMMA OwnershipExecuted ==
    ASSUME TypeInv, TickleInv, OwnershipInv, NEW o \in Outcomes, HandlerExecuted(o)
    PROVE  OwnershipInv'
  <1> USE DEF OwnershipInv, TypeInv
  <1> DEFINE j == hjob
  <1>1. /\ Len(stack) = 1
        /\ stack[1].via = "handler"
        /\ Head(stack).job = j
        /\ handler = "executing"
        /\ j \in Jobs
        /\ FrameJobs = {j}
    BY HandlerFrame DEF HandlerExecuted
  <1>2. /\ outcome' = [outcome EXCEPT ![j] = o]
        /\ sem' = IF sync[j] THEN [sem EXCEPT ![j] = 1] ELSE sem
        /\ stack' = <<>>
        /\ handler' = "after"
        /\ UNCHANGED <<jobs, batch, hjob, hasync, alive, sync, returned, pc, wjob>>
    BY <1>1 DEF HandlerExecuted, workerVars
  <1>3. /\ alive[j] = "live" /\ outcome[j] = "none"
        /\ j \notin Queued
        /\ hasync = ~ sync[j]
    <2>1. 1 \in 1 .. Len(stack) /\ stack[1].job = j
      BY <1>1 DEF HandlerShape
    <2> QED
      BY <1>1, <2>1 DEF MainJobsLive, JobsInOnePlace, HandlerShape
  <1>4. /\ \A k \in Jobs : k # j => outcome'[k] = outcome[k] /\ sem'[k] = sem[k]
        /\ outcome'[j] = o /\ o # "none"
    <2>1. /\ \A k \in Jobs : k # j => outcome'[k] = outcome[k]
          /\ outcome'[j] = o /\ o # "none"
      BY <1>1, <1>2 DEF TypeOK, Outcomes
    <2>2. \A k \in Jobs : k # j => sem'[k] = sem[k]
      <3>1. CASE sync[j]
        BY <1>2, <3>1 DEF TypeOK
      <3>2. CASE ~ sync[j]
        BY <1>2, <3>2
      <3> QED
        BY <3>1, <3>2
    <2> QED
      BY <2>1, <2>2
  <1>5. /\ Queued' = Queued
        /\ FrameJobs' = {}
        /\ HandlerHolds' = IF hasync THEN {j} ELSE {}
    BY <1>2 DEF Queued, FrameJobs, HandlerHolds
  <1>6. Queued \subseteq Jobs
    BY MainJobsType
  <1>7. HandlerShape'
    BY <1>1, <1>2, <1>3 DEF HandlerShape
  <1>8. JobsInOnePlace'
    BY <1>1, <1>2, <1>5 DEF JobsInOnePlace, StackDistinct
  <1>9. MainJobsLive'
    BY <1>2, <1>3, <1>4, <1>5, <1>6 DEF MainJobsLive
  <1>10. HandlerJobLive'
    BY <1>2, <1>3, <1>4 DEF HandlerJobLive
  <1>11. WorkerJobsLive'
    BY <1>1, <1>2, <1>4, <1>5 DEF WorkerJobsLive, WorkersHaveJobs
  <1>12. FreshJobs'
    BY <1>2, <1>3, <1>4 DEF FreshJobs
  <1>13. LiveJobsOwned'
    <2> SUFFICES ASSUME NEW k \in Jobs, alive'[k] = "live"
                 PROVE  /\ sync'[k] => CallerOf(k)'
                        /\ ~ sync'[k] => HandedOver(k)'
      BY Zenon DEF LiveJobsOwned
    <2>1. alive[k] = "live" /\ sync'[k] = sync[k]
      BY <1>2
    <2>2. CASE sync[k]
      <3>1. \A i \in 1 .. Len(stack) : stack[i].via = "handler"
        BY <1>1
      <3> QED
        BY <1>2, <2>1, <2>2, <3>1 DEF LiveJobsOwned, CallerOf
    <2>3. CASE ~ sync[k]
      <3>1. CASE k = j
        BY <1>3, <1>5, <2>1, <2>3, <3>1 DEF HandedOver
      <3>2. CASE k # j
        <4>1. HandlerHolds = {}
          BY <1>1 DEF HandlerHolds
        <4> QED
          BY <1>1, <1>2, <1>5, <2>1, <2>3, <3>2, <4>1 DEF LiveJobsOwned, HandedOver
      <3> QED
        BY <3>1, <3>2
    <2> QED
      BY <2>2, <2>3
  <1> QED
    BY <1>7, <1>8, <1>9, <1>10, <1>11, <1>12, <1>13

\* It deletes an asynchronous job and forgets a synchronous one.
LEMMA OwnershipCleanup ==
    ASSUME TypeInv, TickleInv, OwnershipInv, HandlerCleanup
    PROVE  OwnershipInv'
  <1> USE DEF OwnershipInv, TypeInv
  <1>1. /\ handler = "after" /\ handler' = "next"
        /\ alive' = IF hasync THEN [alive EXCEPT ![hjob] = "freed"] ELSE alive
        /\ UNCHANGED <<jobs, batch, hasync, stack, sync, sem, outcome, returned,
                       pc, wjob>>
    BY DEF HandlerCleanup, workerVars
  <1>2. /\ stack = <<>>
        /\ hjob \in Jobs
        /\ hasync = ~ sync[hjob]
        /\ outcome[hjob] # "none"
        /\ alive[hjob] # "none"
        /\ hjob \notin Queued
    BY <1>1 DEF HandlerShape, HandlerJobLive, MainJobsLive
  <1>3. /\ \A k \in Jobs : k # hjob \/ ~ hasync => alive'[k] = alive[k]
        /\ hasync => alive'[hjob] = "freed"
    <2>1. CASE hasync
      BY <1>1, <1>2, <2>1 DEF TypeOK
    <2>2. CASE ~ hasync
      BY <1>1, <2>2
    <2> QED
      BY <2>1, <2>2
  <1>4. /\ Queued' = Queued
        /\ FrameJobs = {} /\ FrameJobs' = {}
        /\ HandlerHolds = IF hasync THEN {hjob} ELSE {}
        /\ HandlerHolds' = {}
    BY <1>1, <1>2 DEF Queued, FrameJobs, HandlerHolds
  <1>5. Queued \subseteq Jobs
    BY MainJobsType
  <1>6. HandlerShape' /\ HandlerJobLive'
    BY <1>1, <1>2 DEF HandlerShape, HandlerJobLive
  <1>7. JobsInOnePlace'
    BY <1>1, <1>4 DEF JobsInOnePlace, StackDistinct
  <1>8. MainJobsLive'
    BY <1>1, <1>2, <1>3, <1>4, <1>5 DEF MainJobsLive
  <1>9. WorkerJobsLive'
    <2> SUFFICES ASSUME NEW w \in Workers, pc[w] # "idle"
                 PROVE  /\ pc[w] = "push" =>
                              /\ alive'[wjob[w]] = "live"
                              /\ outcome[wjob[w]] = "none"
                              /\ wjob[w] \notin Queued'
                        /\ pc[w] \in {"wait", "collect"} => sync[wjob[w]]
                        /\ pc[w] = "collect" => outcome[wjob[w]] # "none"
                        /\ sync[wjob[w]] => alive'[wjob[w]] = "live"
                        /\ returned[wjob[w]] = "none"
      BY <1>1, <1>4 DEF WorkerJobsLive
    <2>1. wjob[w] \in Jobs
      BY DEF WorkersHaveJobs
    <2>2. CASE pc[w] = "push"
      BY <1>2, <1>3, <1>4, <2>1, <2>2 DEF WorkerJobsLive
    <2>3. CASE sync[wjob[w]]
      <3>1. wjob[w] # hjob \/ ~ hasync
        BY <1>2, <2>3
      <3> QED
        BY <1>2, <1>3, <1>4, <2>1, <2>3, <3>1 DEF WorkerJobsLive
    <2>4. CASE pc[w] # "push" /\ ~ sync[wjob[w]]
      BY <2>4 DEF WorkerJobsLive
    <2> QED
      BY <2>2, <2>3, <2>4
  <1>10. FreshJobs'
    BY <1>1, <1>2, <1>3 DEF FreshJobs
  <1>11. LiveJobsOwned'
    <2> SUFFICES ASSUME NEW k \in Jobs, alive'[k] = "live"
                 PROVE  /\ sync'[k] => CallerOf(k)'
                        /\ ~ sync'[k] => HandedOver(k)'
      BY Zenon DEF LiveJobsOwned
    <2>1. /\ alive[k] = "live" /\ sync'[k] = sync[k]
          /\ ~ (hasync /\ k = hjob)
      BY <1>1, <1>3
    <2>2. CASE sync[k]
      BY <1>1, <2>1, <2>2 DEF LiveJobsOwned, CallerOf
    <2>3. CASE ~ sync[k]
      BY <1>1, <1>4, <2>1, <2>3 DEF LiveJobsOwned, HandedOver
    <2> QED
      BY <2>2, <2>3
  <1> QED
    BY <1>6, <1>7, <1>8, <1>9, <1>10, <1>11
-----------------------------------------------------------------------------
\* Every step keeps each job with exactly those that may free it.
LEMMA OwnershipNext ==
    TypeInv /\ TickleInv /\ OwnershipInv /\ [Next]_vars => OwnershipInv'
  <1> SUFFICES ASSUME TypeInv, TickleInv, OwnershipInv, [Next]_vars
               PROVE  OwnershipInv'
    OBVIOUS
  <1>1. ASSUME NEW w \in Workers, NEW j \in Jobs, NEW s \in BOOLEAN,
               WorkerCall(w, j, s)
        PROVE  OwnershipInv'
    BY <1>1, OwnershipCall
  <1>2. ASSUME NEW w \in Workers, WorkerPush(w)
        PROVE  OwnershipInv'
    BY <1>2, OwnershipPush
  <1>3. ASSUME NEW w \in Workers, WorkerPost(w)
        PROVE  OwnershipInv'
    <2>1. /\ pc[w] = "post"
          /\ UNCHANGED <<jobs, handler, batch, hjob, hasync, stack, alive, sync,
                         outcome, returned, sem>>
      BY <1>3 DEF WorkerPost, handlerVars, jobVars
    <2>2. /\ \A v \in Workers : v # w => pc'[v] = pc[v] /\ wjob'[v] = wjob[v]
          /\ pc'[w] \in {"idle", "wait", "collect"}
          /\ pc'[w] # "idle" => wjob'[w] = wjob[w] /\ sync[wjob[w]]
          /\ pc'[w] # "collect"
          /\ sync[wjob[w]] => pc'[w] # "idle"
      <3>1. CASE sync[wjob[w]]
        BY <1>3, <3>1 DEF WorkerPost, AfterPost, TypeInv, TypeOK
      <3>2. CASE ~ sync[wjob[w]]
        BY <1>3, <3>2 DEF WorkerPost, AfterPost, TypeInv, TypeOK
      <3> QED
        BY <3>1, <3>2
    <2> QED
      BY <2>1, <2>2, OwnershipWorkerMoves
  <1>4. ASSUME NEW w \in Workers, WorkerWait(w)
        PROVE  OwnershipInv'
    <2>1. /\ pc[w] = "wait"
          /\ sem[wjob[w]] > 0
          /\ sem' = [sem EXCEPT ![wjob[w]] = 0]
          /\ pc' = [pc EXCEPT ![w] = "collect"]
          /\ UNCHANGED <<jobs, handler, batch, hjob, hasync, stack, alive, sync,
                         outcome, returned, wjob>>
      BY <1>4 DEF WorkerWait, handlerVars
    <2>2. wjob[w] \in Jobs /\ sync[wjob[w]]
      BY <2>1 DEF TypeInv, WorkersHaveJobs, OwnershipInv, WorkerJobsLive
    <2>3. outcome[wjob[w]] # "none"
      BY <2>1, <2>2 DEF TypeInv, TypeOK, OwnershipInv, FreshJobs
    <2>4. \A k \in Jobs : sem'[k] = 1 => sem[k] = 1
      BY <2>1, <2>2 DEF TypeInv, TypeOK
    <2>5. pc'[w] = "collect" /\ \A v \in Workers : v # w => pc'[v] = pc[v]
      BY <2>1 DEF TypeInv, TypeOK
    <2> QED
      BY <2>1, <2>2, <2>3, <2>4, <2>5, OwnershipWorkerMoves
  <1>5. ASSUME NEW w \in Workers, WorkerCollect(w)
        PROVE  OwnershipInv'
    BY <1>5, OwnershipCollect
  <1>6. ASSUME NEW w \in Workers, NEW p \in BOOLEAN,
               WorkerExit(w) \/ WorkerExitDecide(w, p)
        PROVE  OwnershipInv'
    BY <1>6, OwnershipFrame DEF WorkerExit, WorkerExitDecide
  <1>7. NoJob \notin Queued
    BY MainJobsType, ConstantsAssumption DEF TypeInv
  <1>8. ASSUME CallbackBegin
        PROVE  OwnershipInv'
    <2> DEFINE f == Frame("callback", NoJob)
    <2>1. /\ stack = <<>> /\ handler = "idle"
          /\ stack' = <<f>>
          /\ f.via = "callback" /\ f.job = NoJob
          /\ UNCHANGED <<jobs, handlerVars, jobVars, pc, wjob>>
      BY <1>8 DEF CallbackBegin, Idle, Frame, workerVars
    <2> HIDE DEF f
    <2>2. /\ Len(stack) = 0
          /\ Len(stack') = 1 /\ stack'[1] = f
      BY <2>1
    <2>3. StackDistinct' /\ FrameJobs' = FrameJobs
      BY <2>1, <2>2 DEF StackDistinct, FrameJobs
    <2> QED
      BY <1>7, <2>1, <2>2, <2>3, OwnershipCallbacks
  <1>9. ASSUME NEW p \in BOOLEAN,
               CallbackReturn \/ CallbackThrow \/ MainExitDecide(p)
        PROVE  OwnershipInv'
    <2>1. /\ stack # <<>> /\ stack' = Tail(stack)
          /\ Head(stack).via \in {"callback", "exit"}
          /\ UNCHANGED <<jobs, handlerVars, jobVars, pc, wjob>>
      BY <1>9 DEF CallbackReturn, CallbackThrow, MainExitDecide, Running, workerVars
    <2>2. /\ stack[1] = Head(stack)
          /\ Len(stack) \in Nat \ {0}
          /\ Len(stack') = Len(stack) - 1
          /\ \A i \in 1 .. Len(stack') : stack'[i] = stack[i + 1]
      BY <2>1, PopFrame DEF TypeInv, TypeOK
    <2>3. stack[1].job = NoJob
      <3>1. 1 \in 1 .. Len(stack)
        BY <2>2
      <3> QED
        BY <2>1, <2>2, <3>1 DEF OwnershipInv, JobsInOnePlace
    <2>4. /\ StackDistinct'
          /\ FrameJobs' = FrameJobs
          /\ \A i \in 1 .. Len(stack') : \E k \in 1 .. Len(stack) :
                stack'[i].job = stack[k].job /\ stack'[i].via = stack[k].via
          /\ \A k \in 1 .. Len(stack) :
                \/ k = 1
                \/ \E i \in 1 .. Len(stack') :
                      stack'[i].job = stack[k].job /\ stack'[i].via = stack[k].via
      BY <2>2, <2>3, PoppedFrame DEF OwnershipInv, JobsInOnePlace
    <2>5. handler \notin {"copy", "clear", "next", "after"}
      BY <2>1 DEF OwnershipInv, HandlerShape
    <2> QED
      BY <1>7, <2>1, <2>2, <2>4, <2>5, OwnershipCallbacks
  <1>10. ASSUME NEW j \in Jobs, MainCallSync(j)
         PROVE  OwnershipInv'
    BY <1>10, OwnershipSync
  <1>11. ASSUME NEW j \in Jobs, MainCallAsync(j)
         PROVE  OwnershipInv'
    BY <1>11, OwnershipAsync
  <1>12. ASSUME NEW o \in Outcomes, InlineReturn(o)
         PROVE  OwnershipInv'
    BY <1>12, OwnershipInline
  <1>13. ASSUME MainExit
         PROVE  OwnershipInv'
    <2> DEFINE f == Frame("exit", NoJob)
    <2>1. /\ stack # <<>>
          /\ stack' = <<f>> \o stack
          /\ f \in Frames /\ f.via = "exit" /\ f.job = NoJob
          /\ UNCHANGED <<jobs, handlerVars, jobVars, pc, wjob>>
      BY <1>13 DEF MainExit, InUserCode, Running, Frame, Frames, workerVars
    <2> HIDE DEF f
    <2>2. f.job \notin FrameJobs
      BY <2>1 DEF FrameJobs
    <2>3. /\ StackDistinct'
          /\ FrameJobs' = FrameJobs
          /\ \A i \in 1 .. Len(stack') :
                stack'[i] = f \/ \E k \in 1 .. Len(stack) : stack'[i] = stack[k]
          /\ \A k \in 1 .. Len(stack) :
                \E i \in 1 .. Len(stack') : stack'[i] = stack[k]
      <3>1. {f.job} \ {NoJob} = {}
        BY <2>1
      <3>2. TypeOK /\ StackDistinct
        BY DEF TypeInv, OwnershipInv, JobsInOnePlace
      <3>3. f \in Frames /\ stack' = <<f>> \o stack
        BY <2>1
      <3>4. /\ StackDistinct'
            /\ FrameJobs' = FrameJobs \cup ({f.job} \ {NoJob})
            /\ \A i \in 1 .. Len(stack') :
                  stack'[i] = f \/ \E k \in 1 .. Len(stack) : stack'[i] = stack[k]
            /\ \A k \in 1 .. Len(stack) :
                  \E i \in 1 .. Len(stack') : stack'[i] = stack[k]
        BY <2>2, <3>2, <3>3, PushedFrame
      <3> QED
        BY <3>1, <3>4
    <2>4. handler \notin {"copy", "clear", "next", "after"}
      BY <2>1 DEF OwnershipInv, HandlerShape
    <2>5. /\ \A i \in 1 .. Len(stack') :
                \/ stack'[i].job = NoJob /\ stack'[i].via \in {"callback", "exit"}
                \/ \E k \in 1 .. Len(stack) :
                      stack'[i].job = stack[k].job /\ stack'[i].via = stack[k].via
          /\ \A k \in 1 .. Len(stack) : \E i \in 1 .. Len(stack') :
                stack'[i].job = stack[k].job /\ stack'[i].via = stack[k].via
      BY <2>1, <2>3
    <2> QED
      BY <1>7, <2>1, <2>3, <2>4, <2>5, OwnershipCallbacks
  <1>14. ASSUME TimerFires \/ TickleReceived
         PROVE  OwnershipInv'
    <2>1. /\ stack = <<>> /\ handler = "idle" /\ handler' = "copy"
          /\ UNCHANGED <<jobs, batch, hjob, hasync, stack, jobVars, pc, wjob>>
      BY <1>14 DEF TimerFires, TickleReceived, Idle, workerVars
    <2> QED
      BY <2>1, OwnershipQueue DEF OwnershipInv, HandlerShape, JobsInOnePlace, Queued
  <1>15. ASSUME HandlerCopy
         PROVE  OwnershipInv'
    <2>1. /\ handler = "copy" /\ handler' = "clear" /\ batch' = jobs
          /\ UNCHANGED <<jobs, hjob, hasync, stack, jobVars, pc, wjob>>
      BY <1>15 DEF HandlerCopy, workerVars
    <2>2. stack = <<>> /\ batch = <<>> /\ Distinct(jobs)
      BY <2>1 DEF OwnershipInv, HandlerShape, JobsInOnePlace
    <2>3. Queued' = Queued
      BY <2>1, <2>2, ElemsEmpty DEF Queued
    <2> QED
      BY <2>1, <2>2, <2>3, OwnershipQueue
  <1>16. ASSUME HandlerClear
         PROVE  OwnershipInv'
    <2>1. /\ handler = "clear" /\ handler' = "next" /\ jobs' = <<>>
          /\ UNCHANGED <<batch, hjob, hasync, stack, jobVars, pc, wjob>>
      BY <1>16 DEF HandlerClear, workerVars
    <2>2. stack = <<>> /\ batch = jobs /\ Distinct(batch)
      BY <2>1 DEF OwnershipInv, HandlerShape, JobsInOnePlace
    <2>3. Queued' = Queued /\ Elems(jobs') = {} /\ Distinct(jobs')
      BY <2>1, <2>2, ElemsEmpty DEF Queued, Distinct
    <2> QED
      BY <2>1, <2>2, <2>3, OwnershipQueue
  <1>17. ASSUME HandlerExecute
         PROVE  OwnershipInv'
    BY <1>17, OwnershipExecute
  <1>18. ASSUME NEW o \in Outcomes, HandlerExecuted(o)
         PROVE  OwnershipInv'
    BY <1>18, OwnershipExecuted
  <1>19. ASSUME HandlerCleanup
         PROVE  OwnershipInv'
    BY <1>19, OwnershipCleanup
  <1>20. ASSUME HandlerReturn
         PROVE  OwnershipInv'
    <2>1. /\ handler = "next" /\ handler' = "idle" /\ batch = <<>>
          /\ UNCHANGED <<jobs, batch, hjob, hasync, stack, jobVars, pc, wjob>>
      BY <1>20 DEF HandlerReturn, workerVars
    <2> QED
      BY <2>1, OwnershipQueue DEF OwnershipInv, HandlerShape, JobsInOnePlace, Queued
  <1>21. CASE UNCHANGED vars
    BY <1>21, OwnershipFrame DEF vars, workerVars
  <1>22. ASSUME NEW ui \in BOOLEAN,
                \/ LoadDone(ui) \/ CheckRunning \/ EnterGtkMain
                \/ LeaveGtkMain \/ StopDone
         PROVE  OwnershipInv'
    BY <1>22, OwnershipFrame DEF LoadDone, CheckRunning, EnterGtkMain,
       LeaveGtkMain, StopDone, workerVars
  <1> QED
    BY <1>1, <1>2, <1>3, <1>4, <1>5, <1>6, <1>8, <1>9, <1>10, <1>11, <1>12,
       <1>13, <1>14, <1>15, <1>16, <1>17, <1>18, <1>19, <1>20, <1>21, <1>22
       DEF Next, Handler, UserCode, Run, Worker

HostInv == TypeInv /\ HandlerAlone /\ TickleInv /\ OwnershipInv

\* The invariant of the host, for every set of workers and jobs.
LEMMA HostInvHolds == Spec => []HostInv
  <1>1. Init => HostInv
    BY TypeInvInit, HandlerAloneInit, TickleInvInit, OwnershipInit DEF HostInv
  <1>2. HostInv /\ [Next]_vars => HostInv'
    BY TypeInvNext, HandlerAloneNext, TickleInvNext, OwnershipNext DEF HostInv
  <1> QED
    BY <1>1, <1>2, PTL DEF Spec

\* Memory safety of jobs (host/linux/host.cpp:122,158, host/win32/host.cpp): a
\* job that somebody will still follow a pointer to is allocated, and one that is
\* allocated has somebody who will delete it; for any number of threads and calls.
THEOREM NoUseAfterFreeNoLeak == Spec => []JobsLiveWhileHeld
  <1>1. HostInv => JobsLiveWhileHeld
    <2> SUFFICES ASSUME HostInv, NEW j \in Jobs
                 PROVE  alive[j] = "live" <=>
                            j \in MainHolds \cup UNION {WorkerHolds(w) : w \in Workers}
      BY DEF JobsLiveWhileHeld
    <2> USE DEF HostInv, TypeInv, OwnershipInv
    <2>1. MainHolds = Queued \cup FrameJobs \cup HandlerHolds
      <3>1. stack \in Seq(Frames)
        BY DEF TypeOK
      <3>2. DOMAIN stack = 1 .. Len(stack)
        BY <3>1
      <3>3. {f.job : f \in Elems(stack)} = {stack[i].job : i \in 1 .. Len(stack)}
        BY <3>2 DEF Elems
      <3> QED
        BY <3>3 DEF MainHolds, Queued, FrameJobs
    <2>2. ASSUME alive[j] = "live"
          PROVE  j \in MainHolds \cup UNION {WorkerHolds(w) : w \in Workers}
      <3>1. ASSUME NEW w \in Workers, pc[w] # "idle", wjob[w] = j,
                   sync[j] \/ pc[w] = "push"
            PROVE  j \in UNION {WorkerHolds(v) : v \in Workers}
        <4>1. pc[w] \in {"push", "post", "wait", "collect"}
          BY <3>1 DEF TypeOK, WorkerStates
        <4>2. j \in WorkerHolds(w)
          BY <3>1, <4>1 DEF WorkerHolds
        <4> QED
          BY <4>2
      <3>2. CASE sync[j]
        <4>1. CallerOf(j)
          BY <2>2, <3>2 DEF LiveJobsOwned
        <4>2. j # NoJob
          BY ConstantsAssumption
        <4>3. CASE \E i \in 1 .. Len(stack) : stack[i].job = j
          BY <2>1, <4>2, <4>3 DEF FrameJobs
        <4>4. CASE \E w \in Workers : pc[w] # "idle" /\ wjob[w] = j
          BY <3>1, <3>2, <4>4
        <4> QED
          BY <4>1, <4>3, <4>4 DEF CallerOf
      <3>3. CASE ~ sync[j]
        <4>1. HandedOver(j)
          BY <2>2, <3>3 DEF LiveJobsOwned
        <4>2. CASE \E w \in Workers : pc[w] = "push" /\ wjob[w] = j
          BY <3>1, <4>2
        <4> QED
          BY <2>1, <4>1, <4>2 DEF HandedOver
      <3> QED
        BY <3>2, <3>3
    <2>3. ASSUME j \in MainHolds
          PROVE  alive[j] = "live"
      BY <2>1, <2>3 DEF MainJobsLive, HandlerHolds, HandlerJobLive
    <2>4. ASSUME NEW w \in Workers, j \in WorkerHolds(w)
          PROVE  alive[j] = "live"
      <3>1. CASE pc[w] \in {"push", "wait", "collect"}
        <4>1. j = wjob[w]
          BY <2>4, <3>1 DEF WorkerHolds
        <4> QED
          BY <3>1, <4>1 DEF WorkerJobsLive
      <3>2. CASE pc[w] = "post" /\ sync[wjob[w]]
        <4>1. j = wjob[w]
          BY <2>4, <3>2 DEF WorkerHolds
        <4> QED
          BY <3>2, <4>1 DEF WorkerJobsLive
      <3>3. CASE pc[w] = "post" /\ ~ sync[wjob[w]]
        BY <2>4, <3>3 DEF WorkerHolds
      <3>4. CASE pc[w] = "idle"
        BY <2>4, <3>4 DEF WorkerHolds
      <3> QED
        BY <3>1, <3>2, <3>3, <3>4 DEF TypeOK, WorkerStates
    <2> QED
      BY <2>2, <2>3, <2>4
  <1> QED
    BY <1>1, HostInvHolds, PTL
-----------------------------------------------------------------------------
(* The refinement.                                                          *)

\* The queue behind the handler's copy.
LEMMA PendingQueue ==
    ASSUME NEW S, NEW s \in Seq(S), NEW t \in Seq(S)
    PROVE  /\ <<>> \o t = t
           /\ s \o <<>> = s
           /\ \A x \in S : s \o Append(t, x) = Append(s \o t, x)
           /\ s # <<>> => /\ s \o t # <<>>
                          /\ Head(s \o t) = Head(s)
                          /\ Tail(s \o t) = Tail(s) \o t
  OBVIOUS

\* The inline calls by their place on a stack.
LEMMA InlineByPlace ==
    ASSUME NEW s \in Seq(Frames), NEW j
    PROVE  j \in {f.job : f \in {g \in Elems(s) : g.via = "inline"}}
              <=> \E i \in 1 .. Len(s) : s[i].via = "inline" /\ s[i].job = j
  <1>1. DOMAIN s = 1 .. Len(s)
    OBVIOUS
  <1> QED
    BY <1>1, Zenon DEF Elems

\* A job is submitted when it is allocated and no worker is still to queue it.
LEMMA SubmittedMember ==
    ASSUME NEW j
    PROVE  j \in Submitted <=> /\ j \in Jobs /\ alive[j] # "none"
                               /\ \A w \in Workers : pc[w] = "push" => wjob[w] # j
  BY DEF Submitted

\* The initial states map to initial states of MainThreadCalls.
LEMMA RefinementInit == Init => Calls!Init
  <1> SUFFICES ASSUME Init PROVE Calls!Init
    OBVIOUS
  <1>1. Submitted = {}
    BY DEF Init, Submitted
  <1>2. Pending = <<>>
    BY PendingQueue DEF Init, Pending
  <1>3. Serving = NoJob
    BY DEF Init, Serving
  <1>4. Inline = {}
    BY ElemsEmpty DEF Init, Inline
  <1> QED
    BY <1>1, <1>2, <1>3, <1>4 DEF Init, Calls!Init

\* Allocated jobs stay submitted when no worker starts or stops being about to
\* queue its job.
LEMMA SubmittedUnchanged ==
    ASSUME \A j \in Jobs : alive'[j] = "none" <=> alive[j] = "none",
           \A w \in Workers : /\ pc'[w] = "push" <=> pc[w] = "push"
                              /\ pc[w] = "push" => wjob'[w] = wjob[w]
    PROVE  Submitted' = Submitted
  BY DEF Submitted

\* The inline calls once a frame is pushed.
LEMMA InlinePushed ==
    ASSUME stack \in Seq(Frames), stack' \in Seq(Frames), NEW f,
           \A i \in 1 .. Len(stack') :
              stack'[i] = f \/ \E k \in 1 .. Len(stack) : stack'[i] = stack[k],
           \A k \in 1 .. Len(stack) :
              \E i \in 1 .. Len(stack') : stack'[i] = stack[k],
           \E i \in 1 .. Len(stack') : stack'[i] = f
    PROVE  Inline' = Inline \cup (IF f.via = "inline" THEN {f.job} ELSE {})
  <1>1. ASSUME NEW j
        PROVE  /\ j \in Inline <=> \E i \in 1 .. Len(stack) :
                                       stack[i].via = "inline" /\ stack[i].job = j
               /\ j \in Inline' <=> \E i \in 1 .. Len(stack') :
                                       stack'[i].via = "inline" /\ stack'[i].job = j
    BY InlineByPlace DEF Inline
  <1>2. ASSUME NEW j \in Inline'
        PROVE  j \in Inline \/ (f.via = "inline" /\ j = f.job)
    <2>1. PICK i \in 1 .. Len(stack') : stack'[i].via = "inline" /\ stack'[i].job = j
      BY <1>1, <1>2
    <2>2. CASE stack'[i] = f
      BY <2>1, <2>2
    <2>3. CASE \E k \in 1 .. Len(stack) : stack'[i] = stack[k]
      BY <1>1, <2>1, <2>3
    <2> QED
      BY <2>2, <2>3
  <1>3. ASSUME NEW j \in Inline
        PROVE  j \in Inline'
    <2>1. PICK k \in 1 .. Len(stack) : stack[k].via = "inline" /\ stack[k].job = j
      BY <1>1, <1>3
    <2> QED
      BY <1>1, <2>1
  <1>4. f.via = "inline" => f.job \in Inline'
    BY <1>1
  <1> QED
    BY <1>2, <1>3, <1>4

\* Every step maps to a step of MainThreadCalls or to none.
LEMMA RefinementNext ==
    HostInv /\ HostInv' /\ [Next]_vars => [Calls!Next]_(Calls!vars)
  <1> SUFFICES ASSUME HostInv, HostInv', [Next]_vars
               PROVE  Calls!Next \/ UNCHANGED Calls!vars
    OBVIOUS
  <1> USE DEF HostInv, TypeInv, OwnershipInv
  <1>a. /\ jobs \in Seq(Jobs) /\ batch \in Seq(Jobs) /\ stack \in Seq(Frames)
        /\ jobs' \in Seq(Jobs) /\ batch' \in Seq(Jobs) /\ stack' \in Seq(Frames)
    BY DEF TypeOK
  <1> DEFINE Unseen == UNCHANGED <<Submitted, Pending, Serving, Inline, outcome, returned>>
  <1>b. Unseen => UNCHANGED Calls!vars
    BY DEF Calls!vars
  <1>c. ASSUME NEW j \in Jobs,
               j \notin Submitted, Submitted' = Submitted \cup {j},
               Pending' = Append(Pending, j),
               UNCHANGED <<Serving, Inline, outcome, returned>>
        PROVE  Calls!Next
    BY <1>c DEF Calls!Next, Calls!Submit
  \* Worker threads.
  <1>1. ASSUME NEW w \in Workers, NEW j \in Jobs, NEW s \in BOOLEAN,
               WorkerCall(w, j, s)
        PROVE  Unseen
    <2>1. /\ alive[j] = "none"
          /\ alive' = [alive EXCEPT ![j] = "live"]
          /\ pc[w] = "idle"
          /\ pc' = [pc EXCEPT ![w] = "push"]
          /\ wjob' = [wjob EXCEPT ![w] = j]
          /\ UNCHANGED <<jobs, handler, batch, hjob, stack, outcome, returned>>
      BY <1>1 DEF WorkerCall, NewJob, handlerVars
    <2>2. Submitted' = Submitted
      <3>1. /\ \A k \in Jobs : k # j => alive'[k] = alive[k]
            /\ \A v \in Workers : v # w => pc'[v] = pc[v] /\ wjob'[v] = wjob[v]
            /\ pc'[w] = "push" /\ wjob'[w] = j
        BY <2>1 DEF TypeOK
      <3> QED
        BY <2>1, <3>1 DEF Submitted
    <2> QED
      BY <2>1, <2>2 DEF Pending, Serving, Inline
  <1>2. ASSUME NEW w \in Workers, WorkerPush(w)
        PROVE  Calls!Next
    <2> DEFINE j == wjob[w]
    <2>1. /\ pc[w] = "push"
          /\ j \in Jobs
          /\ jobs' = Append(jobs, j)
          /\ handler # "clear"
          /\ UNCHANGED <<handler, batch, hjob, stack, alive, outcome, returned>>
      BY <1>2 DEF WorkerPush, QueueUnlocked, handlerVars, jobVars, WorkersHaveJobs
    <2>2. /\ \A v \in Workers : v # w => pc'[v] = pc[v] /\ wjob'[v] = wjob[v]
          /\ pc'[w] # "push"
      <3>1. CASE platform = "win32"
        BY <1>2, <3>1 DEF WorkerPush, TypeOK
      <3>2. CASE platform # "win32" /\ sync[wjob[w]]
        BY <1>2, <3>2 DEF WorkerPush, AfterPost, TypeOK
      <3>3. CASE platform # "win32" /\ ~ sync[wjob[w]]
        BY <1>2, <3>3 DEF WorkerPush, AfterPost, TypeOK
      <3> QED
        BY <3>1, <3>2, <3>3
    <2>3. /\ alive[j] # "none"
          /\ \A v \in Workers : v # w /\ pc[v] = "push" => wjob[v] # j
      BY <2>1 DEF TickleInv, OwnJobs
    <2>4. j \notin Submitted /\ Submitted' = Submitted \cup {j}
      BY <2>1, <2>2, <2>3 DEF Submitted
    <2> HIDE DEF j
    <2>5. Pending' = Append(Pending, j)
      BY <1>a, <2>1, PendingQueue DEF Pending
    <2> QED
      BY <1>c, <2>1, <2>4, <2>5 DEF Serving, Inline
  <1>3. ASSUME NEW w \in Workers, WorkerPost(w) \/ WorkerWait(w)
        PROVE  Unseen
    <2>1. /\ pc[w] # "push" /\ pc'[w] # "push"
          /\ \A v \in Workers : v # w => pc'[v] = pc[v] /\ wjob'[v] = wjob[v]
      <3>1. CASE WorkerWait(w)
        BY <3>1 DEF WorkerWait, TypeOK
      <3>2. CASE WorkerPost(w) /\ sync[wjob[w]]
        BY <3>2 DEF WorkerPost, AfterPost, TypeOK
      <3>3. CASE WorkerPost(w) /\ ~ sync[wjob[w]]
        BY <3>3 DEF WorkerPost, AfterPost, TypeOK
      <3> QED
        BY <1>3, <3>1, <3>2, <3>3
    <2>2. UNCHANGED <<jobs, handler, batch, hjob, stack, alive, outcome, returned>>
      BY <1>3 DEF WorkerPost, WorkerWait, handlerVars, jobVars
    <2>3. Submitted' = Submitted
      BY <2>1, <2>2, SubmittedUnchanged
    <2> QED
      BY <2>2, <2>3 DEF Pending, Serving, Inline
  <1>4. ASSUME NEW w \in Workers, WorkerCollect(w)
        PROVE  Calls!Next
    <2> DEFINE j == wjob[w]
    <2>1. /\ pc[w] = "collect"
          /\ j \in Jobs
          /\ returned' = [returned EXCEPT ![j] = outcome[j]]
          /\ alive' = [alive EXCEPT ![j] = "freed"]
          /\ pc' = [pc EXCEPT ![w] = "idle"]
          /\ wjob' = [wjob EXCEPT ![w] = NoJob]
          /\ UNCHANGED <<jobs, handler, batch, hjob, stack, outcome>>
      BY <1>4 DEF WorkerCollect, handlerVars, WorkersHaveJobs
    <2>2. /\ outcome[j] # "none"
          /\ returned[j] = "none"
          /\ alive[j] # "none"
      BY <2>1 DEF WorkerJobsLive, TickleInv, OwnJobs
    <2>3. Submitted' = Submitted
      <3>1. \A k \in Jobs : alive'[k] = "none" <=> alive[k] = "none"
        BY <2>1, <2>2 DEF TypeOK
      <3>2. \A v \in Workers : /\ pc'[v] = "push" <=> pc[v] = "push"
                               /\ pc[v] = "push" => wjob'[v] = wjob[v]
        BY <2>1 DEF TypeOK
      <3> QED
        BY <3>1, <3>2, SubmittedUnchanged
    <2>4. UNCHANGED <<Pending, Serving, Inline>>
      BY <2>1 DEF Pending, Serving, Inline
    <2> HIDE DEF j
    <2>5. Calls!Return(j)
      BY <2>1, <2>2, <2>3, <2>4 DEF Calls!Return
    <2> QED
      BY <2>1, <2>5 DEF Calls!Next
  <1>5. ASSUME NEW w \in Workers, NEW p \in BOOLEAN,
               WorkerExit(w) \/ WorkerExitDecide(w, p)
        PROVE  Unseen
    <2>1. UNCHANGED <<jobs, handler, batch, hjob, stack, alive, outcome, returned,
                      pc, wjob>>
      BY <1>5 DEF WorkerExit, WorkerExitDecide, handlerVars, jobVars
    <2> QED
      BY <2>1 DEF Submitted, Pending, Serving, Inline
  \* Code on the main thread.
  <1>6. ASSUME CallbackBegin
        PROVE  Unseen
    <2> DEFINE f == Frame("callback", NoJob)
    <2>1. /\ stack = <<>> /\ stack' = <<f>> /\ f.via = "callback"
          /\ UNCHANGED <<jobs, handler, batch, hjob, alive, outcome, returned, pc, wjob>>
      BY <1>6 DEF CallbackBegin, Idle, Frame, handlerVars, jobVars, workerVars
    <2> HIDE DEF f
    <2>2. Inline' = {} /\ Inline = {}
      <3>1. \A i \in 1 .. Len(stack') : stack'[i].via # "inline"
        BY <2>1
      <3>2. \A i \in 1 .. Len(stack) : stack[i].via # "inline"
        BY <2>1
      <3> QED
        BY <1>a, <3>1, <3>2, InlineByPlace DEF Inline
    <2> QED
      BY <2>1, <2>2 DEF Submitted, Pending, Serving
  <1>7. ASSUME NEW p \in BOOLEAN,
               CallbackReturn \/ CallbackThrow \/ MainExitDecide(p)
        PROVE  Unseen
    <2>1. /\ stack # <<>> /\ stack' = Tail(stack)
          /\ Head(stack).via \in {"callback", "exit"}
          /\ UNCHANGED <<jobs, handler, batch, hjob, alive, outcome, returned, pc, wjob>>
      BY <1>7 DEF CallbackReturn, CallbackThrow, MainExitDecide, Running,
                  handlerVars, jobVars, workerVars
    <2>2. /\ stack[1] = Head(stack)
          /\ Len(stack) \in Nat \ {0}
          /\ Len(stack') = Len(stack) - 1
          /\ \A i \in 1 .. Len(stack') : stack'[i] = stack[i + 1]
      BY <1>a, <2>1, PopFrame
    <2>3. /\ \A i \in 1 .. Len(stack') : i + 1 \in 1 .. Len(stack)
          /\ \A k \in 1 .. Len(stack) :
                k = 1 \/ (k - 1 \in 1 .. Len(stack') /\ stack'[k - 1] = stack[k])
      BY <2>2
    <2>4. ASSUME NEW j
          PROVE  (\E i \in 1 .. Len(stack') : stack'[i].via = "inline" /\ stack'[i].job = j)
                 <=> \E i \in 1 .. Len(stack) : stack[i].via = "inline" /\ stack[i].job = j
      BY <2>1, <2>2, <2>3
    <2>5. Inline' = Inline
      BY <1>a, <2>4, InlineByPlace DEF Inline
    <2> QED
      BY <2>1, <2>5 DEF Submitted, Pending, Serving
  <1>8. ASSUME MainExit
        PROVE  Unseen
    <2> DEFINE f == Frame("exit", NoJob)
    <2>1. /\ stack' = <<f>> \o stack
          /\ f \in Frames /\ f.via = "exit" /\ f.job = NoJob
          /\ UNCHANGED <<jobs, handler, batch, hjob, alive, outcome, returned, pc, wjob>>
      BY <1>8 DEF MainExit, Frame, Frames, handlerVars, jobVars, workerVars
    <2> HIDE DEF f
    <2>2. /\ \A i \in 1 .. Len(stack') :
                stack'[i] = f \/ \E k \in 1 .. Len(stack) : stack'[i] = stack[k]
          /\ \A k \in 1 .. Len(stack) :
                \E i \in 1 .. Len(stack') : stack'[i] = stack[k]
          /\ \E i \in 1 .. Len(stack') : stack'[i] = f
      <3>1. f.job \notin FrameJobs /\ StackDistinct
        BY <2>1 DEF FrameJobs, JobsInOnePlace
      <3> QED
        BY <2>1, <3>1, PushedFrame
    <2>3. Inline' = Inline
      <3>1. Inline' = Inline \cup (IF f.via = "inline" THEN {f.job} ELSE {})
        BY <1>a, <2>2, InlinePushed
      <3> QED
        BY <2>1, <3>1
    <2> QED
      BY <2>1, <2>3 DEF Submitted, Pending, Serving
  <1>9. ASSUME NEW j \in Jobs, MainCallSync(j)
        PROVE  Calls!Next
    <2> DEFINE f == IF mainThread = Main THEN Frame("inline", j)
                    ELSE Frame("wait", j)
    <2>1. /\ stack # <<>>
          /\ stack' = <<f>> \o stack
          /\ f \in Frames
          /\ f.job = j
          /\ f.via \in {"inline", "wait"}
          /\ IF f.via = "wait" THEN jobs' = Append(jobs, j) ELSE jobs' = jobs
      BY <1>9 DEF MainCallSync, InUserCode, Running, Frame, Frames
    <2>2. /\ alive[j] = "none"
          /\ alive' = [alive EXCEPT ![j] = "live"]
          /\ UNCHANGED <<handler, batch, hjob, outcome, returned, pc, wjob>>
      BY <1>9 DEF MainCallSync, NewJob, handlerVars, workerVars
    <2> HIDE DEF f
    <2>3. /\ j \notin FrameJobs
          /\ \A w \in Workers : pc[w] = "push" => wjob[w] # j
          /\ handler # "clear"
      <3>1. handler # "clear"
        BY <2>1 DEF HandlerShape
      <3> QED
        BY <2>2, <3>1, FreshJobFacts
    <2>4. /\ \A i \in 1 .. Len(stack') :
                stack'[i] = f \/ \E k \in 1 .. Len(stack) : stack'[i] = stack[k]
          /\ \A k \in 1 .. Len(stack) :
                \E i \in 1 .. Len(stack') : stack'[i] = stack[k]
          /\ \E i \in 1 .. Len(stack') : stack'[i] = f
      <3>1. f.job \notin FrameJobs /\ StackDistinct
        BY <2>1, <2>3 DEF JobsInOnePlace
      <3> QED
        BY <2>1, <3>1, PushedFrame
    <2>5. j \notin Submitted /\ Submitted' = Submitted \cup {j}
      <3>1. /\ \A k \in Jobs : k # j => alive'[k] = alive[k]
            /\ alive'[j] = "live"
        BY <2>2 DEF TypeOK
      <3> QED
        BY <2>2, <2>3, <3>1 DEF Submitted
    <2>6. UNCHANGED <<Serving, outcome, returned>>
      BY <2>2 DEF Serving
    <2>7. Inline' = Inline \cup (IF f.via = "inline" THEN {f.job} ELSE {})
      BY <1>a, <2>4, InlinePushed
    <2>8. CASE f.via = "wait"
      <3>1. Inline' = Inline
        BY <2>7, <2>8
      <3>2. Pending' = Append(Pending, j)
        <4>1. Pending = batch \o jobs /\ Pending' = batch \o Append(jobs, j)
          BY <2>1, <2>2, <2>3, <2>8 DEF Pending
        <4> QED
          BY <1>a, <4>1, PendingQueue
      <3> QED
        BY <1>c, <2>5, <2>6, <3>1, <3>2
    <2>9. CASE f.via = "inline"
      <3>1. Inline' = Inline \cup {j}
        BY <2>1, <2>7, <2>9
      <3>2. Pending' = Pending
        BY <2>1, <2>2, <2>9 DEF Pending
      <3>3. Calls!CallInline(j)
        BY <2>5, <2>6, <3>1, <3>2 DEF Calls!CallInline
      <3> QED
        BY <3>3 DEF Calls!Next
    <2> QED
      BY <2>1, <2>8, <2>9
  <1>10. ASSUME NEW o \in Outcomes, InlineReturn(o)
         PROVE  Calls!Next
    <2> DEFINE j == Head(stack).job
    <2>1. /\ alive' = [alive EXCEPT ![j] = "freed"]
          /\ outcome' = [outcome EXCEPT ![j] = o]
          /\ returned' = [returned EXCEPT ![j] = o]
          /\ UNCHANGED <<jobs, handler, batch, hjob, pc, wjob>>
      BY <1>10 DEF InlineReturn, handlerVars, workerVars
    <2>2. /\ Len(stack) \in Nat \ {0}
          /\ Len(stack') = Len(stack) - 1
          /\ j = stack[1].job
          /\ stack[1].via = "inline"
          /\ j \in Jobs
          /\ \A i \in 1 .. Len(stack') :
                stack'[i].job = stack[i + 1].job /\ stack'[i].via = stack[i + 1].via
      BY <1>10, InlineReturnFrames
    <2> HIDE DEF j
    <2>3. j # NoJob /\ alive[j] # "none"
      <3>1. 1 \in 1 .. Len(stack)
        BY <2>2
      <3> QED
        BY <2>2, <3>1, ConstantsAssumption DEF TickleInv, InlineJobs
    <2>4. /\ \A i \in 1 .. Len(stack') : \E k \in 1 .. Len(stack) :
                stack'[i].job = stack[k].job /\ stack'[i].via = stack[k].via
          /\ \A k \in 1 .. Len(stack) :
                \/ k = 1
                \/ \E i \in 1 .. Len(stack') :
                      stack'[i].job = stack[k].job /\ stack'[i].via = stack[k].via
          /\ \A i \in 1 .. Len(stack') : stack'[i].job # j
      <3>1. j \notin FrameJobs'
        BY <2>2, PoppedFrame DEF JobsInOnePlace
      <3>2. \A i \in 1 .. Len(stack') : stack'[i].job # j
        BY <2>3, <3>1 DEF FrameJobs
      <3> QED
        BY <2>2, <3>2, PoppedFrame DEF JobsInOnePlace
    <2>5. j \in Inline /\ Inline' = Inline \ {j}
      <3>1. 1 \in 1 .. Len(stack)
        BY <2>2
      <3>2. j \in Inline
        BY <1>a, <2>2, <3>1, InlineByPlace DEF Inline
      <3>3. \A k : k \in Inline' <=> k \in Inline /\ k # j
        <4> TAKE k
        <4>1. k \in Inline' <=> \E i \in 1 .. Len(stack') :
                                    stack'[i].via = "inline" /\ stack'[i].job = k
          BY <1>a, InlineByPlace DEF Inline
        <4>2. k \in Inline <=> \E i \in 1 .. Len(stack) :
                                    stack[i].via = "inline" /\ stack[i].job = k
          BY <1>a, InlineByPlace DEF Inline
        <4>3. ASSUME NEW i \in 1 .. Len(stack'),
                     stack'[i].via = "inline", stack'[i].job = k
              PROVE  k \in Inline /\ k # j
          <5>1. PICK n \in 1 .. Len(stack) :
                    stack'[i].job = stack[n].job /\ stack'[i].via = stack[n].via
            BY <2>4
          <5>2. k \in Inline
            BY <4>2, <4>3, <5>1
          <5>3. k # j
            BY <2>4, <4>3
          <5> QED
            BY <5>2, <5>3
        <4>4. ASSUME k # j, NEW i \in 1 .. Len(stack),
                     stack[i].via = "inline", stack[i].job = k
              PROVE  k \in Inline'
          <5>1. i # 1
            BY <2>2, <4>4
          <5> QED
            BY <2>4, <4>1, <4>4, <5>1
        <4> QED
          BY <4>1, <4>2, <4>3, <4>4
      <3> QED
        BY <3>2, <3>3
    <2>6. Submitted' = Submitted
      <3>1. \A k \in Jobs : alive'[k] = "none" <=> alive[k] = "none"
        BY <2>1, <2>2, <2>3 DEF TypeOK
      <3> QED
        BY <2>1, <3>1, SubmittedUnchanged
    <2>7. UNCHANGED <<Pending, Serving>>
      BY <2>1 DEF Pending, Serving
    <2>8. Calls!ReturnInline(j, o)
      BY <2>1, <2>5, <2>6, <2>7 DEF Calls!ReturnInline
    <2> QED
      BY <2>2, <2>8 DEF Calls!Next, Calls!Outcomes, Outcomes
  <1>11. ASSUME NEW j \in Jobs, MainCallAsync(j)
         PROVE  Calls!Next
    <2>1. /\ stack # <<>>
          /\ alive[j] = "none"
          /\ alive' = [alive EXCEPT ![j] = "live"]
          /\ jobs' = Append(jobs, j)
          /\ UNCHANGED <<handler, batch, hjob, stack, outcome, returned, pc, wjob>>
      BY <1>11 DEF MainCallAsync, NewJob, InUserCode, Running, handlerVars, workerVars
    <2>2. /\ \A w \in Workers : pc[w] = "push" => wjob[w] # j
          /\ handler # "clear"
      <3>1. handler # "clear"
        BY <2>1 DEF HandlerShape
      <3> QED
        BY <2>1, <3>1, FreshJobFacts
    <2>3. j \notin Submitted /\ Submitted' = Submitted \cup {j}
      <3>1. /\ \A k \in Jobs : k # j => alive'[k] = alive[k]
            /\ alive'[j] = "live"
        BY <2>1 DEF TypeOK
      <3> QED
        BY <2>1, <2>2, <3>1 DEF Submitted
    <2>4. Pending' = Append(Pending, j)
      BY <1>a, <2>1, <2>2, PendingQueue DEF Pending
    <2> QED
      BY <1>c, <2>1, <2>3, <2>4 DEF Serving, Inline
  \* The handler.
  <1>12. ASSUME TimerFires \/ TickleReceived \/ HandlerReturn
         PROVE  Unseen
    <2>1. /\ handler # "clear" /\ handler' # "clear"
          /\ handler # "executing" /\ handler' # "executing"
          /\ UNCHANGED <<jobs, batch, stack, alive, outcome, returned, pc, wjob>>
      BY <1>12 DEF TimerFires, TickleReceived, HandlerReturn, Idle, jobVars, workerVars
    <2> QED
      BY <2>1 DEF Submitted, Pending, Serving, Inline
  <1>13. ASSUME HandlerCopy \/ HandlerClear
         PROVE  Unseen
    <2>1. /\ handler # "executing" /\ handler' # "executing"
          /\ UNCHANGED <<stack, alive, outcome, returned, pc, wjob>>
      BY <1>13 DEF HandlerCopy, HandlerClear, jobVars, workerVars
    <2>2. Pending' = Pending
      <3>1. CASE HandlerCopy
        <4>1. /\ handler = "copy" /\ handler' = "clear" /\ jobs' = jobs
              /\ batch = <<>>
          BY <3>1 DEF HandlerCopy, HandlerShape
        <4> QED
          BY <1>a, <4>1, PendingQueue DEF Pending
      <3>2. CASE HandlerClear
        <4>1. /\ handler = "clear" /\ handler' = "next" /\ jobs' = <<>>
              /\ batch' = batch /\ batch = jobs
          BY <3>2 DEF HandlerClear, HandlerShape
        <4> QED
          BY <1>a, <4>1, PendingQueue DEF Pending
      <3> QED
        BY <1>13, <3>1, <3>2
    <2> QED
      BY <2>1, <2>2 DEF Submitted, Serving, Inline
  <1>14. ASSUME HandlerExecute
         PROVE  Calls!Next
    <2> DEFINE f == Frame("handler", Head(batch))
    <2>1. /\ handler = "next" /\ handler' = "executing"
          /\ batch # <<>> /\ batch' = Tail(batch)
          /\ hjob' = Head(batch)
          /\ stack' = <<f>> /\ f.via = "handler"
          /\ UNCHANGED <<jobs, alive, outcome, returned, pc, wjob>>
      BY <1>14 DEF HandlerExecute, Frame, jobVars, workerVars
    <2> HIDE DEF f
    <2>2. stack = <<>>
      BY <2>1 DEF HandlerShape
    <2>3. Inline = {} /\ Inline' = {}
      <3>1. \A i \in 1 .. Len(stack') : stack'[i].via # "inline"
        BY <2>1
      <3>2. \A i \in 1 .. Len(stack) : stack[i].via # "inline"
        BY <2>2
      <3> QED
        BY <1>a, <3>1, <3>2, InlineByPlace DEF Inline
    <2>4. /\ Pending # <<>>
          /\ Head(Pending) = Head(batch)
          /\ Pending' = Tail(Pending)
      BY <1>a, <2>1, PendingQueue DEF Pending
    <2>5. /\ Serving = NoJob /\ Serving' = Head(Pending)
          /\ Submitted' = Submitted
      BY <2>1, <2>4 DEF Serving, Submitted
    <2>6. Calls!Serve
      BY <2>1, <2>3, <2>4, <2>5 DEF Calls!Serve
    <2> QED
      BY <2>6 DEF Calls!Next
  <1>15. ASSUME NEW o \in Outcomes, HandlerExecuted(o)
         PROVE  Calls!Next
    <2>1. /\ Len(stack) = 1
          /\ stack[1].via = "handler"
          /\ Head(stack).job = hjob
          /\ handler = "executing"
          /\ hjob \in Jobs
      BY <1>15, HandlerFrame DEF HandlerExecuted
    <2>2. /\ outcome' = [outcome EXCEPT ![hjob] = o]
          /\ stack' = <<>>
          /\ handler' = "after"
          /\ UNCHANGED <<jobs, batch, alive, returned, pc, wjob>>
      BY <1>15, <2>1 DEF HandlerExecuted, workerVars
    <2>3. Inline = {} /\ Inline' = {}
      <3>1. \A i \in 1 .. Len(stack') : stack'[i].via # "inline"
        BY <2>2
      <3>2. \A i \in 1 .. Len(stack) : stack[i].via # "inline"
        BY <2>1
      <3> QED
        BY <1>a, <3>1, <3>2, InlineByPlace DEF Inline
    <2>4. /\ Serving = hjob /\ Serving # NoJob /\ Serving' = NoJob
          /\ UNCHANGED <<Submitted, Pending>>
      BY <2>1, <2>2, ConstantsAssumption DEF Serving, Submitted, Pending
    <2>5. Calls!Finish(o)
      BY <2>2, <2>3, <2>4 DEF Calls!Finish
    <2> QED
      BY <2>5 DEF Calls!Next, Calls!Outcomes, Outcomes
  <1>16. ASSUME HandlerCleanup
         PROVE  Unseen
    <2>1. /\ handler = "after" /\ handler' = "next"
          /\ alive' = IF hasync THEN [alive EXCEPT ![hjob] = "freed"] ELSE alive
          /\ UNCHANGED <<jobs, batch, stack, outcome, returned, pc, wjob>>
      BY <1>16 DEF HandlerCleanup, workerVars
    <2>2. hjob \in Jobs /\ alive[hjob] # "none"
      BY <2>1 DEF HandlerShape
    <2>3. Submitted' = Submitted
      <3>1. \A k \in Jobs : alive'[k] = "none" <=> alive[k] = "none"
        BY <2>1, <2>2 DEF TypeOK
      <3> QED
        BY <2>1, <3>1, SubmittedUnchanged
    <2> QED
      BY <2>1, <2>3 DEF Pending, Serving, Inline
  <1>17. ASSUME NEW ui \in BOOLEAN,
                \/ LoadDone(ui) \/ CheckRunning \/ EnterGtkMain
                \/ LeaveGtkMain \/ StopDone \/ UNCHANGED vars
         PROVE  Unseen
    <2>1. UNCHANGED <<jobs, handler, batch, hjob, stack, alive, outcome, returned,
                      pc, wjob>>
      BY <1>17 DEF LoadDone, CheckRunning, EnterGtkMain, LeaveGtkMain, StopDone,
                   vars, handlerVars, jobVars, workerVars
    <2> QED
      BY <2>1 DEF Submitted, Pending, Serving, Inline
  <1> HIDE DEF Unseen
  <1> QED
    BY <1>b, <1>1, <1>2, <1>3, <1>4, <1>5, <1>6, <1>7, <1>8, <1>9, <1>10, <1>11,
       <1>12, <1>13, <1>14, <1>15, <1>16, <1>17
       DEF Next, Handler, UserCode, Run, Worker

\* Both hosts' job queues keep the promise of Host::InvokeMethodOnMainThread
\* (api/host.h), for any number of threads and calls: every step of the detailed
\* specification is a step of MainThreadCalls or changes nothing that it sees.
THEOREM Refinement == Spec => ImplementsMainThreadCalls
  <1>1. HostInv /\ HostInv' /\ [Next]_vars => [Calls!Next]_(Calls!vars)
    BY RefinementNext
  <1> QED
    BY <1>1, RefinementInit, HostInvHolds, PTL DEF Spec, ImplementsMainThreadCalls, Calls!Spec
=============================================================================
