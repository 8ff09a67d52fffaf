------------------------------ MODULE HostLoop ------------------------------
(***************************************************************************)
(* The main thread of a Kroll host and the threads that call into it:       *)
(* Host::Run and Host::Exit (api/host.cpp), the GTK and the Windows hosts'  *)
(* event loops, InvokeMethodOnMainThread, the job it allocates and the      *)
(* handler that drains the job queue (host/linux/host.cpp,                  *)
(* host/linux/linux_job.cpp, host/win32/host.cpp, host/win32/win32_job.cpp).*)
(*                                                                         *)
(* Both hosts have the same queue of heap-allocated jobs under a mutex.     *)
(* They differ in what wakes the handler (a 250 ms GTK timer; a "tickle"    *)
(* message posted to the main thread), in when the host learns which thread *)
(* is the main one (constructor; Start(), after the modules are loaded) and *)
(* in how the loop ends (gtk_main_quit; the flag `running').  Module and UI *)
(* code is a CALLBACK: it may call into the host in any way and returns.    *)
(***************************************************************************)
EXTENDS Naturals, Sequences, FiniteSets, Vectors

CONSTANTS Workers,    \* threads other than the main one
          Main,       \* the main thread
          NoThread,   \* no thread of the process
          Jobs,       \* the jobs that are ever allocated (a bound)
          NoJob,
          Platforms,  \* the hosts considered
          MaxDepth,   \* bound: nested calls on the main thread's stack
          MaxExits    \* bound: calls of Host::Exit

ASSUME ConstantsAssumption ==
    /\ Main \notin Workers
    /\ NoThread \notin Workers \cup {Main}
    /\ NoJob \notin Jobs
    /\ Platforms \subseteq {"linux", "win32"}
    /\ MaxDepth \in Nat
    /\ MaxExits \in Nat

VARIABLES
    platform,    \* the host that was built; never changes
    phase,       \* where the main thread is in Host::Run
    running,     \* Host::running
    quit,        \* gtk_main_quit() was called inside gtk_main()
    mainThread,  \* LinuxHost::main_thread / Win32Host::threadId
    tickles,     \* tickle messages in the main thread's message queue
    jobs,        \* the host's vector `jobs'
    handler,     \* where the main thread is in the job handler
    batch,       \* the handler's copy of the queue: what is left of it
    hjob,        \* the handler's local `job'
    hasync,      \* the handler's local `asynchronous'
    stack,       \* calls active on the main thread, innermost first
    alive,       \* each job: "none" (not allocated), "live" or "freed"
    sync,        \* each job's flag `synchronous' / `wait'
    sem,         \* each job's semaphore
    outcome,     \* each job's return_value / exception
    pc,          \* where each worker is in InvokeMethodOnMainThread
    wjob,        \* each worker's local `job'
    exiting,     \* each worker's progress in Host::Exit
    exits,       \* calls of Host::Exit so far (counted for MaxExits)
    tickled,     \* history: a tickle was delivered for this job
    returned     \* history: what the caller of each synchronous job was given

runVars == <<phase, running, quit, mainThread>>
jobVars == <<alive, sync, sem, outcome, returned>>
handlerVars == <<handler, batch, hjob, hasync>>
workerVars == <<pc, wjob, exiting>>
vars == <<platform, runVars, tickles, jobs, handlerVars, stack, jobVars,
          workerVars, exits, tickled>>

Phases == {"load", "check", "enter", "loop", "stop", "done"}
HandlerStates == {"idle", "copy", "clear", "next", "executing", "after"}
WorkerStates == {"idle", "push", "post", "wait", "collect"}
Outcomes == {"value", "exception"}
Frames == [via : {"callback", "inline", "handler", "exit", "wait"},
           job : Jobs \cup {NoJob}, fired : BOOLEAN]

Frame(via, j) == [via |-> via, job |-> j, fired |-> FALSE]

(***************************************************************************)
(* The constructors.  LinuxHost's remembers the main thread; Win32Host's    *)
(* leaves threadId uninitialized, so it may hold anything until Start().    *)
(***************************************************************************)
Init ==
    /\ platform \in Platforms
    /\ phase = "load"
    /\ running = FALSE
    /\ quit = FALSE
    /\ mainThread \in (IF platform = "linux" THEN {Main} ELSE {Main, NoThread})
    /\ tickles = 0
    /\ jobs = <<>>
    /\ handler = "idle"
    /\ batch = <<>>
    /\ hjob = NoJob
    /\ hasync = FALSE
    /\ stack = <<>>
    /\ alive = [j \in Jobs |-> "none"]
    /\ sync = [j \in Jobs |-> FALSE]
    /\ sem = [j \in Jobs |-> 0]
    /\ outcome = [j \in Jobs |-> "none"]
    /\ pc = [w \in Workers |-> "idle"]
    /\ wjob = [w \in Workers |-> NoJob]
    /\ exiting = [w \in Workers |-> "no"]
    /\ exits = 0
    /\ tickled = [j \in Jobs |-> FALSE]
    /\ returned = [j \in Jobs |-> "none"]

-----------------------------------------------------------------------------
(* Pieces of InvokeMethodOnMainThread shared by its callers.                *)

\* new LinuxJob(method, args, synchronous): the semaphore starts at 0.
NewJob(j, s) ==
    /\ alive[j] = "none"
    /\ alive' = [alive EXCEPT ![j] = "live"]
    /\ sync' = [sync EXCEPT ![j] = s]
    /\ UNCHANGED <<sem, outcome, returned>>

\* Mutant: the caller forgets to take the queue's mutex.
QueueUnlockedMutant == TRUE

\* The queue's mutex is free unless the handler is between its copy of the
\* queue and the clear(), the one critical section longer than a step.
QueueUnlocked == handler # "clear"

\* PostThreadMessage(threadId, tickleRequestMessage): it reaches the main
\* thread when threadId is its id, and nobody otherwise.  GTK has no tickle.
PostTickle(j) ==
    LET delivered == platform = "win32" /\ mainThread = Main
    IN  /\ tickles' = IF delivered THEN tickles + 1 ELSE tickles
        /\ tickled' = [tickled EXCEPT ![j] = delivered]

-----------------------------------------------------------------------------
(* Worker threads.                                                          *)

\* A worker calls InvokeMethodOnMainThread.  Inside Host::Exit it does so, and
\* waits, for every listener of the exit event.
WorkerCall(w, j, s) ==
    /\ pc[w] = "idle"
    /\ exiting[w] # "no" => s
    /\ NewJob(j, s)
    /\ pc' = [pc EXCEPT ![w] = "push"]
    /\ wjob' = [wjob EXCEPT ![w] = j]
    /\ UNCHANGED <<platform, runVars, tickles, jobs, handlerVars, stack,
                   exiting, exits, tickled>>

\* Where the call goes once its job is queued and the tickle posted.
AfterPost(w) ==
    /\ pc' = [pc EXCEPT ![w] = IF sync[wjob[w]] THEN "wait" ELSE "idle"]
    /\ wjob' = IF sync[wjob[w]] THEN wjob ELSE [wjob EXCEPT ![w] = NoJob]

WorkerPush(w) ==
    /\ pc[w] = "push"
    /\ QueueUnlocked
    /\ jobs' = Append(jobs, wjob[w])
    /\ IF platform = "win32"
       THEN pc' = [pc EXCEPT ![w] = "post"] /\ UNCHANGED wjob
       ELSE AfterPost(w)
    /\ UNCHANGED <<platform, runVars, tickles, handlerVars, stack, jobVars,
                   exiting, exits, tickled>>

WorkerPost(w) ==
    /\ pc[w] = "post"
    /\ PostTickle(wjob[w])
    /\ AfterPost(w)
    /\ UNCHANGED <<platform, runVars, jobs, handlerVars, stack, jobVars,
                   exiting, exits>>

\* job->Wait() on the job's semaphore.
WorkerWait(w) ==
    /\ pc[w] = "wait"
    /\ sem[wjob[w]] > 0
    /\ sem' = [sem EXCEPT ![wjob[w]] = 0]
    /\ pc' = [pc EXCEPT ![w] = "collect"]
    /\ UNCHANGED <<platform, runVars, tickles, jobs, handlerVars, stack, alive,
                   sync, outcome, returned, wjob, exiting, exits, tickled>>

\* Read the result and the exception, delete the job, return or throw.
WorkerCollect(w) ==
    /\ pc[w] = "collect"
    /\ returned' = [returned EXCEPT ![wjob[w]] = outcome[wjob[w]]]
    /\ alive' = [alive EXCEPT ![wjob[w]] = "freed"]
    /\ pc' = [pc EXCEPT ![w] = "idle"]
    /\ wjob' = [wjob EXCEPT ![w] = NoJob]
    /\ exiting' = [exiting EXCEPT ![w] = IF @ = "no" THEN "no" ELSE "fired"]
    /\ UNCHANGED <<platform, runVars, tickles, jobs, handlerVars, stack, sync,
                   sem, outcome, exits, tickled>>

\* Host::Exit fires the root event EXIT ...
WorkerExit(w) ==
    /\ pc[w] = "idle"
    /\ exiting[w] = "no"
    /\ exits < MaxExits
    /\ exits' = exits + 1
    /\ exiting' = [exiting EXCEPT ![w] = "firing"]
    /\ UNCHANGED <<platform, runVars, tickles, jobs, handlerVars, stack,
                   jobVars, pc, wjob, tickled>>

\* ... and, unless a listener prevented it, sets running to false.  LinuxHost
\* then calls gtk_main_quit() in either case: it acts inside gtk_main() only.
ExitDecision(prevented) ==
    /\ running' = (running /\ prevented)
    /\ quit' = (quit \/ (platform = "linux" /\ phase = "loop"))
    /\ UNCHANGED <<phase, mainThread>>

WorkerExitDecide(w, prevented) ==
    /\ pc[w] = "idle"
    /\ exiting[w] # "no"
    /\ prevented => exiting[w] = "fired"
    /\ ExitDecision(prevented)
    /\ exiting' = [exiting EXCEPT ![w] = "no"]
    /\ UNCHANGED <<platform, tickles, jobs, handlerVars, stack, jobVars, pc,
                   wjob, exits, tickled>>

-----------------------------------------------------------------------------
(* Code running on the main thread: callbacks and the methods of jobs.      *)

Running(via) == stack # <<>> /\ Head(stack).via = via

\* The main thread runs a method or a callback, which may call the host.
InUserCode == Running("callback") \/ Running("inline") \/ Running("handler")

Idle == stack = <<>> /\ handler = "idle"

\* Module code runs while modules load and unload; UI code in the loop.
CallbackBegin ==
    /\ Idle
    /\ phase \in {"load", "loop", "stop"}
    /\ stack' = <<Frame("callback", NoJob)>>
    /\ UNCHANGED <<platform, runVars, tickles, jobs, handlerVars, jobVars,
                   workerVars, exits, tickled>>

\* Windows handles one message per RunLoop(); Run then looks at `running'.
CallbackReturn ==
    /\ Running("callback")
    /\ stack' = Tail(stack)
    /\ phase' = IF platform = "win32" /\ phase = "loop" THEN "check" ELSE phase
    /\ UNCHANGED <<platform, running, quit, mainThread, tickles, jobs,
                   handlerVars, jobVars, workerVars, exits, tickled>>

\* A ValueException out of LoadModules makes Run return 1 at once; one out of
\* RunLoop is logged and ends the loop.
CallbackThrow ==
    /\ Running("callback")
    /\ phase \in {"load", "loop"}
    /\ stack' = Tail(stack)
    /\ phase' = IF phase = "load" THEN "done" ELSE "stop"
    /\ UNCHANGED <<platform, running, quit, mainThread, tickles, jobs,
                   handlerVars, jobVars, workerVars, exits, tickled>>

\* A synchronous call.  When the host knows that this is the main thread the
\* job executes here; otherwise it is queued and the main thread waits for
\* itself: no action leaves the frame "wait".
MainCallSync(j) ==
    /\ InUserCode \/ Running("exit")
    /\ Len(stack) < MaxDepth
    /\ NewJob(j, TRUE)
    /\ IF mainThread = Main
       THEN /\ stack' = <<Frame("inline", j)>> \o stack
            /\ UNCHANGED jobs
       ELSE /\ stack' = <<Frame("wait", j)>> \o stack
            /\ jobs' = Append(jobs, j)
    /\ UNCHANGED <<platform, runVars, tickles, handlerVars, workerVars, exits,
                   tickled>>

\* Execute() returns, the tickle is posted, Wait() falls through, the job is
\* deleted and the caller has the result.
InlineReturn(o) ==
    LET j == Head(stack).job
        caller == Head(Tail(stack))
        back == [caller EXCEPT !.fired = (caller.via = "exit")]
    IN  /\ Running("inline")
        /\ outcome' = [outcome EXCEPT ![j] = o]
        /\ returned' = [returned EXCEPT ![j] = o]
        /\ alive' = [alive EXCEPT ![j] = "freed"]
        /\ PostTickle(j)
        /\ stack' = <<back>> \o Tail(Tail(stack))
        /\ UNCHANGED <<platform, runVars, jobs, handlerVars, sync, sem,
                       workerVars, exits>>

\* An asynchronous call: queue the job and post the tickle.
MainCallAsync(j) ==
    /\ InUserCode
    /\ NewJob(j, FALSE)
    /\ jobs' = Append(jobs, j)
    /\ PostTickle(j)
    /\ UNCHANGED <<platform, runVars, handlerVars, stack, workerVars, exits>>

\* Host::Exit on the main thread: its listeners run inline.
MainExit ==
    /\ InUserCode
    /\ Len(stack) < MaxDepth
    /\ exits < MaxExits
    /\ exits' = exits + 1
    /\ stack' = <<Frame("exit", NoJob)>> \o stack
    /\ UNCHANGED <<platform, runVars, tickles, jobs, handlerVars, jobVars,
                   workerVars, tickled>>

MainExitDecide(prevented) ==
    /\ Running("exit")
    /\ prevented => Head(stack).fired
    /\ ExitDecision(prevented)
    /\ stack' = Tail(stack)
    /\ UNCHANGED <<platform, tickles, jobs, handlerVars, jobVars, workerVars,
                   exits, tickled>>

-----------------------------------------------------------------------------
(* main_thread_job_handler / Win32Host::InvokeMethods.                      *)

\* The GTK timer fires.
TimerFires ==
    /\ platform = "linux"
    /\ phase = "loop"
    /\ Idle
    /\ handler' = "copy"
    /\ UNCHANGED <<platform, runVars, tickles, jobs, batch, hjob, hasync, stack,
                   jobVars, workerVars, exits, tickled>>

\* Mutant: any message is taken for a tickle.
TickleReceivedMutant ==
    /\ phase = "loop"
    /\ Idle
    /\ tickles' = tickles - 1
    /\ handler' = "copy"
    /\ UNCHANGED <<platform, runVars, jobs, batch, hjob, hasync, stack, jobVars,
                   workerVars, exits, tickled>>

\* GetMessage returns a tickle.
TickleReceived ==
    /\ phase = "loop"
    /\ Idle
    /\ tickles > 0
    /\ tickles' = tickles - 1
    /\ handler' = "copy"
    /\ UNCHANGED <<platform, runVars, jobs, batch, hjob, hasync, stack, jobVars,
                   workerVars, exits, tickled>>

\* Mutant: the handler gives up when it does not get the mutex at once.
HandlerCopyMutant ==
    /\ handler = "copy"
    /\ \/ batch' = jobs /\ handler' = "clear"
       \/ batch' = batch /\ handler' = "next"
    /\ UNCHANGED <<platform, runVars, tickles, jobs, hjob, hasync, stack,
                   jobVars, workerVars, exits, tickled>>

\* Lock the queue and copy it; clear it and unlock.
HandlerCopy ==
    /\ handler = "copy"
    /\ batch' = jobs
    /\ handler' = "clear"
    /\ UNCHANGED <<platform, runVars, tickles, jobs, hjob, hasync, stack,
                   jobVars, workerVars, exits, tickled>>

HandlerClear ==
    /\ handler = "clear"
    /\ jobs' = <<>>
    /\ handler' = "next"
    /\ UNCHANGED <<platform, runVars, tickles, batch, hjob, hasync, stack,
                   jobVars, workerVars, exits, tickled>>

\* Take the next job, remember whether it is asynchronous, enter Execute().
HandlerExecute ==
    /\ handler = "next"
    /\ batch # <<>>
    /\ hjob' = Head(batch)
    /\ hasync' = ~ sync[Head(batch)]
    /\ batch' = Tail(batch)
    /\ stack' = <<Frame("handler", Head(batch))>>
    /\ handler' = "executing"
    /\ UNCHANGED <<platform, runVars, tickles, jobs, jobVars, workerVars, exits,
                   tickled>>

\* Mutant: a method that throws leaves Execute() before it signals.
HandlerExecutedMutant(o) ==
    LET j == Head(stack).job
    IN  /\ Running("handler")
        /\ outcome' = [outcome EXCEPT ![j] = o]
        /\ sem' = IF sync[j] /\ o = "value" THEN [sem EXCEPT ![j] = 1] ELSE sem
        /\ stack' = <<>>
        /\ handler' = "after"
        /\ UNCHANGED <<platform, runVars, tickles, jobs, batch, hjob, hasync,
                       alive, sync, returned, workerVars, exits, tickled>>

\* Execute() stores the result or the exception and signals the semaphore of
\* a synchronous job.
HandlerExecuted(o) ==
    LET j == Head(stack).job
    IN  /\ Running("handler")
        /\ outcome' = [outcome EXCEPT ![j] = o]
        /\ sem' = IF sync[j] THEN [sem EXCEPT ![j] = 1] ELSE sem
        /\ stack' = <<>>
        /\ handler' = "after"
        /\ UNCHANGED <<platform, runVars, tickles, jobs, batch, hjob, hasync,
                       alive, sync, returned, workerVars, exits, tickled>>

\* Mutant: the handler deletes every job it has executed.
HandlerCleanupMutant ==
    /\ handler = "after"
    /\ alive' = [alive EXCEPT ![hjob] = "freed"]
    /\ hjob' = NoJob
    /\ handler' = "next"
    /\ UNCHANGED <<platform, runVars, tickles, jobs, batch, hasync, stack, sync,
                   sem, outcome, returned, workerVars, exits, tickled>>

\* An asynchronous job is the handler's to print and delete.
HandlerCleanup ==
    /\ handler = "after"
    /\ alive' = IF hasync THEN [alive EXCEPT ![hjob] = "freed"] ELSE alive
    /\ hjob' = NoJob
    /\ handler' = "next"
    /\ UNCHANGED <<platform, runVars, tickles, jobs, batch, hasync, stack, sync,
                   sem, outcome, returned, workerVars, exits, tickled>>

HandlerReturn ==
    /\ handler = "next"
    /\ batch = <<>>
    /\ handler' = "idle"
    /\ phase' = IF platform = "win32" THEN "check" ELSE phase
    /\ UNCHANGED <<platform, running, quit, mainThread, tickles, jobs, batch,
                   hjob, hasync, stack, jobVars, workerVars, exits, tickled>>

-----------------------------------------------------------------------------
(* Host::Run.                                                               *)

\* LoadModules is over: running = Start(), which also sets Win32's threadId.
\* The loop is skipped if a module called SetRunUILoop(false).
LoadDone(ui) ==
    /\ phase = "load"
    /\ Idle
    /\ running' = TRUE
    /\ mainThread' = Main
    /\ phase' = IF ui THEN "check" ELSE "stop"
    /\ UNCHANGED <<platform, quit, tickles, jobs, handlerVars, stack, jobVars,
                   workerVars, exits, tickled>>

\* while (this->running) ...
CheckRunning ==
    /\ phase = "check"
    /\ phase' = IF ~ running THEN "stop"
                ELSE IF platform = "linux" THEN "enter" ELSE "loop"
    /\ UNCHANGED <<platform, running, quit, mainThread, tickles, jobs,
                   handlerVars, stack, jobVars, workerVars, exits, tickled>>

\* ... LinuxHost::RunLoop adds the timer and enters gtk_main(), which returns
\* once gtk_main_quit() was called; RunLoop then ends the loop.
EnterGtkMain ==
    /\ phase = "enter"
    /\ phase' = "loop"
    /\ UNCHANGED <<platform, running, quit, mainThread, tickles, jobs,
                   handlerVars, stack, jobVars, workerVars, exits, tickled>>

LeaveGtkMain ==
    /\ phase = "loop"
    /\ quit
    /\ Idle
    /\ phase' = "stop"
    /\ UNCHANGED <<platform, running, quit, mainThread, tickles, jobs,
                   handlerVars, stack, jobVars, workerVars, exits, tickled>>

\* The modules are unloaded and Run returns; the queue is not looked at again.
StopDone ==
    /\ phase = "stop"
    /\ Idle
    /\ phase' = "done"
    /\ UNCHANGED <<platform, running, quit, mainThread, tickles, jobs,
                   handlerVars, stack, jobVars, workerVars, exits, tickled>>

-----------------------------------------------------------------------------
Handler ==
    \/ HandlerCopy
    \/ HandlerClear
    \/ HandlerExecute
    \/ \E o \in Outcomes : HandlerExecuted(o)
    \/ HandlerCleanup
    \/ HandlerReturn

UserCode ==
    \/ CallbackBegin
    \/ CallbackReturn
    \/ CallbackThrow
    \/ \E j \in Jobs : MainCallSync(j) \/ MainCallAsync(j)
    \/ \E o \in Outcomes : InlineReturn(o)
    \/ MainExit
    \/ \E prevented \in BOOLEAN : MainExitDecide(prevented)

Run ==
    \/ \E ui \in BOOLEAN : LoadDone(ui)
    \/ CheckRunning
    \/ EnterGtkMain
    \/ LeaveGtkMain
    \/ TimerFires
    \/ TickleReceived
    \/ StopDone

Worker(w) ==
    \/ \E j \in Jobs, s \in BOOLEAN : WorkerCall(w, j, s)
    \/ WorkerPush(w)
    \/ WorkerPost(w)
    \/ WorkerWait(w)
    \/ WorkerCollect(w)
    \/ WorkerExit(w)
    \/ \E prevented \in BOOLEAN : WorkerExitDecide(w, prevented)

Next == Handler \/ UserCode \/ Run \/ \E w \in Workers : Worker(w)

Spec == Init /\ [][Next]_vars

(***************************************************************************)
(* Fairness.  A thread inside the host's own code keeps moving (weak).      *)
(* Methods and callbacks return.  GTK dispatches every ready source of an   *)
(* iteration, the timer among them, and leaves gtk_main at the end of the   *)
(* iteration in which it was told to quit; GetMessage returns posted        *)
(* messages before any input: other callbacks cannot starve them (strong).  *)
(* Nothing says that a callback ever begins, or that anybody makes a call.  *)
(***************************************************************************)
Fairness ==
    /\ WF_vars(Handler)
    /\ WF_vars(CallbackReturn \/ CallbackThrow)
    /\ WF_vars(\E o \in Outcomes : InlineReturn(o))
    /\ WF_vars(\E prevented \in BOOLEAN : MainExitDecide(prevented))
    /\ WF_vars(CheckRunning \/ EnterGtkMain)
    /\ SF_vars(TimerFires)
    /\ SF_vars(TickleReceived)
    /\ SF_vars(LeaveGtkMain)
    /\ \A w \in Workers :
          /\ WF_vars(WorkerPost(w))
          /\ WF_vars(WorkerWait(w))
          /\ WF_vars(WorkerCollect(w))
          /\ SF_vars(WorkerPush(w))

FairSpec == Spec /\ Fairness
-----------------------------------------------------------------------------
(* Properties.                                                              *)

TypeOK ==
    /\ platform \in Platforms
    /\ phase \in Phases
    /\ running \in BOOLEAN
    /\ quit \in BOOLEAN
    /\ mainThread \in {Main, NoThread}
    /\ tickles \in Nat
    /\ jobs \in Seq(Jobs)
    /\ handler \in HandlerStates
    /\ batch \in Seq(Jobs)
    /\ hjob \in Jobs \cup {NoJob}
    /\ hasync \in BOOLEAN
    /\ stack \in Seq(Frames)
    /\ alive \in [Jobs -> {"none", "live", "freed"}]
    /\ sync \in [Jobs -> BOOLEAN]
    /\ sem \in [Jobs -> {0, 1}]
    /\ outcome \in [Jobs -> Outcomes \cup {"none"}]
    /\ pc \in [Workers -> WorkerStates]
    /\ wjob \in [Workers -> Jobs \cup {NoJob}]
    /\ exiting \in [Workers -> {"no", "firing", "fired"}]
    /\ exits \in Nat
    /\ tickled \in [Jobs -> BOOLEAN]
    /\ returned \in [Jobs -> Outcomes \cup {"none"}]

\* After Execute() the handler touches the job only if it is its own to delete:
\* a synchronous one "might be freed soon after Execute()".
HandlerHolds == IF handler = "after" /\ hasync THEN {hjob} ELSE {}

\* The jobs the main thread has a pointer to that it will still follow.
MainHolds ==
    Elems(jobs) \cup Elems(batch) \cup HandlerHolds
        \cup ({f.job : f \in Elems(stack)} \ {NoJob})

\* The job a worker will still follow a pointer to: not while it posts the
\* tickle of an asynchronous job, which may be over and deleted by then.
WorkerHolds(w) ==
    IF \/ pc[w] \in {"push", "wait", "collect"}
       \/ pc[w] = "post" /\ sync[wjob[w]]
    THEN {wjob[w]} ELSE {}

\* Memory safety of jobs: a job that the queue, the handler's copy, a frame of
\* the main thread or a waiting caller will still follow a pointer to is
\* allocated and not deleted, and a job that is allocated is still held by one
\* of them, so that somebody deletes it: no use after free, no double free and
\* no leak while either of two threads may delete (host/linux/host.cpp:122,158).
JobsLiveWhileHeld ==
    \A j \in Jobs :
        alive[j] = "live" <=> j \in MainHolds \cup UNION {WorkerHolds(w) : w \in Workers}

\* No lost wake-up on Windows: a job that waits in the queue after its tickle
\* reached the main thread still has a tickle in the message queue, or the
\* handler is just about to take it (host/win32/host.cpp:133-138,161-172).
TickleCoversQueue ==
    platform = "win32" =>
        \A j \in Elems(jobs) :
            tickled[j] => tickles > 0 \/ handler \in {"copy", "clear"}

(***************************************************************************)
(* The job queue implements MainThreadCalls.  A job is submitted once it is *)
(* out of its caller's hands; the pending calls are what is left of the     *)
(* handler's copy followed by the queue, except that between the copy and   *)
(* the clear() the copied jobs are in both.                                 *)
(***************************************************************************)
Submitted ==
    {j \in Jobs : alive[j] # "none"} \ {wjob[w] : w \in {v \in Workers : pc[v] = "push"}}
Pending == IF handler = "clear" THEN jobs ELSE batch \o jobs
Serving == IF handler = "executing" THEN hjob ELSE NoJob
Inline == {f.job : f \in {g \in Elems(stack) : g.via = "inline"}}

Calls == INSTANCE MainThreadCalls
            WITH Calls <- Jobs, NoCall <- NoJob, submitted <- Submitted,
                 pending <- Pending, serving <- Serving, inline <- Inline

\* Every call runs exactly once, calls of the queue in the order in which they
\* were queued and one at a time, and the caller of a synchronous call gets the
\* outcome of its own call: what host.h says of InvokeMethodOnMainThread.
ImplementsMainThreadCalls == Calls!Spec

Ended == phase \in {"stop", "done"}

\* A call that waits in the queue while the event loop runs is executed, or
\* the loop ends; on Windows once its tickle was delivered.
QueuedCallsRun ==
    \A j \in Jobs :
        (/\ phase = "loop"
         /\ j \in Elems(jobs)
         /\ platform = "linux" \/ tickled[j])
        ~> (outcome[j] # "none" \/ Ended)

\* A worker blocked in a synchronous call comes back with its outcome, or the
\* loop ends: the main thread never waits for a worker that waits for it.
SyncCallsReturn ==
    \A w \in Workers, j \in Jobs :
        (/\ phase = "loop"
         /\ pc[w] = "wait"
         /\ wjob[w] = j
         /\ platform = "linux" \/ tickled[j])
        ~> (returned[j] # "none" \/ Ended)

\* host/win32/host.cpp:146, host/linux/host.cpp:116: "If this is the main
\* thread, Wait() will fall through because we've already called Execute()
\* above": the main thread never blocks in its own synchronous call.
MainThreadNeverWaits == ~ Running("wait")

\* api/host.cpp:801 "Exit signal canceled by event handler": when a listener
\* cancels the exit, the host does not leave its event loop for it.
QuitOnlyAfterAcceptedExit == quit => ~ running
=============================================================================
