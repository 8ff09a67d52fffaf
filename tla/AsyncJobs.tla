----------------------------- MODULE AsyncJobs ------------------------------
(***************************************************************************)
(* Work done on a thread of its own and reported on the main thread:        *)
(* AsyncJob (api/async_job.cpp), a reference-counted object that keeps      *)
(* itself alive until its run is over, and the installer of APIBinding      *)
(* (modules/api/api_binding.cpp), one thread guarded by a mutex that the    *)
(* main thread takes and the installer thread gives back.                   *)
(*                                                                         *)
(* Both report through InvokeMethodOnMainThread without waiting, taken at   *)
(* its word (MainThreadCalls): the main thread serves calls one at a time,  *)
(* oldest first.  `calls` keeps the served ones too; `turn` is the next.    *)
(***************************************************************************)
EXTENDS Integers, Sequences, FiniteSets

CONSTANTS AsyncJobs, NoAsyncJob,
          Requests,      \* calls of installDependencies; a request also names
                         \* its dependencies and its callback
          NoRequest,
          MaxCallbacks,  \* bound: callbacks of one kind on one job
          MaxProgress    \* bound: calls of SetProgress by one job

ASSUME AsyncJobsAssumption ==
    /\ NoAsyncJob \notin AsyncJobs
    /\ NoRequest \notin Requests
    /\ MaxCallbacks \in Nat
    /\ MaxProgress \in Nat

VARIABLES
    job,        \* the fields of each AsyncJob
    control,    \* where the thread that runs each job is
    callbacks,  \* how many callbacks of each kind each job has
    held,       \* jobs the main thread's code has a reference to
    calls,      \* every call posted to the main thread so far
    turn,       \* the call of them the main thread serves next, or now
    threw,      \* job callbacks that threw: their place in calls, and how many
                \* error callbacks the job had then
    main,       \* what the main thread is inside: "idle", "call", "run"
    crashed,    \* an iterator or a freed object took the process down
    installer,  \* installerMutex, installerDependencies, installerCallback
    install     \* the installer thread of each request, and what it read

jobVars == <<job, control, callbacks, held>>
installVars == <<installer, install>>
asyncVars == <<job, control, callbacks, held, calls, turn, threw, main,
               crashed, installer, install>>

Kinds == {"progress", "completed", "error"}

\* A call on the main thread: a callback and the job it is given, if any.
JobCall(j, k, i) == [kind |-> k, job |-> j, callback |-> i]
InstallCall(r) == [kind |-> "installed", job |-> NoAsyncJob, callback |-> r]

AsyncJobsInit ==
    /\ job = [j \in AsyncJobs |->
                [count |-> 0, sharedThis |-> FALSE, completed |-> FALSE,
                 hadError |-> FALSE, cancelled |-> FALSE, progress |-> 0]]
    /\ control = [j \in AsyncJobs |->
                    [at |-> "none", thread |-> "none", loop |-> "none", i |-> 1,
                     raced |-> FALSE, changes |-> 0, due |-> 0]]
    /\ callbacks = [j \in AsyncJobs |-> [k \in Kinds |-> 0]]
    /\ held = {}
    /\ calls = <<>>
    /\ turn = 1
    /\ threw = {}
    /\ main = "idle"
    /\ crashed = FALSE
    /\ installer = [locked |-> FALSE, dependencies |-> NoRequest, callback |-> NoRequest]
    /\ install = [r \in Requests |->
                    [at |-> "none", ran |-> NoRequest, told |-> NoRequest]]

Exists(j) == job[j].count > 0

\* The job that the callback now running on the main thread was given.
Given(j) == main = "call" /\ calls[turn].job = j

\* Code on the main thread can reach a job through a reference of its own,
\* through a callback's argument or, before the run, as its creator.
Reaches(j) == main # "run" /\ Exists(j) /\ (j \in held \/ Given(j) \/ control[j].at = "idle")

(***************************************************************************)
(* AsyncJob                                                                 *)
(***************************************************************************)

\* The constructor: sharedThis owns the reference an object is born with.
NewJob(j) ==
    /\ control[j].at = "none"
    /\ main # "run"
    /\ job' = [job EXCEPT ![j].count = 1, ![j].sharedThis = TRUE, ![j].progress = 0]
    /\ control' = [control EXCEPT ![j].at = "idle"]
    /\ UNCHANGED <<callbacks, held, calls, turn, threw, main, crashed, installVars>>

\* Code keeps a reference: GetAutoPtr, or the argument of a callback.
Hold(j) ==
    /\ Reaches(j)
    /\ j \notin held
    /\ job[j].sharedThis \/ Given(j)
    /\ job' = [job EXCEPT ![j].count = @ + 1]
    /\ held' = held \cup {j}
    /\ UNCHANGED <<control, callbacks, calls, turn, threw, main, crashed, installVars>>

\* ... and releases it; the last release deletes the job.
DropHeld(j) ==
    /\ j \in held
    /\ main # "run"
    /\ job' = [job EXCEPT ![j].count = @ - 1]
    /\ held' = held \ {j}
    /\ UNCHANGED <<control, callbacks, calls, turn, threw, main, crashed, installVars>>

\* Add...Callback: push_back, with no lock, on a vector that the job's thread
\* may be iterating over.
AddCallback(j, k) ==
    /\ Reaches(j)
    /\ callbacks[j][k] < MaxCallbacks
    /\ callbacks' = [callbacks EXCEPT ![j][k] = @ + 1]
    /\ control' = [control EXCEPT ![j].raced = @ \/ control[j].loop = k]
    /\ UNCHANGED <<job, held, calls, turn, threw, main, crashed, installVars>>

\* Cancel sets a flag; nothing reads it.
Cancel(j) ==
    /\ Reaches(j)
    /\ job' = [job EXCEPT ![j].cancelled = TRUE]
    /\ UNCHANGED <<control, callbacks, held, calls, turn, threw, main, crashed, installVars>>

\* RunAsynchronously starts a thread in RunThreadTarget.
RunAsynchronously(j) ==
    /\ Reaches(j)
    /\ control[j].at = "idle"
    /\ control' = [control EXCEPT ![j].at = "executing", ![j].thread = "own"]
    /\ UNCHANGED <<job, callbacks, held, calls, turn, threw, main, crashed, installVars>>

\* Run, called on the main thread, keeps it until the run is over.
RunSynchronously(j) ==
    /\ main = "idle"
    /\ Reaches(j)
    /\ control[j].at = "idle"
    /\ control' = [control EXCEPT ![j].at = "executing", ![j].thread = "main"]
    /\ main' = "run"
    /\ UNCHANGED <<job, callbacks, held, calls, turn, threw, crashed, installVars>>

StartLoop(c, k) == [c EXCEPT !.loop = k, !.i = 1]

ClampMutant(p) ==  \* the value is stored as it is given
    p

\* A progress of -1 or 3 halves is outside [0, 1] and is cut off.
Clamp(p) == IF p < 0 THEN 0 ELSE IF p > 2 THEN 2 ELSE p

\* The job's own code calls SetProgress(p, true).
SetProgress(j, p) ==
    /\ control[j].at = "executing"
    /\ control[j].loop = "none"
    /\ control[j].changes < MaxProgress
    /\ job' = [job EXCEPT ![j].progress = Clamp(p)]
    /\ control' = [control EXCEPT ![j] = StartLoop([@ EXCEPT !.changes = control[j].changes + 1],
                                                     "progress")]
    /\ UNCHANGED <<callbacks, held, calls, turn, threw, main, crashed, installVars>>

ReturnsMutant(j) ==  \* completed is set when the callbacks have been told
    /\ control[j].at = "executing"
    /\ control[j].loop = "none"
    /\ control' = [control EXCEPT ![j] =
                     StartLoop([@ EXCEPT !.at = "reporting", !.due = callbacks[j]["completed"]],
                               "completed")]
    /\ UNCHANGED <<job, callbacks, held, calls, turn, threw, main, crashed, installVars>>

\* Execute's call of the job returns a value: Run reports completion.
Returns(j) ==
    /\ control[j].at = "executing"
    /\ control[j].loop = "none"
    /\ job' = [job EXCEPT ![j].completed = TRUE]
    /\ control' = [control EXCEPT ![j] =
                     StartLoop([@ EXCEPT !.at = "reporting", !.due = callbacks[j]["completed"]],
                               "completed")]
    /\ UNCHANGED <<callbacks, held, calls, turn, threw, main, crashed, installVars>>

\* It throws a ValueException: Error reports that instead.
Throws(j) ==
    /\ control[j].at = "executing"
    /\ control[j].loop = "none"
    /\ job' = [job EXCEPT ![j].hadError = TRUE]
    /\ control' = [control EXCEPT ![j] =
                     StartLoop([@ EXCEPT !.at = "reporting", !.due = callbacks[j]["error"]],
                               "error")]
    /\ UNCHANGED <<callbacks, held, calls, turn, threw, main, crashed, installVars>>

\* It throws anything else, which Execute does not catch: Run is left before its
\* first callback and sharedThis stays; on its own thread Poco ends the thread.
Escapes(j) ==
    /\ control[j].at = "executing"
    /\ control[j].loop = "none"
    /\ control' = [control EXCEPT ![j].at = "escaped"]
    /\ main' = IF control[j].thread = "main" THEN "idle" ELSE main
    /\ UNCHANGED <<job, callbacks, held, calls, turn, threw, crashed, installVars>>

DoCallbackMutant(j) ==  \* the posted call does not count as a reference
    LET k == control[j].loop IN
    /\ k # "none"
    /\ control[j].i <= callbacks[j][k]
    /\ calls' = Append(calls, JobCall(j, k, control[j].i))
    /\ control' = [control EXCEPT ![j].i = @ + 1]
    /\ UNCHANGED <<job, callbacks, held, turn, threw, main, crashed, installVars>>

\* DoCallback for the callback the iterator is at: the posted call holds a
\* reference, taken from sharedThis.
DoCallback(j) ==
    LET k == control[j].loop IN
    /\ k # "none"
    /\ control[j].i <= callbacks[j][k]
    /\ calls' = Append(calls, JobCall(j, k, control[j].i))
    /\ job' = [job EXCEPT ![j].count = @ + 1]
    /\ control' = [control EXCEPT ![j].i = @ + 1]
    /\ UNCHANGED <<callbacks, held, turn, threw, main, crashed, installVars>>

LoopEndsMutant(j) ==  \* the last callback is left out
    /\ control[j].loop # "none"
    /\ control[j].i >= callbacks[j][control[j].loop]
    /\ control' = [control EXCEPT ![j].loop = "none"]
    /\ UNCHANGED <<job, callbacks, held, calls, turn, threw, main, crashed, installVars>>

LoopEnds(j) ==
    /\ control[j].loop # "none"
    /\ control[j].i > callbacks[j][control[j].loop]
    /\ control' = [control EXCEPT ![j].loop = "none"]
    /\ UNCHANGED <<job, callbacks, held, calls, turn, threw, main, crashed, installVars>>

\* The vector was moved by push_back during the loop: the iterator runs on
\* through freed memory.
LoopRunsAway(j) ==
    /\ control[j].loop # "none"
    /\ control[j].raced
    /\ crashed' = TRUE
    /\ UNCHANGED <<job, control, callbacks, held, calls, turn, threw, main, installVars>>

\* The end of Run: sharedThis = NULL, which may delete the job.
EndRun(j) ==
    /\ control[j].at = "reporting"
    /\ control[j].loop = "none"
    /\ job' = [job EXCEPT ![j].sharedThis = FALSE, ![j].count = @ - 1]
    /\ IF control[j].thread = "own"
         THEN control' = [control EXCEPT ![j].at = "adapter"] /\ UNCHANGED main
         ELSE control' = [control EXCEPT ![j].at = "done"] /\ main' = "idle"
    /\ UNCHANGED <<callbacks, held, calls, turn, threw, crashed, installVars>>

\* RunThreadTarget then deletes this->adapter: through a job that may be gone,
\* and then what it finds there may be anything.
DeleteAdapter(j) ==
    /\ control[j].at = "adapter"
    /\ control' = [control EXCEPT ![j].at = "done"]
    /\ crashed' \in {FALSE, ~Exists(j)}
    /\ UNCHANGED <<job, callbacks, held, calls, turn, threw, main, installVars>>

(***************************************************************************)
(* The main thread serves the posted calls (MainThreadCalls).               *)
(***************************************************************************)

ServeAsyncCall ==
    /\ main = "idle"
    /\ turn <= Len(calls)
    /\ main' = "call"
    /\ UNCHANGED <<job, control, callbacks, held, calls, turn, threw, crashed, installVars>>

\* The call and its arguments are deleted.
CallIsDeleted ==
    /\ main = "call"
    /\ main' = "idle"
    /\ turn' = turn + 1
    /\ job' = [j \in AsyncJobs |->
                 IF calls[turn].job = j THEN [job[j] EXCEPT !.count = @ - 1] ELSE job[j]]
    /\ UNCHANGED <<control, callbacks, held, calls, crashed, installVars>>

AsyncCallEnds == CallIsDeleted /\ UNCHANGED threw

\* A callback of a job throws: nobody waits for it, so the main thread logs the
\* exception and goes on; reportErrors, given to DoCallback, is never read.
AsyncCallThrows(j) ==
    /\ Given(j)
    /\ CallIsDeleted
    /\ threw' = threw \cup {<<turn, callbacks[j]["error"]>>}

(***************************************************************************)
(* The installer                                                            *)
(***************************************************************************)

\* installDependencies with something to install: a second one is turned away
\* while the first has the mutex.
InstallDependencies(r) ==
    /\ main # "run"
    /\ install[r].at = "none"
    /\ IF installer.locked
         THEN /\ install' = [install EXCEPT ![r].at = "refused"]
              /\ UNCHANGED installer
         ELSE /\ installer' = [locked |-> TRUE, dependencies |-> r, callback |-> r]
              /\ install' = [install EXCEPT ![r].at = "started"]
    /\ UNCHANGED <<jobVars, calls, turn, threw, main, crashed>>

\* The thread calls BootUtils::RunInstaller with the dependencies it finds ...
BeginInstaller(r) ==
    /\ install[r].at = "started"
    /\ install' = [install EXCEPT ![r].at = "installing", ![r].ran = installer.dependencies]
    /\ UNCHANGED <<jobVars, calls, turn, threw, main, crashed, installer>>

EndInstallerMutant(r) ==  \* the mutex is given back before the callback is posted
    /\ install[r].at = "installing"
    /\ install' = [install EXCEPT ![r].at = "installed"]
    /\ installer' = [installer EXCEPT !.locked = FALSE]
    /\ UNCHANGED <<jobVars, calls, turn, threw, main, crashed>>

\* ... which ends, whatever the installer did ...
EndInstaller(r) ==
    /\ install[r].at = "installing"
    /\ install' = [install EXCEPT ![r].at = "installed"]
    /\ UNCHANGED <<jobVars, calls, turn, threw, main, crashed, installer>>

\* ... posts the callback it finds ...
PostInstalled(r) ==
    /\ install[r].at = "installed"
    /\ calls' = Append(calls, InstallCall(installer.callback))
    /\ install' = [install EXCEPT ![r].at = "posted", ![r].told = installer.callback]
    /\ UNCHANGED <<jobVars, turn, threw, main, crashed, installer>>

\* ... and gives the mutex back, on another thread than the one that took it.
UnlockInstaller(r) ==
    /\ install[r].at = "posted"
    /\ installer' = [installer EXCEPT !.locked = FALSE]
    /\ install' = [install EXCEPT ![r].at = "done"]
    /\ UNCHANGED <<jobVars, calls, turn, threw, main, crashed>>

JobStep ==
    /\ ~crashed
    /\ \/ \E j \in AsyncJobs :
            \/ NewJob(j) \/ Hold(j) \/ DropHeld(j) \/ Cancel(j)
            \/ RunAsynchronously(j) \/ RunSynchronously(j)
            \/ Returns(j) \/ Throws(j) \/ Escapes(j) \/ DoCallback(j) \/ LoopEnds(j)
            \/ LoopRunsAway(j) \/ EndRun(j) \/ DeleteAdapter(j)
       \/ \E j \in AsyncJobs, k \in Kinds : AddCallback(j, k)
       \/ \E j \in AsyncJobs, p \in {-1, 1, 3} : SetProgress(j, p)

ServeStep ==
    /\ ~crashed
    /\ \/ ServeAsyncCall
       \/ AsyncCallEnds
       \/ \E j \in AsyncJobs : AsyncCallThrows(j)

InstallStep ==
    /\ ~crashed
    /\ \E r \in Requests :
            \/ InstallDependencies(r) \/ BeginInstaller(r) \/ EndInstaller(r)
            \/ PostInstalled(r) \/ UnlockInstaller(r)

AsyncJobsNext == JobStep \/ ServeStep \/ InstallStep

AsyncJobsSpec == AsyncJobsInit /\ [][AsyncJobsNext]_asyncVars

(***************************************************************************)
(* Properties                                                               *)
(***************************************************************************)

AsyncJobsTypeOK ==
    /\ job \in [AsyncJobs -> [count : Nat, sharedThis : BOOLEAN, completed : BOOLEAN,
                              hadError : BOOLEAN, cancelled : BOOLEAN, progress : 0..2]]
    /\ control \in [AsyncJobs ->
          [at : {"none", "idle", "executing", "reporting", "adapter", "done",
                "escaped"},
           thread : {"none", "own", "main"}, loop : Kinds \cup {"none"},
           i : 1..MaxCallbacks + 1, raced : BOOLEAN, changes : 0..MaxProgress,
           due : 0..MaxCallbacks]]
    /\ callbacks \in [AsyncJobs -> [Kinds -> 0..MaxCallbacks]]
    /\ held \subseteq AsyncJobs
    /\ turn \in 1..Len(calls) + 1
    /\ threw \subseteq (1..turn - 1) \X (0..MaxCallbacks)
    /\ main \in {"idle", "call", "run"}
    /\ crashed \in BOOLEAN
    /\ installer \in [locked : BOOLEAN, dependencies : Requests \cup {NoRequest},
                      callback : Requests \cup {NoRequest}]
    /\ install \in [Requests ->
          [at : {"none", "refused", "started", "installing", "installed", "posted", "done"},
           ran : Requests \cup {NoRequest}, told : Requests \cup {NoRequest}]]

\* The calls that are still to be served, or being served.
Waiting == {calls[i] : i \in turn..Len(calls)}

\* The references of a job are counted right (Poco's AutoPtr over
\* reference_counted.h): whoever can still touch a job - its own run, a call
\* waiting for the main thread, code that kept it - finds it alive.
JobsLiveWhileReachable ==
    \A j \in AsyncJobs :
       \/ control[j].at \in {"idle", "executing", "reporting"}
       \/ j \in held
       \/ \E c \in Waiting : c.job = j
       => Exists(j)

\* A callback on the main thread sees the outcome it is told of (async_job.cpp,
\* Run and Error): isComplete is true for a completed callback, and a job that
\* failed never looks complete.
CallbacksSeeTheirOutcome ==
    \A c \in Waiting :
       /\ c.kind = "completed" => job[c.job].completed /\ ~job[c.job].hadError
       /\ c.kind = "error" => job[c.job].hadError /\ ~job[c.job].completed

\* Once a run is over, every callback that was there when the outcome was known
\* has been posted once, and a job that failed tells no callback that it is
\* complete (Run's and Error's loops, the test of hadError between them).  A run
\* that something other than a ValueException leaves posts nothing: Escapes.
OutcomeReportedOnce ==
    \A j \in AsyncJobs :
       control[j].at \in {"adapter", "done"} /\ ~control[j].raced =>
          LET k == IF job[j].hadError THEN "error" ELSE "completed"
              posted(c) == {i \in DOMAIN calls : calls[i] = c}
          IN  /\ \A n \in 1..control[j].due : Cardinality(posted(JobCall(j, k, n))) = 1
              /\ job[j].hadError =>
                    \A i \in DOMAIN calls : calls[i].job = j => calls[i].kind # "completed"

\* async_job.h, AddErrorCallback: the error callbacks are called for an error "in
\* the job itself or a callback related to that job".  When the run is over and
\* every posted call was served, a job one of whose callbacks threw has told the
\* error callbacks it had then.  It has not: DoCallback ignores reportErrors.
CallbackErrorsReported ==
    \A t \in threw :
        LET c == calls[t[1]]
        IN  /\ c.kind # "error" /\ t[2] > 0
            /\ control[c.job].at = "done" /\ turn > Len(calls)
            => \E i \in DOMAIN calls : calls[i].job = c.job /\ calls[i].kind = "error"

\* An installer installs what its own call asked for and reports to that call
\* (api_binding.cpp, installerMutex): the fields the thread reads are not those
\* of a later call, and no two installers run at once.
InstallerServesItsCall ==
    /\ \A r \in Requests : install[r].ran \in {r, NoRequest} /\ install[r].told \in {r, NoRequest}
    /\ Cardinality({r \in Requests : install[r].at \in {"started", "installing", "installed"}}) <= 1
=============================================================================
