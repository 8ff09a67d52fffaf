# Kroll: a TLA+ verification project

Kroll is the micro-kernel of a desktop runtime: a *host* process that owns the
main (UI) thread, loads *modules* - shared libraries and scripts in several
languages - and gives them one object model through which they call each other,
possibly from different threads.  This project models the parts of it whose
correctness depends on the order of events, checks them with TLC and proves the
properties that matter most with TLAPS.

## The system: components, state, operations

| component | state | operations | what is hard |
|---|---|---|---|
| Host: event loop and main-thread calls (`api/host.cpp`, `host/linux`, `host/win32`) | `running`, job queue and its mutex, the id of the main thread; each job: result, exception, semaphore | `Run`, `Exit`, `RunLoop`, `InvokeMethodOnMainThread`, the job handler | callers on several threads; two threads may delete a job; nested calls on the main thread; wake-ups; an exit in the middle |
| Host: modules (`api/host.cpp`) | `module_providers`, `invalid_module_files`, `loadedModules`, `autoScan` | `AddModuleProvider`, `LoadModules`, `ScanInvalidModuleFiles`, `LoadModule`, `StartModules`, `UnloadModules` | module code runs in the middle of every routine and calls back; any step may throw |
| Events (`api/binding/k_event_object.cpp`, `event.cpp`) | listeners of an object, under a mutex | `AddEventListener`, `RemoveEventListener`, `FireEvent` | listeners added and removed while the event is dispatched, on several threads |
| Application and components (`api/utils/application.cpp`, `boot_utils.cpp`) | manifest, arguments, resolved modules, SDKs and runtime; installed components on disk | `NewApplication`, `ResolveDependencies`, `GetAvailableComponents`, `IsInstalled` | the disk is shared with other applications; versions as strings |
| Bootstrap (`boot/`) | the application or its update, missing dependencies, the environment passed on | `Bootstrap`, `FindUpdate`, `RunInstaller`, `Blastoff`, `StartHost` | a second program in the middle; a restart; updates; being killed half-way |
| Asynchronous jobs and installer (`api/async_job.cpp`, `modules/api/api_binding.cpp`) | progress, completion, callbacks, worker thread | `RunAsynchronously`, `Cancel`, `InstallDependencies` | job lifetime across threads; two installers |
| Object model (`api/binding/`) | property maps, lists, delegates | `Set`, `Get`, `UnSet`, `SetNS`, `Append`, ... | shared between threads; a dotted name is walked without a lock |
| Logger (`api/logger.cpp`) | tree of loggers, levels, callbacks | `Get`, `SetLevel`, `Log`, `Shutdown` | threads that log at once, callbacks that log, use after shutdown |
| Script evaluators (`api/script.cpp`, the evaluators in `modules/`) | registered evaluators; PHP's symbol table and error handler, Ruby's global object | `Evaluate`, methods and functions called from other languages | scripts nest across languages and each language has its own copy of the window |
| Language bridges (`modules/`) | proxies and wrappers of foreign objects, protected contexts | conversion both ways | two memory managers; pages that close; identity of wrapped objects |

Everything that must touch the UI goes through `InvokeMethodOnMainThread`: event
dispatch, exits, progress of asynchronous jobs and the installer's callbacks are
all calls of the job queue.  That queue is therefore modelled first, against an
abstract specification that the other modules can rely on.


How they interact: the boot program leaves the host its modules in the
environment; the host loads them, each module may register a provider for other
modules and bind objects into the global object; scripts and modules call each
other through that object model, fire events on it, and reach the UI through
the job queue.  When `Host::Exit` is called - from any thread - an event is fired
first, and a listener may cancel the exit.

### What makes each component correct

- *Main-thread calls*: each call is executed once, on the main thread, in the
  order of submission, and its caller gets its own result or exception; no job
  is used after `delete` and none leaks; a call that was queued is executed
  while the loop runs; a listener that cancels an exit keeps the loop alive.
- *Modules*: every file that some provider accepts is loaded, once; no scan
  erases from a vector another one walks; all modules are stopped before any is
  unloaded; the host has no pointer to a provider that is gone; unloading ends,
  whatever providers appear meanwhile and whatever throws.
- *Events*: a listener registered throughout the dispatch hears the event; a
  stopped event goes no further; the answer of `FireEvent` is what the callbacks
  decided; firing returns.
- *Components and bootstrap*: a host that starts has everything its manifest
  asks for; an installation that did what it was asked for is enough, and
  lasts; a launch ends; a cancelled update leaves the application usable.
- *Asynchronous jobs*: completion is reported once, to everybody who asked,
  and the job outlives its last user; two installers do not run at once.
- *Object model*: replacing a property is atomic for its readers; what was set
  under a dotted name is found there; a list keeps its elements in order.
- *Language bridges*: what Kroll holds is not collected, every protection is given
  back, and a value that crosses and returns is the same value.
- *Scripts*: what a script assigns reaches its window, and the state of the PHP
  engine follows the calls when they return or end in a fatal error; an exception
  that breaks it does so for one frame.
- *Logger*: messages go to the file and to each callback in one order, once, from
  the moment the callback was added.

## Modules of this project

| module | models | state and actions |
|---|---|---|
| `MainThreadCalls` | what `InvokeMethodOnMainThread` promises | submitted calls, the call that runs, outcomes; `Submit`, `Serve`, `Finish`, `Return`, and calls executed in place |
| `HostLoop` | the same, as the program does it, with `Host::Run` and `Host::Exit`, on GTK and Windows | the job vector, the handler's copy of it, each job's memory, semaphore and result, the main thread's stack of calls, each worker's position; one action per critical section, wait, `Execute`, delete |
| `Vectors` | what the host and event objects do with a `std::vector` | `Elems`, and `Without`, the loop of `RemoveEventListener` and `UnregisterModule` |
| `HostModules` | providers, scans, load, start, stop, unload | the vectors of the host, and a stack of its active routines, since module code runs inside them |
| `Events` | listeners and dispatch | the listener list per object, its mutex, the copy each dispatch walks, one stack of calls per thread |
| `Components` | versions, and which component a dependency resolves to | operators only |
| `Bootstrap` | a launch, from the boot program to the running host | disk, process, environment, host; one action per stage of `Bootstrap()`, the installer as a program of its own |
| `AsyncJobs` | `AsyncJob`, and the installer thread of `APIBinding` | each job's reference count and fields, where its thread is, the calls posted to the main thread, the installer's mutex and fields; one action per call, per callback posted and per step of a thread |
| `BoundObjects` | `StaticBoundObject`, `AccessorBoundObject`, `KObject::SetNS` and `GetNS`, `API.set` | the property maps, each object's mutex, each thread's walk; one action per `Get`, two for `Set` (erase, assign), one for a setter that takes its place |
| `BoundLists` | `StaticBoundList` and `KList::ResizeTo` | the length and the numbered properties, beside the sequence callers mean |
| `LanguageBridges` | proxies and wrappers in JavaScript, Python, Ruby and PHP | reachability and protection of script objects, reference counts of Kroll values, JavaScript contexts and their counts; conversion in both directions, references that are leaked, releases, collection, finalizers, a page that closes |
| `Scripts` | `Script` and the Python, PHP and Ruby evaluators | the stack of scripts and PHP calls, the windows' property and the copies of it, PHP's global object and bail-out handler; one action per way in, way out, assignment, fatal error and place where an exception passes |
| `Logging` | `Logger` and `RootLogger` | levels, the recursive mutex, each thread's calls of `LogImpl`, what the file and each entry of the vector of callbacks got; a callback may log, add callbacks and throw |
| `HostLoopProofs`, `HostModulesProofs`, `EventsProofs`, `BootstrapProofs`, `AsyncJobsProofs`, `BindingProofs` (lists, objects, scripts and bridges), `LoggingProofs`, `VectorsProofs` | - | theorems and their proofs |
| `MC*` | - | the small instances that TLC checks; `MCParts` has `AsyncJobs`, `BoundObjects` (as `MCObjects`), `BoundLists`, `LanguageBridges`, `Scripts` and `Logging` |

`HostLoop` instantiates `MainThreadCalls` (`Calls`), with the refinement mapping
`Submitted`, `Pending`, `Serving`, `Inline`: the calls the abstract queue holds
are those in the handler's batch followed by those in `jobs`, except between the
handler's copy and its `clear()`, when the batch is not yet taken.  `Events` relies
on that result: there a call to the main thread is one step that queues and one
that serves.  `Bootstrap` ends where `HostModules` begins, with the module paths in
the environment.

The six modules from `AsyncJobs` on share no state with one another: jobs, bound
objects, lists, bridges, scripts and the logger meet only in values that each of
them treats as opaque.  `MCParts` checks them in one run as a
choice: a behaviour is a behaviour of one part (`part`), the others staying in
their initial state, which is their disjoint union and not their product.  `AsyncJobs` relies on
`MainThreadCalls` for the main thread: calls are posted in one step and served one
at a time, oldest first.

### Correspondence worth knowing

- Module, listener and UI code is arbitrary: where the program calls it, it may
  return, throw, or call back into the component in any way the bounds allow.  In
  `HostModules` the `Initialize`, `Start`, `Stop` and `Unload` of a module may each throw
  and may each register the module as a provider; `Run` catches what `Start` throws
  while modules load, and nothing catches what comes out of `UnloadModules`
  (`Abandon`, phase `failed`).  In `HostLoop` and `HostModules` the active calls form a
  stack, because the main thread is re-entered from there.
- A provider that registers itself while modules are unloaded (`lateProviders`) is
  never dropped; a scan that asks it after it was freed may crash (`AskFreedProvider`)
  or go on.  `lateModules` are the modules such scans load once unloading has begun
  to unregister.
- `delete` is a state of a job (`alive[j] = "freed"`); the properties say who still
  holds it.  `Win32Host::threadId` is not initialised before `Start()`: the model
  chooses whether it happens to be the main thread's id.
- A critical section is one step, except the handler's, whose copy and clear
  are two steps under the mutex, so that dropping the mutex shows.
- In `HostModules` the suffix test `IsModule` is the function `lang`: which provider
  accepts a file.  Every such function is an initial state.
- In `Components` versions are sequences of tokens and tokens sequences of
  characters, so that `CompareVersions` compares as strings do.  The sorted vector
  of components is the relation `Precedes`; the order in which a directory lists
  its entries is not visible through it, since two components of one name and
  version lie on different search paths.  Entries of a component directory are
  taken to be directories.
- In `Bootstrap` the installer, the update service and the other applications are
  external: they do what their use in the code allows.  The installer installs
  the version that `GetURLForDependency` puts into the URL, may stop anywhere, and
  an SDK may supply the other components that are missing.

- In `AsyncJobs` a job is freed when its count is zero.  The progress in [0, 1] is
  0, 1 or 2 halves, and -1 and 3 are what `SetProgress` cuts off.  Two accesses the
  code does not order end in the state `crashed`: `Add...Callback` pushes onto a
  vector that the job's thread may be iterating over, and `RunThreadTarget` deletes
  `this->adapter` after the line that may have deleted the job.  What is thrown by a
  job and is no `ValueException` leaves `Run` (`Escapes`); what a callback throws on the
  main thread is logged there (`AsyncCallThrows`, recorded in `threw`).
  `installerMutex` is taken on the main thread and given back on the installer's;
  it is taken to behave as the POSIX `FastMutex` does.
- In `BoundObjects` a dotted name is the sequence of what lies between its periods,
  empty tokens included; `Tokenize` drops these for `SetNS`, `GetNS` keeps them, and a
  name is relative to the global object if it has a period at all.  A name of periods
  alone makes `SetNS` read past the end of a vector (`SetNothing`).  `API` is an
  `AccessorBoundObject`: a bound method whose name is `set`, `get` or `is` and the token
  (`Setters`, `Getters`) is called instead, may answer any value and may throw.  The
  global object's own class has no accessors.  A mutex is held from the erasure to
  the assignment in `Set`.  `SetNS` keeps a bare pointer to its scope: if another
  thread replaces the binding that owned it, the walk may end in `wrecked`.  A value is
  an object, something that is a `KObject` but no object to `Value::IsObject` (a list, a
  method), or primitive.  The empty name, with no period, is left out.
- In `LanguageBridges` the language is chosen initially; the other languages'
  interpreter is their only context.  A script object is collected if no script
  reaches it, nobody protects it and no reference to it was leaked.  How often a
  proxy protects its object (`JsPins`, ...) is read off the constructors: once, or
  twice where a list or a method has an object proxy inside.  JavaScript contexts
  belong to groups (`ContextGroup`): an object reaches every context of its group, and a
  proxy is unwrapped there (`JsOwn`).  `leaked` has the objects with a reference that
  nobody releases: some callers of the conversions into Python and PHP forget the one
  they got (`Converted`), and PHP's destructors only decrement (`Release`).  `lost` is
  the use of a NULL context or a collected object.
- In `Scripts` one property per window stands for all, and its values are numbered
  in the order of their assignment, so that an older copy that overwrites a newer
  value shows.  Methods that Ruby code defines belong to the window's context
  (`rubyMethod`) and are copied to the latest `global_object` at each end of a script of
  that window (`RubyLeave`, which is where `ContextToGlobal` is called).  A window's
  object may throw wherever the evaluators read or write it, and an exception that
  PHP's object handlers do not catch unwinds the engine (`PHPThrows`); each exception
  takes one frame, because the language around a nested script catches it.  Two history
  variables say where such an exception, or a copy, matters: `contended` has the
  windows of which two copies existed when one was written (what wins there depends
  on who ends last, as the comment in `php_utils.cpp` admits), or whose copy was lost;
  `torn` has the PHP frames that find the wrong global object.  `bailout` is `Gone` when
  it points to a frame that was unwound.  `Preprocess` is one step: the file sees no
  object of Kroll's.
- In `Logging` the vector of callbacks is `sinks`, and `received` and `skipped` are
  parallel to it: an entry per call of `AddLoggerCallback`, the same callback twice
  included.  `skipped` has the positions in the file that are not for it: those before
  it was added, and those for which a callback before it threw.  Loggers are got on
  the main thread, because the map of loggers has no lock, and nothing is logged
  after `Shutdown`.

## Runs

| run | instance | shows |
|---|---|---|
| `hostloop_safety` | 2 workers, 3 jobs, stack of 3 calls, 1 exit, both hosts; workers and jobs symmetric | `JobsLiveWhileHeld`: whoever can still touch a job finds it allocated, and exactly one party frees it. `TickleCoversQueue`: on Windows a queued job whose tickle was delivered still has one in the message queue, or the handler is about to take it. `ImplementsMainThreadCalls`: the refinement |
| `hostloop_liveness` | 2 workers, 2 jobs, no exit | `QueuedCallsRun`, `SyncCallsReturn` |
| `host_modules` | 3 files, every assignment of providers, module code that throws or registers a provider in each of its four callbacks | `NoScanInsideIteration`, `ProvidersExist`, `NoLoadableFileLeftBehind`, `LoadedOnce`, `StoppedBeforeUnloaded`; `LoadingEnds`, `UnloadingEnds` |
| `events_safety` | the main thread and 1 worker, 2 objects, 2 listeners (one of all events, one of the exit event), 2 events, stack of 3 | `ListsOwnListeners`, `AnswerIsWhatCallbacksDecided`, `EveryListenerHears`, `StoppedEventGoesNoFurther`, no deadlock |
| `events_liveness` | the same with 1 event | `FiringEnds` |
| `bootstrap` | both platforms, 4 manifests, 1 update, 2 launches, 1 foreign installation, versions 9 and 10 | `HostHasItsDependencies`, `InstalledStaysInstalled`, `SortIsWellDefined`, `InstallSuffices`, `LaunchEnds` |
| `parts` | 1 job with up to 3 callbacks, 2 of a kind, of which 1 may throw, 2 installations; threads symmetric; 2 threads, 7 names of one to three tokens with a getter and a setter among them, 3 calls of `API.set`; lists of up to 4; 2 script objects (one of them a method), 2 proxies, 2 wrappers, 1 Kroll object, 3 contexts of 2 groups, every language; 2 windows, 3 nested scripts, 4 scripts begun or failed, 2 assignments, 1 PHP function; 2 threads, 3 loggers, 2 callbacks added twice in all, 3 entries | jobs: `JobsLiveWhileReachable`, `CallbacksSeeTheirOutcome`, `OutcomeReportedOnce`, `InstallerServesItsCall`; objects: `BoundPropertyNeverMissing`, `NamespaceReadsBack`, `ListKeepsItsElements`; bridges: `ProxiedObjectsExist`, `ProtectionsBalance`, `CrossingBackUnwraps`; scripts: `PhpStateFollowsStack`, `ScriptWritesArrive`; logger: `CallbacksFollowTheFile` |
| `hostloop_win32_selfwait`, `hostloop_linux_cancelled_exit`, `modules_failed_init_started`, `events_freed_listener`, `bootstrap_cancelled_update` | as above, or smaller | one disagreement each between the code and its comments; see below |

Every module also has its type invariant.  `PROJECT.json` gives for each property
a mutation of one definition that breaks it.

### Why the bounds are enough

*Host loop.* The hazards are about two parties at one job (caller and handler) while
a third call is queued or nested: two workers and three jobs have all of them,
and a stack of three holds a callback, the call it makes and the call that one
makes.  The interesting exit is the first; one is enough.  *Modules.* Three files
are a provider, a file it accepts, and a file accepted by the module so loaded:
the longest chain in which a late provider matters twice.  *Events.* Two listeners
are one being called and one being removed; two events a dispatch inside a
dispatch.  *Bootstrap.* The first launch makes the state that the second one finds;
a manifest for each requirement, one with an SDK and one without a runtime.  All
initial states (what is installed, what is bundled, whether the application is
marked as installed) are enumerated.  *Parts.* One job is enough, since jobs share
only the order of the main thread's calls; its two callbacks are one served and
one still waiting when the job lets go of itself, and the third
one of another kind (`MaxAdded`); one of them may throw (`MaxThrown`).  A second call of `installDependencies` is the one that
could overwrite the first's fields.  Two threads, names of one and of three tokens, and
three writes have one walk cross a replacement in another, or a setter bound
between two writes of its property; one name has an empty token and one nothing else; a list of four has a
removal with two elements to shift and a `SetAt` that leaves a gap.  Three nested scripts are a frame, the one it
jumps over and the one that fails; four beginnings and failures (`MaxEvents`) let a
script be entered after the exception that left the engine's state wrong, and fail
in it; scripts begin when all three evaluators are registered, since a missing one
only leaves scripts out.  Three log entries are one of each thread and
one that a callback logs itself; three loggers have a level pass through an
ancestor that does not exist yet; two places in the vector (`MaxSinks`) have a callback
that throws before another, or one that was added twice.  *Bridges.* Two script
objects are one per group of contexts, the second a method because only methods run
code after their page is gone, the first of every other class (in JavaScript an object,
since a list is protected as often as a method); a proxy of each and two wrappers have one object cross
to its own context, to another of its group and to one of another group.

### Fairness

Nothing forces anybody to call, launch or exit.  What is assumed:

- `HostLoop`: host code proceeds, and module code and methods return (weak); the
  timer, a tickle that is queued, and `gtk_main_quit` get their turn again and
  again between callbacks (strong: GTK dispatches every source that is ready,
  `GetMessage` returns posted messages before input); a worker gets the queue's
  mutex if it is free again and again (strong).  The promise is "or the loop
  ends": jobs still queued then are neither executed nor deleted.
- `HostModules`: module code returns or throws (weak fairness of `Next`).
- `Events`: dispatch proceeds (weak), the mutex is granted and an idle main thread
  serves queued calls (strong - the result of `HostLoop`), a callback returns
  after finitely many calls (strong).
- `Bootstrap`: the boot program proceeds and the installer ends (weak).

Deadlock is not checked where the process may simply end (`HostLoop`,
`HostModules`, `Bootstrap`) or a bounded program has nothing left to do (`parts`);
in `Events` it is.  `parts` checks safety only: what its threads wait for is the
mutex of one critical section, and the calls they post are promised by
`hostloop_liveness`.

## What the violations show

- `hostloop_win32_selfwait`: before `Start()` the Windows host does not know its
  main thread, so a synchronous call made while modules load waits for itself.
- `hostloop_linux_cancelled_exit`: `LinuxHost::Exit` quits GTK although the exit was
  cancelled.
- `modules_failed_init_started`: a module whose `Initialize()` threw is returned by
  `LoadModule` and started.
- `events_freed_listener`: the copy of the listeners is a copy of pointers; a
  listener removed during the dispatch is used after `delete`.
- `bootstrap_cancelled_update`: the update's manifest has replaced the
  application's when the check after the installer is made, so that cancelling
  an update which needs one more component leaves the application unable to
  start, on this and on every later launch.

Five more headers say what the code does not do.  Each has a definition that states
the header's words and a configuration in which TLC refutes it within seconds:

- `EveryModuleStopped` (`HostModulesLateUnstopped.cfg` with `MCHostModules`):
  `api/module.h:96-97` has `Stop()` called before a module is unloaded; a module that
  was loaded because another's `Unload()` registered a provider is unloaded without it.
- `CallbackErrorsReported` (`AsyncJobsCallbackError.cfg` with `AsyncJobs`):
  `async_job.h:105-107` has error callbacks run for errors "in the job itself or a
  callback related to that job"; what a progress or completion callback throws never
  reaches them, and `reportErrors` is not read.
- `NamesAreFound` (`BoundObjectsNames.cfg` with `MCObjects`): `kobject.h:265-270` gives
  `GetNS` as a chain of `Get`; `GetNS` does not find what lies below a method or a list,
  where that chain does, and where `SetNS` goes.
- `ParentsAreNotMade` (`BoundObjectsParents.cfg` with `MCObjects`): `kobject.h:257` has
  `SetNS` do nothing when a parent is undefined; it makes the parents.
- `GapsAreUndefined` (`BoundListsGap.cfg` with `BoundLists`): `klist.h:42-44` has `SetAt`
  beyond the end append Undefined; it appends none, and after a `Remove` the gap shows
  the removed list's last element.

Also visible in the models, where no document says otherwise: `Host::Exit` during
loading is overwritten by `running = Start()`; a worker's exit on Windows takes
effect at the next message; `Matches` compares the event name with itself, so a
listener is removed whatever its event; LTE dependencies are never met by an
installed component, and GT and LT ones not by the version they make the
installer fetch (`InstallSuffices` excepts the three); with
`--bundled-component-override` nothing the installer does counts, and on Windows
the option is forgotten when the application was installed elsewhere; "10" is
older than "9", so the comment that "the latest version of any component will
always be chosen" (`boot_utils.cpp:59`) is true of the order of strings only; the
host resolves its components a second time and may tell modules of others than
those it loaded; an `Event` keeps a reference to the string its name was passed in;
a manifest without a runtime resolves and its null runtime is dereferenced.

In the smaller parts:

- a job is used after its last reference is gone (`DeleteAdapter`), a callback added
  while the job reports may be missed or run off the end of the vector, and a job
  that throws something other than a `ValueException` is never reported nor freed;
- two threads that create the same namespace lose what one of them put there; a
  name with an empty token is set where it is not read; once a method `setX` is bound
  in API, `API.set("X", ...)` calls it;
- the Ruby proxies protect nothing: they register the address of a constructor
  parameter; PHP wraps its own objects when they return; Python and PHP leak
  references (`leaked`);
- a JavaScript method that runs after its page was closed makes proxies with a
  NULL context;
- a PHP script nested in another, and a page that is preprocessed, clear the outer
  one's bail-out handler, so that a later fatal error ends the process
  (`FatalErrorExits`); an exception through the engine leaves the handler of a frame
  that is gone, and the caller's PHP code with the wrong global object;
- Ruby's global object stays the nested script's when a script of another window
  has ended, and a method defined once in a context overwrites, at the end of every
  later script, what was assigned to that name since;
- a logger callback that throws keeps the entry from those after it;
  `Logger::Shutdown` deletes the loggers while other threads may log.

Read in code that is not modelled: `EndsWith` of the proxy bypass rules
(`proxy_config.cpp:16`) looks at the first occurrence only and takes a needle one
longer than the host name as found.

## Proofs

Everything below is proved for every value of the constants - any number of
threads, jobs, files, objects, listeners, scripts - from the modules' named
assumptions alone, which say that the names of special values are distinct from
the others and that bounds are natural numbers.  Beyond that, `HostModules` assumes
that `Dir` lists every file once; `Components` that there is a search path, that what
can be installed is finite and lies outside the applications' own directories;
`Bootstrap` that manifests consist of dependencies and have at most one runtime line
(of several `Application` would keep only the last, `application.cpp:220`);
`BoundObjects` that the global object, API, methods and what `SetNS` creates are
different objects, and that no name is its own setter or getter; `LanguageBridges`
that every context belongs to a group.  TLC evaluates those assumptions in each run, and each
inductive invariant was checked with TLC on the instance of its run before it
was proved.

| module | theorem | property |
|---|---|---|
| `HostLoopProofs` | `TypeCorrect`, `NoLostWakeUp`, `NoUseAfterFreeNoLeak` | `TypeOK`, `TickleCoversQueue`, `JobsLiveWhileHeld` |
| | `Refinement` | `ImplementsMainThreadCalls` |
| `HostModulesProofs` | `HostModulesTypeCorrect` | `TypeOK` |
| | `ScansDoNotNest`, `ProvidersAreAlive`, `NoFileLeftBehind` | `NoScanInsideIteration`, `ProvidersExist`, `NoLoadableFileLeftBehind` |
| | `ModulesLoadedOnce`, `StopThenUnload` | `LoadedOnce`, `StoppedBeforeUnloaded` |
| `EventsProofs` | `EventsTypeCorrect`, `ListsOwn`, `AnswersAreDecisions` | `TypeOK`, `ListsOwnListeners`, `AnswerIsWhatCallbacksDecided` |
| | `EveryoneHears`, `StoppedGoesNoFurther` | the action properties `EveryListenerHears`, `StoppedEventGoesNoFurther` |
| `AsyncJobsProofs` | `AsyncJobsTypeCorrect`, `NoJobFreedWhileReachable` | `AsyncJobsTypeOK`, `JobsLiveWhileReachable` |
| | `CallbacksSeeOutcome`, `OutcomeToldOnce`, `OneInstallerAtATime` | `CallbacksSeeTheirOutcome`, `OutcomeReportedOnce`, `InstallerServesItsCall` |
| `BootstrapProofs` | `SortWellDefined`, `BootstrapTypeCorrect` | `SortIsWellDefined`, `TypeOK` |
| | `HostIsComplete`, `RunsAgain` | `HostHasItsDependencies`, `InstalledStaysInstalled` |
| | `InstallationSuffices` | the action property `InstallSuffices` |
| `BindingProofs` | `LanguageBridgesTypeCorrect`, `ProxiesKeepTheirObjects` | `LanguageBridgesTypeOK`, `ProxiedObjectsExist` |
| | `ProtectionsReturned`, `RepresentativesUnwrap` | `ProtectionsBalance`, `CrossingBackUnwraps` |
| | `ListsKeepTheirElements`, `PhpFollowsTheStack`, `PropertiesReplacedAtomically` | `ListKeepsItsElements`, `PhpStateFollowsStack`, `BoundPropertyNeverMissing`, each with its module's type invariant |
| | `ScriptWritesAreNotLost`, `NamesReadBack` | `ScriptWritesArrive`, `NamespaceReadsBack` |
| `LoggingProofs` | `LogOrder` | `CallbacksFollowTheFile` |

The theorems about the parts of `MCParts` are about each part's own
specification (`AsyncJobsSpec`, `LanguageBridgesSpec`, ...): in `PartsSpec` a behaviour
is one of these with the others at rest.

### The inductive invariants

*Host loop.*  `TypeOK` is not inductive, because a step that pops the main thread's
stack needs to know what lies below and a worker that pushes needs to have a
job: `TypeInv` adds `StackShape` (the outermost frame, and only it, is a callback or
a job of the handler) and `WorkersHaveJobs`.  `NoLostWakeUp` needs `HandlerAlone`
(nothing else is active on the main thread while the handler copies and clears)
and `TickleInv`: a job that a worker or an inline call has is nobody else's, and no
tickle was posted for a job that is not in the queue yet.  Memory safety rests on
`OwnershipInv`: a job is at most once in the queue and the handler's copy together
and at most once on the stack, what these hold is allocated and has not run, a
synchronous job has a caller that will delete it and an asynchronous one is on its
way to the handler that will.  The two invariants together (`HostInv`) are what
`Refinement` needs to map each action to a step of `MainThreadCalls` or to none; the
handler's copy and clear map to none, since `batch = jobs` in between.

*Modules.*  The parts of `HostModulesInv` speak of the innermost routine, of its
caller and of the *set* of routines around them, so that a call or a return leaves
what is said of the others alone and no induction over the stack is needed.
`ShapeInv`: autoScan is off while a routine is in an iteration, so that an
iteration is interrupted by `LoadModule` only and `LoadModule` by nothing - which
is why the comment "Do not recursively scan" is true.  `FilesInv`: a file is in
one place, still to be found, waiting in `invalid_module_files`, being loaded or
loaded; the iterator of the scan that called `LoadModule` is at the file that is
being loaded.  `RescanInv`: a waiting file for which there is a provider is one
that some routine is still going to see - ahead of the iterator, or because the
scan has loaded something and will scan again.  `ProvidersInv` and `UnloadInv` are
about what lists and providers point to and what was stopped.  `UnloadingInv` adds what
holds inside `UnloadModules`, where `Stop()` and `Unload()` may start scans: its frame is
the outermost, the module being unregistered is still in the vector and in the frame,
and everything before the loop's index has been stopped.

*Events.*  Unless a callback fires the event once more, of the calls of `FireEvent`
for one event one is busy, it waits while a callback runs, one callback runs at a
time, and it calls nobody else once the event is stopped (`FiringInv`).  A listener
the event is meant for has been called, or is gone, or some call still has it in
the list it will copy or in the rest of its copy (`HearingInv`).  `StackInv` has what
frames of the two threads say of each other: a worker that waits has its callback
on the main thread.  Stacks are described outermost frame first (`Nest`), so that the
positions of frames do not move when calls are made.  `EveryoneHears` and
`StoppedGoesNoFurther` follow from it step by step, being about the step that answers
and the step that calls.

*Bootstrap.*  What is resolved is a first element in the order of the sorted vector,
so the proof begins with that order: `CompareVersions` is lexicographic, hence total
on versions, two components of one name and version lie on different search paths,
and a finite set of components that fit has a first.  `BootInv` then follows a launch:
a resolution stays true while it is used, although other applications install in
between (`ResolvedInv`, `CheckedInv` - what fits is never taken away); what the
environment tells the host is true in both of its processes (`EnvInv`); where the
application ran once, all that its manifest asks for is still there (`StartedInv`);
and after a complete installation the second resolution finds everything, if the
requirements are such that the installed version meets them (`CompleteInv`).  SDKs are
not loaded and not passed on, so `HostHasItsDependencies` looks for them on disk.

*Asynchronous jobs.*  `RefInv`: the count of a job is one for `sharedThis`, one for
the main thread and one for each call that waits - an equation, because a count
that is only known to be positive might be one too small for the next release.
`OutcomeInv`: of the callbacks of a job's outcome those before the loop's index were
posted once and the others not yet.  `InstallerOwned`: between taking and giving back
the mutex, the installer's fields are those of the one request that has it.

*Language bridges.*  `BridgeInv` is a set of equations too: an object is protected as
often as its proxies protect it (once or twice, so the sum over proxies is that
of two cardinalities), a context as often as the proxies made in it do, and a
value is counted by its keepers and wrappers.  A reached or leaked object is alive, and
a proxy's origin is of its object's group.

*Lists, objects, scripts.*  `ListInv` adds only the length of the sequence to what is
proved.  `ObjectInv`: a property that was bound and is not there is being replaced
by the thread that has the object's mutex.  `StackInv`: what PHP's state must be
for the whole stack, and what each frame saved must be for the stack below it, since
that is what leaving a frame restores - unless the frame below is torn, or the handler
is gone.  `ArrivesInv` says of every state what `ScriptWritesArrive` says of the end, for
the windows that are not contended: leaving all frames from the innermost to the
outermost would give the window its last value.  It counts the copies that are still to
be written (Python's, and Ruby frames with a method): with one, that copy has the value,
with none PHP's table or else the window has it; and PHP's table belongs to the window
exactly while the innermost PHP frame does (`InStep`).  `NameInv`: what
is bound forms a tree, since an object that `SetNS` creates is bound once and by its
creator, so the objects on the way of an undisturbed `SetNS` are all different and a
`Set` in the last of them leaves the way to it as it was; `GetNS` then goes the same way.

*Logger.*  `LogInv`: one call of `LogImpl` is in the mutex, with those that callbacks
make on its thread inside it.  The callbacks its loop has reached have the line, the
others lack this one line and no other (`OrderInv`); a callback that is added in the
middle of the loop is one of the others, and when a callback throws those that are
still to come have the line in `skipped`.

*Lemmas.*  Facts about stacks and vectors are constant-level lemmas, so that they
apply to primed expressions too.  `VectorsProofs` says what `Without` computes: this
takes an induction over the vector, which is made with a set of numbers
(`BoundedInduction`, from the least element of a set of naturals) in place of the
library's schemas; the walk of `GetNS` and the filter `Kept` of a log are treated in the
same way.

### Only model-checked

- Liveness (`QueuedCallsRun`, `SyncCallsReturn`, `LoadingEnds`, `UnloadingEnds`,
  `FiringEnds`, `LaunchEnds`): fairness and ENABLED are beyond the prover.
- `PartsTypeOK`, the conjunction of the parts' type invariants: five of the six are
  proved with the theorems of their parts.  The sixth, `LoggingTypeOK`, has the levels
  that `InheritedLevel` computes by recursion over the tree of loggers; `LogOrder`
  needs no more than the types in `LogTypes`.
- That the code disagrees with its comments: the five runs with a violation and the
  five configurations beside them.

## What is not modelled

- The OS X host: calls are delivered by `performSelectorOnMainThread`, without a
  queue of the program's own.  OS X bootstraps as Linux does.
- Vendored code (breakpad, unzip, kashmir, parts of Poco: about 53 000 of the
  repository's 82 000 lines of C and C++), the interpreters that the language modules
  embed, crash reports and texts.
- In events: the life time of the object an event keeps alive, and `ReadEvent`.
- In bootstrap: `--start`, version comparison of updates (the code makes none),
  the texts of URLs, a directory scan that meets a plain file (its version list is
  then that of the directory before it, `boot_utils.cpp:162`).
- In the object model: `Value`, argument lists, `Blob`, delegates and profiled
  objects, which convert or forward and keep no state that threads share beyond the
  bound object underneath; `API.set` with an empty name.
- In the language bridges: conversion of numbers, strings and dates, the
  protection of a method's `this`, the counts of Python dictionaries and tuples.
- In scripts: the lookup of an evaluator by URL, which changes no state; JavaScript
  evaluation, which has no state of Kroll's; a script that registers evaluators; an
  exception that crosses several languages at once without being caught between them.
- The profiler (output only), the network proxies, and the file, URL, environment and
  platform utilities: system calls and string algorithms, where a test reaches
  what a model would.
- The Windows event window, which forwards messages to handlers on one thread.

## Plan

The components are modelled in the order of their weight: the job queue, modules,
events, components and bootstrap, then the parts of `MCParts`.  What is left:

1. Delegates and profiled objects as refinements of one map; proxy
   bypass and URL rules as pure algorithms.
2. Liveness, should the prover learn to reason about fairness: the measures are
   the length of the queue ahead of a call, and the frames left in a stack.
