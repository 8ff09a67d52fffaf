---------------------------- MODULE HostModules ----------------------------
(***************************************************************************)
(* How a host finds, loads, starts and unloads its modules (api/host.cpp,   *)
(* AddModuleProvider to UnregisterModule, and the two ends of Host::Run).   *)
(*                                                                         *)
(* A module is a file of the module directories.  Shared libraries are      *)
(* loaded by the host itself; any other file is remembered as invalid until *)
(* some module - a language runtime - registers as a ModuleProvider that    *)
(* accepts it.  Module code runs in the middle of every host routine, and   *)
(* may register a provider there, so the routines are frames of a stack.    *)
(* Everything happens on one thread at a time, under moduleMutex.           *)
(***************************************************************************)
EXTENDS Naturals, Sequences, FiniteSets, Vectors

CONSTANTS Files,   \* the files of the module directories
          Dir,     \* the same files in the order the directories list them
          Host,    \* the host as the provider of native modules
          Nobody   \* a file that no provider accepts

ASSUME FilesAssumption ==
    /\ Dir \in Seq(Files)
    /\ \A f \in Files : \E i \in DOMAIN Dir : Dir[i] = f
    /\ \A i, k \in DOMAIN Dir : Dir[i] = Dir[k] => i = k
    /\ Host \notin Files
    /\ Nobody \notin Files \cup {Host}

VARIABLES
    lang,              \* who accepts each file (IsModule goes by the suffix)
    phase,             \* where Host::Run is
    stack,             \* active routines, innermost first
    module_providers,
    invalid,           \* invalid_module_files
    loadedModules,
    autoScan,
    started,           \* history: modules whose Start() was called
    stopped,           \* history: modules whose Stop() was called
    unloaded,          \* history: modules whose Unload() was called
    startThrew,        \* history: some Start() threw
    initThrew,         \* history: modules whose Initialize() threw
    lateProviders,     \* history: providers registered while modules unload
    lateModules        \* history: modules loaded after an Unload() was called

vars == <<lang, phase, stack, module_providers, invalid, loadedModules,
          autoScan, started, stopped, unloaded, startThrew, initThrew,
          lateProviders, lateModules>>

Delete(s, i) == SubSeq(s, 1, i - 1) \o SubSeq(s, i + 1, Len(s))

\* A frame: the routine, where it is, its index or iterator, its module list.
Call(fn, at, list) == [fn |-> fn, at |-> at, i |-> 1, list |-> list]

Active(fn, at) == stack # <<>> /\ stack[1].fn = fn /\ stack[1].at = at
Return == stack' = Tail(stack)

\* The innermost frame moves on; it does so after the routines it calls.
Goto(at) == <<[stack[1] EXCEPT !.at = at]>> \o Tail(stack)
Advance == <<[stack[1] EXCEPT !.i = @ + 1]>> \o Tail(stack)

\* Run has registered the host as a provider and called LoadModules.
Init ==
    /\ lang \in [Files -> Files \cup {Host, Nobody}]
    /\ phase = "load"
    /\ stack = <<Call("LoadModules", "find", <<>>)>>
    /\ module_providers = <<Host>>
    /\ invalid = <<>>
    /\ loadedModules = <<>>
    /\ autoScan = FALSE
    /\ started = {}
    /\ stopped = {}
    /\ unloaded = {}
    /\ startThrew = FALSE
    /\ initThrew = {}
    /\ lateProviders = {}
    /\ lateModules = {}

-----------------------------------------------------------------------------
(* AddModuleProvider and LoadModule.                                        *)

\* Module code registers a provider; frames is the stack it returns to.
AddModuleProvider(p, frames) ==
    /\ module_providers' = Append(module_providers, p)
    /\ lateProviders' = IF phase = "unload" THEN lateProviders \cup {p}
                        ELSE lateProviders
    /\ stack' = IF autoScan
                THEN <<Call("Scan", "begin", <<>>)>> \o frames
                ELSE frames

HasProvider(f) == \E i \in DOMAIN module_providers : module_providers[i] = lang[f]

\* Mutant: the path stays in the vector.
LoadModuleReturnsMutant(result) ==
    LET caller == stack[2]
        rest == Tail(Tail(stack))
        kept == IF caller.fn = "Scan" THEN caller.list \o result ELSE caller.list
    IN  /\ stack' = <<[caller EXCEPT !.list = kept]>> \o rest
        /\ UNCHANGED invalid

\* What the caller of LoadModule does with its result.  FindBasicModules drops
\* it.  A scan keeps a module that is not NULL, "even on failure" erases the
\* path, and goes on with the path that follows.
LoadModuleReturns(result) ==
    LET caller == stack[2]
        rest == Tail(Tail(stack))
    IN  IF caller.fn = "Scan"
        THEN /\ stack' = <<[caller EXCEPT !.list = @ \o result]>> \o rest
             /\ invalid' = Delete(invalid, caller.i)
        ELSE /\ stack' = <<caller>> \o rest
             /\ UNCHANGED invalid

\* Mutant: the scan does not check for NULL.
CreateModuleThrowsMutant ==
    /\ Active("LoadModule", "create")
    /\ LoadModuleReturns(<<Nobody>>)
    /\ UNCHANGED <<lang, phase, module_providers, loadedModules, autoScan,
                   started, stopped, unloaded, startThrew, initThrew,
                   lateProviders, lateModules>>

\* provider->CreateModule(path) throws: the result is NULL.
CreateModuleThrows ==
    /\ Active("LoadModule", "create")
    /\ LoadModuleReturns(<<>>)
    /\ UNCHANGED <<lang, phase, module_providers, loadedModules, autoScan,
                   started, stopped, unloaded, startThrew, initThrew,
                   lateProviders, lateModules>>

\* The guard before it, GetModuleByPath(path), never finds a module: it looks
\* for the file among the modules' directories (GetPath).
CreateModule ==
    /\ Active("LoadModule", "create")
    /\ stack' = Goto("initialize")
    /\ UNCHANGED <<lang, phase, module_providers, invalid, loadedModules,
                   autoScan, started, stopped, unloaded, startThrew, initThrew,
                   lateProviders, lateModules>>

\* Initialize() throws: the exception is logged, but `module' is returned.
InitializeThrows ==
    /\ Active("LoadModule", "initialize")
    /\ initThrew' = initThrew \cup Elems(stack[1].list)
    /\ LoadModuleReturns(stack[1].list)
    /\ UNCHANGED <<lang, phase, module_providers, loadedModules, autoScan,
                   started, stopped, unloaded, startThrew, lateProviders,
                   lateModules>>

\* Initialize() succeeds.  Language modules register as providers, last of all.
InitializeReturns(provides) ==
    /\ Active("LoadModule", "initialize")
    /\ IF provides
       THEN AddModuleProvider(stack[1].list[1], Goto("register"))
       ELSE stack' = Goto("register") /\ UNCHANGED <<module_providers, lateProviders>>
    /\ UNCHANGED <<lang, phase, invalid, loadedModules, autoScan, started,
                   stopped, unloaded, startThrew, initThrew, lateModules>>

RegisterModule ==
    /\ Active("LoadModule", "register")
    /\ loadedModules' = loadedModules \o stack[1].list
    /\ lateModules' = IF unloaded # {} THEN lateModules \cup Elems(stack[1].list)
                                       ELSE lateModules
    /\ LoadModuleReturns(stack[1].list)
    /\ UNCHANGED <<lang, phase, module_providers, autoScan, started, stopped,
                   unloaded, startThrew, initThrew, lateProviders>>

-----------------------------------------------------------------------------
(* LoadModules.                                                             *)

\* FindBasicModules looks at the next file of the directories.
FindBasicModules ==
    /\ Active("LoadModules", "find")
    /\ stack[1].i <= Len(Dir)
    /\ LET f == Dir[stack[1].i]
       IN  IF lang[f] = Host
           THEN /\ stack' = <<Call("LoadModule", "create", <<f>>)>> \o Advance
                /\ UNCHANGED invalid
           ELSE /\ stack' = Advance
                /\ invalid' = IF f \in Elems(invalid) THEN invalid
                              ELSE Append(invalid, f)
    /\ UNCHANGED <<lang, phase, module_providers, loadedModules, autoScan,
                   started, stopped, unloaded, startThrew, initThrew,
                   lateProviders, lateModules>>

LoadModulesScan ==
    /\ Active("LoadModules", "find")
    /\ stack[1].i > Len(Dir)
    /\ stack' = <<Call("Scan", "begin", <<>>)>> \o Goto("start")
    /\ UNCHANGED <<lang, phase, module_providers, invalid, loadedModules,
                   autoScan, started, stopped, unloaded, startThrew, initThrew,
                   lateProviders, lateModules>>

LoadModulesStart ==
    /\ Active("LoadModules", "start")
    /\ stack' = <<Call("StartModules", "next", loadedModules)>> \o Goto("end")
    /\ UNCHANGED <<lang, phase, module_providers, invalid, loadedModules,
                   autoScan, started, stopped, unloaded, startThrew, initThrew,
                   lateProviders, lateModules>>

\* Run goes on to Start() and the event loop.
LoadModulesEnd ==
    /\ Active("LoadModules", "end")
    /\ autoScan' = TRUE
    /\ Return
    /\ phase' = "run"
    /\ UNCHANGED <<lang, module_providers, invalid, loadedModules, started,
                   stopped, unloaded, startThrew, initThrew, lateProviders,
                   lateModules>>

-----------------------------------------------------------------------------
(* ScanInvalidModuleFiles.                                                  *)

\* Mutant: autoScan stays on.
ScanBeginMutant ==
    /\ Active("Scan", "begin")
    /\ stack' = Goto("iterate")
    /\ UNCHANGED <<lang, phase, module_providers, invalid, loadedModules,
                   autoScan, started, stopped, unloaded, startThrew, initThrew,
                   lateProviders, lateModules>>

ScanBegin ==
    /\ Active("Scan", "begin")
    /\ autoScan' = FALSE
    /\ stack' = Goto("iterate")
    /\ UNCHANGED <<lang, phase, module_providers, invalid, loadedModules,
                   started, stopped, unloaded, startThrew, initThrew,
                   lateProviders, lateModules>>

\* Mutant: the iterator stays on a file that no provider accepts.
ScanNextMutant ==
    /\ Active("Scan", "iterate")
    /\ stack[1].i <= Len(invalid)
    /\ LET f == invalid[stack[1].i]
       IN  stack' = IF HasProvider(f)
                    THEN <<Call("LoadModule", "create", <<f>>)>> \o stack
                    ELSE stack
    /\ UNCHANGED <<lang, phase, module_providers, invalid, loadedModules,
                   autoScan, started, stopped, unloaded, startThrew, initThrew,
                   lateProviders, lateModules>>

\* A file some provider accepts is loaded, any other is passed over.
ScanNext ==
    /\ Active("Scan", "iterate")
    /\ stack[1].i <= Len(invalid)
    /\ LET f == invalid[stack[1].i]
       IN  stack' = IF HasProvider(f)
                    THEN <<Call("LoadModule", "create", <<f>>)>> \o stack
                    ELSE Advance
    /\ UNCHANGED <<lang, phase, module_providers, invalid, loadedModules,
                   autoScan, started, stopped, unloaded, startThrew, initThrew,
                   lateProviders, lateModules>>

\* What was loaded is started, and may have brought providers: scan again.
ScanStart ==
    /\ Active("Scan", "iterate")
    /\ stack[1].i > Len(invalid)
    /\ stack' = IF stack[1].list = <<>> THEN Goto("end")
                ELSE <<Call("StartModules", "next", stack[1].list)>> \o Goto("rescan")
    /\ UNCHANGED <<lang, phase, module_providers, invalid, loadedModules,
                   autoScan, started, stopped, unloaded, startThrew, initThrew,
                   lateProviders, lateModules>>

\* Mutant: no second scan.
ScanAgainMutant ==
    /\ Active("Scan", "rescan")
    /\ stack' = Goto("end")
    /\ UNCHANGED <<lang, phase, module_providers, invalid, loadedModules,
                   autoScan, started, stopped, unloaded, startThrew, initThrew,
                   lateProviders, lateModules>>

ScanAgain ==
    /\ Active("Scan", "rescan")
    /\ stack' = <<Call("Scan", "begin", <<>>)>> \o Goto("end")
    /\ UNCHANGED <<lang, phase, module_providers, invalid, loadedModules,
                   autoScan, started, stopped, unloaded, startThrew, initThrew,
                   lateProviders, lateModules>>

ScanEnd ==
    /\ Active("Scan", "end")
    /\ autoScan' = TRUE
    /\ Return
    /\ UNCHANGED <<lang, phase, module_providers, invalid, loadedModules,
                   started, stopped, unloaded, startThrew, initThrew,
                   lateProviders, lateModules>>

-----------------------------------------------------------------------------
(* StartModules.                                                            *)

Starting == Active("StartModules", "next") /\ stack[1].i <= Len(stack[1].list)
Current == stack[1].list[stack[1].i]

\* Start() returns; it may have registered the module as a provider.
StartReturns(provides) ==
    /\ Starting
    /\ started' = started \cup {Current}
    /\ IF provides
       THEN /\ Current \notin Elems(module_providers)
            /\ AddModuleProvider(Current, Advance)
       ELSE stack' = Advance /\ UNCHANGED <<module_providers, lateProviders>>
    /\ UNCHANGED <<lang, phase, invalid, loadedModules, autoScan, stopped,
                   unloaded, startThrew, initThrew, lateModules>>

\* Start() throws and nothing in the host catches it, so that every active
\* routine is abandoned, up to a Start(), Stop() or Unload() that registered a
\* provider and catches it there, or up to Run: while modules load, Run then
\* returns 1, and while they are unloaded the exception leaves it.
StartThrows(k) ==
    /\ Starting
    /\ k \in 2 .. Len(stack) + 1
    /\ k <= Len(stack) => stack[k].fn \in {"StartModules", "UnloadModules"}
    /\ started' = started \cup {Current}
    /\ startThrew' = TRUE
    /\ stack' = SubSeq(stack, k, Len(stack))
    /\ phase' = IF phase # "run" /\ k > Len(stack) THEN "failed" ELSE phase
    /\ UNCHANGED <<lang, module_providers, invalid, loadedModules, autoScan,
                   stopped, unloaded, initThrew, lateProviders, lateModules>>

StartModulesEnd ==
    /\ Active("StartModules", "next")
    /\ stack[1].i > Len(stack[1].list)
    /\ Return
    /\ UNCHANGED <<lang, phase, module_providers, invalid, loadedModules,
                   autoScan, started, stopped, unloaded, startThrew, initThrew,
                   lateProviders, lateModules>>

-----------------------------------------------------------------------------
(* While the host runs, and when it stops.                                  *)

\* A loaded module registers as a provider.
ProviderAppears(f) ==
    /\ phase = "run"
    /\ stack = <<>>
    /\ f \in Elems(loadedModules) \ Elems(module_providers)
    /\ AddModuleProvider(f, <<>>)
    /\ UNCHANGED <<lang, phase, invalid, loadedModules, autoScan, started,
                   stopped, unloaded, startThrew, initThrew, lateModules>>

\* Mutant: the modules are unloaded before the providers are dropped.
BeginUnloadMutant ==
    /\ phase = "run"
    /\ stack = <<>>
    /\ phase' = "unload"
    /\ stack' = <<Call("UnloadModules", "stop", <<>>)>>
    /\ UNCHANGED <<lang, module_providers, invalid, loadedModules, autoScan,
                   started, stopped, unloaded, startThrew, initThrew,
                   lateProviders, lateModules>>

\* The loop is over: UnloadModuleProviders, then UnloadModules is called.
BeginUnload ==
    /\ phase = "run"
    /\ stack = <<>>
    /\ phase' = "unload"
    /\ module_providers' = <<>>
    /\ stack' = <<Call("UnloadModules", "stop", <<>>)>>
    /\ UNCHANGED <<lang, invalid, loadedModules, autoScan, started, stopped,
                   unloaded, startThrew, initThrew, lateProviders,
                   lateModules>>

\* Module code ends in a way that nothing up to main catches.
Abandon == stack' = <<>> /\ phase' = "failed"

Stopping == Active("UnloadModules", "stop") /\ stack[1].i <= Len(loadedModules)

\* Stop() returns; it may have registered the module as a provider, and the scan
\* that follows may load modules, which the loop reaches as well.
StopReturns(provides) ==
    LET m == loadedModules[stack[1].i]
    IN  /\ Stopping
        /\ stopped' = stopped \cup {m}
        /\ IF provides
           THEN m \notin Elems(module_providers) /\ AddModuleProvider(m, Advance)
           ELSE stack' = Advance /\ UNCHANGED <<module_providers, lateProviders>>
        /\ UNCHANGED <<lang, phase, invalid, loadedModules, autoScan, started,
                       unloaded, startThrew, initThrew, lateModules>>

\* Run calls UnloadModules outside of its try blocks.
StopThrows ==
    /\ Stopping
    /\ stopped' = stopped \cup {loadedModules[stack[1].i]}
    /\ Abandon
    /\ UNCHANGED <<lang, module_providers, invalid, loadedModules, autoScan,
                   started, unloaded, startThrew, initThrew, lateProviders,
                   lateModules>>

\* The loop over Stop() is over; the one over UnregisterModule is not.
AllStopped ==
    \/ Active("UnloadModules", "unload")
    \/ Active("UnloadModules", "stop") /\ stack[1].i > Len(loadedModules)

Unregister(provides) ==
    LET m == Head(loadedModules)
        erasing == <<[stack[1] EXCEPT !.at = "erase", !.list = <<m>>]>> \o Tail(stack)
    IN  /\ loadedModules # <<>>
        /\ unloaded' = unloaded \cup {m}
        /\ IF provides
           THEN m \notin Elems(module_providers) /\ AddModuleProvider(m, erasing)
           ELSE stack' = erasing /\ UNCHANGED <<module_providers, lateProviders>>
        /\ UNCHANGED <<lang, phase, invalid, loadedModules, autoScan, started,
                       stopped, startThrew, initThrew, lateModules>>

\* Mutant: a module is unregistered while others still wait for Stop().
UnloadReturnsMutant(provides) ==
    /\ AllStopped \/ Active("UnloadModules", "stop")
    /\ Unregister(provides)

\* UnregisterModule(loadedModules.at(0)): Unload() returns, and may have
\* registered the module as a provider, for the scan that follows.
UnloadReturns(provides) ==
    /\ AllStopped
    /\ Unregister(provides)

UnloadThrows ==
    /\ AllStopped
    /\ loadedModules # <<>>
    /\ unloaded' = unloaded \cup {Head(loadedModules)}
    /\ Abandon
    /\ UNCHANGED <<lang, module_providers, invalid, loadedModules, autoScan,
                   started, stopped, startThrew, initThrew, lateProviders,
                   lateModules>>

\* Mutant: a module that was unloaded stays in the vector.
EraseModuleMutant ==
    /\ Active("UnloadModules", "erase")
    /\ stack' = <<[stack[1] EXCEPT !.at = "unload", !.list = <<>>]>> \o Tail(stack)
    /\ UNCHANGED <<lang, phase, module_providers, invalid, loadedModules,
                   autoScan, started, stopped, unloaded, startThrew, initThrew,
                   lateProviders, lateModules>>

\* The rest of UnregisterModule: the last reference to the module is dropped.
EraseModule ==
    /\ Active("UnloadModules", "erase")
    /\ loadedModules' = Without(loadedModules, Elems(stack[1].list))
    /\ stack' = <<[stack[1] EXCEPT !.at = "unload", !.list = <<>>]>> \o Tail(stack)
    /\ UNCHANGED <<lang, phase, module_providers, invalid, autoScan, started,
                   stopped, unloaded, startThrew, initThrew, lateProviders,
                   lateModules>>

\* Run called UnloadModules, and returns in its turn.
UnloadModulesEnd ==
    /\ AllStopped
    /\ loadedModules = <<>>
    /\ stack' = <<>>
    /\ phase' = "done"
    /\ UNCHANGED <<lang, module_providers, invalid, loadedModules, autoScan,
                   started, stopped, unloaded, startThrew, initThrew,
                   lateProviders, lateModules>>

\* Modules some SharedPtr still refers to.
Referenced ==
    Elems(loadedModules) \cup UNION {Elems(stack[i].list) : i \in DOMAIN stack}

\* FindModuleProvider asks a provider that was freed, and the program crashes;
\* where it does not, ScanNext is what happens.
AskFreedProvider ==
    /\ Active("Scan", "iterate")
    /\ stack[1].i <= Len(invalid)
    /\ ~ (Elems(module_providers) \subseteq Referenced \cup {Host})
    /\ Abandon
    /\ UNCHANGED <<lang, module_providers, invalid, loadedModules, autoScan,
                   started, stopped, unloaded, startThrew, initThrew,
                   lateProviders, lateModules>>

-----------------------------------------------------------------------------
Next ==
    \/ CreateModuleThrows \/ CreateModule \/ InitializeThrows \/ RegisterModule
    \/ FindBasicModules \/ LoadModulesScan \/ LoadModulesStart \/ LoadModulesEnd
    \/ ScanBegin \/ ScanNext \/ ScanStart \/ ScanAgain \/ ScanEnd
    \/ \E provides \in BOOLEAN :
        \/ InitializeReturns(provides) \/ StartReturns(provides)
        \/ StopReturns(provides) \/ UnloadReturns(provides)
    \/ \E k \in 2 .. Len(stack) + 1 : StartThrows(k)
    \/ StartModulesEnd
    \/ \E f \in Files : ProviderAppears(f)
    \/ BeginUnload \/ StopThrows \/ UnloadThrows \/ EraseModule \/ UnloadModulesEnd
    \/ AskFreedProvider

Spec == Init /\ [][Next]_vars

\* The routines run to their end: module code returns.
FairSpec == Spec /\ WF_vars(Next)
-----------------------------------------------------------------------------
(* Properties.                                                              *)

Routines == {"LoadModules", "Scan", "StartModules", "LoadModule", "UnloadModules"}
Places == {"find", "start", "end", "begin", "iterate", "rescan", "next",
           "create", "initialize", "register", "stop", "unload", "erase"}

TypeOK ==
    /\ lang \in [Files -> Files \cup {Host, Nobody}]
    /\ phase \in {"load", "run", "unload", "done", "failed"}
    /\ stack \in Seq([fn : Routines, at : Places, i : Nat, list : Seq(Files)])
    /\ module_providers \in Seq(Files \cup {Host})
    /\ invalid \in Seq(Files)
    /\ loadedModules \in Seq(Files)
    /\ autoScan \in BOOLEAN
    /\ started \subseteq Files
    /\ stopped \subseteq Files
    /\ unloaded \subseteq Files
    /\ startThrew \in BOOLEAN
    /\ initThrew \subseteq Files
    /\ lateProviders \subseteq Files
    /\ lateModules \subseteq Files

\* "Do not recursively scan" (api/host.cpp:598): the vector a scan walks with an
\* iterator is never walked, and erased from, by a scan inside it, whatever
\* provider the code of the modules it loads registers.
NoScanInsideIteration ==
    \A i \in DOMAIN stack :
        (stack[i].fn = "Scan" /\ stack[i].at = "iterate") =>
            \A k \in 1 .. i - 1 : stack[k].fn # "Scan"

\* module_providers holds bare pointers to modules: every one of them points to
\* a module that still exists, also when loading fails half-way and while the
\* modules are unloaded (api/host.cpp:288, 480, 777-778) - unless its own
\* Initialize() had thrown: the host then starts it all the same and lets go of
\* it, which OnlyLoadedModulesStart is about - or it registered only while the
\* modules were being unloaded, after the providers had been dropped.
ProvidersExist ==
    Elems(module_providers)
        \subseteq Referenced \cup initThrew \cup lateProviders \cup {Host}

\* Whenever the host is between two operations, no file waits that a registered
\* provider would load - however late in a scan, or in whose Start(), the
\* provider was registered - and a provider that comes later triggers a scan
\* (api/host.cpp:554-556, 628-633), unless a Start() has thrown.
NoLoadableFileLeftBehind ==
    (phase = "run" /\ stack = <<>> /\ ~ startThrew) =>
        autoScan /\ \A i \in DOMAIN invalid : ~ HasProvider(invalid[i])

\* "TI-180: Don't load the same module twice" (api/host.cpp:465).
LoadedOnce ==
    \A i, k \in DOMAIN loadedModules : loadedModules[i] = loadedModules[k] => i = k

\* api/module.h:96: Stop() "will happen before any pending Unload events": when
\* the first module is unloaded every module loaded by then has been stopped,
\* the ones that another's Stop() brought included, and when Run returns every
\* module that was stopped has been unloaded.  A module that an Unload() brings
\* is left to EveryModuleStopped.
StoppedBeforeUnloaded ==
    /\ unloaded # {} =>
          Elems(loadedModules) \cup unloaded \subseteq stopped \cup lateModules
    /\ phase = "done" => stopped \subseteq unloaded

\* api/module.h:96 again: no module is unloaded that was not stopped, one that
\* was loaded because another's Unload() registered a provider included.
EveryModuleStopped == unloaded \subseteq stopped

\* Loading comes to an end, whatever providers appear while it goes on.
LoadingEnds == <>(phase # "load")

\* Unloading comes to an end once it has begun, whatever providers the Stop()
\* and Unload() of the modules register: every module is unloaded, or Run is
\* left by an exception that no code catches (api/host.cpp:524, 679, 778: a
\* Stop(), an Unload() or the Start() of a module they brought throws) or by a
\* crash in a provider that no longer exists.
UnloadingEnds == (phase = "unload") ~> (phase \in {"done", "failed"})

\* api/host.h:258: LoadModule returns "The module that was loaded or NULL on
\* failure": the host starts no module whose loading failed.
OnlyLoadedModulesStart ==
    phase = "run" => started \subseteq Elems(loadedModules)
=============================================================================
