------------------------------ MODULE Bootstrap ------------------------------
(***************************************************************************)
(* From the launch of an application to its running host (boot/boot.cpp,    *)
(* boot_linux.cpp, boot_win32.cpp, and Host::SetupApplication).             *)
(*                                                                         *)
(* The boot program reads the manifest, or that of a pending update,        *)
(* resolves its dependencies, runs the installer - a program of its own -   *)
(* when something is missing, resolves again, exports what it found to the  *)
(* environment and becomes the host: on Linux by executing itself a second  *)
(* time, on Win32 in the same process.  The host resolves once more.        *)
(* Meanwhile other applications install components into the same            *)
(* directories, and any of these processes may be killed; what is on disk   *)
(* stays.                                                                   *)
(***************************************************************************)
EXTENDS Components

CONSTANTS
    Manifests,      \* sets of dependencies that manifests may list
    Updates,        \* those that updates may bring
    Bundles,        \* sets of names that may be bundled
    Platforms,      \* \subseteq {"linux", "win32"}
    Arguments,      \* sets of command line options to launch with
    SampleVersions, \* versions on which the sort is examined
    MaxLaunches,    \* bound: how often the application is launched
    MaxForeign      \* bound: installations by other applications

\* A manifest has one line for the runtime: of several the application keeps
\* only what the last resolves to.
ASSUME BootstrapAssumption ==
    /\ Manifests \subseteq SUBSET Dependencies
    /\ \A deps \in Manifests : \A d, e \in deps :
          d.name = RUNTIME /\ e.name = RUNTIME => d = e
    /\ Bundles \subseteq SUBSET STRING
    /\ SampleVersions \subseteq Versions
    /\ Updates \subseteq Manifests
    /\ Platforms \subseteq {"linux", "win32"}
    /\ Arguments \subseteq SUBSET {"force-install", "override"}
    /\ {MaxLaunches, MaxForeign} \subseteq Nat

VARIABLES
    setup,     \* fixed: the platform and the names of the bundled components
    disk,      \* manifest, update file, components, .installed markers, .installedto
    pc,        \* where the application's process is
    proc,      \* memory of the boot process
    env,       \* the environment it passes on
    host,      \* the host's application and the modules it loads
    launch,    \* what the launch was given, and history of it
    ghost      \* history and bounds over all launches

vars == <<setup, disk, pc, proc, env, host, launch, ghost>>

(***************************************************************************)
(* Manifests and applications                                              *)
(***************************************************************************)
Absent == [kind |-> "absent", deps |-> {}]
Unreadable == [kind |-> "unreadable", deps |-> {}]
Readable(deps) == [kind |-> "ok", deps |-> deps]
FilesOf(lists) == {Readable(deps) : deps \in lists} \cup {Unreadable}

\* An Application object: its dependencies, its path and its arguments.
NewApplication(file, place, args) ==
    [deps |-> file.deps, place |-> place, args |-> args]
NoApplication == [deps |-> {}, place |-> "here", args |-> {}]

BundledComponents(root) ==
    {[name |-> n, version |-> <<>>, root |-> root] : n \in setup.bundled}

\* The directories that a scan of the search path finds at this moment.
InstalledComponents == disk.installed

\* The override directory replaces the application's bundle, and then no
\* installed component is looked at.
GetAvailableComponents(app) ==
    IF "override" \in app.args
    THEN BundledComponents("override")
    ELSE BundledComponents(app.place) \cup InstalledComponents

\* What did not resolve is pushed into the list as well.
ResolvedMutant(app) ==
    {ResolveDependency(d, GetAvailableComponents(app)) : d \in app.deps}

Resolved(app) ==
    {ResolveDependency(d, GetAvailableComponents(app)) : d \in app.deps}
        \ {NoComponent}

Missing(app) ==
    {d \in app.deps :
        ResolveDependency(d, GetAvailableComponents(app)) = NoComponent}

\* The runtime of a resolution, or NoComponent.
RuntimeOf(comps) ==
    LET runtimes == {c \in comps : TypeOf(c.name) = RUNTIME}
    IN  IF runtimes = {} THEN NoComponent ELSE CHOOSE c \in runtimes : TRUE
ModulesOf(comps) == {c \in comps : TypeOf(c.name) = MODULE_}

\* A marker in the data directory or in the application's own.
IsInstalled(app) == disk.markers \cap {"data", app.place} # {}

NoProc == [app |-> NoApplication, updateFile |-> FALSE, missing |-> {},
           asked |-> {}, resolved |-> {}, code |-> 0]
NoEnv == [bootstrapped |-> FALSE, home |-> "here", runtime |-> NoComponent,
          modules |-> {}, needs |-> {}]
NoLaunch == [args |-> {}, place |-> "here", complete |-> FALSE, idle |-> FALSE]
NoHost == [app |-> {}, runtime |-> NoComponent, loads |-> {}]

Init ==
    /\ setup \in [platform : Platforms, bundled : Bundles]
    /\ \E file \in FilesOf(Manifests) \cup {Absent}, comps \in SUBSET Installable,
          marks \in {{}, {"data"}} :
          disk = [manifest |-> file, update |-> Absent, installed |-> comps,
                  markers |-> marks, installedTo |-> "absent"]
    /\ pc = "off"
    /\ proc = NoProc
    /\ env = NoEnv
    /\ host = NoHost
    /\ launch = NoLaunch
    /\ ghost = [launches |-> 0, foreign |-> 0, startedAt |-> {}]

\* The process is gone, with its memory and its environment.
End(how) ==
    /\ pc' = how
    /\ proc' = NoProc
    /\ env' = NoEnv
    /\ host' = NoHost
    /\ launch' = NoLaunch

\* "return __LINE__", exit and ShowError: the launch is over.
Fail == End("failed")

(***************************************************************************)
(* The boot program                                                        *)
(***************************************************************************)
\* The user starts the application, where it is or where it was installed.
Launch ==
    /\ pc \in {"off", "failed"}
    /\ ghost.launches < MaxLaunches
    /\ pc' = "main"
    /\ \E args \in Arguments, place \in {"here"} \cup (disk.markers \cap Places) :
          launch' = [NoLaunch EXCEPT !.args = args, !.place = place]
    /\ ghost' = [ghost EXCEPT !.launches = @ + 1]
    /\ UNCHANGED <<setup, disk, proc, env, host>>

\* On Linux the second time round is told by the environment.
Main ==
    /\ pc = "main"
    /\ IF setup.platform = "linux" /\ env.bootstrapped
       THEN pc' = "startHost" /\ env' = [env EXCEPT !.bootstrapped = FALSE]
       ELSE pc' = "manifest" /\ UNCHANGED env
    /\ UNCHANGED <<setup, disk, proc, host, launch, ghost>>

ReadManifest ==
    /\ pc = "manifest"
    /\ IF disk.manifest.kind # "ok"
       THEN Fail
       ELSE /\ pc' = "findUpdate"
            /\ proc' = [proc EXCEPT
                  !.app = NewApplication(disk.manifest, launch.place, launch.args)]
            /\ UNCHANGED <<env, host, launch>>
    /\ UNCHANGED <<setup, disk, ghost>>

\* The manifest of the update takes the place of the application's; its
\* version is not looked at.
FindUpdate ==
    /\ pc = "findUpdate"
    /\ pc' = "resolve"
    /\ proc' = IF disk.update.kind = "ok"
               THEN [proc EXCEPT
                       !.app = NewApplication(disk.update, @.place, launch.args),
                       !.updateFile = TRUE]
               ELSE proc
    /\ UNCHANGED <<setup, disk, env, host, launch, ghost>>

\* ResolveDependencies: what was resolved before is forgotten.
Resolve(next) ==
    /\ pc' = next
    /\ proc' = [proc EXCEPT !.missing = Missing(proc.app),
                            !.resolved = Resolved(proc.app)]
    /\ UNCHANGED <<setup, disk, env, host, launch, ghost>>

FirstResolve == pc = "resolve" /\ Resolve("decide")

MustInstall ==
    \/ "force-install" \in proc.app.args
    \/ proc.missing # {}
    \/ ~IsInstalled(proc.app)
    \/ proc.updateFile

Decide ==
    /\ pc = "decide"
    /\ IF MustInstall
       THEN /\ pc' = "installing"
            /\ proc' = [proc EXCEPT !.asked = FilterForSDKInstall(proc.missing)]
            /\ launch' = [launch EXCEPT !.idle = TRUE]
            /\ UNCHANGED <<env, host>>
       ELSE pc' = "check" /\ UNCHANGED <<proc, env, host, launch>>
    /\ UNCHANGED <<setup, disk, ghost>>

\* There is no installer in the application's directory.
NoInstaller ==
    /\ pc = "decide"
    /\ MustInstall
    /\ Fail
    /\ UNCHANGED <<setup, disk, ghost>>

\* The caller of the installer goes on.  On Linux its exit code is lost.  On
\* Win32 an application that is still not installed may have been installed
\* elsewhere: it is read again from there, without its arguments.
InstallerReturned ==
    /\ pc = "returned"
    /\ LET true == pc' = "resolveAgain" /\ UNCHANGED <<proc, env, host, launch>>
           result == IF proc.code = 0 THEN true ELSE Fail
       IN  IF setup.platform = "linux"
           THEN true /\ UNCHANGED disk
           ELSE IF IsInstalled(proc.app)
           THEN result /\ UNCHANGED disk
           ELSE \/ disk.installedTo = "absent" /\ true /\ UNCHANGED disk
                \/ /\ disk.installedTo = "unreadable"
                   /\ Fail
                   /\ disk' = [disk EXCEPT !.installedTo = "absent"]
                \/ disk.installedTo = "broken" /\ Fail /\ UNCHANGED disk
                \/ /\ disk.installedTo = "there"
                   /\ disk' = [disk EXCEPT !.installedTo = "absent"]
                   /\ IF proc.code # 0
                      THEN Fail
                      ELSE /\ pc' = "resolveAgain"
                           /\ proc' = [proc EXCEPT
                                !.app = NewApplication(disk.manifest, "there", {})]
                           /\ UNCHANGED <<env, host, launch>>
    /\ UNCHANGED <<setup, ghost>>

\* The first resolution is taken for good.
SecondResolveMutant ==
    /\ pc = "resolveAgain"
    /\ pc' = "check"
    /\ UNCHANGED <<setup, disk, proc, env, host, launch, ghost>>

SecondResolve == pc = "resolveAgain" /\ Resolve("check")

\* Only the marker is looked at after the installer.
CheckMutant ==
    /\ pc = "check"
    /\ IF ~IsInstalled(proc.app)
       THEN Fail
       ELSE pc' = "export" /\ UNCHANGED <<proc, env, host, launch>>
    /\ UNCHANGED <<setup, disk, ghost>>

Check ==
    /\ pc = "check"
    /\ IF proc.missing # {} \/ ~IsInstalled(proc.app)
       THEN Fail
       ELSE pc' = "export" /\ UNCHANGED <<proc, env, host, launch>>
    /\ UNCHANGED <<setup, disk, ghost>>

\* The environment of the host.  The field "needs" is history.
Exported ==
    [bootstrapped |-> TRUE, home |-> proc.app.place,
     runtime |-> RuntimeOf(proc.resolved), modules |-> ModulesOf(proc.resolved),
     needs |-> proc.app.deps]

\* The flag that tells the second time round is not set.
ExportMutant ==
    /\ pc = "export"
    /\ IF RuntimeOf(proc.resolved) = NoComponent
       THEN Fail
       ELSE /\ env' = [Exported EXCEPT !.bootstrapped = FALSE]
            /\ pc' = "blastoff"
            /\ UNCHANGED <<proc, host, launch>>
    /\ UNCHANGED <<setup, disk, ghost>>

\* A manifest without a runtime ends here, at a null pointer.
Export ==
    /\ pc = "export"
    /\ IF RuntimeOf(proc.resolved) = NoComponent
       THEN Fail
       ELSE env' = Exported /\ pc' = "blastoff" /\ UNCHANGED <<proc, host, launch>>
    /\ UNCHANGED <<setup, disk, ghost>>

\* execv replaces the process: memory is lost, the environment stays.
Blastoff ==
    /\ pc = "blastoff"
    /\ \/ setup.platform = "win32" /\ pc' = "startHost" /\ UNCHANGED proc
       \/ setup.platform = "linux" /\ pc' = "main" /\ proc' = NoProc
    /\ UNCHANGED <<setup, disk, env, host, launch, ghost>>

BlastoffFails ==
    /\ pc = "blastoff"
    /\ setup.platform = "linux"
    /\ Fail
    /\ UNCHANGED <<setup, disk, ghost>>

(***************************************************************************)
(* The host                                                                *)
(***************************************************************************)
\* The application the host itself makes: the manifest at KR_HOME, with the
\* same arguments, never that of an update.
HostApplication == NewApplication(disk.manifest, env.home, launch.args)

\* StartHost finds and loads the runtime's library, and the host sets up its
\* application: it loads the modules of the environment, and tells modules
\* of the components it resolves itself.
StartHost ==
    /\ pc = "startHost"
    /\ disk.manifest.kind = "ok"
    /\ pc' = "host"
    /\ host' = [app |-> Resolved(HostApplication),
                runtime |-> env.runtime, loads |-> env.modules]
    /\ ghost' = [ghost EXCEPT
          !.startedAt = IF ~proc.updateFile /\ disk.update.kind # "ok"
                           /\ env.needs = disk.manifest.deps
                           /\ "override" \notin launch.args
                        THEN @ \cup {env.home} ELSE @]
    /\ UNCHANGED <<setup, disk, proc, env, launch>>

\* The library is not there, cannot be loaded or has no entry point.
StartHostFails ==
    /\ pc = "startHost"
    /\ Fail
    /\ UNCHANGED <<setup, disk, ghost>>

HostEnds ==
    /\ pc = "host"
    /\ End("off")
    /\ UNCHANGED <<setup, disk, ghost>>

(***************************************************************************)
(* Other programs                                                          *)
(***************************************************************************)
Exact(d) == [name |-> d.name, version |-> d.version, root |-> SearchPaths[1]]

\* The installer unpacks one of the dependencies it was asked for, or one
\* that an SDK supplies.
InstallComponent ==
    /\ pc = "installing"
    /\ \E d \in proc.asked \cup
               {e \in proc.missing : proc.asked # proc.missing} :
          /\ Exact(d) \notin disk.installed
          /\ disk' = [disk EXCEPT !.installed = @ \cup {Exact(d)}]
    /\ launch' = [launch EXCEPT !.idle = FALSE]
    /\ UNCHANGED <<setup, pc, proc, env, host, ghost>>

\* It marks the application as installed, or on Win32 installs it elsewhere.
InstallApplication ==
    /\ pc = "installing"
    /\ ~IsInstalled(proc.app)
    /\ \/ \E m \in {"data", proc.app.place} :
             disk' = [disk EXCEPT !.markers = @ \cup {m}]
       \/ /\ setup.platform = "win32"
          /\ disk.installedTo = "absent"
          /\ \E file \in {"unreadable", "broken", "there"} :
                disk' = [disk EXCEPT
                  !.installedTo = file,
                  !.markers = IF file = "there" THEN @ \cup {"there"} ELSE @]
    /\ launch' = [launch EXCEPT !.idle = FALSE]
    /\ UNCHANGED <<setup, pc, proc, env, host, ghost>>

\* It makes the update the application.
InstallUpdate ==
    /\ pc = "installing"
    /\ proc.updateFile
    /\ disk.update.kind = "ok"
    /\ disk' = [disk EXCEPT !.manifest = disk.update, !.update = Absent]
    /\ launch' = [launch EXCEPT !.idle = FALSE]
    /\ ghost' = [ghost EXCEPT !.startedAt = {}]
    /\ UNCHANGED <<setup, pc, proc, env, host>>

\* It has done everything it was asked for.
InstallerDone ==
    /\ \A d \in proc.asked : Exact(d) \in disk.installed
    /\ IsInstalled(proc.app) \/ disk.installedTo = "there"
    /\ disk.update.kind # "ok" \/ ~proc.updateFile

\* It ends, also when the user cancelled or something failed.
InstallerExits ==
    /\ pc = "installing"
    /\ pc' = "returned"
    /\ \E code \in IF InstallerDone THEN {0} ELSE {0, 1} :
          proc' = [proc EXCEPT !.code = code]
    /\ launch' = [launch EXCEPT !.complete = InstallerDone]
    /\ UNCHANGED <<setup, disk, env, host, ghost>>

\* The installer of another application adds a component.
ForeignInstall ==
    /\ ghost.foreign < MaxForeign
    /\ \E c \in Installable \ disk.installed :
          disk' = [disk EXCEPT !.installed = @ \cup {c}]
    /\ ghost' = [ghost EXCEPT !.foreign = @ + 1]
    /\ UNCHANGED <<setup, pc, proc, env, host, launch>>

\* The update service, a module, leaves the manifest of an update.
UpdateArrives ==
    /\ pc = "host"
    /\ disk.update = Absent
    /\ \E file \in FilesOf(Updates) :
          disk' = [disk EXCEPT !.update = file]
    /\ UNCHANGED <<setup, pc, proc, env, host, launch, ghost>>

\* The process is killed, or the machine stops.
Killed ==
    /\ pc \notin {"off", "failed", "host"}
    /\ End("off")
    /\ UNCHANGED <<setup, disk, ghost>>

Installer == InstallComponent \/ InstallApplication \/ InstallUpdate
             \/ InstallerExits

Boot == Main \/ ReadManifest \/ FindUpdate \/ FirstResolve \/ Decide
        \/ NoInstaller \/ InstallerReturned \/ SecondResolve \/ Check \/ Export
        \/ Blastoff \/ BlastoffFails \/ StartHost \/ StartHostFails

Next == Launch \/ Boot \/ Installer \/ HostEnds \/ UpdateArrives
        \/ ForeignInstall \/ Killed

Spec == Init /\ [][Next]_vars

\* The boot program takes its steps and the installer, a program with a
\* bounded amount of work, ends.  Nothing makes the user launch anything.
FairSpec == Spec /\ WF_vars(Boot) /\ WF_vars(InstallerExits)

(***************************************************************************)
(* Properties                                                              *)
(***************************************************************************)
IsComponent(c) ==
    /\ DOMAIN c = {"name", "version", "root"}
    /\ c.root \in BundleRoots \cup Roots
AreDependencies(deps) == \A d \in deps : d.requirement \in Requirements
IsApplication(app) ==
    /\ app.place \in Places
    /\ app.args \subseteq {"force-install", "override"}
    /\ AreDependencies(app.deps)

\* Types of the disk, the process, the environment and the host; every list
\* of components holds components only, none of them null.
TypeOK ==
    /\ disk.manifest.kind \in {"absent", "unreadable", "ok"}
    /\ disk.update.kind \in {"absent", "unreadable", "ok"}
    /\ disk.markers \subseteq {"data"} \cup Places
    /\ disk.installedTo \in {"absent", "unreadable", "broken", "there"}
    /\ pc \in {"off", "main", "manifest", "findUpdate", "resolve", "decide",
              "installing", "returned", "resolveAgain", "check", "export",
              "blastoff", "startHost", "host", "failed"}
    /\ IsApplication(proc.app)
    /\ AreDependencies(proc.missing)
    /\ proc.asked \subseteq proc.app.deps \/ proc.app.place = "there"
    /\ \A c \in disk.installed \cup proc.resolved \cup env.modules
             \cup host.app \cup host.loads : IsComponent(c)

\* The components that exist.
OnDisk(c) ==
    \/ c \in disk.installed
    \/ \E root \in BundleRoots : c \in BundledComponents(root)

SDKsOnDisk ==
    {c \in disk.installed \cup UNION {BundledComponents(root) : root \in BundleRoots} :
        TypeOf(c.name) \in {SDK, MOBILESDK}}

\* Whatever happened on the way - a partial installation, a second process,
\* components that other applications installed - a host that runs has a
\* runtime, and every dependency of the manifest it was booted for is met by
\* the runtime, by a module it loads or by an SDK on disk (Bootstrap,
\* boot.cpp:106-145).
HostHasItsDependencies ==
    pc = "host" =>
        /\ host.runtime # NoComponent
        /\ \A d \in env.needs :
              \E c \in {host.runtime} \cup host.loads \cup SDKsOnDisk :
                 c.name = d.name /\ Fits(c, d) /\ OnDisk(c)

\* An installer that did all it was asked for is enough: the same launch goes
\* on to the host (boot.cpp:115-129).  Not so for what cannot be met by
\* installing the version a dependency names (GT, LT and the LTE that nothing
\* meets), when SDKs were installed in place of the rest, and when only
\* overriding components count.
InstallSuffices ==
    [][ /\ pc \in {"returned", "check"}
        /\ pc' = "failed"
        /\ launch.complete
        => \/ "override" \in launch.args
           \/ \E d \in proc.app.deps :
                 \/ d.requirement \notin {"EQ", "GTE"}
                 \/ TypeOf(d.name) \in {SDK, MOBILESDK} ]_vars

\* An application that has run once starts again without an installer, also
\* after other applications have installed newer versions of what it needs,
\* unless there is an update or the user asks for it (boot.cpp:106-115 with
\* Application::ResolveDependency).
InstalledStaysInstalled ==
    pc = "installing" /\ proc.app.place \in ghost.startedAt
        => \/ proc.updateFile
           \/ proc.app.args # {}

\* WeakCompareComponents orders versions strictly, and not being ordered is
\* transitive.
VersionsWeaklyOrdered ==
    \A u, v, w \in SampleVersions :
        LET before(x, y) ==
                WeakCompareComponents([version |-> x], [version |-> y])
            same(x, y) == ~before(x, y) /\ ~before(y, x)
        IN  /\ ~(before(u, v) /\ before(v, u))
            /\ before(u, v) /\ before(v, w) => before(u, w)
            /\ same(u, v) /\ same(v, w) => same(u, w)

\* Components that are sorted are sorted by a strict weak order: without one
\* std::stable_sort may do anything (boot_utils.cpp:62-65, 233-236).
SortIsWellDefined == pc = "resolve" => VersionsWeaklyOrdered

\* Every launch comes to an end: the host runs or there is an error; the boot
\* program does not start itself over and over (boot_linux.cpp:237-245).
LaunchEnds == pc = "main" ~> pc \in {"host", "failed", "off"}

\* boot.cpp:123-128 says that after a cancelled update "we just want to start
\* the application as usual": a launch that fails there, with an installer
\* that did nothing, fails because the application itself is incomplete.
CancelledUpdateStartsApplication ==
    [][ /\ pc = "check"
        /\ pc' = "failed"
        /\ proc.updateFile
        /\ launch.idle
        => LET own == NewApplication(disk.manifest, launch.place, launch.args)
           IN  Missing(own) # {} \/ ~IsInstalled(own) ]_vars

=============================================================================
