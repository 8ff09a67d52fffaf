---------------------------- MODULE MCBootstrap ----------------------------
(* Bootstrap for TLC.  Versions "9" and "10" - as strings, "10" is the
   smaller - and manifests with each requirement, with an SDK and without a
   runtime. *)
EXTENDS Bootstrap

Nine == <<<<9>>>>
Ten == <<<<1, 0>>>>

Component(name, version, root) == [name |-> name, version |-> version, root |-> root]
Dep(name, requirement, version) ==
    [name |-> name, version |-> version, requirement |-> requirement]

MCSearchPaths == <<"home", "system">>
MCInstallable == {Component("runtime", Nine, "home"),
                  Component("ui", Nine, "home"), Component("ui", Ten, "system")}
MCUpdates == {{Dep("runtime", "EQ", Ten), Dep("ui", "GTE", Nine)}}
MCManifests ==
    MCUpdates \cup
    {{Dep("runtime", "GT", Ten), Dep("ui", "LT", Nine)},
     {Dep("runtime", "GTE", Nine), Dep("sdk", "EQ", Nine), Dep("ui", "EQ", Nine)},
     {Dep("ui", "LTE", Nine)}}
MCBundles == {{}, {"runtime"}}
MCPlatforms == {"linux", "win32"}
MCArguments == {{}, {"force-install"}, {"override"}}

Tokens == {<<9>>, <<1, 0>>, <<1>>}
MCSampleVersions == {<<>>} \cup UNION {[1..n -> Tokens] : n \in 1..2}
=============================================================================
