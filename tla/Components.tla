----------------------------- MODULE Components -----------------------------
(***************************************************************************)
(* Which component a dependency of an application resolves to               *)
(* (api/utils/boot_utils.cpp, Application::ResolveDependency).              *)
(*                                                                         *)
(* A version is a sequence of tokens ("1.10" has two), a token a sequence   *)
(* of characters, so that the comparison of tokens is the one of            *)
(* std::string.  A component is a directory: its root, name and version;    *)
(* a bundled one lies in the application and has the empty version.  The    *)
(* program keeps components in a vector and takes the first that fits;      *)
(* here Precedes says which of two is nearer to the front of that vector.   *)
(***************************************************************************)
EXTENDS Integers, Sequences, FiniteSets

CONSTANTS
    SearchPaths,   \* GetComponentSearchPaths: roots of installed components
    Installable    \* the components that may get installed in them

RUNTIME == "runtime"
SDK == "sdk"
MOBILESDK == "mobilesdk"
MODULE_ == "module"
Requirements == {"EQ", "GT", "LT", "GTE", "LTE"}
Versions == Seq(Seq(Nat))
Dependencies == [name : STRING, version : Versions, requirement : Requirements]

\* Roots of bundled components: where the application is, where an installer
\* may put it, and the directory of --bundled-component-override.
Places == {"here", "there"}
BundleRoots == Places \cup {"override"}

Roots == {SearchPaths[i] : i \in DOMAIN SearchPaths}

ASSUME ComponentsAssumption ==
    /\ SearchPaths \in Seq(STRING)
    /\ SearchPaths # <<>>
    /\ Roots \cap (BundleRoots \cup {"none"}) = {}
    /\ Installable \subseteq [name : STRING, version : Versions, root : Roots]
    /\ IsFiniteSet(Installable)

NoComponent == [name |-> "none", version |-> <<>>, root |-> "none"]

\* The key of a manifest line is the name of the dependency and, for three
\* keys, its type; a directory scan gives a component the same names.
TypeOf(name) == IF name \in {RUNTIME, SDK, MOBILESDK} THEN name ELSE MODULE_

(***************************************************************************)
(* Versions                                                                *)
(***************************************************************************)
\* std::string::compare of two tokens.
TokenBefore(one, two) ==
    \/ \E i \in DOMAIN one \cap DOMAIN two :
          one[i] < two[i] /\ \A k \in 1..(i - 1) : one[k] = two[k]
    \/ Len(one) < Len(two) /\ \A k \in DOMAIN one : one[k] = two[k]

\* The first token that differs decides; without one the shorter version,
\* and so the empty one, is smaller.
VersionBefore(one, two) ==
    \/ \E i \in DOMAIN one \cap DOMAIN two :
          TokenBefore(one[i], two[i]) /\ \A k \in 1..(i - 1) : one[k] = two[k]
    \/ Len(one) < Len(two) /\ \A k \in DOMAIN one : one[k] = two[k]

\* Versions compared as far as both go.
CompareVersionsMutant(one, two) ==
    IF \E i \in DOMAIN one \cap DOMAIN two :
          TokenBefore(one[i], two[i]) /\ \A k \in 1..(i - 1) : one[k] = two[k]
    THEN -1
    ELSE IF \E i \in DOMAIN one \cap DOMAIN two :
          TokenBefore(two[i], one[i]) /\ \A k \in 1..(i - 1) : one[k] = two[k]
    THEN 1 ELSE 0

CompareVersions(one, two) ==
    IF VersionBefore(one, two) THEN -1
    ELSE IF VersionBefore(two, one) THEN 1 ELSE 0

WeakCompareComponents(c, d) == CompareVersions(c.version, d.version) > 0

(***************************************************************************)
(* Resolution                                                              *)
(***************************************************************************)
Bundled(c) == c.root \in BundleRoots

\* The position of a root on the search path; a root listed twice is scanned
\* once, since AddToComponentVector drops what it has seen.
PathRank(root) ==
    CHOOSE i \in DOMAIN SearchPaths :
        /\ SearchPaths[i] = root
        /\ \A k \in 1..(i - 1) : SearchPaths[k] # root

\* Bundled components come first; the others are sorted by version, newest
\* first, by a stable sort that keeps the order of the search path.
Precedes(c, d) ==
    \/ Bundled(c) /\ ~Bundled(d)
    \/ /\ ~Bundled(c) /\ ~Bundled(d)
       /\ \/ WeakCompareComponents(c, d)
          \/ /\ ~WeakCompareComponents(d, c)
             /\ PathRank(c.root) < PathRank(d.root)

\* A component of the right name that the loop of ResolveDependency returns.
\* There is no case for LTE, although manifest lines with "<=" are read.
Fits(c, dep) ==
    LET compare == CompareVersions(c.version, dep.version)
    IN  \/ Bundled(c)
        \/ dep.requirement = "EQ" /\ compare = 0
        \/ dep.requirement = "GTE" /\ compare >= 0
        \/ dep.requirement = "GT" /\ compare > 0
        \/ dep.requirement = "LT" /\ compare < 0

First(comps) ==
    IF comps = {} THEN NoComponent
    ELSE CHOOSE c \in comps : \A d \in comps \ {c} : Precedes(c, d)

\* Gives up when the first component of that name does not fit.
ResolveDependencyMutant(dep, components) ==
    LET first == First({c \in components : c.name = dep.name})
    IN  IF first # NoComponent /\ Fits(first, dep) THEN first ELSE NoComponent

ResolveDependency(dep, components) ==
    First({c \in components : c.name = dep.name /\ Fits(c, dep)})

\* If an SDK is missing only SDKs are asked for: "we assume that they also
\* supply our other dependencies".
FilterForSDKInstall(deps) ==
    LET justSDKs == {d \in deps : TypeOf(d.name) \in {SDK, MOBILESDK}}
    IN  IF justSDKs # {} THEN justSDKs ELSE deps

=============================================================================
