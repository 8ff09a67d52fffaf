------------------------------- MODULE MCParts -------------------------------
(***************************************************************************)
(* The parts that share no state with each other, checked in one run: each  *)
(* behaviour is a behaviour of one of them, the others staying as they      *)
(* begin.                                                                   *)
(***************************************************************************)
EXTENDS AsyncJobs, MCObjects, BoundLists, LanguageBridges, Scripts, Logging, TLC

CONSTANTS n1, n2, c1, c2, c3, g1, g2,
          root, module, child,
          window1,
          MaxAdded,   \* bound: callbacks on one job
          MaxThrown,  \* bound: callbacks of jobs that throw
          MaxEvents   \* bound: scripts begun or failed

VARIABLES part,
          events  \* the scripts begun or failed so far

\* Two contexts of one group, and one of another.
ContextOfNative == n1 :> c1 @@ n2 :> c3
GroupOfContext == c1 :> g1 @@ c2 :> g1 @@ c3 :> g2

LoggerTree == module :> root @@ child :> module

Added(j) == callbacks[j]["progress"] + callbacks[j]["completed"] + callbacks[j]["error"]

ThreadSymmetry == Permutations(Threads)

\* Of a part that does not run, one initial state will do.  The scripts begin
\* with the property in one window and not in the other.  One of the bridges' two
\* script objects is a method, which alone keeps code alive in its context, and
\* the other is none; in JavaScript it is an object, because a list is protected
\* as a method is.
PartsInit ==
    /\ part \in {"jobs", "installer", "objects", "lists", "bridges", "scripts", "logging"}
    /\ AsyncJobsInit /\ BoundObjectsInit /\ BoundListsInit
    /\ ScriptsInit
    /\ property = [w \in Windows |-> IF w = window1 THEN 1 ELSE 0]
    /\ LanguageBridgesInit
    /\ class[n1] # "method" /\ class[n2] = "method"
    /\ bridge = "js" => class[n1] = "object"
    /\ part # "bridges" => bridge = "js"
    /\ LoggingInit
    /\ part # "logging" => level[root] = 1
    /\ events = 0

\* Scripts begin when all three evaluators are there: with fewer, fewer can begin.
PartsNext ==
    /\ UNCHANGED part
    /\ \/ /\ part \in {"jobs", "installer"}
          /\ \/ part = "jobs" /\ JobStep /\ \A j \in AsyncJobs : Added(j)' <= MaxAdded
             \/ part = "installer" /\ InstallStep
             \/ ServeStep /\ Cardinality(threw') <= MaxThrown
          /\ UNCHANGED <<objectVars, listVars, bridgeVars, scriptVars, logVars, events>>
       \/ /\ part = "objects"
          /\ BoundObjectsNext
          /\ UNCHANGED <<asyncVars, listVars, bridgeVars, scriptVars, logVars, events>>
       \/ /\ part = "lists"
          /\ BoundListsNext
          /\ UNCHANGED <<asyncVars, objectVars, bridgeVars, scriptVars, logVars, events>>
       \/ /\ part = "bridges"
          /\ LanguageBridgesNext
          /\ UNCHANGED <<asyncVars, objectVars, listVars, scriptVars, logVars, events>>
       \/ /\ part = "scripts"
          /\ ~exited
          /\ \/ /\ ScriptBegins \/ ScriptFails
                /\ evaluators = ScriptLanguages
                /\ events < MaxEvents
                /\ events' = events + 1
             \/ ScriptRuns /\ UNCHANGED events
          /\ UNCHANGED <<asyncVars, objectVars, listVars, bridgeVars, logVars>>
       \/ /\ part = "logging"
          /\ LoggingNext
          /\ UNCHANGED <<asyncVars, objectVars, listVars, bridgeVars, scriptVars, events>>

PartsSpec ==
    PartsInit /\ [][PartsNext]_<<part, asyncVars, objectVars, listVars, bridgeVars,
                                  scriptVars, logVars, events>>

\* The parts' variables have their types (the declarations of the classes the
\* modules name).
PartsTypeOK ==
    /\ AsyncJobsTypeOK /\ BoundObjectsTypeOK /\ BoundListsTypeOK
    /\ LanguageBridgesTypeOK /\ ScriptsTypeOK /\ LoggingTypeOK
=============================================================================
