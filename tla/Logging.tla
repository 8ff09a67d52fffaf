------------------------------ MODULE Logging -------------------------------
(***************************************************************************)
(* api/logger.cpp.  A logger has a level, copied once from its parent, that *)
(* filters what is logged through it; everything that passes goes to the    *)
(* root logger, which writes it to the log file and the console and hands   *)
(* it to the callbacks, under a recursive mutex.  Any thread logs, and a    *)
(* callback may log too.                                                    *)
(*                                                                         *)
(* Loggers are got on the main thread, as the map of them has no lock, and  *)
(* the file is enabled; Format's own mutex protects a buffer in one step.   *)
(***************************************************************************)
EXTENDS Naturals, Sequences, SequencesExt

CONSTANTS LogThreads, NoThread,
          Loggers, RootLogger, ParentLogger,  \* names, and the part before the last period
          LoggerCallbacks,
          Levels,                             \* numbers, the most severe first
          MaxEntries,                         \* bound on what is logged
          MaxSinks                            \* bound on the callbacks that are added

ASSUME LoggingAssumption ==
    /\ NoThread \notin LogThreads
    /\ RootLogger \in Loggers
    /\ ParentLogger \in [Loggers \ {RootLogger} -> Loggers]
    /\ Levels \subseteq Nat \ {0}
    /\ MaxEntries \in Nat
    /\ MaxSinks \in Nat

VARIABLES
    level,      \* of each logger; 0 when there is no such logger
    sinks,      \* RootLogger::callbacks
    rootMutex,  \* the thread that has RootLogger::mutex
    entries,    \* each thread's calls of LogImpl, innermost last
    file,       \* the log file
    received,   \* what each of the sinks was given
    skipped,     \* the entries each of them is not given (history)
    logged,     \* how much was logged
    down        \* Logger::Shutdown was called

logVars == <<level, sinks, rootMutex, entries, file, received, skipped, logged, down>>

LoggingInit ==
    /\ \E l \in Levels : level = [n \in Loggers |-> IF n = RootLogger THEN l ELSE 0]
    /\ sinks = <<>>
    /\ rootMutex = NoThread
    /\ entries = [t \in LogThreads |-> <<>>]
    /\ file = <<>>
    /\ received = <<>>
    /\ skipped = <<>>
    /\ logged = 0
    /\ down = FALSE

Ancestors[n \in Loggers] ==
    IF n = RootLogger THEN {n} ELSE {n} \cup Ancestors[ParentLogger[n]]

\* The level that GetParent, making the ancestors that are missing, passes on.
InheritedLevel[n \in Loggers] ==
    IF level[n] # 0 THEN level[n] ELSE InheritedLevel[ParentLogger[n]]

\* Get, GetChild: GetImpl makes the logger and its missing ancestors.
GetImpl(n) ==
    /\ level[n] = 0
    /\ level' = [m \in Loggers |-> IF m \in Ancestors[n] THEN InheritedLevel[m] ELSE level[m]]
    /\ UNCHANGED <<sinks, rootMutex, entries, file, received, skipped, logged, down>>

SetLevel(n, l) ==
    /\ level[n] \notin {0, l}
    /\ level' = [level EXCEPT ![n] = l]
    /\ UNCHANGED <<sinks, rootMutex, entries, file, received, skipped, logged, down>>

Call(t) == entries[t][Len(entries[t])]

\* A thread outside LogImpl, or inside a callback that it was just called for.
MayCall(t) == IF entries[t] = <<>> THEN TRUE ELSE Call(t).at > 1

\* Log, when the level of the logger lets the message pass.
Log(t, n, l) ==
    /\ logged < MaxEntries
    /\ MayCall(t)
    /\ l <= level[n]
    /\ logged' = logged + 1
    /\ entries' = [entries EXCEPT ![t] = Append(@, [id |-> logged + 1, at |-> 0, locked |-> FALSE,
                                                    nested |-> entries[t] # <<>>])]
    /\ UNCHANGED <<level, sinks, rootMutex, file, received, skipped, down>>

Lockable(t) == rootMutex \in {NoThread, t}

EnterLogImplMutant(t) ==  \* no ScopedLock in LogImpl
    /\ entries[t] # <<>> /\ ~Call(t).locked
    /\ entries' = [entries EXCEPT ![t][Len(entries[t])].locked = TRUE]
    /\ UNCHANGED <<level, sinks, rootMutex, file, received, skipped, logged, down>>

\* LogImpl waits for the mutex ...
EnterLogImpl(t) ==
    /\ entries[t] # <<>> /\ ~Call(t).locked
    /\ Lockable(t)
    /\ rootMutex' = t
    /\ entries' = [entries EXCEPT ![t][Len(entries[t])].locked = TRUE]
    /\ UNCHANGED <<level, sinks, file, received, skipped, logged, down>>

\* ... writes the line to the file and the console ...
WriteLine(t) ==
    /\ entries[t] # <<>> /\ Call(t).locked /\ Call(t).at = 0
    /\ file' = Append(file, [id |-> Call(t).id, nested |-> Call(t).nested])
    /\ entries' = [entries EXCEPT ![t][Len(entries[t])].at = 1]
    /\ UNCHANGED <<level, sinks, rootMutex, received, skipped, logged, down>>

\* ... gives it to each callback, those that callbacks add included ...
CallBack(t) ==
    /\ entries[t] # <<>> /\ Call(t).at \in 1..Len(sinks)
    /\ received' = [received EXCEPT ![Call(t).at] =
                      Append(@, [id |-> Call(t).id, nested |-> Call(t).nested])]
    /\ entries' = [entries EXCEPT ![t][Len(entries[t])].at = @ + 1]
    /\ UNCHANGED <<level, sinks, rootMutex, file, skipped, logged, down>>

\* ... and lets go of the mutex, unless this call came from a callback.
LeaveLogImpl(t) ==
    /\ entries[t] # <<>> /\ Call(t).at > Len(sinks)
    /\ rootMutex' = IF Len(entries[t]) = 1 THEN NoThread ELSE rootMutex
    /\ entries' = [entries EXCEPT ![t] = Front(@)]
    /\ UNCHANGED <<level, sinks, file, received, skipped, logged, down>>

\* The lines at the positions that are not in gone.
Kept(log, gone) ==
    LET kept[i \in 0..Len(log)] ==
          IF i = 0 THEN <<>>
          ELSE IF i \in gone THEN kept[i - 1] ELSE Append(kept[i - 1], log[i])
    IN  kept[Len(log)]

\* What was logged outside the callbacks.
Outer(log) == Kept(log, {i \in DOMAIN log : log[i].nested})

\* A callback throws, at once or after it has logged.  Nothing in LogImpl catches
\* that: the loop is left and the lock released, and so are the calls around it,
\* up to the callback that catches it, or up to whoever logged the outermost
\* entry, which then never reaches the remaining callbacks.
CallBackThrows(t, d) ==
    /\ entries[t] # <<>> /\ Call(t).at > 1
    /\ d \in 0..Len(entries[t]) - 1
    /\ entries' = [entries EXCEPT ![t] = SubSeq(@, 1, d)]
    /\ rootMutex' = IF d = 0 THEN NoThread ELSE rootMutex
    /\ skipped' = [i \in DOMAIN skipped |->
                    IF d = 0 /\ i >= entries[t][1].at
                      THEN skipped[i] \cup {Len(Outer(file))} ELSE skipped[i]]
    /\ UNCHANGED <<level, sinks, file, received, logged, down>>

\* AddLoggerCallback, under the same mutex; nothing keeps a callback from being
\* added twice.  The entries before are not for it, except the one that is being
\* handed out when a callback adds it.
AddLoggerCallback(t, c) ==
    /\ Len(sinks) < MaxSinks
    /\ MayCall(t)
    /\ Lockable(t)
    /\ sinks' = Append(sinks, c)
    /\ received' = Append(received, <<>>)
    /\ skipped' = Append(skipped, 1..(IF entries[t] = <<>> THEN Len(Outer(file))
                                                       ELSE Len(Outer(file)) - 1))
    /\ UNCHANGED <<level, rootMutex, entries, file, logged, down>>

\* Host::Shutdown's last step deletes the loggers, whatever other threads do;
\* what they log from then on goes to a deleted root logger.
LoggerShutdown ==
    /\ down' = TRUE
    /\ UNCHANGED <<level, sinks, rootMutex, entries, file, received, skipped, logged>>

LoggingNext ==
    /\ ~down
    /\ \/ \E n \in Loggers : GetImpl(n)
       \/ \E n \in Loggers, l \in Levels : SetLevel(n, l)
       \/ \E t \in LogThreads, n \in Loggers, l \in Levels : Log(t, n, l)
       \/ \E t \in LogThreads :
            \/ EnterLogImpl(t) \/ WriteLine(t) \/ CallBack(t) \/ LeaveLogImpl(t)
            \/ \E d \in 0..Len(entries[t]) : CallBackThrows(t, d)
       \/ \E t \in LogThreads, c \in LoggerCallbacks : AddLoggerCallback(t, c)
       \/ LoggerShutdown

LoggingSpec == LoggingInit /\ [][LoggingNext]_logVars

(***************************************************************************)
(* Properties                                                               *)
(***************************************************************************)

LoggingTypeOK ==
    /\ level \in [Loggers -> Levels \cup {0}]
    /\ sinks \in Seq(LoggerCallbacks)
    /\ rootMutex \in LogThreads \cup {NoThread}
    /\ logged \in 0..MaxEntries
    /\ down \in BOOLEAN

\* What threads log reaches the file and every callback in one order: however
\* often a callback was added, it has been given, each time, the entries of the
\* file from the moment it was added, each of them once (LogImpl's loop under the
\* mutex that AddLoggerCallback takes).  What it is not given is what was logged
\* before, and an entry for which a callback before it threw: skipped says which.
\* What a callback logs itself is apart, as the callbacks after it get that
\* before the entry it was called for.
CallbacksFollowTheFile ==
    (\A t \in LogThreads : \A i \in DOMAIN entries[t] : entries[t][i].at = 0) =>
       \A i \in DOMAIN sinks : Outer(received[i]) = Kept(Outer(file), skipped[i])
=============================================================================
