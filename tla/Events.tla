------------------------------- MODULE Events -------------------------------
(***************************************************************************)
(* KEventObject, EventListener and Event: listeners are added to and        *)
(* removed from objects, and events are fired, by code on any thread, while *)
(* callbacks - which may do all of that again - run on the main thread      *)
(* (api/binding/k_event_object.cpp, event.cpp; modules/api/api_binding.cpp, *)
(* fireEvent).                                                              *)
(*                                                                         *)
(* A call of InvokeMethodOnMainThread is taken at its word, as in           *)
(* MainThreadCalls: on the main thread it runs inside its caller, from any  *)
(* other thread it runs when the main thread is idle and the caller waits.  *)
(***************************************************************************)
EXTENDS Naturals, Sequences, FiniteSets, Vectors

CONSTANTS Workers, Main, NoThread,
          Objects,    \* KEventObjects ...
          Root,       \* ... and the one every event goes to in the end
          Listeners,  \* the listeners that are ever allocated (a bound)
          NoListener, \* the listener id 0
          Callbacks, NoCallback,
          Names,      \* event names
          All,        \* Event::ALL
          Events,     \* the events that are ever fired (a bound)
          NoEvent,
          EventName,         \* the name each listener or event is made with
          ListenerCallback,  \* the callback each listener is made with
          MaxDepth    \* bound: nested calls on one thread

ASSUME EventsAssumption ==
    /\ Main \notin Workers
    /\ NoThread \notin Workers \cup {Main}
    /\ Root \in Objects
    /\ NoListener \notin Listeners
    /\ NoCallback \notin Callbacks
    /\ All \notin Names
    /\ NoEvent \notin Events
    /\ \A l \in Listeners :
          EventName[l] \in Names \cup {All} /\ ListenerCallback[l] \in Callbacks
    /\ \A e \in Events : EventName[e] \in Names
    /\ MaxDepth \in Nat

VARIABLES
    listenerMap,  \* the listeners of each object, in order
    holder,       \* the thread in listenerMapMutex
    alive,        \* each listener: "none" (not allocated), "live", "deleted"
    event,        \* the two flags of each event
    stack,        \* each thread's active calls, innermost first
    due,          \* history: the listeners an event was meant for when fired
    called,       \* history: the listeners called with an event so far
    refired,      \* history: events that a callback fired once more
    answer        \* history: what FireEvent returned for an event

vars == <<listenerMap, holder, alive, event, stack, due, called,
          refired, answer>>
listenerVars == <<listenerMap, alive>>
history == <<due, called, refired, answer>>

Threads == Workers \cup {Main}

\* A call: FireEvent of event ev on obj, for the rest of its copy of the list;
\* a callback run for a thread that fires ev; or a change of listeners.
FireFrame(e, o) ==
    [fn |-> "FireEvent", at |-> "lock", ev |-> e, obj |-> o, rest |-> <<>>,
     caller |-> NoThread]
CallbackFrame(e, t) ==
    [fn |-> "callback", at |-> "run", ev |-> e, obj |-> Root, rest |-> <<>>,
     caller |-> t]
ModifyFrame ==
    [fn |-> "modify", at |-> "lock", ev |-> NoEvent, obj |-> Root, rest |-> <<>>,
     caller |-> NoThread]

Top(t) == Head(stack[t])
At(t, fn, at) == stack[t] # <<>> /\ Top(t).fn = fn /\ Top(t).at = at
Push(t, f) == stack' = [stack EXCEPT ![t] = <<f>> \o @]
Pop(t) == stack' = [stack EXCEPT ![t] = Tail(@)]
Goto(t, at) == stack' = [stack EXCEPT ![t][1].at = at]

\* Code that may call into event objects: a callback, or whatever else the
\* thread does outside them.
InUserCode(t) == stack[t] # <<>> => Top(t).fn = "callback"

Init ==
    /\ listenerMap = [o \in Objects |-> <<>>]
    /\ holder = NoThread
    /\ alive = [l \in Listeners |-> "none"]
    /\ event = [e \in Events |-> [stopped |-> FALSE, preventedDefault |-> FALSE]]
    /\ stack = [t \in Threads |-> <<>>]
    /\ due = [e \in Events |-> {}]
    /\ called = [e \in Events |-> {}]
    /\ refired = {}
    /\ answer = [e \in Events |-> "unfired"]

-----------------------------------------------------------------------------
(* Adding and removing listeners.                                           *)

\* Poco::Mutex: free, or already held by the thread that asks for it.
LockFree(t) == holder \in {NoThread, t}

\* A thread calls AddEventListener or RemoveEventListener and takes the mutex
\* when it is free: nothing but the copy in FireEvent holds it for longer.
BeginModify(t) ==
    /\ InUserCode(t)
    /\ Len(stack[t]) < MaxDepth
    /\ Push(t, ModifyFrame)
    /\ UNCHANGED <<listenerVars, holder, event, history>>

\* Also AddEventListenerForAllEvents (EventName[l] = All).
AddEventListener(t, o, l) ==
    /\ At(t, "modify", "lock")
    /\ LockFree(t)
    /\ alive[l] = "none"
    /\ alive' = [alive EXCEPT ![l] = "live"]
    /\ listenerMap' = [listenerMap EXCEPT ![o] = Append(@, l)]
    /\ Pop(t)
    /\ UNCHANGED <<holder, event, history>>

\* EventListener::Matches.  The name is compared with itself.
Matches(l, name, id, callback) ==
    /\ name = name
    /\ \/ callback = NoCallback /\ id = NoListener
       \/ callback # NoCallback /\ callback = ListenerCallback[l]
       \/ id # NoListener /\ id = l

\* Mutant: the listener is taken from the list but not deleted.
RemoveEventListenerMutant(t, o, name, id, callback) ==
    /\ At(t, "modify", "lock")
    /\ LockFree(t)
    /\ listenerMap' = [listenerMap EXCEPT ![o] =
                         SelectSeq(@, LAMBDA l : ~ Matches(l, name, id, callback))]
    /\ Pop(t)
    /\ UNCHANGED <<alive, holder, event, history>>

RemoveEventListener(t, o, name, id, callback) ==
    /\ At(t, "modify", "lock")
    /\ LockFree(t)
    /\ LET gone == {l \in Elems(listenerMap[o]) : Matches(l, name, id, callback)}
       IN  /\ listenerMap' = [listenerMap EXCEPT
                                ![o] = Without(@, gone)]
           /\ alive' = [l \in Listeners |-> IF l \in gone THEN "deleted" ELSE alive[l]]
    /\ Pop(t)
    /\ UNCHANGED <<holder, event, history>>

-----------------------------------------------------------------------------
(* FireEvent.                                                               *)

\* EventListener::FireEventIfMatches: is this listener's callback called?
Hears(l, e) == EventName[l] \in {EventName[e], All}

\* FireEvent(name) makes the event.
FireEvent(t, o, e) ==
    /\ InUserCode(t)
    /\ Len(stack[t]) < MaxDepth
    /\ answer[e] = "unfired"
    /\ answer' = [answer EXCEPT ![e] = "none"]
    /\ due' = [due EXCEPT ![e] =
                 {l \in Elems(listenerMap[o]) \cup Elems(listenerMap[Root]) : Hears(l, e)}]
    /\ Push(t, FireFrame(e, o))
    /\ UNCHANGED <<listenerVars, holder, event, called, refired>>

\* A callback passes its event to API.fireEvent.
RefireEvent ==
    /\ At(Main, "callback", "run")
    /\ Len(stack[Main]) < MaxDepth
    /\ refired = {}     \* bound: once
    /\ refired' = refired \cup {Top(Main).ev}
    /\ Push(Main, FireFrame(Top(Main).ev, Root))
    /\ UNCHANGED <<listenerVars, holder, event, due, called, answer>>

\* Take the mutex, copy the list, let the mutex go.
FireLock(t) ==
    /\ At(t, "FireEvent", "lock")
    /\ LockFree(t)
    /\ holder' = t
    /\ Goto(t, "copy")
    /\ UNCHANGED <<listenerVars, event, history>>

\* Mutants: the loop runs one place too far; the mutex is held on.
FireCopyFarMutant(t) ==
    /\ At(t, "FireEvent", "copy")
    /\ holder' = NoThread
    /\ stack' = [stack EXCEPT ![t][1].rest = Append(listenerMap[Top(t).obj], NoListener),
                              ![t][1].at = "loop"]
    /\ UNCHANGED <<listenerVars, event, history>>

FireCopyLockedMutant(t) ==
    /\ At(t, "FireEvent", "copy")
    /\ stack' = [stack EXCEPT ![t][1].rest = listenerMap[Top(t).obj],
                              ![t][1].at = "loop"]
    /\ UNCHANGED <<listenerVars, holder, event, history>>

FireCopy(t) ==
    /\ At(t, "FireEvent", "copy")
    /\ holder' = NoThread
    /\ stack' = [stack EXCEPT ![t][1].rest = listenerMap[Top(t).obj],
                              ![t][1].at = "loop"]
    /\ UNCHANGED <<listenerVars, event, history>>

\* Call one callback: inside this thread if it is the main one; else wait.
InvokeMethodOnMainThread(t, e) ==
    IF t = Main
    THEN stack' = [stack EXCEPT ![t] =
                     <<CallbackFrame(e, t), [Top(t) EXCEPT !.at = "wait",
                                                           !.rest = Tail(@)]>>
                         \o Tail(@)]
    ELSE stack' = [stack EXCEPT ![t][1].at = "call", ![t][1].rest = Tail(@)]

\* The next listener of the copy: it is called if it matches.  One that was
\* deleted after the copy was made is read all the same, and what its memory
\* holds by then decides.
FireCall(t) ==
    /\ At(t, "FireEvent", "loop")
    /\ Top(t).rest # <<>>
    /\ LET l == Head(Top(t).rest)
       IN  /\ alive[l] = "deleted" \/ Hears(l, Top(t).ev)
           /\ called' = [called EXCEPT ![Top(t).ev] = @ \cup {l}]
    /\ InvokeMethodOnMainThread(t, Top(t).ev)
    /\ UNCHANGED <<listenerVars, holder, event, due, refired, answer>>

\* Mutant: a listener of another event ends the loop.
FireSkipMutant(t) ==
    /\ At(t, "FireEvent", "loop")
    /\ Top(t).rest # <<>>
    /\ ~ Hears(Head(Top(t).rest), Top(t).ev)
    /\ Goto(t, "return")
    /\ UNCHANGED <<listenerVars, holder, event, history>>

FireSkip(t) ==
    /\ At(t, "FireEvent", "loop")
    /\ Top(t).rest # <<>>
    /\ LET l == Head(Top(t).rest)
       IN  alive[l] = "deleted" \/ ~ Hears(l, Top(t).ev)
    /\ stack' = [stack EXCEPT ![t][1].at = "check", ![t][1].rest = Tail(@)]
    /\ UNCHANGED <<listenerVars, holder, event, history>>

\* Mutant: the other flag is returned.
AnswerMutant(t) ==
    LET e == Top(t).ev
    IN  IF \E i \in 2 .. Len(stack[t]) : stack[t][i].ev = e
        THEN UNCHANGED <<answer, due, called>>
        ELSE /\ answer' = [answer EXCEPT ![e] =
                             IF event[e].stopped THEN "prevented" ELSE "go"]
             /\ due' = [due EXCEPT ![e] = {}]
             /\ called' = [called EXCEPT ![e] = {}]

\* What FireEvent returns, told by the outermost call for the event; who was
\* called is of no more interest then.
Answer(t) ==
    LET e == Top(t).ev
    IN  IF \E i \in 2 .. Len(stack[t]) : stack[t][i].ev = e
        THEN UNCHANGED <<answer, due, called>>
        ELSE /\ answer' = [answer EXCEPT ![e] =
                             IF event[e].preventedDefault THEN "prevented" ELSE "go"]
             /\ due' = [due EXCEPT ![e] = {}]
             /\ called' = [called EXCEPT ![e] = {}]

\* Mutant: a stopped event only leaves the loop.
FireCheckMutant(t) ==
    /\ At(t, "FireEvent", "check")
    /\ stack' = [stack EXCEPT ![t][1].at = "loop",
                              ![t][1].rest = IF event[Top(t).ev].stopped THEN <<>> ELSE @]
    /\ UNCHANGED <<listenerVars, holder, event, history>>

\* Back from a listener: a stopped event goes no further.
FireCheck(t) ==
    /\ At(t, "FireEvent", "check")
    /\ IF event[Top(t).ev].stopped
       THEN Pop(t) /\ Answer(t)
       ELSE Goto(t, "loop") /\ UNCHANGED <<answer, due, called>>
    /\ UNCHANGED <<listenerVars, holder, event, refired>>

\* All listeners of the object are done: the event goes on to the root.
FireRoot(t) ==
    /\ At(t, "FireEvent", "loop")
    /\ Top(t).rest = <<>>
    /\ Top(t).obj # Root
    /\ stack' = [stack EXCEPT ![t] = <<FireFrame(Top(t).ev, Root),
                                       [Top(t) EXCEPT !.at = "return"]>> \o Tail(@)]
    /\ UNCHANGED <<listenerVars, holder, event, history>>

FireReturn(t) ==
    /\ \/ At(t, "FireEvent", "loop") /\ Top(t).rest = <<>> /\ Top(t).obj = Root
       \/ At(t, "FireEvent", "return")
    /\ Pop(t)
    /\ Answer(t)
    /\ UNCHANGED <<listenerVars, holder, event, refired>>

-----------------------------------------------------------------------------
(* Callbacks, on the main thread.                                           *)

\* The idle main thread serves the call of a worker.
ServeCall(w) ==
    /\ stack[Main] = <<>>
    /\ At(w, "FireEvent", "call")
    /\ stack' = [stack EXCEPT ![Main] = <<CallbackFrame(Top(w).ev, w)>>,
                              ![w][1].at = "wait"]
    /\ UNCHANGED <<listenerVars, holder, event, history>>

\* The callback returns, or throws: FireEventIfMatches logs the exception.
CallbackReturn ==
    /\ At(Main, "callback", "run")
    /\ stack' = IF Top(Main).caller = Main
                THEN [stack EXCEPT ![Main] =
                        <<[@[2] EXCEPT !.at = "check"]>> \o Tail(Tail(@))]
                ELSE [stack EXCEPT ![Main] = Tail(@),
                                   ![Top(Main).caller][1].at = "check"]
    /\ UNCHANGED <<listenerVars, holder, event, history>>

\* event.preventDefault() and event.stopPropagation().
PreventDefault ==
    /\ At(Main, "callback", "run")
    /\ event' = [event EXCEPT ![Top(Main).ev].preventedDefault = TRUE]
    /\ UNCHANGED <<listenerVars, holder, stack, history>>

StopPropagation ==
    /\ At(Main, "callback", "run")
    /\ event' = [event EXCEPT ![Top(Main).ev].stopped = TRUE,
                              ![Top(Main).ev].preventedDefault = TRUE]
    /\ UNCHANGED <<listenerVars, holder, stack, history>>

-----------------------------------------------------------------------------
Modify(t) == \E o \in Objects :
    \/ \E l \in Listeners : AddEventListener(t, o, l)
    \/ \E n \in Names, c \in Callbacks : RemoveEventListener(t, o, n, NoListener, c)
    \/ \E n \in Names, l \in Listeners \cup {NoListener} :
          RemoveEventListener(t, o, n, l, NoCallback)

Fire(t) ==
    \/ FireCopy(t) \/ FireCall(t) \/ FireSkip(t) \/ FireCheck(t)
    \/ FireRoot(t) \/ FireReturn(t)

Next ==
    \/ \E t \in Threads :
          \/ BeginModify(t)
          \/ Modify(t)
          \/ \E o \in Objects, e \in Events : FireEvent(t, o, e)
          \/ FireLock(t)
          \/ Fire(t)
    \/ \E w \in Workers : ServeCall(w)
    \/ RefireEvent \/ CallbackReturn \/ PreventDefault \/ StopPropagation

Spec == Init /\ [][Next]_vars

(***************************************************************************)
(* Fairness.  Threads inside FireEvent move on; a mutex that is let go time *)
(* and again is got in the end; the main thread serves a queued call when   *)
(* it is idle time and again (HostLoop); a callback makes only finitely     *)
(* many calls, then returns.                                                *)
(***************************************************************************)
FairSpec ==
    /\ Spec
    /\ \A t \in Threads : WF_vars(Fire(t)) /\ SF_vars(FireLock(t)) /\ SF_vars(Modify(t))
    /\ \A w \in Workers : SF_vars(ServeCall(w))
    /\ SF_vars(CallbackReturn)
-----------------------------------------------------------------------------
(* Properties.                                                              *)

FrameType == [fn : {"FireEvent", "callback", "modify"},
              at : {"lock", "copy", "loop", "call", "wait", "check", "return", "run"},
              ev : Events \cup {NoEvent}, obj : Objects, rest : Seq(Listeners),
              caller : Threads \cup {NoThread}]

TypeOK ==
    /\ listenerMap \in [Objects -> Seq(Listeners)]
    /\ holder \in Threads \cup {NoThread}
    /\ alive \in [Listeners -> {"none", "live", "deleted"}]
    /\ event \in [Events -> [stopped : BOOLEAN, preventedDefault : BOOLEAN]]
    /\ stack \in [Threads -> Seq(FrameType)]
    /\ due \in [Events -> SUBSET Listeners]
    /\ called \in [Events -> SUBSET Listeners]
    /\ refired \subseteq Events
    /\ answer \in [Events -> {"unfired", "none", "go", "prevented"}]

\* The lists own the listeners (k_event_object.cpp:80-81,94-96): a listener is
\* in a list if and only if it exists, in one list only and once, whatever the
\* order in which threads add and remove.
ListsOwnListeners ==
    /\ \A l \in Listeners :
          alive[l] = "live" <=> \E o \in Objects : l \in Elems(listenerMap[o])
    /\ \A o, p \in Objects : \A i \in DOMAIN listenerMap[o], k \in DOMAIN listenerMap[p] :
          listenerMap[o][i] = listenerMap[p][k] => o = p /\ i = k

Answered(e) == answer[e] \in {"go", "prevented"}

\* Who hears an event (k_event_object.cpp:127-152).  Unless it was stopped, or
\* a callback fired it once more, every matching listener that was there when
\* the event was fired and still is has been called by the time FireEvent
\* returns, on the object and on the root, whatever was added or removed
\* meanwhile.
EveryListenerHears ==
    [][\A e \in Events \ refired :
          (Answered(e)' /\ ~ Answered(e) /\ ~ event[e].stopped) =>
              \A l \in due[e] : alive[l] = "live" => l \in called[e]]_vars

\* A prevention is never lost (k_event_object.cpp:145,151; Host::Exit relies on
\* it): what FireEvent has answered, on whatever thread, is what the callbacks
\* of the event decided.
AnswerIsWhatCallbacksDecided ==
    \A e \in Events :
        Answered(e) => (answer[e] = "prevented" <=> event[e].preventedDefault)

Calls(e) == Cardinality({i \in DOMAIN stack[Main] :
                            stack[Main][i].fn = "callback" /\ stack[Main][i].ev = e})

\* Once a callback has stopped an event no other callback begins to run with
\* it, on the object or on the root, unless it is fired again.
StoppedEventGoesNoFurther ==
    [][\A e \in Events \ refired :
          event[e].stopped => Calls(e)' <= Calls(e)]_vars

\* "We cannot block any threads while we handle callbacks": FireEvent returns
\* however callbacks add and remove listeners and fire events in turn.
FiringEnds == \A e \in Events : answer[e] = "none" ~> Answered(e)

\* k_event_object.cpp:131-133, "we must make a copy of this map while we handle
\* callbacks": the listeners of the copy are still there when they are used.
CopiedListenersExist ==
    \A t \in Threads :
        (At(t, "FireEvent", "loop") /\ Top(t).rest # <<>>) =>
            alive[Head(Top(t).rest)] = "live"
=============================================================================
