-------------------------- MODULE MainThreadCalls --------------------------
(***************************************************************************)
(* What Host::InvokeMethodOnMainThread promises its callers                 *)
(* (api/host.h: "invoke the method on the main UI thread", "block until     *)
(* method is finished", "@return the method's return value"), whatever the  *)
(* platform's job queue looks like:                                         *)
(*                                                                         *)
(*   - a call made from another thread, and an asynchronous one, is served  *)
(*     once, in the order in which the calls were submitted, never two at   *)
(*     the same time;                                                       *)
(*   - a synchronous call made on the main thread runs at once, inside the  *)
(*     code that made it;                                                   *)
(*   - the caller of a synchronous call is given the outcome of its own     *)
(*     call, and only after the call has run.                               *)
(***************************************************************************)
EXTENDS Naturals, Sequences

CONSTANTS Calls,    \* the calls that are ever made
          NoCall    \* "the main thread is serving no call of the queue"

VARIABLES submitted,  \* calls that were handed to the host
          pending,    \* submitted calls that wait, oldest first
          serving,    \* the call of the queue that the main thread is running
          inline,     \* calls running inside main-thread code that made them
          outcome,    \* how each call ended: "none" until it has run
          returned    \* what the caller of each synchronous call was given

vars == <<submitted, pending, serving, inline, outcome, returned>>

Outcomes == {"value", "exception"}

Init ==
    /\ submitted = {}
    /\ pending = <<>>
    /\ serving = NoCall
    /\ inline = {}
    /\ outcome = [c \in Calls |-> "none"]
    /\ returned = [c \in Calls |-> "none"]

\* A call joins the end of the queue.
Submit(c) ==
    /\ c \notin submitted
    /\ submitted' = submitted \cup {c}
    /\ pending' = Append(pending, c)
    /\ UNCHANGED <<serving, inline, outcome, returned>>

\* Main-thread code makes a synchronous call: it starts at once.
CallInline(c) ==
    /\ c \notin submitted
    /\ submitted' = submitted \cup {c}
    /\ inline' = inline \cup {c}
    /\ UNCHANGED <<pending, serving, outcome, returned>>

\* It ends and its caller, further down the same stack, has its outcome.
ReturnInline(c, o) ==
    /\ c \in inline
    /\ inline' = inline \ {c}
    /\ outcome' = [outcome EXCEPT ![c] = o]
    /\ returned' = [returned EXCEPT ![c] = o]
    /\ UNCHANGED <<submitted, pending, serving>>

\* The main thread takes the oldest waiting call ...
Serve ==
    /\ serving = NoCall
    /\ inline = {}
    /\ pending # <<>>
    /\ serving' = Head(pending)
    /\ pending' = Tail(pending)
    /\ UNCHANGED <<submitted, inline, outcome, returned>>

\* ... and finishes it.
Finish(o) ==
    /\ serving # NoCall
    /\ inline = {}
    /\ outcome' = [outcome EXCEPT ![serving] = o]
    /\ serving' = NoCall
    /\ UNCHANGED <<submitted, pending, inline, returned>>

\* A waiting caller is given the outcome of its call.
Return(c) ==
    /\ outcome[c] # "none"
    /\ returned[c] = "none"
    /\ returned' = [returned EXCEPT ![c] = outcome[c]]
    /\ UNCHANGED <<submitted, pending, serving, inline, outcome>>

Next ==
    \/ \E c \in Calls : Submit(c) \/ CallInline(c) \/ Return(c)
    \/ \E c \in Calls, o \in Outcomes : ReturnInline(c, o)
    \/ Serve
    \/ \E o \in Outcomes : Finish(o)

Spec == Init /\ [][Next]_vars
=============================================================================
