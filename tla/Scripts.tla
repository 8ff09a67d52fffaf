------------------------------ MODULE Scripts -------------------------------
(***************************************************************************)
(* Scripts of a page: Script::Evaluate finds the evaluator of a language    *)
(* and runs the code with a window's global object as its scope.  The       *)
(* languages share the window's properties in different ways:               *)
(*   - Python works on a copy, written back when the script ends;           *)
(*   - PHP has one symbol table, filled from the current global object and  *)
(*     pushed back to it whenever another becomes current (a script, method *)
(*     or function is entered or left);                                     *)
(*   - Ruby reads and writes the object most recently given to Evaluate,    *)
(*     and copies the methods of its context there when a script ends.      *)
(* Scripts call each other: all of this happens on one thread, on a stack.  *)
(* A window's object may throw whenever it is read or written, by getters   *)
(* and setters of the page.  The code that called a script catches the      *)
(* exception, so it takes one frame off the stack.                          *)
(*                                                                         *)
(* One property of each window stands for all; its values are numbered in   *)
(* the order in which they are assigned; 0 is "undefined", and 1 a value     *)
(* from before any script.                                                  *)
(***************************************************************************)
EXTENDS Naturals, Sequences, FiniteSets

CONSTANTS Windows, NoWindow,
          MaxDepth, MaxAssignments, MaxFunctions  \* bounds

ASSUME ScriptsAssumption ==
    /\ NoWindow \notin Windows
    /\ MaxDepth \in Nat /\ MaxFunctions \in Nat /\ MaxAssignments \in Nat \ {0}

VARIABLES
    evaluators,  \* Script::evaluators, by language
    property,    \* the property in each window's global object
    frames,      \* running code, innermost last
    phpGlobal,   \* currentPHPGlobal ...
    phpTable,    \* ... and the property in EG(symbol_table)
    bailout,     \* EG(bailout), as the number of a frame; 0 is NULL
    rubyGlobal,  \* global_object
    rubyMethod,  \* the method of that name in each window's context; 0: none
    functions,   \* functions of scripts that live on in Kroll
    exited,      \* a PHP error with nowhere to go ended the process
    assigned,    \* history: the number of the last assignment ...
    latest,      \* ... the last to each window's property ...
    contended,   \* ... windows with a second copy when it was made ...
    torn         \* ... and the PHP frames (0: none) that PHP code above left by an exception

scriptVars == <<evaluators, property, frames, phpGlobal, phpTable, bailout, rubyGlobal,
                rubyMethod, functions, exited, assigned, latest, contended, torn>>

ScriptLanguages == {"python", "php", "ruby"}
PhpKinds == {"php", "method", "function"}
Handlers == PhpKinds \ {"method"}  \* with a zend_try of their own

\* EG(bailout) when the frame it belongs to has been left by an exception.
Gone == MaxDepth + 1

ScriptsInit ==
    /\ evaluators = {}
    /\ property \in [Windows -> {0, 1}]
    /\ frames = <<>>
    /\ phpGlobal = NoWindow
    /\ phpTable = 0
    /\ bailout = 0
    /\ rubyGlobal = NoWindow
    /\ rubyMethod = [w \in Windows |-> 0]
    /\ functions = {}
    /\ exited = FALSE
    /\ assigned = 1
    /\ latest = property
    /\ contended = {}
    /\ torn = {}

Depth == Len(frames)
Innermost == frames[Depth]
InPhp == frames # <<>> /\ Innermost.kind \in PhpKinds
InPython == frames # <<>> /\ Innermost.kind = "python"
InRuby == frames # <<>> /\ Innermost.kind = "ruby"

\* The innermost PHP frame of the first n, 0 if there is none (one element).
EnclosingPhp(n) ==
    {i \in 0..n : /\ i = 0 \/ frames[i].kind \in PhpKinds
                  /\ \A j \in i + 1 .. n : frames[j].kind \notin PhpKinds}

\* By the Initialize and Stop of the language modules, which run outside any
\* script (a script that calls the API's addScriptEvaluator is left out).
AddScriptEvaluator(lang) ==
    /\ frames = <<>>
    /\ lang \notin evaluators
    /\ evaluators' = evaluators \cup {lang}
    /\ UNCHANGED <<property, frames, phpGlobal, phpTable, bailout, rubyGlobal, rubyMethod,
                   functions, exited, assigned, latest, contended, torn>>

RemoveScriptEvaluator(lang) ==
    /\ frames = <<>>
    /\ lang \in evaluators
    /\ evaluators' = evaluators \ {lang}
    /\ UNCHANGED <<property, frames, phpGlobal, phpTable, bailout, rubyGlobal, rubyMethod,
                   functions, exited, assigned, latest, contended, torn>>

PushedMutant ==  \* the symbol table is emptied before it is pushed
    property

\* The first half of SwapGlobalObject: what the symbol table defines goes to
\* the global object that was current.
Pushed ==
    IF phpGlobal = NoWindow \/ phpTable = 0 THEN property
    ELSE [property EXCEPT ![phpGlobal] = phpTable]

\* SwapGlobalObject: push, clean, fill from the new global object.
SwapGlobalObject(new) ==
    /\ property' = Pushed
    /\ phpGlobal' = new
    /\ phpTable' = IF new = NoWindow THEN 0 ELSE Pushed[new]

\* It throws when the old global object is read or written, with nothing swapped ...
PushThrows ==
    /\ phpGlobal # NoWindow
    /\ property' \in {property, Pushed}
    /\ UNCHANGED <<phpGlobal, phpTable>>

\* ... or when the new one is read, with the table half filled.
FillThrows(new) ==
    /\ new # NoWindow
    /\ property' = Pushed
    /\ phpGlobal' = new
    /\ phpTable' \in {0, Pushed[new]}

\* The two windows of a swap that failed: copies of their properties that other
\* frames have may now outlive the symbol table's.
Swapped(new) == {phpGlobal, new} \ {NoWindow}

\* Other copies of each window's property when no script runs: what an exception
\* left in the symbol table, and methods of Ruby that were assigned over.
LeftBehind ==
    {w \in Windows : phpGlobal = w \/ rubyMethod[w] \notin {0, property[w]}}

\* The history starts again with each outermost piece of code.
Enter(frame) ==
    /\ Depth < MaxDepth
    /\ frames' = Append(frames, frame)
    /\ IF frames = <<>> THEN latest' = property /\ contended' = LeftBehind
                        ELSE UNCHANGED <<latest, contended>>
    /\ UNCHANGED torn

(***************************************************************************)
(* Evaluate                                                                 *)
(***************************************************************************)

\* FindEvaluatorWithMethod throws, changing nothing, when there is none.
PythonEvaluate(w) ==
    /\ "python" \in evaluators
    /\ Enter([kind |-> "python", window |-> w, copy |-> property[w],
              saved |-> NoWindow, outer |-> 0])
    /\ UNCHANGED <<evaluators, property, phpGlobal, phpTable, bailout, rubyGlobal,
                   rubyMethod, functions, exited, assigned>>

\* zend_first_try forgets the handler that was in force.
PHPEvaluate(w) ==
    /\ "php" \in evaluators
    /\ Enter([kind |-> "php", window |-> w, copy |-> 0, saved |-> phpGlobal, outer |-> 0])
    /\ SwapGlobalObject(w)
    /\ bailout' = Depth + 1
    /\ UNCHANGED <<evaluators, rubyGlobal, rubyMethod, functions, exited, assigned>>

\* The first swap throws: no code runs, but it may be the new global's from now on.
EnterThrows(w) ==
    /\ \/ PushThrows /\ UNCHANGED <<contended, torn>>
       \/ /\ FillThrows(w)
          /\ contended' = contended \cup Swapped(w)
          /\ torn' = torn \cup EnclosingPhp(Depth)
    /\ UNCHANGED <<evaluators, frames, bailout, rubyGlobal, rubyMethod, functions, exited,
                   assigned, latest>>

PHPEvaluateThrows(w) == "php" \in evaluators /\ EnterThrows(w)

\* A PHP file of the application, in a request of its own: a new symbol table,
\* where what it leaves is of no script, and again zend_first_try.  It sees no
\* object of Kroll's.
Preprocess ==
    /\ "php" \in evaluators
    /\ phpTable' \in {0, 1}
    /\ bailout' = 0
    /\ contended' = contended \cup Swapped(NoWindow)
    /\ UNCHANGED <<evaluators, property, frames, phpGlobal, rubyGlobal, rubyMethod, functions,
                   exited, assigned, latest, torn>>

RubyEvaluate(w) ==
    /\ "ruby" \in evaluators
    /\ Enter([kind |-> "ruby", window |-> w, copy |-> 0, saved |-> NoWindow, outer |-> 0])
    /\ rubyGlobal' = w
    /\ UNCHANGED <<evaluators, property, phpGlobal, phpTable, bailout, rubyMethod, functions,
                   exited, assigned>>

\* The script, failed or not, is over.  DictToKObjectProps writes the copy back.
PythonLeave ==
    /\ InPython
    /\ frames' = SubSeq(frames, 1, Depth - 1)
    /\ property' = IF Innermost.copy = 0 THEN property
                   ELSE [property EXCEPT ![Innermost.window] = Innermost.copy]
    /\ UNCHANGED <<evaluators, phpGlobal, phpTable, bailout, rubyGlobal, rubyMethod,
                   functions, exited, assigned, latest, contended, torn>>

\* The other window, when a nested script has changed global_object.
Astray(w) == {v \in {w, rubyGlobal} : rubyGlobal # w}

\* Ruby's global_object stays what it is, and ContextToGlobal gives it the methods
\* of the script's own context, those of earlier scripts too.
RubyLeave ==
    /\ InRuby
    /\ frames' = SubSeq(frames, 1, Depth - 1)
    /\ LET w == Innermost.window IN
         IF rubyMethod[w] = 0 THEN UNCHANGED <<property, contended>>
         ELSE /\ property' = [property EXCEPT ![rubyGlobal] = rubyMethod[w]]
              /\ contended' = contended \cup Astray(w)
    /\ UNCHANGED <<evaluators, phpGlobal, phpTable, bailout, rubyGlobal, rubyMethod,
                   functions, exited, assigned, latest, torn>>

\* Python or Ruby is left by an exception of the window's object: it is not written.
LeaveThrows ==
    /\ InPython \/ InRuby
    /\ frames' = SubSeq(frames, 1, Depth - 1)
    /\ contended' = contended \cup {Innermost.window}
    /\ UNCHANGED <<evaluators, property, phpGlobal, phpTable, bailout, rubyGlobal, rubyMethod,
                   functions, exited, assigned, latest, torn>>

\* zend_end_try puts back the handler the frame found, if it set one.
PHPLeave ==
    /\ InPhp
    /\ frames' = SubSeq(frames, 1, Depth - 1)
    /\ SwapGlobalObject(Innermost.saved)
    /\ bailout' = IF Innermost.kind = "method" THEN bailout ELSE Innermost.outer
    /\ torn' = torn \ {Depth}
    /\ UNCHANGED <<evaluators, rubyGlobal, rubyMethod, functions, exited, assigned, latest,
                   contended>>

\* The second swap throws.
PHPLeaveThrows ==
    /\ InPhp
    /\ frames' = SubSeq(frames, 1, Depth - 1)
    /\ bailout' = IF Innermost.kind = "method" THEN bailout ELSE Innermost.outer
    /\ contended' = contended \cup Swapped(Innermost.saved)
    /\ \/ PushThrows /\ torn' = (torn \ {Depth}) \cup EnclosingPhp(Depth - 1)
       \/ FillThrows(Innermost.saved) /\ torn' = torn \ {Depth}
    /\ UNCHANGED <<evaluators, rubyGlobal, rubyMethod, functions, exited, assigned, latest>>

\* An exception that a handler of PHPKObject does not catch goes through the engine:
\* past zend_end_try, and past the second swap.
PHPThrows ==
    /\ InPhp
    /\ frames' = SubSeq(frames, 1, Depth - 1)
    /\ bailout' = IF Innermost.kind = "method" THEN bailout ELSE Gone
    /\ contended' = contended \cup Swapped(Innermost.saved)
    /\ torn' = (torn \ {Depth}) \cup EnclosingPhp(Depth - 1)
    /\ UNCHANGED <<evaluators, property, phpGlobal, phpTable, rubyGlobal, rubyMethod,
                   functions, exited, assigned, latest>>

(***************************************************************************)
(* Functions and methods of PHP scripts, called from anywhere               *)
(***************************************************************************)

Make(f) ==
    /\ Cardinality(functions) < MaxFunctions
    /\ functions' = functions \cup {f}
    /\ UNCHANGED <<evaluators, property, frames, phpGlobal, phpTable, bailout, rubyGlobal,
                   rubyMethod, exited, assigned, latest, contended, torn>>

\* A KPHPMethod, made whenever Kroll reads a method of a PHP object, remembers
\* the global object of that moment.
MakeMethod == Make([kind |-> "method", window |-> phpGlobal])

\* So does a KPHPFunction: the code that Evaluate adds to a script calls
\* krollAddFunction for its functions.
KrollAddFunction == InPhp /\ Make([kind |-> "function", window |-> phpGlobal])

EnterPhp(kind, w) ==
    /\ Enter([kind |-> kind, window |-> w, copy |-> 0, saved |-> phpGlobal, outer |-> bailout])
    /\ SwapGlobalObject(w)
    /\ UNCHANGED <<evaluators, rubyGlobal, rubyMethod, functions, exited, assigned>>

\* KPHPMethod::Call has no handler of its own ...
CallMethod(f) ==
    /\ f.kind = "method"
    /\ EnterPhp("method", f.window)
    /\ UNCHANGED bailout

\* ... and KPHPFunction::Call has.
CallFunction(f) ==
    /\ f.kind = "function"
    /\ EnterPhp("function", f.window)
    /\ bailout' = Depth + 1

CallThrows(f) == EnterThrows(f.window)

UncaughtMutant ==  \* the catch block of the handler returns without the second swap
    /\ frames' = SubSeq(frames, 1, bailout - 1)
    /\ bailout' = frames[bailout].outer
    /\ UNCHANGED <<property, phpGlobal, phpTable>>

\* The innermost handler in force is reached with a longjmp, past every
\* frame above its own, and its frame leaves as usual.
Uncaught ==
    /\ frames' = SubSeq(frames, 1, bailout - 1)
    /\ bailout' = frames[bailout].outer
    /\ SwapGlobalObject(frames[bailout].saved)

\* A fatal PHP error.  What Python and Ruby frames that are jumped over would have
\* written is never written.
FatalError ==
    /\ InPhp
    /\ bailout \notin {0, Gone}
    /\ Uncaught
    /\ contended' = contended \cup {frames[i].window : i \in
                       {j \in bailout + 1 .. Depth : frames[j].kind \in {"python", "ruby"}}}
    /\ torn' = {i \in torn : i < bailout}
    /\ UNCHANGED <<evaluators, rubyGlobal, rubyMethod, functions, exited, assigned, latest>>

\* Without a handler the process exits; a jump to a frame that is gone ends it too,
\* or worse.
FatalErrorExits ==
    /\ InPhp
    /\ bailout \in {0, Gone}
    /\ exited' = TRUE
    /\ UNCHANGED <<evaluators, property, frames, phpGlobal, phpTable, bailout, rubyGlobal,
                   rubyMethod, functions, assigned, latest, contended, torn>>

(***************************************************************************)
(* Assignments                                                              *)
(***************************************************************************)

\* Copies of a window's property other than that of the innermost frame.
OtherCopies(w) ==
    \/ \E i \in 1..Depth - 1 : frames[i].kind = "python" /\ frames[i].window = w
    \/ phpGlobal = w /\ ~InPhp
    \/ rubyMethod[w] # 0

Assign(w) ==
    /\ assigned < MaxAssignments
    /\ assigned' = assigned + 1
    /\ latest' = IF w = NoWindow THEN latest ELSE [latest EXCEPT ![w] = assigned + 1]
    /\ UNCHANGED <<evaluators, phpGlobal, bailout, rubyGlobal, functions, exited, torn>>

\* The innermost frame assigns to the global variable: to its copy ...
PythonAssigns ==
    /\ InPython
    /\ Assign(Innermost.window)
    /\ frames' = [frames EXCEPT ![Depth].copy = assigned + 1]
    /\ contended' = contended \cup {w \in Windows : w = Innermost.window /\ OtherCopies(w)}
    /\ UNCHANGED <<property, phpTable, rubyMethod>>

\* ... to the symbol table, another window's after an exception ...
PHPAssigns ==
    /\ InPhp
    /\ Assign(Innermost.window)
    /\ phpTable' = assigned + 1
    /\ contended' = contended
                      \cup {w \in Windows \cap {Innermost.window, phpGlobal} :
                              OtherCopies(w) \/ phpGlobal # Innermost.window}
    /\ UNCHANGED <<property, frames, rubyMethod>>

\* ... or, by m_missing, to the latest global_object, which is another
\* window's after a nested Ruby script of that window.
RubyAssigns ==
    /\ InRuby
    /\ Assign(Innermost.window)
    /\ property' = [property EXCEPT ![rubyGlobal] = assigned + 1]
    /\ contended' = contended \cup Astray(Innermost.window)
                      \cup {w \in {rubyGlobal} : OtherCopies(w)}
    /\ UNCHANGED <<phpTable, frames, rubyMethod>>

\* A method defined in Ruby is one of the window's context, until the script ends.
RubyDefines ==
    /\ InRuby
    /\ Assign(Innermost.window)
    /\ rubyMethod' = [rubyMethod EXCEPT ![Innermost.window] = assigned + 1]
    /\ contended' = contended \cup {w \in {Innermost.window} : OtherCopies(w)}
    /\ UNCHANGED <<property, phpTable, frames>>

\* Any code, a page's JavaScript too, assigns through the window object.
WindowAssigns(w) ==
    /\ Assign(w)
    /\ property' = [property EXCEPT ![w] = assigned + 1]
    /\ contended' = IF phpGlobal = w \/ OtherCopies(w) \/ (InPython /\ Innermost.window = w)
                      THEN contended \cup {w} ELSE contended
    /\ UNCHANGED <<phpTable, frames, rubyMethod>>

\* Code begins to run, ...
ScriptBegins ==
    \/ \E w \in Windows : PythonEvaluate(w) \/ PHPEvaluate(w) \/ RubyEvaluate(w)
    \/ \E f \in functions : CallMethod(f) \/ CallFunction(f)
    \/ Preprocess

\* ... fails ...
ScriptFails ==
    \/ \E w \in Windows : PHPEvaluateThrows(w)
    \/ \E f \in functions : CallThrows(f)
    \/ PHPThrows \/ PHPLeaveThrows \/ LeaveThrows
    \/ FatalError \/ FatalErrorExits

\* ... or goes on and returns.
ScriptRuns ==
    \/ \E lang \in ScriptLanguages : AddScriptEvaluator(lang) \/ RemoveScriptEvaluator(lang)
    \/ PythonAssigns \/ PHPAssigns \/ RubyAssigns \/ RubyDefines
    \/ \E w \in Windows : WindowAssigns(w)
    \/ MakeMethod \/ KrollAddFunction
    \/ PythonLeave \/ PHPLeave \/ RubyLeave

ScriptsNext == ~exited /\ (ScriptBegins \/ ScriptFails \/ ScriptRuns)

ScriptsSpec == ScriptsInit /\ [][ScriptsNext]_scriptVars

(***************************************************************************)
(* Properties                                                               *)
(***************************************************************************)

ScriptsTypeOK ==
    /\ evaluators \subseteq ScriptLanguages
    /\ property \in [Windows -> 0..assigned]
    /\ phpGlobal \in Windows \cup {NoWindow}
    /\ phpTable \in 0..assigned
    /\ bailout \in 0..Gone
    /\ rubyGlobal \in Windows \cup {NoWindow}
    /\ rubyMethod \in [Windows -> 0..assigned]
    /\ exited \in BOOLEAN
    /\ assigned \in 1..MaxAssignments
    /\ torn \subseteq 0..MaxDepth

\* However PHP code nests with the other languages, and whether it returns or ends
\* in a fatal error, the current global object is the one of the innermost PHP
\* frame, none when there is none, and the handler of errors is that of a frame that
\* still runs (SwapGlobalObject before and after every call; zend_try).  A C++
\* exception does break both.  The global object is wrong for the innermost PHP frame
\* that the exception comes to (`torn`) and for no other: once that frame ends, or
\* another begins, it is right again.  The handler may be one that is gone (Gone).
PhpStateFollowsStack ==
    /\ \A i \in EnclosingPhp(Depth) \ torn :
          phpGlobal = IF i = 0 THEN NoWindow ELSE frames[i].window
    /\ bailout \notin {0, Gone} => bailout \in 1..Depth /\ frames[bailout].kind \in Handlers

\* When the outermost script has ended, each window has the last value that was
\* assigned to it.  Excepted (`contended`) are windows of which there was a second
\* copy at the assignment - an outer Python script, PHP's symbol table in other code,
\* a method of that name in Ruby's context, a page's object that code assigns to past
\* its own copy -, that Ruby took for another window, or whose copy was never written
\* because an exception or a fatal error passed.  PHP code that nests in PHP code is
\* no second copy: SwapGlobalObject pushes the symbol table first.
ScriptWritesArrive ==
    frames = <<>> => \A w \in Windows \ contended : property[w] = latest[w]
=============================================================================
