-------------------------- MODULE LanguageBridges ---------------------------
(***************************************************************************)
(* Objects that cross between Kroll and a script language.                  *)
(*                                                                         *)
(* A script's own object that reaches Kroll is represented by a proxy       *)
(* (KKJSObject, KPythonList, KRubyMethod, ...), which must keep it from     *)
(* being collected.  A Kroll value that reaches a script is represented by  *)
(* a wrapper of the language's own (KJSKObjectClass, PyKObject, ...), which *)
(* holds a reference to the value until it is collected.  A representative  *)
(* that crosses back is replaced by what it stands for.                     *)
(*                                                                         *)
(* JavaScript has several contexts, which the proxies must keep too; those  *)
(* of one group share their objects.  The other languages have one          *)
(* interpreter, which is modelled as their only context.                    *)
(***************************************************************************)
EXTENDS Naturals, FiniteSets

CONSTANTS Natives,        \* objects made by scripts ...
          NativeContext,  \* ... and the JavaScript context each is made in
          Wrappers, Proxies,  \* those that are ever made (a bound)
          KObjects,       \* objects made by Kroll
          Contexts, Groups,
          ContextGroup,   \* JSContextGetGroup
          NoValue

ASSUME LanguageBridgesAssumption ==
    /\ NativeContext \in [Natives -> Contexts]
    /\ ContextGroup \in [Contexts -> Groups]
    /\ NoValue \notin Natives \cup Wrappers \cup Proxies \cup KObjects
    /\ Natives \cap Wrappers = {}
    /\ Proxies \cap KObjects = {}
    /\ Contexts # {}

VARIABLES
    bridge,      \* the language, chosen once ...
    class,       \* ... and what each script object is: object, list or method
    heap,        \* each script object: "absent", "live", "collected"
    reached,     \* the script objects that script code can reach, each with a context
    pins,        \* how often each script object was protected from collection
    leaked,      \* script objects with a reference that nobody will release
    wraps,       \* each wrapper's value ...
    place,       \* ... and context
    stands,      \* the script object each proxy stands for ...
    origin,      \* ... and the context it was made in
    refs,        \* the reference count of each Kroll value
    kept,        \* values that Kroll code (bindings, listeners) keeps
    open,        \* contexts that are registered and have their owner
    retained,    \* jsContextRefCounts
    lost         \* a NULL context or a collected object was used

bridgeVars == <<bridge, class, heap, reached, pins, leaked, wraps, place, stands,
                origin, refs, kept, open, retained, lost>>

Languages == {"js", "python", "ruby", "php"}
ScriptObjects == Natives \cup Wrappers
KrollValues == KObjects \cup Proxies

\* What ToKrollValue makes a proxy for in each language, after strings, numbers
\* and wrappers.  PHP arrays are copied into a list of Kroll's own.
JsClasses == {"object", "list", "method"}

PythonClasses == {"object", "list", "method"}

RubyClasses == {"object", "list", "method"}

PhpClasses == {"object", "method"}

Classes(lang) == CASE lang = "js" -> JsClasses [] lang = "python" -> PythonClasses
                   [] lang = "ruby" -> RubyClasses [] lang = "php" -> PhpClasses

Interpreter == CHOOSE c \in Contexts : TRUE

Home(x) == IF bridge = "js" THEN NativeContext[x] ELSE Interpreter

Reached(x) == \E c \in Contexts : <<x, c>> \in reached

LanguageBridgesInit ==
    /\ bridge \in Languages
    /\ class \in [Natives -> Classes(bridge)]
    /\ heap = [x \in ScriptObjects |-> IF x \in Natives THEN "live" ELSE "absent"]
    /\ reached = {<<x, Home(x)>> : x \in Natives}
    /\ pins = [x \in ScriptObjects |-> 0]
    /\ leaked = {}
    /\ wraps = [w \in Wrappers |-> NoValue]
    /\ place = [w \in Wrappers |-> NoValue]
    /\ stands = [p \in Proxies |-> NoValue]
    /\ origin = [p \in Proxies |-> NoValue]
    /\ refs = [v \in KrollValues |-> IF v \in KObjects THEN 1 ELSE 0]
    /\ kept = KObjects
    /\ open = IF bridge = "js" THEN Contexts ELSE {Interpreter}
    /\ retained = [c \in Contexts |-> 0]
    /\ lost = FALSE

JsObjectPinsMutant ==  \* KKJSObject protects the context only
    0

\* How often a proxy's constructors protect its object: a list or a method
\* protects it itself and again through the object proxy inside it.
JsObjectPins == 1

JsListPins == JsObjectPins + 1

JsMethodPins == JsObjectPins + 1

JsPins(k) == CASE k = "object" -> JsObjectPins [] k = "list" -> JsListPins
               [] k = "method" -> JsMethodPins

PythonObjectPins == 1

PythonListPins == PythonObjectPins + 1

PythonMethodPins == PythonObjectPins + 1

PythonPins(k) == CASE k = "object" -> PythonObjectPins [] k = "list" -> PythonListPins
                   [] k = "method" -> PythonMethodPins

\* rb_gc_register_address gets the address of the constructor's parameter.
RubyPins(k) == 0

PhpPins(k) == 1

Pins(k) == CASE bridge = "js" -> JsPins(k) [] bridge = "python" -> PythonPins(k)
             [] bridge = "ruby" -> RubyPins(k) [] bridge = "php" -> PhpPins(k)

UnpinsMutant(k) ==  \* the destructor of a list or method forgets its own share
    1

\* The destructors: the proxy's own share and, after it, its inner object's.
Unpins(k) == Pins(k)

\* ProtectGlobalContext and UnprotectGlobalContext, once per protection.
Retains(k) == IF bridge = "js" THEN Pins(k) ELSE 0

(***************************************************************************)
(* Between the languages                                                    *)
(***************************************************************************)

\* A Kroll value is released; a proxy whose count reaches zero is deleted and
\* lets its object and its context go.  PHP's zval_delref_p frees nothing: an
\* object that only the proxy had is never freed.
Release(v) ==
    /\ refs' = [refs EXCEPT ![v] = @ - 1]
    /\ IF v \in Proxies /\ refs[v] = 1
         THEN LET x == stands[v]
                  n == Unpins(class[x])
              IN
              /\ stands' = [stands EXCEPT ![v] = NoValue]
              /\ origin' = [origin EXCEPT ![v] = NoValue]
              /\ pins' = [pins EXCEPT ![x] = @ - n]
              /\ retained' = IF bridge # "js" THEN retained
                             ELSE [retained EXCEPT ![origin[v]] = @ - n]
              /\ leaked' = leaked \cup {y \in {x} : bridge = "php" /\ ~Reached(y) /\ pins[y] = n}
         ELSE UNCHANGED <<stands, origin, pins, retained, leaked>>

\* What the conversions into Python and PHP return has a reference of its own, and
\* some callers never release it: KPythonObject::Set, KPythonDict::Set and
\* KPythonList::Append, KPHPMethod::Call.
Converted(x) == IF bridge \in {"python", "php"} THEN {leaked, leaked \cup {x}} ELSE {leaked}

\* Code that runs in a context: a script, or a method that Kroll still holds.
Runs(c) ==
    \/ c \in open
    \/ \E p \in Proxies : stands[p] # NoValue /\ class[stands[p]] = "method" /\ origin[p] = c

\* ToKrollValue on a script's own object: a new proxy, kept by Kroll.
ExportNative(x, c) ==
    /\ x \in Natives
    /\ c \in open
    /\ <<x, c>> \in reached
    /\ \E p \in Proxies : stands[p] = NoValue
    /\ LET p == CHOOSE q \in Proxies : stands[q] = NoValue IN
         /\ stands' = [stands EXCEPT ![p] = x]
         /\ origin' = [origin EXCEPT ![p] = c]
         /\ refs' = [refs EXCEPT ![p] = 1]
         /\ kept' = kept \cup {p}
    /\ pins' = [pins EXCEPT ![x] = @ + Pins(class[x])]
    /\ retained' = [retained EXCEPT ![c] = @ + Retains(class[x])]
    /\ UNCHANGED <<bridge, class, heap, reached, leaked, wraps, place, open, lost>>

\* The same in a context that was unregistered while a method kept it alive, on
\* any object of its group: GetGlobalContext is NULL, which the constructor goes
\* on to retain.
ExportUnregistered(x, c) ==
    /\ bridge = "js"
    /\ heap[x] = "live"
    /\ ContextGroup[NativeContext[x]] = ContextGroup[c]
    /\ c \notin open
    /\ Runs(c)
    /\ lost' = TRUE
    /\ UNCHANGED <<bridge, class, heap, reached, pins, leaked, wraps, place, stands,
                   origin, refs, kept, open, retained>>

\* ToKrollValue on a wrapper: the value inside it, now kept by Kroll too.
ExportWrapper(w, c) ==
    /\ c \in open
    /\ <<w, c>> \in reached
    /\ wraps[w] \notin kept
    /\ refs' = [refs EXCEPT ![wraps[w]] = @ + 1]
    /\ kept' = kept \cup {wraps[w]}
    /\ UNCHANGED <<bridge, class, heap, reached, pins, leaked, wraps, place, stands,
                   origin, open, retained, lost>>

JsOwnMutant(v, c) ==  \* the context is compared, not its group
    origin[v] = c

\* The languages recognise their own proxies: JavaScript those of the same
\* context group, and PHP none, which wraps its own objects like any other.
JsOwn(v, c) == ContextGroup[origin[v]] = ContextGroup[c]

PythonOwn(v) == TRUE

RubyOwn(v) == TRUE

PhpOwn(v) == FALSE

Own(v, c) ==
    /\ v \in Proxies
    /\ CASE bridge = "js" -> JsOwn(v, c) [] bridge = "python" -> PythonOwn(v)
         [] bridge = "ruby" -> RubyOwn(v) [] bridge = "php" -> PhpOwn(v)

\* ToJSValue, ToPyObject, ... on a proxy: the object it stands for.
ImportOwn(v, c) ==
    /\ v \in kept
    /\ c \in open
    /\ Own(v, c)
    /\ heap[stands[v]] = "live"
    /\ reached' = reached \cup {<<stands[v], c>>}
    /\ leaked' \in Converted(stands[v])
    /\ UNCHANGED <<bridge, class, heap, pins, wraps, place, stands, origin, refs, kept,
                   open, retained, lost>>

\* ... and, where nothing protected that object, whatever is in its place.
ImportCollected(v, c) ==
    /\ v \in kept
    /\ c \in open
    /\ Own(v, c)
    /\ heap[stands[v]] = "collected"
    /\ lost' = TRUE
    /\ UNCHANGED <<bridge, class, heap, reached, pins, leaked, wraps, place, stands,
                   origin, refs, kept, open, retained>>

\* Any other value: a new wrapper each time.
ImportWrapped(v, c) ==
    /\ v \in kept
    /\ c \in open
    /\ ~Own(v, c)
    /\ \E w \in Wrappers : heap[w] = "absent"
    /\ LET w == CHOOSE u \in Wrappers : heap[u] = "absent" IN
         /\ heap' = [heap EXCEPT ![w] = "live"]
         /\ reached' = reached \cup {<<w, c>>}
         /\ leaked' \in Converted(w)
         /\ wraps' = [wraps EXCEPT ![w] = v]
         /\ place' = [place EXCEPT ![w] = c]
    /\ refs' = [refs EXCEPT ![v] = @ + 1]
    /\ UNCHANGED <<bridge, class, pins, stands, origin, kept, open, retained, lost>>

\* Kroll code gives a value up.
KrollDrops(v) ==
    /\ v \in kept
    /\ kept' = kept \ {v}
    /\ Release(v)
    /\ UNCHANGED <<bridge, class, heap, reached, wraps, place, open, lost>>

\* Script code in a context loses its last reference to an object.
ScriptDrops(x, c) ==
    /\ <<x, c>> \in reached
    /\ reached' = reached \ {<<x, c>>}
    /\ UNCHANGED <<bridge, class, heap, pins, leaked, wraps, place, stands, origin, refs,
                   kept, open, retained, lost>>

\* The collector, or a reference count: only what nobody reaches or protects.
CollectNative(x) ==
    /\ heap[x] = "live"
    /\ ~Reached(x)
    /\ x \notin leaked
    /\ pins[x] = 0
    /\ heap' = [heap EXCEPT ![x] = "collected"]
    /\ UNCHANGED <<bridge, class, reached, pins, leaked, wraps, place, stands, origin,
                   refs, kept, open, retained, lost>>

\* FinalizeCallback, PyKObject_dealloc: the wrapper's reference is released.
FinalizeWrapper(w) ==
    /\ heap[w] = "live"
    /\ ~Reached(w)
    /\ w \notin leaked
    /\ heap' = [heap EXCEPT ![w] = "collected"]
    /\ wraps' = [wraps EXCEPT ![w] = NoValue]
    /\ Release(wraps[w])
    /\ UNCHANGED <<bridge, class, reached, place, kept, open, lost>>

\* A page goes away: UnregisterGlobalContext, and its owner releases it.
CloseContext(c) ==
    /\ bridge = "js"
    /\ c \in open
    /\ open' = open \ {c}
    /\ reached' = {r \in reached : r[2] # c}
    /\ UNCHANGED <<bridge, class, heap, pins, leaked, wraps, place, stands, origin, refs,
                   kept, retained, lost>>

LanguageBridgesNext ==
    /\ ~lost
    /\ \/ \E x \in Natives :
            \/ CollectNative(x)
            \/ \E c \in Contexts : ExportNative(x, c) \/ ExportUnregistered(x, c)
       \/ \E w \in Wrappers : FinalizeWrapper(w) \/ \E c \in Contexts : ExportWrapper(w, c)
       \/ \E x \in ScriptObjects, c \in Contexts : ScriptDrops(x, c)
       \/ \E v \in KrollValues, c \in Contexts :
            ImportOwn(v, c) \/ ImportCollected(v, c) \/ ImportWrapped(v, c)
       \/ \E v \in KrollValues : KrollDrops(v)
       \/ \E c \in Contexts : CloseContext(c)

LanguageBridgesSpec == LanguageBridgesInit /\ [][LanguageBridgesNext]_bridgeVars

(***************************************************************************)
(* Properties                                                               *)
(***************************************************************************)

LanguageBridgesTypeOK ==
    /\ bridge \in Languages
    /\ heap \in [ScriptObjects -> {"absent", "live", "collected"}]
    /\ reached \subseteq {x \in ScriptObjects : heap[x] = "live"} \X open
    /\ pins \in [ScriptObjects -> Nat]
    /\ leaked \subseteq {x \in ScriptObjects : heap[x] = "live"}
    /\ wraps \in [Wrappers -> KrollValues \cup {NoValue}]
    /\ stands \in [Proxies -> ScriptObjects \cup {NoValue}]
    /\ origin \in [Proxies -> Contexts \cup {NoValue}]
    /\ refs \in [KrollValues -> Nat]
    /\ kept \subseteq KrollValues
    /\ open \subseteq Contexts
    /\ retained \in [Contexts -> Nat]
    /\ lost \in BOOLEAN

LiveProxies == {p \in Proxies : refs[p] > 0}

\* While Kroll or a wrapper has a proxy, the object it stands for has not been
\* collected and the context it came from is there (k_kjs_*.cpp, k_python_*.cpp,
\* k_php_*.cpp: what the constructors protect, the destructors unprotect).  The
\* Ruby proxies protect nothing and promise nothing.
ProxiedObjectsExist ==
    bridge # "ruby" =>
       \A p \in LiveProxies :
          /\ heap[stands[p]] = "live"
          /\ origin[p] \in open \/ bridge # "js" \/ retained[origin[p]] > 0

\* The proxies give back exactly what they took, whatever the order in which the
\* two sides and the pages let go: an object with no proxy left is unprotected, a
\* context with none is released (UnprotectGlobalContext's map of counts), and a
\* Kroll value is counted once by Kroll and once by each wrapper.  It does not say
\* that nothing leaks: Python and PHP do keep what `leaked` holds.
ProtectionsBalance ==
    /\ \A x \in Natives : (\A p \in LiveProxies : stands[p] # x) => pins[x] = 0
    /\ \A c \in Contexts : (\A p \in LiveProxies : origin[p] # c) => retained[c] = 0
    /\ \A v \in KrollValues :
          refs[v] = Cardinality(kept \cap {v})
                      + Cardinality({w \in Wrappers : heap[w] = "live" /\ wraps[w] = v})

\* No representative of a representative (ToKrollValue and ToJSValue undo each
\* other): a proxy stands for a script's own object, and no wrapper is made of a
\* proxy whose object the wrapper's context could have had - for JavaScript, a
\* context of the same group as the one the proxy came from.  PHP does wrap its
\* own objects.
CrossingBackUnwraps ==
    /\ \A p \in LiveProxies : stands[p] \in Natives
    /\ \A w \in Wrappers : heap[w] = "live" /\ wraps[w] \in Proxies =>
          \/ bridge = "php"
          \/ bridge = "js" /\ ContextGroup[origin[wraps[w]]] # ContextGroup[place[w]]
=============================================================================
