---------------------------- MODULE BoundObjects ----------------------------
(***************************************************************************)
(* The object model's named properties: StaticBoundObject, whose map is     *)
(* guarded by a mutex of its own, AccessorBoundObject, which calls setX and *)
(* getX or isX if such a method is bound (API is one), KObject::SetNS and   *)
(* GetNS, which walk dotted names from object to object with no lock over   *)
(* the walk, and API.set and API.get, which use them (static_bound_object,  *)
(* accessor_bound_object and kobject.cpp in api/binding, api_binding.cpp).  *)
(*                                                                         *)
(* A dotted name is what lies between its periods, a sequence of tokens of  *)
(* which some may be empty.  Any thread may call API.set.                   *)
(***************************************************************************)
EXTENDS Naturals, Sequences, Vectors

CONSTANTS Threads,
          Global, Api,    \* the global object, and APIBinding bound in it ...
          ApiName,        \* ... under this name
          Created,        \* the objects SetNS may create (a bound)
          AMethod,        \* a KObject that is no object to Value, as a list is none
          Primitive,      \* a value with no properties
          Undefined,
          Tokens,
          Empty,          \* the token between two periods
          Setters,        \* the names "set" + n of each token n, in any case ...
          Getters,        \* ... and "get" + n and "is" + n
          Keys,           \* the dotted names scripts use
          MaxWrites       \* bound: calls of API.set

ASSUME BoundObjectsAssumption ==
    /\ {ApiName, Empty} \subseteq Tokens /\ ApiName # Empty
    /\ {Setters, Getters} \subseteq [Tokens -> SUBSET Tokens]
    /\ \A n \in Tokens : n \notin Setters[n] \cup Getters[n]
    /\ Keys \subseteq Seq(Tokens) \ {<<>>, <<Empty>>}
    /\ MaxWrites \in Nat
    /\ Undefined \notin Threads \cup Created \cup {Global, Api, AMethod, Primitive}
    /\ Primitive \notin Created \cup {Global, Api, AMethod}
    /\ AMethod \notin Created \cup {Global, Api}
    /\ {Global, Api} \cap Created = {} /\ Global # Api

VARIABLES
    props,    \* StaticBoundObject::properties of each object
    made,     \* objects SetNS has created
    mutex,    \* the thread inside each object's mutex, or Undefined
    op,       \* each thread's SetNS
    writes,   \* calls of API.set begun so far
    wrecked,  \* a thread followed a raw pointer into a freed object
    everSet,  \* history: properties that were bound and never unset
    missed,   \* history: a reader found one of those Undefined
    last      \* history: the last name that was set, and how

objectVars == <<props, made, mutex, op, writes, wrecked, everSet, missed, last>>

Objects == {Global, Api, AMethod} \cup Created
Bindable == {AMethod, Primitive}
PropertyValues == Objects \cup {Primitive, Undefined}

\* A thread in SetNS: the scope, the tokens left, the value; what Set is binding
\* now; whether the name has no empty token, only objects were on the way and no
\* accessor was called; whether nobody else wrote meanwhile.
Idle == [at |-> "idle", scope |-> Undefined, path |-> <<>>, value |-> Undefined,
         binding |-> Undefined, plain |-> TRUE, alone |-> TRUE]

Disturbed == [t \in Threads |-> [op[t] EXCEPT !.alone = FALSE]]

BoundObjectsInit ==
    /\ props = [o \in Objects |-> [n \in Tokens |->
                  IF o = Global /\ n = ApiName THEN Api ELSE Undefined]]
    /\ made = {}
    /\ mutex = [o \in Objects |-> Undefined]
    /\ op = [t \in Threads |-> Idle]
    /\ writes = 0
    /\ wrecked = FALSE
    /\ everSet = {<<Global, ApiName>>}
    /\ missed = FALSE
    /\ last = [path |-> <<>>, value |-> Undefined, plain |-> FALSE]

\* Value::IsObject is false for lists and methods, which are KObjects too.
IsObject(v) == v \in {Global, Api} \cup Created
IsKObject(v) == v \in Objects

\* API.get and API.set: a name without a period is API's own.
StartOf(name) == IF Len(name) = 1 THEN Api ELSE Global

\* AccessorBoundObject::FindMethod finds a setter, or a getter, for the name.
Accessed(names, o, n) == o = Api /\ \E m \in names[n] : props[o][m] = AMethod

\* What Get may answer: what is bound, or whatever the getter returns.
Answers(o, n) ==
    IF Accessed(Getters, o, n) THEN PropertyValues \ (Created \ made) ELSE {props[o][n]}

\* What GetNS may answer: it goes on through objects only, token by token, the
\* empty ones too.
GetNS(name) ==
    LET walk[i \in 0..Len(name)] ==
          IF i = 0 THEN {StartOf(name)}
          ELSE UNION {IF IsObject(o) THEN Answers(o, name[i]) ELSE {Undefined} :
                        o \in walk[i - 1]}
    IN  walk[Len(name)]

\* FileUtils::Tokenize leaves the empty tokens out.
Tokenize(name) == Without(name, {Empty})

\* API.set: SetNS starts at the object the name is relative to.
APISet(t, name, v) ==
    /\ op[t].at = "idle"
    /\ writes < MaxWrites
    /\ Tokenize(name) # <<>>
    /\ writes' = writes + 1
    /\ LET alone == \A u \in Threads : op[u].at = "idle"
       IN  op' = [Disturbed EXCEPT ![t] =
                    [Idle EXCEPT !.at = "walk", !.scope = StartOf(name),
                                 !.path = Tokenize(name), !.value = v,
                                 !.plain = (Tokenize(name) = name), !.alone = alone]]
    /\ last' = [path |-> name, value |-> v, plain |-> FALSE]
    /\ UNCHANGED <<props, made, mutex, wrecked, everSet, missed>>

\* A name of periods alone has no tokens: tokens.size() - 1 wraps around, and
\* SetNS reads past the end of the vector.
SetNothing(t, name) ==
    /\ op[t].at = "idle"
    /\ writes < MaxWrites
    /\ Tokenize(name) = <<>>
    /\ wrecked' = TRUE
    /\ UNCHANGED <<props, made, mutex, op, writes, everSet, missed, last>>

\* The scope's Get takes its mutex; what it may answer to the next token.
Walks(t) == op[t].at = "walk" /\ mutex[op[t].scope] = Undefined

Here(t) == Answers(op[t].scope, Head(op[t].path))

Called(t) == Accessed(Getters, op[t].scope, Head(op[t].path))

\* SetNS, one token before the last: what is bound there becomes the scope.
StepInto(t) ==
    /\ Walks(t)
    /\ Len(op[t].path) > 1
    /\ \E v \in Here(t) :
         /\ IsKObject(v)
         /\ op' = [op EXCEPT ![t].scope = v, ![t].path = Tail(@),
                             ![t].plain = @ /\ IsObject(v) /\ ~Called(t)]
    /\ UNCHANGED <<props, made, mutex, writes, wrecked, everSet, missed, last>>

\* A value without properties in the way: SetNS throws.
RefuseNamespace(t) ==
    /\ Walks(t)
    /\ Len(op[t].path) > 1
    /\ Primitive \in Here(t)
    /\ op' = [op EXCEPT ![t] = Idle]
    /\ UNCHANGED <<props, made, mutex, writes, wrecked, everSet, missed, last>>

\* Nothing there: SetNS creates an object, still to be bound.
CreateNamespace(t) ==
    /\ Walks(t)
    /\ Len(op[t].path) > 1
    /\ Undefined \in Here(t)
    /\ made # Created
    /\ LET next == CHOOSE o \in Created : o \notin made
       IN  /\ made' = made \cup {next}
           /\ op' = [op EXCEPT ![t].at = "set", ![t].binding = next,
                               ![t].plain = @ /\ ~Called(t)]
    /\ UNCHANGED <<props, mutex, writes, wrecked, everSet, missed, last>>

\* The last token: the value is to be bound.
BindValue(t) ==
    /\ Walks(t)
    /\ Len(op[t].path) = 1
    /\ op' = [op EXCEPT ![t].at = "set", ![t].binding = op[t].value,
                        ![t].plain = @ /\ ~Called(t)]
    /\ UNCHANGED <<props, made, mutex, writes, wrecked, everSet, missed, last>>

\* AccessorBoundObject::Set finds a setter ...
Intercepted(t) ==
    /\ op[t].at = "set"
    /\ mutex[op[t].scope] = Undefined
    /\ Accessed(Setters, op[t].scope, Head(op[t].path))

\* ... calls it and binds nothing; SetNS goes on in the object it gave to the
\* setter, or is done.
CallSetter(t) ==
    LET rest == Tail(op[t].path) IN
    /\ Intercepted(t)
    /\ IF rest # <<>>
         THEN op' = [op EXCEPT ![t].at = "walk", ![t].scope = op[t].binding,
                               ![t].path = rest, ![t].plain = FALSE]
         ELSE op' = [op EXCEPT ![t] = Idle]
    /\ UNCHANGED <<props, made, mutex, writes, wrecked, everSet, missed, last>>

\* A setter or a getter throws, and SetNS with it.
AccessorThrows(t) ==
    /\ Intercepted(t) \/ (Walks(t) /\ Len(op[t].path) > 1 /\ Called(t))
    /\ op' = [op EXCEPT ![t] = Idle]
    /\ UNCHANGED <<props, made, mutex, writes, wrecked, everSet, missed, last>>

SetEraseMutant(t) ==  \* Set does not hold the mutex between UnSet and the assignment
    LET o == op[t].scope IN
    /\ op[t].at = "set"
    /\ mutex[o] = Undefined
    /\ props' = [props EXCEPT ![o][Head(op[t].path)] = Undefined]
    /\ op' = [op EXCEPT ![t].at = "assign"]
    /\ UNCHANGED <<made, mutex, writes, wrecked, everSet, missed, last>>

\* StaticBoundObject::Set takes the mutex and erases the old value ...
SetErase(t) ==
    LET o == op[t].scope IN
    /\ op[t].at = "set"
    /\ ~Accessed(Setters, o, Head(op[t].path))
    /\ mutex[o] = Undefined
    /\ mutex' = [mutex EXCEPT ![o] = t]
    /\ props' = [props EXCEPT ![o][Head(op[t].path)] = Undefined]
    /\ op' = [op EXCEPT ![t].at = "assign"]
    /\ UNCHANGED <<made, writes, wrecked, everSet, missed, last>>

SetAssignMutant(t) ==  \* SetNS binds the value at a namespace it has to create
    LET o == op[t].scope
        n == Head(op[t].path)
    IN
    /\ op[t].at = "assign"
    /\ props' = [props EXCEPT ![o][n] = op[t].value]
    /\ everSet' = everSet \cup {<<o, n>>}
    /\ mutex' = [mutex EXCEPT ![o] = Undefined]
    /\ op' = [op EXCEPT ![t] = Idle]
    /\ last' = [last EXCEPT !.plain = op[t].plain /\ op[t].alone]
    /\ UNCHANGED <<made, writes, wrecked, missed>>

\* ... and binds the new one; SetNS goes on in an object it created, or is done.
SetAssign(t) ==
    LET o == op[t].scope
        v == op[t].binding
        n == Head(op[t].path)
        rest == Tail(op[t].path)
    IN
    /\ op[t].at = "assign"
    /\ props' = [props EXCEPT ![o][n] = v]
    /\ everSet' = everSet \cup {<<o, n>>}
    /\ mutex' = [mutex EXCEPT ![o] = Undefined]
    /\ IF rest # <<>>
         THEN /\ op' = [op EXCEPT ![t].at = "walk", ![t].scope = v, ![t].path = rest]
              /\ UNCHANGED last
         ELSE /\ op' = [op EXCEPT ![t] = Idle]
              /\ last' = [last EXCEPT !.plain = op[t].plain /\ op[t].alone]
    /\ UNCHANGED <<made, writes, wrecked, missed>>

\* StaticBoundObject::Get, by anyone: a step where it matters to someone.
ReadProperty(o, n) ==
    /\ <<o, n>> \in everSet
    /\ mutex[o] = Undefined
    /\ missed' = (missed \/ props[o][n] = Undefined)
    /\ UNCHANGED <<props, made, mutex, op, writes, wrecked, everSet, last>>

\* StaticBoundObject::UnSet, by the object's owner.
UnSet(o, n) ==
    /\ mutex[o] = Undefined
    /\ props[o][n] # Undefined
    /\ <<o, n>> # <<Global, ApiName>>
    /\ props' = [props EXCEPT ![o][n] = Undefined]
    /\ everSet' = everSet \ {<<o, n>>}
    /\ op' = Disturbed
    /\ last' = [last EXCEPT !.plain = FALSE]
    /\ UNCHANGED <<made, mutex, writes, wrecked, missed>>

\* SetNS keeps its scope as a raw pointer: when another thread replaces the
\* binding that owned the object, the walk goes on in freed memory.
Bound(o) == \E p \in Objects, n \in Tokens : props[p][n] = o

WalkInFreed(t) ==
    /\ op[t].at \in {"walk", "set"}
    /\ op[t].scope \in Created
    /\ ~Bound(op[t].scope)
    /\ wrecked' = TRUE
    /\ UNCHANGED <<props, made, mutex, op, writes, everSet, missed, last>>

BoundObjectsNext ==
    /\ ~wrecked
    /\ \/ \E t \in Threads, name \in Keys, v \in Bindable : APISet(t, name, v)
       \/ \E t \in Threads, name \in Keys : SetNothing(t, name)
       \/ \E t \in Threads :
            \/ StepInto(t) \/ RefuseNamespace(t) \/ CreateNamespace(t) \/ BindValue(t)
            \/ CallSetter(t) \/ AccessorThrows(t) \/ SetErase(t) \/ SetAssign(t) \/ WalkInFreed(t)
       \/ \E o \in Objects, n \in Tokens : ReadProperty(o, n) \/ UnSet(o, n)

BoundObjectsSpec == BoundObjectsInit /\ [][BoundObjectsNext]_objectVars

(***************************************************************************)
(* Properties                                                               *)
(***************************************************************************)

BoundObjectsTypeOK ==
    /\ props \in [Objects -> [Tokens -> PropertyValues]]
    /\ made \subseteq Created
    /\ mutex \in [Objects -> Threads \cup {Undefined}]
    /\ \A t \in Threads : op[t].at \in {"idle", "walk", "set", "assign"}
    /\ writes \in 0..MaxWrites
    /\ wrecked \in BOOLEAN
    /\ missed \in BOOLEAN
    /\ last.plain \in BOOLEAN

\* Replacing a property is atomic for readers (static_bound_object.cpp, Set and
\* Get): Set erases before it assigns, but nobody reads Undefined in between.
BoundPropertyNeverMissing == ~missed

\* What API.set bound, API.get finds under the same dotted name (SetNS and GetNS
\* walk alike) - when nobody else was writing, the name has no empty token, only
\* objects were on the way and API had no accessor for it.  The other names need
\* not be found: NamesAreFound.
NamespaceReadsBack == last.plain => GetNS(last.path) = {last.value}

\* kobject.h, GetNS: the same as Get(...)->ToObject()->Get(...), that is "the value
\* of the child object, or Value::Undefined if the object, or it's parents are
\* undefined".  GetNS answers Undefined, too, below a method or a list, through
\* which ToObject, and SetNS, do go.
GetByGet(name) ==
    LET walk[i \in 0..Len(name)] ==
          IF i = 0 THEN {StartOf(name)}
          ELSE UNION {IF IsKObject(o) THEN Answers(o, name[i]) ELSE {Undefined} :
                        o \in walk[i - 1]}
    IN  walk[Len(name)]

NamesAreFound == \A name \in Keys : GetNS(name) = GetByGet(name)

\* kobject.h, SetNS: it "does nothing if the object or it's parents are undefined".
\* It creates and binds the parents that are missing.
ParentsAreNotMade == \A o \in Created : ~Bound(o)
=============================================================================
