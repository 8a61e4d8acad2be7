---------------------------- MODULE ClassLayout ----------------------------
(***************************************************************************)
(* Classes of one unit, from their declaration to the code that uses their *)
(* objects: pass 1 registers them and lays out their fields, fill() makes  *)
(* the functions of their methods and their vtables, and the visitors      *)
(* generate bodies, constructions, calls through the vtable and accesses.  *)
(* The visitors' recursion is an agenda of tasks.  Variables and           *)
(* attributes are pointers (`ptr`, or the name of a class); arguments,     *)
(* results and assignments are left out.  Nothing inherits, since the      *)
(* parser makes no class with a parent.                                    *)
(***************************************************************************)
EXTENDS Integers, Sequences, SequencesExt

CONSTANTS
  Order,   \* the names of classes, functions, attributes, as a std::map sorts them
  Units,   \* sources: sequences of classes and functions
  None     \* the empty class name, a null type, vtable or index

\* The trees the parser makes.  A body is a sequence of what it does with objects
\* and functions; a class holds no class.
Uses == {"new", "dec", "call", "call function", "attribute", "name", "delete"}
IsFunction(item) ==
  /\ item.kind = "function" /\ item.name \in ToSet(Order)
  /\ item.body \in Seq(ToSet(item.body)) /\ \A k \in DOMAIN item.body : item.body[k][1] \in Uses
IsClass(item) ==
  /\ item.kind = "class" /\ item.name \in ToSet(Order)
  /\ item.members \in Seq(ToSet(item.members)) /\ item.builders \in Seq(ToSet(item.builders))
  /\ \A k \in DOMAIN item.members : item.members[k].kind = "attribute" \/ IsFunction(item.members[k])
  /\ \A k \in DOMAIN item.builders : IsFunction(item.builders[k])

ASSUME NameAssumption ==
  /\ Order \in Seq(ToSet(Order)) /\ None \notin ToSet(Order)
  /\ \A class, method \in ToSet(Order) : <<class, method>> # None
ASSUME UnitAssumption ==
  \A unit \in Units :
    unit \in Seq(ToSet(unit)) /\ \A k \in DOMAIN unit : IsClass(unit[k]) \/ IsFunction(unit[k])

VARIABLES
  agenda,
  status,    \* "running", "done", or how the process ends: "terminated" by an
             \* exception that nothing catches, "crash" by a bad pointer
  reported,  \* a CompilationError has been reported
  pass,
  classes,   \* RegistryClass
  globals,   \* the functions outside classes
  cur,       \* _currentClassName
  vars,      \* the variables of the function being generated
  temporary, \* getTemporaryValue()
  bodies,    \* the bodies generated: what was declared, where, and the function it is in
  emitted    \* the instructions about objects

registryVars == <<classes, globals>>
genVars == <<vars, temporary, bodies, emitted>>
layoutVars == <<agenda, status, reported, pass, registryVars, cur, genVars>>

\* `type` is what is declared (None is ptr), `pointed` the pointed type, and
\* `object` the class of the object at run time, None where it is not known.
Value(type, pointed, object) == [type |-> type, pointed |-> pointed, object |-> object]

Each(kind, things) == [k \in DOMAIN things |-> <<kind, things[k]>>]
Generate(things, class) == [k \in DOMAIN things |-> <<"generate", things[k], class>>]

\* The things among those chosen, in their order.
Only(things, chosen) ==
  FlattenSeq([k \in DOMAIN things |-> IF things[k] \in chosen THEN <<things[k]>> ELSE << >>])
OfKind(kind, things) == Only(things, {i \in ToSet(things) : i.kind = kind})
Sorted(names) == Only(Order, names)

\* A map with one entry more, or one replaced.
With(map, key, value) == [k \in DOMAIN map \cup {key} |-> IF k = key THEN value ELSE map[k]]

Init ==
  /\ \E unit \in Units :
       agenda = Each("declare", unit) \o Each("layout", OfKind("class", unit))
                \o <<<<"fill", unit>>>>
  /\ status = "running" /\ reported = FALSE /\ pass = 1
  /\ classes = << >> /\ globals = {}
  /\ cur = None /\ vars = << >> /\ temporary = Value(None, None, None) /\ bodies = {} /\ emitted = {}

Task == Head(agenda)
Doing(kind) == status = "running" /\ agenda # << >> /\ Task[1] = kind
Continue(tasks) == agenda' = tasks \o Tail(agenda) /\ UNCHANGED <<status, reported, pass>>

\* A CompilationError ends the pass; the handler of pass 1 lets pass 2 begin.
Report ==
  /\ reported' = TRUE
  /\ IF pass = 1 THEN agenda' = <<Last(agenda)>> /\ UNCHANGED status
                 ELSE agenda' = << >> /\ status' = "done"
  /\ UNCHANGED pass
GiveUp(how) == status' = how /\ UNCHANGED <<agenda, reported, pass>>

---------------------------------------------------------------------------
(* Pass 1: FillingVisitorRegistry and FillingVisitorBodyClass *)

\* `fields` is None until setBody.  A second class of a name replaces the
\* first, and LLVM gives its struct another name.
NewClass(again) ==
  [methods |-> << >>, attributes |-> << >>, initial |-> << >>, fields |-> None,
   indexes |-> {}, slots |-> << >>, table |-> None, renamed |-> again]

RegisterClass ==
  /\ Doing("declare") /\ Task[2].kind = "class"
  /\ classes' = With(classes, Task[2].name, NewClass(Task[2].name \in DOMAIN classes))
  /\ cur' = Task[2].name
  /\ Continue(Each("declare", Task[2].members) \o Each("declare", Task[2].builders)
              \o <<<<"leave", cur>>>>)
  /\ UNCHANGED <<globals, genVars>>

RegisterAttribute ==
  /\ Doing("declare") /\ Task[2].kind = "attribute"
  /\ IF Task[2].name \in DOMAIN classes[cur].attributes
       THEN Report /\ UNCHANGED classes
       ELSE /\ classes' = [classes EXCEPT ![cur].attributes = With(@, Task[2].name, Task[2].type),
                                          ![cur].initial = With(@, Task[2].name, Task[2].initial)]
            /\ Continue(<< >>)
  /\ UNCHANGED <<globals, cur, genVars>>

\* registerElement: a method of the same name is replaced.
RegisterMethod ==
  /\ Doing("declare") /\ Task[2].kind = "function" /\ cur # None
  /\ classes' = [classes EXCEPT ![cur].methods = With(@, Task[2].name, None)]
  /\ Continue(<< >>)
  /\ UNCHANGED <<globals, cur, genVars>>

RegisterGlobal ==
  /\ Doing("declare") /\ Task[2].kind = "function" /\ cur = None
  /\ globals' = globals \cup {Task[2].name}
  /\ Continue(<< >>)
  /\ UNCHANGED <<classes, cur, genVars>>

\* Mutant: the class stays the current one.
LeaveInside ==
  /\ Doing("leave")
  /\ cur' = cur
  /\ Continue(<< >>)
  /\ UNCHANGED <<registryVars, genVars>>
Leave ==
  /\ Doing("leave")
  /\ cur' = Task[2]
  /\ Continue(<< >>)
  /\ UNCHANGED <<registryVars, genVars>>

\* memberIndices is keyed by StringRefs to temporaries that are gone: a key
\* may seem equal to one that is there or not, so an insertion may overwrite
\* any entry.  What is left are some of the indexes, and the last.  Of two
\* declarations of a class, both lay out the class registered last.
Layout ==
  /\ Doing("layout")
  /\ LET fields == Len(OfKind("attribute", Task[2].members))
     IN \E left \in SUBSET (classes[Task[2].name].indexes \cup 1 .. fields - 1) :
          classes' = [classes EXCEPT ![Task[2].name].fields = fields,
                                     ![Task[2].name].indexes = left \cup (1 .. fields \ 1 .. fields - 1)]
  /\ Continue(<< >>)
  /\ UNCHANGED <<globals, cur, genVars>>

---------------------------------------------------------------------------
(* Pass 2: BuilderEnvironmentRegistryFunction::fill *)

\* The functions outside classes get theirs; then the methods of each class.
BeginFill ==
  /\ Doing("fill")
  /\ agenda' = FlattenSeq([k \in 1 .. Len(Sorted(DOMAIN classes)) |->
                   LET c == Sorted(DOMAIN classes)[k]
                       ms == Sorted(DOMAIN classes[c].methods)
                   IN [j \in DOMAIN ms |-> <<"method", c, ms[j]>>]])
               \o Generate(Task[2], None)
  /\ pass' = 2
  /\ UNCHANGED <<status, reported, registryVars, cur, genVars>>

\* The slots of the methods, the builder among them, whose function is made.
buildVTable(class) ==
  LET names == Sorted({m \in DOMAIN class.methods : class.methods[m] # None})
  IN [class EXCEPT !.table = [k \in DOMAIN names |-> class.methods[names[k]]],
                   !.slots = [m \in ToSet(names) \cup DOMAIN class.slots |->
                                IF m \in ToSet(names) THEN CHOOSE k \in DOMAIN names : names[k] = m
                                ELSE class.slots[m]]]

\* Mutant: the vtable is built before the function is recorded.
FillMethodLate ==
  /\ Doing("method")
  /\ LET c == Task[2]
         m == Task[3]
         built == IF m = c THEN classes[c] ELSE buildVTable(classes[c])
     IN /\ classes' = [classes EXCEPT ![c] = [built EXCEPT !.methods[m] = <<c, m>>]]
        /\ IF c \in DOMAIN built.methods THEN Continue(<< >>) ELSE GiveUp("terminated")
  /\ UNCHANGED <<globals, cur, genVars>>

\* The vtable is built again after each method but the builder; a class with
\* methods and no builder ends the process.
FillMethod ==
  /\ Doing("method")
  /\ LET c == Task[2]
         m == Task[3]
         made == [classes[c] EXCEPT !.methods[m] = <<c, m>>]
     IN /\ classes' = [classes EXCEPT ![c] = IF m = c THEN made ELSE buildVTable(made)]
        /\ IF c \in DOMAIN made.methods THEN Continue(<< >>) ELSE GiveUp("terminated")
  /\ UNCHANGED <<globals, cur, genVars>>

---------------------------------------------------------------------------
(* GeneralVisitorGenCode: classes and functions *)

GenerateClass ==
  /\ Doing("generate") /\ Task[2].kind = "class"
  /\ cur' = Task[2].name
  /\ Continue(Generate(OfKind("function", Task[2].members) \o OfKind("function", Task[2].builders), Task[2].name)
              \o <<<<"leave", cur>>>>)
  /\ UNCHANGED <<registryVars, genVars>>

\* What the name of a function means where code is generated, if anything; the
\* class may be one that pass 1, ended by an error, has not registered.
Found(name) ==
  IF cur \in DOMAIN classes /\ name \in DOMAIN classes[cur].methods THEN {classes[cur].methods[name]} ELSE {}
Global(name) == IF name \in globals THEN {<<None, name>>} ELSE {}

\* createFunction and handleConstructedArguments: in a class, the function is a method.
GenerateFunction ==
  /\ Doing("generate") /\ Task[2].kind = "function"
  /\ LET into == IF cur # None THEN Found(Task[2].name) ELSE Global(Task[2].name)
     IN IF into = {}
          THEN GiveUp("terminated") /\ UNCHANGED genVars
          ELSE /\ bodies' = bodies \cup {[class |-> Task[3], declared |-> Task[2], into |-> CHOOSE f \in into : TRUE]}
               /\ vars' = [name \in IF cur = None THEN {} ELSE {"this"} |-> Value(None, None, cur)]
               /\ Continue(Task[2].body \o <<<<"end function">>>>)
               /\ UNCHANGED <<temporary, emitted>>
  /\ UNCHANGED <<registryVars, cur>>

EndFunction ==
  /\ Doing("end function")
  /\ vars' = << >>
  /\ Continue(<< >>)
  /\ UNCHANGED <<registryVars, cur, temporary, bodies, emitted>>

Emit(instruction) == emitted' = emitted \cup {instruction}

---------------------------------------------------------------------------
(* Objects are made *)

\* visiter(NodeNew): the memory, the pointer to the vtable, then the initial
\* values of attributes in the order of their names, then the builder.
VisitNew ==
  /\ Doing("new")
  /\ LET c == Task[2]
     IN IF c \notin DOMAIN classes THEN GiveUp("terminated") /\ UNCHANGED emitted
        ELSE IF classes[c].fields = None THEN GiveUp("crash") /\ UNCHANGED emitted
        ELSE /\ emitted' = IF classes[c].table = None THEN emitted
                           ELSE emitted \cup {[op |-> "set vptr", class |-> c]}
             /\ LET given == Sorted({a \in DOMAIN classes[c].initial : classes[c].initial[a] # None})
                IN Continue(FlattenSeq([k \in DOMAIN given |->
                              <<<<"new", classes[c].initial[given[k]]>>, <<"initialise", c>>>>])
                            \o <<<<"construct", c>>>>)
  /\ UNCHANGED <<registryVars, cur, vars, temporary, bodies>>

\* find, then [], which inserts 0 if the key seems to be new now.
Initialise ==
  /\ Doing("initialise")
  /\ \/ UNCHANGED <<classes, emitted>>
     \/ \E index \in classes[Task[2]].indexes \cup {0} :
          /\ classes[Task[2]].indexes # {}
          /\ classes' = [classes EXCEPT ![Task[2]].indexes = @ \cup {index}]
          /\ Emit([op |-> "store", class |-> Task[2], index |-> index])
  /\ Continue(<< >>)
  /\ UNCHANGED <<globals, cur, vars, temporary, bodies>>

Construct ==
  /\ Doing("construct")
  /\ emitted' = IF Task[2] \in DOMAIN classes[Task[2]].methods
                  THEN emitted \cup {[op |-> "call", function |-> classes[Task[2]].methods[Task[2]], this |-> TRUE]}
                  ELSE emitted
  /\ temporary' = Value(None, Task[2], Task[2])
  /\ Continue(<< >>)
  /\ UNCHANGED <<registryVars, cur, vars, bodies>>

\* A variable takes over what the temporary points to.
Declare ==
  /\ Doing("dec")
  /\ IF Task[2] \in DOMAIN vars
       THEN Report /\ UNCHANGED vars
       ELSE /\ vars' = With(vars, Task[2], Value(Task[3], temporary.pointed, temporary.object))
            /\ Continue(<< >>)
  /\ UNCHANGED <<registryVars, cur, temporary, bodies, emitted>>

---------------------------------------------------------------------------
(* Objects are used *)

\* VariableAddressor::getAddress: a variable, or what may be found under the
\* name in the class; the pointed type of an attribute is not known.
Addressed(name) ==
  IF name \in DOMAIN vars THEN {vars[name]}
  ELSE IF cur # None /\ classes[cur].indexes # {}
    THEN {Value(IF name \in DOMAIN classes[cur].attributes THEN classes[cur].attributes[name] ELSE None,
                None, None), None}
    ELSE {None}

\* The class by which calls and accesses know an object, None where they find
\* none.  A struct that LLVM has renamed names no class.
getClassNameFromSymbol(v) ==
  LET name == IF v.type # None THEN v.type ELSE v.pointed
  IN IF name = None \/ name \notin DOMAIN classes \/ (v.type = None /\ classes[name].renamed)
       THEN None ELSE name

\* The result of a call leaves the pointed type that was there.
Called == temporary' = Value(None, temporary.pointed, None)

\* The class is named after the declared type, but its struct is the pointed
\* type, without which the process crashes; so it does without a vtable.
CallObject ==
  /\ Doing("call")
  /\ \E v \in Addressed(Task[2]) :
       IF v = None THEN GiveUp("terminated") /\ UNCHANGED <<temporary, emitted>>
       ELSE LET name == getClassNameFromSymbol(v)
                c == classes[name]
            IN IF v.type # None /\ v.pointed = None THEN GiveUp("crash") /\ UNCHANGED <<temporary, emitted>>
               ELSE IF name = None \/ Task[3] \notin DOMAIN c.methods
                 THEN GiveUp("terminated") /\ UNCHANGED <<temporary, emitted>>
               ELSE IF c.table = None THEN GiveUp("crash") /\ UNCHANGED <<temporary, emitted>>
               ELSE /\ Continue(<< >>)
                    /\ IF Task[3] = name
                         THEN /\ Emit([op |-> "call", function |-> c.methods[Task[3]], this |-> TRUE])
                              /\ UNCHANGED temporary
                         ELSE /\ Emit([op |-> "dispatch", on |-> v, method |-> Task[3],
                                       slot |-> IF Task[3] \in DOMAIN c.slots THEN c.slots[Task[3]] ELSE 0])
                              /\ Called
  /\ UNCHANGED <<registryVars, cur, vars, bodies>>

\* getLocalFunction: a method is called by its name without an object.
CallFunction ==
  /\ Doing("call function")
  /\ LET target == IF Found(Task[2]) # {} THEN Found(Task[2]) ELSE Global(Task[2])
     IN IF target = {} THEN GiveUp("terminated") /\ UNCHANGED <<temporary, emitted>>
        ELSE /\ Emit([op |-> "call", function |-> CHOOSE f \in target : TRUE, this |-> FALSE])
             /\ Called
             /\ Continue(<< >>)
  /\ UNCHANGED <<registryVars, cur, vars, bodies>>

\* No object, class or attribute, or an attribute that its key does not find.
AccessAttribute ==
  /\ Doing("attribute")
  /\ \/ /\ \E v \in Addressed(Task[2]) :
             /\ v # None
             /\ LET name == getClassNameFromSymbol(v) IN
                  /\ name # None
                  /\ Task[3] \in DOMAIN classes[name].attributes
                  /\ \E index \in classes[name].indexes :
                       Emit([op |-> "load", class |-> name, index |-> index])
                  /\ temporary' = Value(classes[name].attributes[Task[3]], None, None)
        /\ Continue(<< >>)
     \/ GiveUp("terminated") /\ UNCHANGED <<temporary, emitted>>
  /\ UNCHANGED <<registryVars, cur, vars, bodies>>

\* A name is a variable, or an attribute of the class reached through `this`.
LoadName ==
  /\ Doing("name")
  /\ \E v \in Addressed(Task[2]) :
       IF v = None THEN GiveUp("terminated") /\ UNCHANGED <<temporary, emitted>>
       ELSE /\ temporary' = v
            /\ IF Task[2] \in DOMAIN vars
                 THEN UNCHANGED emitted
                 ELSE \E index \in classes[cur].indexes : Emit([op |-> "load", class |-> cur, index |-> index])
            /\ Continue(<< >>)
  /\ UNCHANGED <<registryVars, cur, vars, bodies>>

\* Only a variable can be deleted; it keeps its name.
Delete ==
  /\ Doing("delete")
  /\ IF Task[2] \in DOMAIN vars THEN Continue(<< >>) ELSE Report
  /\ UNCHANGED <<registryVars, cur, genVars>>

Finish ==
  /\ status = "running" /\ agenda = << >>
  /\ status' = "done"
  /\ UNCHANGED <<agenda, reported, pass, registryVars, cur, genVars>>

Next ==
  \/ RegisterClass \/ RegisterAttribute \/ RegisterMethod \/ RegisterGlobal \/ Leave \/ Layout
  \/ BeginFill \/ FillMethod
  \/ GenerateClass \/ GenerateFunction \/ EndFunction
  \/ VisitNew \/ Initialise \/ Construct \/ Declare
  \/ CallObject \/ CallFunction \/ AccessAttribute \/ LoadName \/ Delete
  \/ Finish

Spec == Init /\ [][Next]_layoutVars

---------------------------------------------------------------------------
\* Slots are numbered while a vtable is built again and again, and used when
\* code is generated: at run time, a call on an object that `new` made, known
\* by no other class than its own, finds that class's method in its vtable.
DispatchRight ==
  \A i \in emitted :
    i.op = "dispatch" /\ i.on.object # None /\ i.on.type \in {None, i.on.object} =>
      LET c == classes[i.on.object] IN
        /\ [op |-> "set vptr", class |-> i.on.object] \in emitted
        /\ i.slot \in DOMAIN c.table
        /\ c.table[i.slot] = <<i.on.object, i.method>>

\* The current class decides where a body goes: unless an error was reported
\* (one of pass 1 leaves its class the current one), it goes into the function
\* of what declares it, whatever classes came before.
BodiesInPlace ==
  reported \/ \A b \in bodies : b.into = <<b.class, b.declared.name>>

=============================================================================
