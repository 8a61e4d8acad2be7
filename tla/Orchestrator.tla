-------------------------- MODULE Orchestrator --------------------------
(***************************************************************************)
(* OrchestratorInclude and UnitCompilation: the two-pass, multi-threaded   *)
(* compilation of a project.  Pool workers run pass 1 of a unit (read,     *)
(* parse, register its functions, schedule its includes) and, after the    *)
(* barrier of compileProject, pass 2 (copy the global function registry    *)
(* into the unit's local one, generate, write the .ll file).               *)
(*                                                                         *)
(* A source file is abstracted to what the pipeline tells apart: whether   *)
(* it can be read and parsed, the sequence of its declarations (functions, *)
(* includes, a statement on which a visitor throws), the functions its     *)
(* code calls and how code generation ends if it finds them as the file    *)
(* expects them.  What a function takes and returns is its signature: the  *)
(* one in force is that of the last registration of the name.              *)
(***************************************************************************)
EXTENDS Naturals, Sequences, SequencesExt

CONSTANTS
  Workers,      \* the threads of llvm::ThreadPool
  Main,         \* the thread that runs main and compileProject
  Free,         \* value of a mutex nobody holds
  NoSymbol,     \* a name the global registry does not hold
  Paths,        \* spellings of source paths, keys of _alreadyIncludedFiles
  Roots,        \* the paths main may be given on the command line
  Names,        \* function names
  Signatures,   \* the parameters and result a function may have
  Builtins,     \* the names registerExternalFunctions registers, in order
  ReadOutcome,  \* path -> "ok" | "error" | "fatal": reading, lexing, parsing
  Decls,        \* path -> the declarations the registry visitors meet, in order
  Calls,        \* path -> the functions its code calls, as it expects them
  GenOutcome,   \* path -> "ok" | "error" | "fatal": generation of its code
                \* against the functions it expects
  Output        \* path -> the .ll file its unit writes

Outcomes == {"ok", "error", "fatal"}
FunctionDecl == [kind : {"function"}, name : Names, signature : Signatures]
FunctionCall == [kind : {"call"}, name : Names, signature : Signatures]
IncludeDecl == [kind : {"include"}, path : Paths]
ThrowingDecl == [kind : {"error", "fatal"}]

ASSUME ActorAssumption ==
  /\ Workers # {}
  /\ Main \notin Workers
  /\ Free \notin Workers \cup {Main}

ASSUME ProjectAssumption ==
  /\ Roots \subseteq Paths
  /\ Builtins \in Seq(Names)
  /\ ReadOutcome \in [Paths -> Outcomes]
  /\ Decls \in [Paths -> Seq(FunctionDecl \cup IncludeDecl \cup ThrowingDecl)]
  /\ Calls \in [Paths -> SUBSET FunctionCall]
  /\ GenOutcome \in [Paths -> Outcomes]

Actors == Workers \cup {Main}
Task == [pass : {1, 2}, unit : Nat \ {0}]
NoTask == [pass |-> 0, unit |-> 0]
Symbol == [unit : Nat \ {0}, decl : Nat \ {0}, builtin : BOOLEAN]

ASSUME SymbolAssumption == NoSymbol \notin Symbol

VARIABLES
  root,        \* the path compileProject is called with
  mutex,       \* holder of *_mutex
  included,    \* _alreadyIncludedFiles
  units,       \* _compilationUnits, each by the path it was made for
  hasErrors,   \* _hasErrors
  queue,       \* tasks of the pool not yet started, oldest first
  job,         \* worker -> the task it runs
  pc,          \* actor -> the step it is about to take
  pos,         \* actor -> its place in the sequence it walks through
  tree,        \* the units whose _tree is set
  globalFns,   \* RegistryFunctionGlobal: name -> Symbol or NoSymbol
  todo,        \* worker -> the keys fill() has not copied yet
  held,        \* worker -> <<key, symbol>> it got from the global registry
  localFns,    \* unit -> the <<key, symbol>> copied to its local registry
  registered,  \* FileRegistry: the .ll files to link
  written,     \* the .ll files pass 2 has written
  exit         \* "running", "failed", "linked" or "terminated"

poolVars == <<queue, job>>
unitVars == <<root, included, units, tree>>
registryVars == <<globalFns, localFns>>
fileVars == <<registered, written>>
fillVars == <<todo, held>>
vars == <<root, mutex, included, units, hasErrors, queue, job, pc, pos, tree,
          globalFns, todo, held, localFns, registered, written, exit>>

Init ==
  /\ root \in Roots
  /\ mutex = Free
  /\ included = {}
  /\ units = <<>>
  /\ hasErrors = FALSE
  /\ queue = <<>>
  /\ job = [w \in Workers |-> NoTask]
  /\ pc = [a \in Actors |-> IF a = Main THEN "lock" ELSE "idle"]
  /\ pos = [a \in Actors |-> 0]
  /\ tree = {}
  /\ globalFns = [n \in Names |-> NoSymbol]
  /\ todo = [w \in Workers |-> {}]
  /\ held = [w \in Workers |-> <<>>]
  /\ localFns = <<>>
  /\ registered = {}
  /\ written = {}
  /\ exit = "running"

Goto(a, label) == pc' = [pc EXCEPT ![a] = label]
PathOf(w) == units[job[w].unit]
Statement(w) == Decls[PathOf(w)][pos[w]]
AtStatement(w) == pc[w] = "visit" /\ pos[w] \in DOMAIN Decls[PathOf(w)]

---------------------------------------------------------------------------
\* includeFile, called by main for the root and by a worker that visits an
\* include.  Everything after the lock_guard runs with *_mutex held.

IncludeTarget(a) == IF a = Main THEN root ELSE Statement(a).path

\* Mutant: the visitor meets the same include again.
ReturnToSameInclude(a) ==
  /\ mutex' = Free
  /\ Goto(a, IF a = Main THEN "wait1" ELSE "visit")
  /\ UNCHANGED pos

ReturnFromInclude(a) ==
  /\ mutex' = Free
  /\ Goto(a, IF a = Main THEN "wait1" ELSE "visit")
  /\ pos' = [pos EXCEPT ![a] = IF a = Main THEN 0 ELSE @ + 1]

\* Mutant: includeFile without its lock_guard.
EnterWithoutLock(a) ==
  /\ pc[a] = "lock"
  /\ mutex' = a
  /\ Goto(a, "test")
  /\ UNCHANGED <<unitVars, hasErrors, poolVars, pos, registryVars, fillVars,
                 fileVars, exit>>

LockInclude(a) ==
  /\ pc[a] = "lock"
  /\ mutex = Free
  /\ mutex' = a
  /\ Goto(a, "test")
  /\ UNCHANGED <<unitVars, hasErrors, poolVars, pos, registryVars, fillVars,
                 fileVars, exit>>

\* Already included: return at once.
TestIncluded(a) ==
  /\ pc[a] = "test"
  /\ IF IncludeTarget(a) \in included
     THEN ReturnFromInclude(a)
     ELSE Goto(a, "insert") /\ UNCHANGED <<mutex, pos>>
  /\ UNCHANGED <<unitVars, hasErrors, poolVars, registryVars, fillVars,
                 fileVars, exit>>

\* Mutant: the path is not put among the included ones.
InsertUnmarked(a) ==
  /\ pc[a] = "insert"
  /\ units' = Append(units, IncludeTarget(a))
  /\ localFns' = Append(localFns, {})
  /\ queue' = Append(queue, [pass |-> 1, unit |-> Len(units) + 1])
  /\ ReturnFromInclude(a)
  /\ UNCHANGED <<root, included, hasErrors, job, tree, globalFns, fillVars, fileVars, exit>>

InsertInclude(a) ==
  /\ pc[a] = "insert"
  /\ included' = included \cup {IncludeTarget(a)}
  /\ units' = Append(units, IncludeTarget(a))
  /\ localFns' = Append(localFns, {})
  /\ queue' = Append(queue, [pass |-> 1, unit |-> Len(units) + 1])
  /\ ReturnFromInclude(a)
  /\ UNCHANGED <<root, hasErrors, job, tree, globalFns, fillVars, fileVars, exit>>

---------------------------------------------------------------------------
\* The pool: a worker takes the oldest task; wait() returns once the queue
\* is empty and no task runs.

\* Mutant: wait() looks at the queue only.
QueueDrained == queue = <<>>

PoolIdle == queue = <<>> /\ \A w \in Workers : job[w] = NoTask

\* Mutant: the task stays in the queue.
PeekTask(w) ==
  /\ pc[w] = "idle"
  /\ queue # <<>>
  /\ job' = [job EXCEPT ![w] = Head(queue)]
  /\ Goto(w, IF Head(queue).pass = 1 THEN "begin" ELSE "fill")
  /\ UNCHANGED <<mutex, unitVars, hasErrors, queue, pos, registryVars, fillVars,
                 fileVars, exit>>

TakeTask(w) ==
  /\ pc[w] = "idle"
  /\ queue # <<>>
  /\ job' = [job EXCEPT ![w] = Head(queue)]
  /\ queue' = Tail(queue)
  /\ Goto(w, IF Head(queue).pass = 1 THEN "begin" ELSE "fill")
  /\ UNCHANGED <<mutex, unitVars, hasErrors, pos, registryVars, fillVars,
                 fileVars, exit>>

EndTask(w) ==
  /\ job' = [job EXCEPT ![w] = NoTask]
  /\ Goto(w, "idle")
  /\ pos' = [pos EXCEPT ![w] = 0]

\* Mutant: the handler prints the error and leaves the flag alone.
SwallowError(w) ==
  /\ pc[w] = "report"
  /\ EndTask(w)
  /\ UNCHANGED <<mutex, unitVars, hasErrors, queue, registryVars, fillVars,
                 fileVars, exit>>

\* The handler of both task lambdas: CompilationError sets the flag.
ReportError(w) ==
  /\ pc[w] = "report"
  /\ mutex = Free
  /\ hasErrors' = TRUE
  /\ EndTask(w)
  /\ UNCHANGED <<mutex, unitVars, queue, registryVars, fillVars, fileVars, exit>>

\* Any other exception leaves the task lambda: the process ends.
Terminated(w) ==
  /\ exit' = "terminated"
  /\ UNCHANGED <<mutex, unitVars, hasErrors, poolVars, pc, pos, registryVars,
                 fillVars, fileVars>>

---------------------------------------------------------------------------
\* Pass 1 of a unit.

BeginUnit(w) ==
  /\ pc[w] = "begin"
  /\ registered' = registered \cup {Output[PathOf(w)]}
  /\ Goto(w, "builtins")
  /\ pos' = [pos EXCEPT ![w] = 1]
  /\ UNCHANGED <<mutex, unitVars, hasErrors, poolVars, registryVars, fillVars,
                 written, exit>>

\* registerElement replaces, and so destroys, the symbol of that name.
RegisterGlobal(w, name, builtin) ==
  globalFns' = [globalFns EXCEPT ![name] =
                  [unit |-> job[w].unit, decl |-> pos[w], builtin |-> builtin]]

RegisterBuiltin(w) ==
  /\ pc[w] = "builtins"
  /\ pos[w] \in DOMAIN Builtins
  /\ RegisterGlobal(w, Builtins[pos[w]], TRUE)
  /\ pos' = [pos EXCEPT ![w] = @ + 1]
  /\ UNCHANGED <<mutex, unitVars, hasErrors, poolVars, pc, localFns, fillVars,
                 fileVars, exit>>

\* FileReading, Lexer::tokenize and the tree builder; _tree is set on success.
ReadSource(w) ==
  /\ pc[w] = "builtins"
  /\ pos[w] > Len(Builtins)
  /\ \/ /\ ReadOutcome[PathOf(w)] = "ok"
        /\ tree' = tree \cup {job[w].unit}
        /\ Goto(w, "visit")
        /\ pos' = [pos EXCEPT ![w] = 1]
        /\ UNCHANGED <<root, mutex, included, units, hasErrors, poolVars,
                       registryVars, fillVars, fileVars, exit>>
     \/ /\ ReadOutcome[PathOf(w)] = "error"
        /\ Goto(w, "report")
        /\ UNCHANGED <<mutex, unitVars, hasErrors, poolVars, pos, registryVars,
                       fillVars, fileVars, exit>>
     \/ /\ ReadOutcome[PathOf(w)] = "fatal"
        /\ Terminated(w)

VisitFunction(w) ==
  /\ AtStatement(w)
  /\ Statement(w).kind = "function"
  /\ RegisterGlobal(w, Statement(w).name, FALSE)
  /\ pos' = [pos EXCEPT ![w] = @ + 1]
  /\ UNCHANGED <<mutex, unitVars, hasErrors, poolVars, pc, localFns, fillVars,
                 fileVars, exit>>

\* Mutant: the visitor has no case for an include.
SkipInclude(w) ==
  /\ AtStatement(w)
  /\ Statement(w).kind = "include"
  /\ pos' = [pos EXCEPT ![w] = @ + 1]
  /\ UNCHANGED <<mutex, unitVars, hasErrors, poolVars, pc, registryVars,
                 fillVars, fileVars, exit>>

VisitInclude(w) ==
  /\ AtStatement(w)
  /\ Statement(w).kind = "include"
  /\ Goto(w, "lock")
  /\ UNCHANGED <<mutex, unitVars, hasErrors, poolVars, pos, registryVars,
                 fillVars, fileVars, exit>>

VisitThrows(w) ==
  /\ AtStatement(w)
  /\ \/ /\ Statement(w).kind = "error"
        /\ Goto(w, "report")
        /\ UNCHANGED <<mutex, unitVars, hasErrors, poolVars, pos, registryVars,
                       fillVars, fileVars, exit>>
     \/ /\ Statement(w).kind = "fatal"
        /\ Terminated(w)

EndPass1(w) ==
  /\ pc[w] = "visit"
  /\ pos[w] \notin DOMAIN Decls[PathOf(w)]
  /\ EndTask(w)
  /\ UNCHANGED <<mutex, unitVars, hasErrors, queue, registryVars, fillVars,
                 fileVars, exit>>

---------------------------------------------------------------------------
\* Pass 2 of a unit.

\* pass2 returns at once without a tree; fill() first snapshots the keys.
BeginFill(w) ==
  /\ pc[w] = "fill"
  /\ IF job[w].unit \in tree
     THEN /\ todo' = [todo EXCEPT ![w] = {n \in Names : globalFns[n] # NoSymbol}]
          /\ Goto(w, "get")
          /\ UNCHANGED <<job, pos>>
     ELSE EndTask(w) /\ UNCHANGED todo
  /\ UNCHANGED <<mutex, unitVars, hasErrors, queue, registryVars, held,
                 fileVars, exit>>

\* get() returns a reference that outlives the registry's lock.
GetSymbol(w) ==
  /\ pc[w] = "get"
  /\ \E n \in todo[w] :
       /\ held' = [held EXCEPT ![w] = <<n, globalFns[n]>>]
       /\ todo' = [todo EXCEPT ![w] = @ \ {n}]
  /\ Goto(w, "use")
  /\ UNCHANGED <<mutex, unitVars, hasErrors, poolVars, pos, registryVars,
                 fileVars, exit>>

\* A builtin is skipped; the local entry's key points into the global symbol.
UseSymbol(w) ==
  /\ pc[w] = "use"
  /\ IF held[w][2].builtin
     THEN UNCHANGED localFns
     ELSE localFns' = [localFns EXCEPT ![job[w].unit] = @ \cup {held[w]}]
  /\ held' = [held EXCEPT ![w] = <<>>]
  /\ Goto(w, "get")
  /\ UNCHANGED <<mutex, unitVars, hasErrors, poolVars, pos, globalFns, todo,
                 fileVars, exit>>

\* Mutant: fill() may stop before its last key.
EndFillEarly(w) ==
  /\ pc[w] = "get"
  /\ Goto(w, "generate")
  /\ UNCHANGED <<mutex, unitVars, hasErrors, poolVars, pos, registryVars,
                 fillVars, fileVars, exit>>

EndFill(w) ==
  /\ pc[w] = "get"
  /\ todo[w] = {}
  /\ Goto(w, "generate")
  /\ UNCHANGED <<mutex, unitVars, hasErrors, poolVars, pos, registryVars,
                 fillVars, fileVars, exit>>

BuiltinNames == {Builtins[i] : i \in DOMAIN Builtins}

\* Mutant: the local registry starts without the builtins.
CopiedNames(u) == {entry[1] : entry \in localFns[u]}

LocalNames(u) == BuiltinNames \cup {entry[1] : entry \in localFns[u]}

\* What generation looks up in the local registry: the functions a file calls
\* and all those it declares, also behind a statement that stopped the visitors.
References(p) == Calls[p] \cup {d \in ToSet(Decls[p]) : d.kind = "function"}

\* fill() makes the llvm::Function from the symbol it copied.
SignatureOf(symbol) == Decls[units[symbol.unit]][symbol.decl].signature

\* The local registry of unit u has the function as r expects it.  A call of a
\* builtin nobody replaced is the file's own business, part of GenOutcome.
Fits(r, u) ==
  /\ r.name \in LocalNames(u)
  /\ \A entry \in localFns[u] : entry[1] = r.name => SignatureOf(entry[2]) = r.signature
  /\ r.kind = "function" => \E entry \in localFns[u] : entry[1] = r.name

\* A name the local registry lacks makes the lookup throw something else than a
\* CompilationError, unless the file's own error comes first.  With another
\* signature getArg and CreateCall leave the function's arguments: an assertion
\* or a missing value ends the process, or the damage stays in the .ll file.
GenerationOutcomes(p, u) ==
  {o \in Outcomes :
     \/ o = GenOutcome[p] /\ (o = "ok" => \A r \in References(p) : r.name \in LocalNames(u))
     \/ o = "fatal" /\ \E r \in References(p) : ~Fits(r, u)}

GenerateCode(w) ==
  /\ pc[w] = "generate"
  /\ \E outcome \in GenerationOutcomes(PathOf(w), job[w].unit) :
       \/ /\ outcome = "ok"
          /\ Goto(w, "save")
          /\ UNCHANGED <<mutex, unitVars, hasErrors, poolVars, pos,
                         registryVars, fillVars, fileVars, exit>>
       \/ /\ outcome = "error"
          /\ Goto(w, "report")
          /\ UNCHANGED <<mutex, unitVars, hasErrors, poolVars, pos,
                         registryVars, fillVars, fileVars, exit>>
       \/ /\ outcome = "fatal"
          /\ Terminated(w)

\* SaveLLVMCode has the file open for as long as the worker is at "save".
SaveUnit(w) ==
  /\ pc[w] = "save"
  /\ written' = written \cup {Output[PathOf(w)]}
  /\ EndTask(w)
  /\ UNCHANGED <<mutex, unitVars, hasErrors, queue, registryVars, fillVars,
                 registered, exit>>

---------------------------------------------------------------------------
\* compileProject and main after it.

WaitPass1 ==
  /\ pc[Main] = "wait1"
  /\ PoolIdle
  /\ Goto(Main, "spawn")
  /\ UNCHANGED <<mutex, unitVars, hasErrors, poolVars, pos, registryVars,
                 fillVars, fileVars, exit>>

\* Mutant: unit numbers counted from 0.
SpawnPass2FromZero ==
  /\ pc[Main] = "spawn"
  /\ pos[Main] < Len(units)
  /\ queue' = Append(queue, [pass |-> 2, unit |-> pos[Main]])
  /\ pos' = [pos EXCEPT ![Main] = @ + 1]
  /\ UNCHANGED <<mutex, unitVars, hasErrors, job, pc, registryVars, fillVars,
                 fileVars, exit>>

SpawnPass2 ==
  /\ pc[Main] = "spawn"
  /\ pos[Main] < Len(units)
  /\ queue' = Append(queue, [pass |-> 2, unit |-> pos[Main] + 1])
  /\ pos' = [pos EXCEPT ![Main] = @ + 1]
  /\ UNCHANGED <<mutex, unitVars, hasErrors, job, pc, registryVars, fillVars,
                 fileVars, exit>>

\* The second wait, then main: exit code 1 on an error, else link.
FinishProject ==
  /\ pc[Main] = "spawn"
  /\ pos[Main] = Len(units)
  /\ PoolIdle
  /\ Goto(Main, "done")
  /\ exit' = IF hasErrors THEN "failed" ELSE "linked"
  /\ UNCHANGED <<mutex, unitVars, hasErrors, poolVars, pos, registryVars,
                 fillVars, fileVars>>

---------------------------------------------------------------------------
IncludeStep(a) == LockInclude(a) \/ TestIncluded(a) \/ InsertInclude(a)

Pass1Step(w) ==
  \/ BeginUnit(w)
  \/ RegisterBuiltin(w)
  \/ ReadSource(w)
  \/ VisitFunction(w)
  \/ VisitInclude(w)
  \/ VisitThrows(w)
  \/ EndPass1(w)

Pass2Step(w) ==
  \/ BeginFill(w)
  \/ GetSymbol(w)
  \/ UseSymbol(w)
  \/ EndFill(w)
  \/ GenerateCode(w)
  \/ SaveUnit(w)

WorkerStep(w) ==
  /\ exit = "running"
  /\ \/ TakeTask(w)
     \/ ReportError(w)
     \/ IncludeStep(w)
     \/ Pass1Step(w)
     \/ Pass2Step(w)

MainStep ==
  /\ exit = "running"
  /\ \/ IncludeStep(Main)
     \/ WaitPass1
     \/ SpawnPass2
     \/ FinishProject

\* The process has ended; nothing moves any more.
Ended == exit # "running" /\ UNCHANGED vars

Next == MainStep \/ Ended \/ \E w \in Workers : WorkerStep(w)

\* Every thread the operating system keeps scheduling takes its steps.
Fairness == WF_vars(MainStep) /\ \A w \in Workers : WF_vars(WorkerStep(w))

Spec == Init /\ [][Next]_vars /\ Fairness

---------------------------------------------------------------------------
\* State predicates the properties are stated with.

Throws(p, kind) ==
  \E k \in DOMAIN Decls[p] :
    /\ Decls[p][k].kind = kind
    /\ \A j \in 1 .. k - 1 : Decls[p][j].kind \notin {"error", "fatal"}

AnalysisFails == {p \in Paths : \/ ReadOutcome[p] = "error"
                                \/ ReadOutcome[p] = "ok" /\ Throws(p, "error")}
GenerationFails == {p \in Paths : ReadOutcome[p] = "ok" /\ GenOutcome[p] = "error"}

\* What the visitors of a parsed file reach before one of them throws.
Visited(p) ==
  IF ReadOutcome[p] # "ok" THEN {}
  ELSE {Decls[p][k] : k \in {k \in DOMAIN Decls[p] :
          \A j \in 1 .. k : Decls[p][j].kind \notin {"error", "fatal"}}}
IncludesOf == [p \in Paths |->
  {d.path : d \in {d \in Visited(p) : d.kind = "include"}}]
Declared(p) == {d.name : d \in {d \in Visited(p) : d.kind = "function"}}

Queued(pass, i) == \E k \in DOMAIN queue : queue[k] = [pass |-> pass, unit |-> i]
Running(pass, i) == \E w \in Workers : job[w] = [pass |-> pass, unit |-> i]
Pending(pass, i) == Queued(pass, i) \/ Running(pass, i)

\* The entries a local registry must hold: the global ones that fill() copies.
UserFunctions == {<<n, globalFns[n]>> : n \in
                   {n \in Names : globalFns[n] # NoSymbol /\ ~globalFns[n].builtin}}

Labels == {"idle", "begin", "builtins", "visit", "lock", "test", "insert",
           "report", "fill", "get", "use", "generate", "save", "wait1",
           "spawn", "done"}

---------------------------------------------------------------------------
TypeOK ==
  /\ root \in Paths
  /\ mutex \in Actors \cup {Free}
  /\ included \in SUBSET Paths
  /\ units \in Seq(Paths)
  /\ hasErrors \in BOOLEAN
  /\ queue \in Seq(Task)
  /\ job \in [Workers -> Task \cup {NoTask}]
  /\ pc \in [Actors -> Labels]
  /\ pos \in [Actors -> Nat]
  /\ tree \in SUBSET Nat
  /\ globalFns \in [Names -> Symbol \cup {NoSymbol}]
  /\ todo \in [Workers -> SUBSET Names]
  /\ held \in [Workers -> (Names \X (Symbol \cup {NoSymbol})) \cup {<<>>}]
  /\ localFns \in Seq(SUBSET (Names \X Symbol))
  /\ Len(localFns) = Len(units)
  /\ registered \in SUBSET {Output[p] : p \in Paths}
  /\ written \in SUBSET {Output[p] : p \in Paths}
  /\ exit \in {"running", "failed", "linked", "terminated"}

\* At most one thread is inside includeFile, and it is the holder of *_mutex.
IncludeExclusion ==
  \A a \in Actors : pc[a] \in {"test", "insert"} <=> mutex = a

\* However many includes name a path, at once or in a cycle, one unit is made
\* for it, and every path marked as included has its unit.
OneUnitPerPath ==
  /\ \A i, j \in DOMAIN units : units[i] = units[j] => i = j
  /\ included = {units[i] : i \in DOMAIN units}

\* compileProject's barrier: once a unit is in pass 2, or due for it, no unit
\* has its pass 1 queued or running ("called after all pass1 threads are
\* finished").
PassesSeparate ==
  \A i, j \in DOMAIN units : ~(Pending(2, i) /\ Pending(1, j))

\* A unit's two passes run once each: no task is queued twice or run by two
\* workers.
TasksDistinct ==
  /\ \A k, l \in DOMAIN queue : queue[k] = queue[l] => k = l
  /\ \A w \in Workers : job[w] # NoTask =>
       /\ ~Queued(job[w].pass, job[w].unit)
       /\ \A v \in Workers : job[v] = job[w] => v = w

\* A reference fill() got from the global registry, and a key of a local
\* registry that points into a global symbol, are never left dangling by a
\* registration that replaces the symbol.
NoDanglingSymbol ==
  /\ \A w \in Workers : held[w] # <<>> => held[w][2] = globalFns[held[w][1]]
  /\ \A i \in DOMAIN localFns : \A entry \in localFns[i] :
       entry[2] = globalFns[entry[1]]

\* Whatever the schedule of pass 1, a unit generates code against all the
\* project's functions ("from the complete global registry"), and all units
\* against the same ones.
LocalRegistryComplete ==
  \A w \in Workers : pc[w] \in {"generate", "save"} =>
    /\ localFns[job[w].unit] = UserFunctions
    /\ \A i \in tree : Declared(units[i]) \subseteq LocalNames(job[w].unit)

\* main links only a complete project: everything the root includes, directly
\* or not, was analysed and generated without error and every file handed to
\* the linker was written by this run; it reports failure only if a unit failed.
ExitTruthful ==
  /\ exit = "linked" =>
       /\ root \in included
       /\ \A p \in included : /\ IncludesOf[p] \subseteq included
                              /\ p \notin AnalysisFails \cup GenerationFails
                              /\ ReadOutcome[p] = "ok"
       /\ registered = written
  /\ exit = "failed" =>
       \E p \in included : p \in AnalysisFails \cup GenerationFails

\* The visitors met a declaration of r's name, here or in another file, that is
\* not as r expects it, or r declares a builtin again.
Disputed(r) ==
  \/ \E q \in included : \E d \in Visited(q) :
       d.kind = "function" /\ d.name = r.name /\ d.signature # r.signature
  \/ r.kind = "function" /\ r.name \in BuiltinNames

\* The process dies only for what the source files contain: a fault of one, a
\* function the visitors met in no file, or two files that disagree on what a
\* function of one name takes and returns.  Only the last lets the order in
\* which threads registered functions decide: files that agree on their
\* functions are compiled, or rejected, whatever the schedule.
DeathDeserved ==
  exit = "terminated" =>
    \E p \in included :
      \/ ReadOutcome[p] = "fatal"
      \/ Throws(p, "fatal")
      \/ GenOutcome[p] = "fatal"
      \/ \E r \in References(p) :
           \/ r.name \notin BuiltinNames \cup UNION {Declared(q) : q \in included}
           \/ Disputed(r)

\* compileProject and main end: no cycle of includes, no thread waiting for
\* the mutex and no wait() of the pool keeps the process running.
Termination == <>(exit # "running")

---------------------------------------------------------------------------
\* Refinement: the pipeline without threads.

Phase == IF exit # "running" THEN exit
         ELSE IF pc[Main] = "spawn" THEN "generation" ELSE "analysis"
Spawned == IF pc[Main] \in {"spawn", "done"} THEN 1 .. pos[Main] ELSE {}

Pipeline == INSTANCE CompilePipeline WITH
  phase <- Phase,
  discovered <- included,
  analysed <- {units[i] : i \in {i \in DOMAIN units : ~Pending(1, i)}},
  generated <- {units[i] : i \in {i \in Spawned : ~Pending(2, i)}},
  failed <- hasErrors

\* Threads, queue and mutex together do what CompilePipeline says: discover to
\* a fixpoint, then generate each unit once, then link or fail.
ImplementsPipeline == Pipeline!Spec

==========================================================================
