--------------------------- MODULE PipelineProofs ---------------------------
(***************************************************************************)
(* Safety of the two-pass pipeline, for any project and any number of      *)
(* workers.  IInv ties the program counters to the tasks and the tasks to  *)
(* the phase of compileProject.  The invariants behind it build on it.     *)
(* First, each pass of a unit is one task, which one worker runs.  Second, *)
(* what pass 1 leaves behind: a unit whose task has ended is accounted     *)
(* for.  Third, what pass 2 does to a unit, and so how compileProject      *)
(* ends.  Fourth, the refinement of CompilePipeline.  Last, what the       *)
(* spellings of paths mean for the files that are compiled.                *)
(***************************************************************************)
EXTENDS Spellings, SequenceFacts

IncludeLabels == {"lock", "test", "insert"}
Pass1Labels == {"begin", "builtins", "visit"} \cup IncludeLabels
Pass2Labels == {"fill", "get", "use", "generate", "save"}
InPass2Phase == pc[Main] \in {"spawn", "done"}

\* What a worker's program counter says of its task and its registers.
WorkerInv(w) ==
  /\ pc[w] \in {"idle", "report"} \cup Pass1Labels \cup Pass2Labels
  /\ pc[w] = "idle" <=> job[w] = NoTask
  /\ pc[w] \in Pass1Labels => job[w].pass = 1
  /\ pc[w] \in Pass2Labels => job[w].pass = 2
  /\ pc[w] \in IncludeLabels =>
       /\ pos[w] \in DOMAIN Decls[PathOf(w)]
       /\ Statement(w).kind = "include"
  /\ pc[w] = "use" => held[w] \in Names \X Symbol
  /\ pc[w] # "use" => held[w] = <<>>

WorkerControl == \A w \in Workers : WorkerInv(w)

MainControl == pc[Main] \in IncludeLabels \cup {"wait1", "spawn", "done"}

\* Tasks are about existing units, and of the pass the phase is in.
TaskControl ==
  /\ \A k \in DOMAIN queue :
       /\ queue[k].unit \in DOMAIN units
       /\ queue[k].pass = IF InPass2Phase THEN 2 ELSE 1
  /\ \A w \in Workers : job[w] # NoTask =>
       /\ job[w].unit \in DOMAIN units
       /\ job[w].pass = IF InPass2Phase THEN 2 ELSE 1

\* Nothing is copied from the global registry before pass 2.
RegistryControl ==
  /\ ~InPass2Phase => \A i \in DOMAIN localFns : localFns[i] = {}
  /\ \A w \in Workers : \A n \in todo[w] : globalFns[n] # NoSymbol

\* The test of includeFile is still good when it inserts.
InsertIsNew ==
  \A a \in Actors : pc[a] = "insert" => IncludeTarget(a) \notin included

IInv ==
  /\ TypeOK
  /\ WorkerControl
  /\ MainControl
  /\ TaskControl
  /\ RegistryControl
  /\ IncludeExclusion
  /\ InsertIsNew
  /\ OneUnitPerPath
  /\ NoDanglingSymbol

---------------------------------------------------------------------------
\* What Append leaves of a sequence.
LEMMA AppendElements ==
  ASSUME NEW S, NEW s \in Seq(S), NEW e \in S
  PROVE  /\ Append(s, e) \in Seq(S)
         /\ Len(Append(s, e)) = Len(s) + 1
         /\ DOMAIN Append(s, e) = 1 .. Len(s) + 1
         /\ \A k \in 1 .. Len(s) : Append(s, e)[k] = s[k]
         /\ Append(s, e)[Len(s) + 1] = e
  OBVIOUS

\* What Head and Tail leave of a sequence.
LEMMA TailElements ==
  ASSUME NEW S, NEW s \in Seq(S), s # <<>>
  PROVE  /\ Tail(s) \in Seq(S)
         /\ Head(s) = s[1]
         /\ 1 \in DOMAIN s
         /\ DOMAIN Tail(s) = 1 .. Len(s) - 1
         /\ \A k \in DOMAIN Tail(s) : Tail(s)[k] = s[k + 1] /\ k + 1 \in DOMAIN s
  OBVIOUS

\* What EXCEPT leaves of a sequence.
LEMMA ReplaceElement ==
  ASSUME NEW S, NEW s \in Seq(S), NEW i \in DOMAIN s, NEW e \in S
  PROVE  LET t == [s EXCEPT ![i] = e]
         IN  /\ t \in Seq(S)
             /\ Len(t) = Len(s)
             /\ DOMAIN t = DOMAIN s
             /\ t[i] = e
             /\ \A k \in DOMAIN s : k # i => t[k] = s[k]
  OBVIOUS

\* The initial state.
LEMMA InitIInv == Init => IInv
  <1> SUFFICES ASSUME Init PROVE IInv
    OBVIOUS
  <1> USE ActorAssumption, ProjectAssumption DEF Init, Actors
  <1>1. TypeOK
    <2>1. units \in Seq(Paths) /\ queue \in Seq(Task)
      OBVIOUS
    <2>2. localFns \in Seq(SUBSET (Names \X Symbol))
      OBVIOUS
    <2>3. Len(localFns) = Len(units)
      OBVIOUS
    <2>4. job \in [Workers -> Task \cup {NoTask}]
      OBVIOUS
    <2>5. held \in [Workers -> (Names \X (Symbol \cup {NoSymbol})) \cup {<<>>}]
      OBVIOUS
    <2>6. pc \in [Actors -> Labels]
      BY DEF Labels
    <2> QED
      BY <2>1, <2>2, <2>3, <2>4, <2>5, <2>6 DEF TypeOK
  <1>2. WorkerControl
    BY DEF WorkerControl, WorkerInv, NoTask, Pass1Labels, Pass2Labels, IncludeLabels
  <1>3. MainControl
    BY DEF MainControl, IncludeLabels
  <1>4. TaskControl
    BY DEF TaskControl, NoTask
  <1>5. RegistryControl
    BY DEF RegistryControl
  <1>6. IncludeExclusion
    BY DEF IncludeExclusion
  <1>7. InsertIsNew
    BY DEF InsertIsNew
  <1>8. OneUnitPerPath
    BY DEF OneUnitPerPath
  <1>9. NoDanglingSymbol
    BY DEF NoDanglingSymbol
  <1> QED
    BY <1>1, <1>2, <1>3, <1>4, <1>5, <1>6, <1>7, <1>8, <1>9 DEF IInv

---------------------------------------------------------------------------
\* includeFile.

LEMMA LockIncludeStep ==
  ASSUME IInv, NEW a \in Actors, LockInclude(a)
  PROVE  IInv'
  <1> USE ActorAssumption, ProjectAssumption
      DEF IInv, LockInclude, Goto, Actors, unitVars, poolVars, registryVars,
          fillVars, fileVars, IncludeLabels, Pass1Labels, Pass2Labels
  <1>1. TypeOK'
    BY DEF TypeOK, Labels
  <1>2. WorkerControl'
    BY DEF WorkerControl, WorkerInv, TypeOK, PathOf, Statement
  <1>3. MainControl'
    BY DEF MainControl, TypeOK
  <1>4. TaskControl'
    BY DEF TaskControl, TypeOK, InPass2Phase
  <1>5. RegistryControl'
    BY DEF RegistryControl, TypeOK, InPass2Phase
  <1>6. IncludeExclusion'
    BY DEF IncludeExclusion, TypeOK
  <1>7. InsertIsNew'
    BY DEF InsertIsNew, TypeOK, IncludeTarget, Statement, PathOf
  <1>8. OneUnitPerPath'
    BY DEF OneUnitPerPath
  <1>9. NoDanglingSymbol'
    BY DEF NoDanglingSymbol
  <1> QED
    BY <1>1, <1>2, <1>3, <1>4, <1>5, <1>6, <1>7, <1>8, <1>9 DEF IInv

LEMMA TestIncludedStep ==
  ASSUME IInv, NEW a \in Actors, TestIncluded(a)
  PROVE  IInv'
  <1> USE ActorAssumption, ProjectAssumption
      DEF TestIncluded, Goto, Actors, unitVars, poolVars, registryVars,
          fillVars, fileVars, IncludeLabels, Pass1Labels, Pass2Labels
  <1>0. /\ TypeOK /\ WorkerControl /\ MainControl /\ TaskControl
        /\ RegistryControl /\ IncludeExclusion /\ InsertIsNew /\ OneUnitPerPath
        /\ NoDanglingSymbol
    BY DEF IInv
  <1>1. /\ UNCHANGED <<root, included, units, tree, hasErrors, queue, job, globalFns,
                       localFns, todo, held, registered, written, exit>>
        /\ pc[a] = "test"
    OBVIOUS
  <1>2. CASE IncludeTarget(a) \in included
    <2>1. /\ mutex' = Free
          /\ pc' = [pc EXCEPT ![a] = IF a = Main THEN "wait1" ELSE "visit"]
          /\ pos' = [pos EXCEPT ![a] = IF a = Main THEN 0 ELSE pos[a] + 1]
      BY <1>2 DEF ReturnFromInclude
    <2> USE <1>0, <1>1, <2>1
    <2> HIDE DEF TestIncluded
    <2>2. TypeOK'
      BY DEF TypeOK, Labels
    <2>3. WorkerControl'
      BY DEF WorkerControl, WorkerInv, TypeOK, PathOf, Statement
    <2>4. MainControl' /\ InPass2Phase' = InPass2Phase
      BY DEF MainControl, TypeOK, InPass2Phase
    <2>5. TaskControl' /\ RegistryControl'
      BY <2>4 DEF TaskControl, RegistryControl
    <2>6. IncludeExclusion'
      BY DEF IncludeExclusion, TypeOK
    <2>7. InsertIsNew'
      BY DEF InsertIsNew, IncludeExclusion, TypeOK, IncludeTarget, Statement, PathOf
    <2>8. OneUnitPerPath' /\ NoDanglingSymbol'
      BY DEF OneUnitPerPath, NoDanglingSymbol
    <2> QED
      BY <2>2, <2>3, <2>4, <2>5, <2>6, <2>7, <2>8 DEF IInv
  <1>3. CASE IncludeTarget(a) \notin included
    <2>1. pc' = [pc EXCEPT ![a] = "insert"] /\ UNCHANGED <<mutex, pos>>
      BY <1>3
    <2> USE <1>0, <1>1, <2>1
    <2> HIDE DEF TestIncluded
    <2>2. TypeOK'
      BY DEF TypeOK, Labels
    <2>3. WorkerControl'
      BY DEF WorkerControl, WorkerInv, TypeOK, PathOf, Statement
    <2>4. MainControl' /\ InPass2Phase' = InPass2Phase
      BY DEF MainControl, TypeOK, InPass2Phase
    <2>5. TaskControl' /\ RegistryControl'
      BY <2>4 DEF TaskControl, RegistryControl
    <2>6. IncludeExclusion'
      BY DEF IncludeExclusion, TypeOK
    <2>7. InsertIsNew'
      BY <1>3 DEF InsertIsNew, TypeOK, IncludeTarget, Statement, PathOf
    <2>8. OneUnitPerPath' /\ NoDanglingSymbol'
      BY DEF OneUnitPerPath, NoDanglingSymbol
    <2> QED
      BY <2>2, <2>3, <2>4, <2>5, <2>6, <2>7, <2>8 DEF IInv
  <1> QED
    BY <1>2, <1>3

LEMMA InsertIncludeStep ==
  ASSUME IInv, NEW a \in Actors, InsertInclude(a)
  PROVE  IInv'
  <1> DEFINE p == IncludeTarget(a)
             n == Len(units) + 1
  <1> USE ActorAssumption, ProjectAssumption
      DEF Actors, IncludeLabels, Pass1Labels, Pass2Labels
  <1>0. /\ TypeOK /\ WorkerControl /\ MainControl /\ TaskControl
        /\ RegistryControl /\ IncludeExclusion /\ InsertIsNew /\ OneUnitPerPath
        /\ NoDanglingSymbol
    BY DEF IInv
  <1>1. /\ pc[a] = "insert"
        /\ included' = included \cup {p}
        /\ units' = Append(units, p)
        /\ localFns' = Append(localFns, {})
        /\ queue' = Append(queue, [pass |-> 1, unit |-> n])
        /\ mutex' = Free
        /\ pc' = [pc EXCEPT ![a] = IF a = Main THEN "wait1" ELSE "visit"]
        /\ pos' = [pos EXCEPT ![a] = IF a = Main THEN 0 ELSE pos[a] + 1]
        /\ UNCHANGED <<root, hasErrors, job, tree, globalFns, todo, held, registered,
                       written, exit>>
    BY DEF InsertInclude, ReturnFromInclude, Goto, fillVars, fileVars
  <1>2. p \in Paths /\ p \notin included
    <2>1. CASE a = Main
      BY <1>0, <1>1, <2>1 DEF IncludeTarget, InsertIsNew, TypeOK
    <2>2. CASE a \in Workers
      <3>1. /\ pos[a] \in DOMAIN Decls[PathOf(a)]
            /\ Decls[PathOf(a)][pos[a]].kind = "include"
        BY <1>0, <1>1, <2>2 DEF WorkerControl, WorkerInv, Statement
      <3>2. job[a] # NoTask /\ PathOf(a) \in Paths
        BY <1>0, <1>1, <2>2 DEF WorkerControl, WorkerInv, TaskControl, TypeOK, PathOf
      <3>3. Decls[PathOf(a)][pos[a]] \in FunctionDecl \cup IncludeDecl \cup ThrowingDecl
        BY <3>1, <3>2
      <3>4. Decls[PathOf(a)][pos[a]].path \in Paths
        BY <3>1, <3>3 DEF FunctionDecl, IncludeDecl, ThrowingDecl
      <3> QED
        BY <1>0, <1>1, <2>2, <3>4 DEF IncludeTarget, Statement, InsertIsNew
    <2> QED
      BY <2>1, <2>2
  <1>3. /\ units' \in Seq(Paths)
        /\ Len(units') = n
        /\ DOMAIN units' = 1 .. n /\ DOMAIN units = 1 .. n - 1
        /\ n \in Nat \ {0}
        /\ \A i \in DOMAIN units : units'[i] = units[i]
        /\ units'[n] = p
    BY <1>0, <1>1, <1>2, AppendElements DEF TypeOK
  <1>4. /\ queue' \in Seq(Task)
        /\ DOMAIN queue' = 1 .. Len(queue) + 1 /\ DOMAIN queue = 1 .. Len(queue)
        /\ \A k \in DOMAIN queue : queue'[k] = queue[k]
        /\ queue'[Len(queue) + 1] = [pass |-> 1, unit |-> n]
    <2>1. [pass |-> 1, unit |-> n] \in Task
      BY <1>3 DEF Task
    <2> QED
      BY <1>0, <1>1, <2>1, AppendElements DEF TypeOK
  <1>5. /\ localFns' \in Seq(SUBSET (Names \X Symbol))
        /\ Len(localFns') = n
        /\ DOMAIN localFns' = 1 .. n /\ DOMAIN localFns = 1 .. n - 1
        /\ \A i \in DOMAIN localFns : localFns'[i] = localFns[i]
        /\ localFns'[n] = {}
    <2>1. {} \in SUBSET (Names \X Symbol)
      OBVIOUS
    <2> QED
      BY <1>0, <1>1, <1>3, <2>1, AppendElements DEF TypeOK
  <1>6. ~InPass2Phase /\ ~InPass2Phase'
    <2>1. CASE a = Main
      BY <1>0, <1>1, <2>1 DEF InPass2Phase, TypeOK
    <2>2. CASE a \in Workers
      <3>1. job[a] # NoTask /\ job[a].pass = 1
        BY <1>0, <1>1, <2>2 DEF WorkerControl, WorkerInv
      <3> QED
        BY <1>0, <1>1, <2>2, <3>1 DEF TaskControl, InPass2Phase, TypeOK
    <2> QED
      BY <2>1, <2>2
  <1> HIDE DEF p, n
  <1>7. TypeOK'
    <2>1. included' \in SUBSET Paths /\ mutex' \in Actors \cup {Free}
      BY <1>0, <1>1, <1>2 DEF TypeOK
    <2>2. Len(localFns') = Len(units')
      BY <1>3, <1>5
    <2>3. pos' \in [Actors -> Nat]
      BY <1>0, <1>1 DEF TypeOK
    <2>4. pc' \in [Actors -> Labels]
      BY <1>0, <1>1 DEF TypeOK, Labels
    <2> QED
      BY <1>0, <1>1, <1>3, <1>4, <1>5, <2>1, <2>2, <2>3, <2>4 DEF TypeOK
  <1>8. WorkerControl'
    <2>1. \A w \in Workers : job[w] # NoTask => PathOf(w)' = PathOf(w)
      BY <1>0, <1>1, <1>3 DEF PathOf, TaskControl
    <2> SUFFICES ASSUME NEW w \in Workers PROVE WorkerInv(w)'
      BY DEF WorkerControl
    <2>2. WorkerInv(w)
      BY <1>0 DEF WorkerControl
    <2>3. CASE w = a
      BY <1>0, <1>1, <2>2, <2>3 DEF WorkerInv, TypeOK
    <2>4. CASE w # a
      <3>1. UNCHANGED <<pc[w], pos[w], job[w], held[w]>>
        BY <1>0, <1>1, <2>4 DEF TypeOK
      <3>2. pc[w] \in IncludeLabels => Statement(w)' = Statement(w) /\ PathOf(w)' = PathOf(w)
        BY <2>1, <2>2, <3>1 DEF WorkerInv, Statement
      <3> QED
        BY <2>2, <3>1, <3>2 DEF WorkerInv
    <2> QED
      BY <2>3, <2>4
  <1>9. MainControl'
    BY <1>0, <1>1 DEF MainControl, TypeOK
  <1>10. TaskControl'
    <2>1. \A k \in DOMAIN queue' :
             queue'[k].unit \in DOMAIN units' /\ queue'[k].pass = 1
      <3> SUFFICES ASSUME NEW k \in DOMAIN queue'
                   PROVE  queue'[k].unit \in DOMAIN units' /\ queue'[k].pass = 1
        OBVIOUS
      <3>1. CASE k \in DOMAIN queue
        BY <1>0, <1>3, <1>4, <1>6, <3>1 DEF TaskControl
      <3>2. CASE k = Len(queue) + 1
        BY <1>3, <1>4, <3>2
      <3>3. Len(queue) \in Nat
        BY <1>0 DEF TypeOK
      <3> QED
        BY <1>4, <3>1, <3>2, <3>3
    <2>2. \A w \in Workers : job[w] # NoTask =>
             job[w].unit \in DOMAIN units' /\ job[w].pass = 1
      BY <1>0, <1>3, <1>6 DEF TaskControl
    <2> QED
      BY <1>1, <1>6, <2>1, <2>2 DEF TaskControl
  <1>11. RegistryControl'
    BY <1>0, <1>1, <1>5, <1>6 DEF RegistryControl
  <1>12. IncludeExclusion'
    BY <1>0, <1>1 DEF IncludeExclusion, TypeOK
  <1>13. InsertIsNew'
    BY <1>0, <1>1 DEF InsertIsNew, IncludeExclusion, TypeOK
  <1>14. OneUnitPerPath'
    <2>1. \A i, j \in DOMAIN units' : units'[i] = units'[j] => i = j
      <3>1. \A i \in DOMAIN units : units[i] # p
        BY <1>0, <1>2 DEF OneUnitPerPath
      <3>2. \A i \in DOMAIN units' : i = n \/ i \in DOMAIN units
        BY <1>3
      <3>3. \A i, j \in DOMAIN units : units[i] = units[j] => i = j
        BY <1>0 DEF OneUnitPerPath
      <3> QED
        BY <1>3, <3>1, <3>2, <3>3
    <2>2. included' = {units'[i] : i \in DOMAIN units'}
      BY <1>0, <1>1, <1>3 DEF OneUnitPerPath
    <2> QED
      BY <2>1, <2>2 DEF OneUnitPerPath
  <1>15. NoDanglingSymbol'
    BY <1>0, <1>1, <1>5 DEF NoDanglingSymbol
  <1> QED
    BY <1>7, <1>8, <1>9, <1>10, <1>11, <1>12, <1>13, <1>14, <1>15 DEF IInv

---------------------------------------------------------------------------
\* Steps of a worker that change only its program counter, its place and what
\* the invariant says nothing of.

LEMMA LocalStep ==
  ASSUME IInv, NEW w \in Workers, NEW label \in Labels, NEW n \in Nat,
         pc[w] \notin {"idle", "use", "test", "insert"},
         \/ job[w].pass = 1 /\ label \in {"builtins", "visit"}
         \/ /\ job[w].pass = 1 /\ label = "lock"
            /\ n \in DOMAIN Decls[PathOf(w)]
            /\ Decls[PathOf(w)][n].kind = "include"
         \/ job[w].pass = 2 /\ label \in {"get", "generate", "save"}
         \/ label = "report",
         pc' = [pc EXCEPT ![w] = label],
         pos' = [pos EXCEPT ![w] = n],
         tree' \in SUBSET Nat,
         registered' \in SUBSET {Output[p] : p \in Paths},
         todo' \in [Workers -> SUBSET Names],
         \A v \in Workers : \A m \in todo'[v] : globalFns[m] # NoSymbol,
         UNCHANGED <<root, mutex, included, units, hasErrors, queue, job, globalFns,
                     held, localFns, written, exit>>
  PROVE  IInv'
  <1> USE ActorAssumption DEF Actors, IncludeLabels, Pass1Labels, Pass2Labels
  <1>0. /\ TypeOK /\ WorkerControl /\ MainControl /\ TaskControl
        /\ RegistryControl /\ IncludeExclusion /\ InsertIsNew /\ OneUnitPerPath
        /\ NoDanglingSymbol
    BY DEF IInv
  <1>1. TypeOK'
    BY <1>0 DEF TypeOK
  <1>2. ASSUME NEW v \in Workers PROVE WorkerInv(v)'
    <2>1. WorkerInv(v)
      BY <1>0 DEF WorkerControl
    <2>2. PathOf(v)' = PathOf(v)
      BY DEF PathOf
    <2>3. CASE v = w
      <3>1. pc'[v] = label /\ pos'[v] = n
        BY <1>0, <2>3 DEF TypeOK
      <3>2. job[v] # NoTask /\ held[v] = <<>>
        BY <2>1, <2>3 DEF WorkerInv
      <3>3. Statement(v)' = Decls[PathOf(v)][n]
        BY <2>2, <3>1 DEF Statement
      <3> QED
        BY <2>2, <2>3, <3>1, <3>2, <3>3 DEF WorkerInv
    <2>4. CASE v # w
      <3>1. pc'[v] = pc[v] /\ pos'[v] = pos[v]
        BY <1>0, <2>4 DEF TypeOK
      <3>2. Statement(v)' = Statement(v)
        BY <2>2, <3>1 DEF Statement
      <3> QED
        BY <2>1, <2>2, <3>1, <3>2 DEF WorkerInv
    <2> QED
      BY <2>3, <2>4
  <1>3. WorkerControl'
    BY <1>2 DEF WorkerControl
  <1>4. pc'[Main] = pc[Main] /\ InPass2Phase' = InPass2Phase
    BY <1>0 DEF TypeOK, InPass2Phase
  <1>5. MainControl' /\ TaskControl' /\ RegistryControl'
    BY <1>0, <1>4 DEF MainControl, TaskControl, RegistryControl
  <1>6. IncludeExclusion'
    BY <1>0 DEF IncludeExclusion, TypeOK
  <1>7. InsertIsNew'
    <2> SUFFICES ASSUME NEW a \in Actors, pc'[a] = "insert"
                 PROVE  IncludeTarget(a)' \notin included
      BY DEF InsertIsNew
    <2>1. a # w /\ pc[a] = "insert" /\ pos'[a] = pos[a]
      BY <1>0 DEF TypeOK
    <2>2. IncludeTarget(a)' = IncludeTarget(a)
      BY <2>1 DEF IncludeTarget, Statement, PathOf
    <2> QED
      BY <1>0, <2>1, <2>2 DEF InsertIsNew
  <1>8. OneUnitPerPath' /\ NoDanglingSymbol'
    BY <1>0 DEF OneUnitPerPath, NoDanglingSymbol
  <1> QED
    BY <1>1, <1>3, <1>5, <1>6, <1>7, <1>8 DEF IInv

\* The end of a task.
LEMMA EndTaskStep ==
  ASSUME IInv, NEW w \in Workers,
         pc[w] \notin {"idle", "use", "test", "insert"},
         EndTask(w),
         hasErrors' \in BOOLEAN,
         written' \in SUBSET {Output[p] : p \in Paths},
         UNCHANGED <<root, mutex, included, units, queue, tree, globalFns, todo, held,
                     localFns, registered, exit>>
  PROVE  IInv'
  <1> USE ActorAssumption DEF Actors, IncludeLabels, Pass1Labels, Pass2Labels
  <1>0. /\ TypeOK /\ WorkerControl /\ MainControl /\ TaskControl
        /\ RegistryControl /\ IncludeExclusion /\ InsertIsNew /\ OneUnitPerPath
        /\ NoDanglingSymbol
    BY DEF IInv
  <1>a. /\ pc' = [pc EXCEPT ![w] = "idle"]
        /\ pos' = [pos EXCEPT ![w] = 0]
        /\ job' = [job EXCEPT ![w] = NoTask]
    BY DEF EndTask, Goto
  <1>1. TypeOK'
    BY <1>0, <1>a DEF TypeOK, Labels
  <1>2. ASSUME NEW v \in Workers PROVE WorkerInv(v)'
    <2>1. WorkerInv(v)
      BY <1>0 DEF WorkerControl
    <2>2. CASE v = w
      <3>1. pc'[v] = "idle" /\ job'[v] = NoTask /\ held[v] = <<>>
        BY <1>0, <1>a, <2>1, <2>2 DEF TypeOK, WorkerInv
      <3> QED
        BY <3>1 DEF WorkerInv
    <2>3. CASE v # w
      <3>1. pc'[v] = pc[v] /\ pos'[v] = pos[v] /\ job'[v] = job[v]
        BY <1>0, <1>a, <2>3 DEF TypeOK
      <3>2. Statement(v)' = Statement(v) /\ PathOf(v)' = PathOf(v)
        BY <3>1 DEF Statement, PathOf
      <3> QED
        BY <2>1, <3>1, <3>2 DEF WorkerInv
    <2> QED
      BY <2>2, <2>3
  <1>3. WorkerControl'
    BY <1>2 DEF WorkerControl
  <1>4. pc'[Main] = pc[Main] /\ InPass2Phase' = InPass2Phase
    BY <1>0, <1>a DEF TypeOK, InPass2Phase
  <1>5. TaskControl'
    <2>1. \A v \in Workers : job'[v] = job[v] \/ job'[v] = NoTask
      BY <1>0, <1>a DEF TypeOK
    <2> QED
      BY <1>0, <1>4, <2>1 DEF TaskControl
  <1>6. MainControl' /\ RegistryControl'
    BY <1>0, <1>4 DEF MainControl, RegistryControl
  <1>7. IncludeExclusion'
    BY <1>0, <1>a DEF IncludeExclusion, TypeOK
  <1>8. InsertIsNew'
    <2> SUFFICES ASSUME NEW a \in Actors, pc'[a] = "insert"
                 PROVE  IncludeTarget(a)' \notin included
      BY DEF InsertIsNew
    <2>1. /\ a # w /\ pc[a] = "insert" /\ pos'[a] = pos[a]
          /\ a \in Workers => job'[a] = job[a]
      BY <1>0, <1>a DEF TypeOK
    <2>2. IncludeTarget(a)' = IncludeTarget(a)
      BY <2>1 DEF IncludeTarget, Statement, PathOf
    <2> QED
      BY <1>0, <2>1, <2>2 DEF InsertIsNew
  <1>9. OneUnitPerPath' /\ NoDanglingSymbol'
    BY <1>0 DEF OneUnitPerPath, NoDanglingSymbol
  <1> QED
    BY <1>1, <1>3, <1>5, <1>6, <1>7, <1>8, <1>9 DEF IInv

---------------------------------------------------------------------------
\* The pool and the global registry.

LEMMA TakeTaskStep ==
  ASSUME IInv, NEW w \in Workers, TakeTask(w)
  PROVE  IInv'
  <1> USE ActorAssumption DEF Actors, IncludeLabels, Pass1Labels, Pass2Labels
  <1>0. /\ TypeOK /\ WorkerControl /\ MainControl /\ TaskControl
        /\ RegistryControl /\ IncludeExclusion /\ InsertIsNew /\ OneUnitPerPath
        /\ NoDanglingSymbol
    BY DEF IInv
  <1>1. /\ pc[w] = "idle" /\ queue # <<>>
        /\ job' = [job EXCEPT ![w] = Head(queue)]
        /\ queue' = Tail(queue)
        /\ pc' = [pc EXCEPT ![w] = IF Head(queue).pass = 1 THEN "begin" ELSE "fill"]
        /\ UNCHANGED <<root, mutex, included, units, tree, hasErrors, pos, globalFns,
                       localFns, todo, held, registered, written, exit>>
    BY DEF TakeTask, Goto, unitVars, registryVars, fillVars, fileVars
  <1>2. /\ Head(queue) \in Task
        /\ Head(queue) = queue[1] /\ 1 \in DOMAIN queue
        /\ queue' \in Seq(Task)
        /\ \A k \in DOMAIN queue' : queue'[k] = queue[k + 1] /\ k + 1 \in DOMAIN queue
    BY <1>0, <1>1, TailElements DEF TypeOK
  <1>3. /\ Head(queue).unit \in DOMAIN units
        /\ Head(queue).pass = IF InPass2Phase THEN 2 ELSE 1
    BY <1>0, <1>2 DEF TaskControl
  <1>4. TypeOK'
    BY <1>0, <1>1, <1>2 DEF TypeOK, Labels
  <1>5. ASSUME NEW v \in Workers PROVE WorkerInv(v)'
    <2>1. WorkerInv(v)
      BY <1>0 DEF WorkerControl
    <2>2. CASE v = w
      <3>1. /\ pc'[v] = IF Head(queue).pass = 1 THEN "begin" ELSE "fill"
            /\ job'[v] = Head(queue) /\ held'[v] = <<>>
        BY <1>0, <1>1, <2>1, <2>2 DEF TypeOK, WorkerInv
      <3>2. Head(queue) # NoTask /\ Head(queue).pass \in {1, 2}
        BY <1>2 DEF Task, NoTask
      <3> QED
        BY <3>1, <3>2 DEF WorkerInv
    <2>3. CASE v # w
      <3>1. pc'[v] = pc[v] /\ pos'[v] = pos[v] /\ job'[v] = job[v] /\ held'[v] = held[v]
        BY <1>0, <1>1, <2>3 DEF TypeOK
      <3>2. Statement(v)' = Statement(v) /\ PathOf(v)' = PathOf(v)
        BY <1>1, <3>1 DEF Statement, PathOf
      <3> QED
        BY <2>1, <3>1, <3>2 DEF WorkerInv
    <2> QED
      BY <2>2, <2>3
  <1>6. WorkerControl'
    BY <1>5 DEF WorkerControl
  <1>7. pc'[Main] = pc[Main] /\ InPass2Phase' = InPass2Phase
    BY <1>0, <1>1 DEF TypeOK, InPass2Phase
  <1>8. TaskControl'
    <2>1. \A v \in Workers : job'[v] = job[v] \/ job'[v] = Head(queue)
      BY <1>0, <1>1 DEF TypeOK
    <2>2. \A v \in Workers : job'[v] # NoTask =>
            /\ job'[v].unit \in DOMAIN units'
            /\ job'[v].pass = IF InPass2Phase' THEN 2 ELSE 1
      BY <1>0, <1>1, <1>3, <1>7, <2>1 DEF TaskControl
    <2>3. \A k \in DOMAIN queue' :
            /\ queue'[k].unit \in DOMAIN units'
            /\ queue'[k].pass = IF InPass2Phase' THEN 2 ELSE 1
      BY <1>0, <1>1, <1>2, <1>7 DEF TaskControl
    <2> QED
      BY <2>2, <2>3 DEF TaskControl
  <1>9. MainControl' /\ RegistryControl'
    BY <1>0, <1>1, <1>7 DEF MainControl, RegistryControl
  <1>10. IncludeExclusion'
    BY <1>0, <1>1 DEF IncludeExclusion, TypeOK
  <1>11. InsertIsNew'
    <2> SUFFICES ASSUME NEW a \in Actors, pc'[a] = "insert"
                 PROVE  IncludeTarget(a)' \notin included'
      BY DEF InsertIsNew
    <2>1. /\ a # w /\ pc[a] = "insert" /\ pos'[a] = pos[a]
          /\ a \in Workers => job'[a] = job[a]
      BY <1>0, <1>1 DEF TypeOK
    <2>2. IncludeTarget(a)' = IncludeTarget(a)
      BY <1>1, <2>1 DEF IncludeTarget, Statement, PathOf
    <2> QED
      BY <1>0, <1>1, <2>1, <2>2 DEF InsertIsNew
  <1>12. OneUnitPerPath' /\ NoDanglingSymbol'
    BY <1>0, <1>1 DEF OneUnitPerPath, NoDanglingSymbol
  <1> QED
    BY <1>4, <1>6, <1>8, <1>9, <1>10, <1>11, <1>12 DEF IInv

\* A registration happens in pass 1, when nobody refers to a global symbol yet.
LEMMA RegisterStep ==
  ASSUME IInv, NEW w \in Workers, NEW name \in Names, NEW builtin \in BOOLEAN,
         pc[w] \in {"builtins", "visit"},
         pos[w] # 0,
         RegisterGlobal(w, name, builtin),
         pos' = [pos EXCEPT ![w] = @ + 1],
         UNCHANGED <<root, mutex, included, units, tree, hasErrors, queue, job, pc,
                     localFns, todo, held, registered, written, exit>>
  PROVE  IInv'
  <1> USE ActorAssumption DEF Actors, IncludeLabels, Pass1Labels, Pass2Labels
  <1>0. /\ TypeOK /\ WorkerControl /\ MainControl /\ TaskControl
        /\ RegistryControl /\ IncludeExclusion /\ InsertIsNew /\ OneUnitPerPath
        /\ NoDanglingSymbol
    BY DEF IInv
  <1> DEFINE symbol == [unit |-> job[w].unit, decl |-> pos[w], builtin |-> builtin]
  <1>1. globalFns' = [globalFns EXCEPT ![name] = symbol]
    BY DEF RegisterGlobal
  <1>2. job[w] # NoTask /\ job[w].pass = 1
    BY <1>0 DEF WorkerControl, WorkerInv
  <1>3. symbol \in Symbol
    BY <1>0, <1>2 DEF TypeOK, Symbol, Task
  <1>4. ~InPass2Phase /\ InPass2Phase' = InPass2Phase
    BY <1>0, <1>2 DEF TaskControl, InPass2Phase
  <1> HIDE DEF symbol
  <1>5. TypeOK'
    BY <1>0, <1>1, <1>3 DEF TypeOK
  <1>6. ASSUME NEW v \in Workers PROVE WorkerInv(v)'
    <2>1. WorkerInv(v)
      BY <1>0 DEF WorkerControl
    <2>2. CASE v = w
      BY <2>1, <2>2 DEF WorkerInv
    <2>3. CASE v # w
      <3>1. pos'[v] = pos[v]
        BY <1>0, <2>3 DEF TypeOK
      <3>2. Statement(v)' = Statement(v) /\ PathOf(v)' = PathOf(v)
        BY <3>1 DEF Statement, PathOf
      <3> QED
        BY <2>1, <3>1, <3>2 DEF WorkerInv
    <2> QED
      BY <2>2, <2>3
  <1>7. WorkerControl'
    BY <1>6 DEF WorkerControl
  <1>8. MainControl' /\ TaskControl'
    BY <1>0, <1>4 DEF MainControl, TaskControl
  <1>9. RegistryControl'
    <2>1. \A m \in Names : globalFns[m] # NoSymbol => globalFns'[m] # NoSymbol
      BY <1>0, <1>1, <1>3, SymbolAssumption DEF TypeOK
    <2> QED
      BY <1>0, <1>4, <2>1 DEF RegistryControl, TypeOK
  <1>10. IncludeExclusion'
    BY <1>0 DEF IncludeExclusion
  <1>11. InsertIsNew'
    <2> SUFFICES ASSUME NEW a \in Actors, pc[a] = "insert"
                 PROVE  IncludeTarget(a)' \notin included
      BY DEF InsertIsNew
    <2>1. pos'[a] = pos[a]
      BY <1>0 DEF TypeOK
    <2>2. IncludeTarget(a)' = IncludeTarget(a)
      BY <2>1 DEF IncludeTarget, Statement, PathOf
    <2> QED
      BY <1>0, <2>2 DEF InsertIsNew
  <1>12. OneUnitPerPath'
    BY <1>0 DEF OneUnitPerPath
  <1>13. NoDanglingSymbol'
    <2>1. \A v \in Workers : held[v] = <<>>
      BY <1>0, <1>4 DEF WorkerControl, WorkerInv, TaskControl
    <2>2. \A i \in DOMAIN localFns : localFns[i] = {}
      BY <1>0, <1>4 DEF RegistryControl
    <2> QED
      BY <2>1, <2>2 DEF NoDanglingSymbol
  <1> QED
    BY <1>5, <1>7, <1>8, <1>9, <1>10, <1>11, <1>12, <1>13 DEF IInv

\* fill() takes a reference, and uses it.
LEMMA GetSymbolStep ==
  ASSUME IInv, NEW w \in Workers, GetSymbol(w)
  PROVE  IInv'
  <1> USE ActorAssumption DEF Actors, IncludeLabels, Pass1Labels, Pass2Labels
  <1>0. /\ TypeOK /\ WorkerControl /\ MainControl /\ TaskControl
        /\ RegistryControl /\ IncludeExclusion /\ InsertIsNew /\ OneUnitPerPath
        /\ NoDanglingSymbol
    BY DEF IInv
  <1>1. PICK n \in todo[w] :
          /\ held' = [held EXCEPT ![w] = <<n, globalFns[n]>>]
          /\ todo' = [todo EXCEPT ![w] = @ \ {n}]
    BY DEF GetSymbol
  <1>2. /\ pc[w] = "get" /\ pc' = [pc EXCEPT ![w] = "use"]
        /\ UNCHANGED <<root, mutex, included, units, tree, hasErrors, queue, job, pos,
                       globalFns, localFns, registered, written, exit>>
    BY DEF GetSymbol, Goto, unitVars, poolVars, registryVars, fileVars
  <1>3. n \in Names /\ globalFns[n] \in Symbol
    BY <1>0 DEF TypeOK, RegistryControl
  <1>4. TypeOK'
    BY <1>0, <1>1, <1>2, <1>3 DEF TypeOK, Labels
  <1>5. ASSUME NEW v \in Workers PROVE WorkerInv(v)'
    <2>1. WorkerInv(v)
      BY <1>0 DEF WorkerControl
    <2>2. CASE v = w
      <3>1. pc'[v] = "use" /\ held'[v] = <<n, globalFns[n]>>
        BY <1>0, <1>1, <1>2, <2>2 DEF TypeOK
      <3>2. job[v] # NoTask /\ job[v].pass = 2
        BY <1>2, <2>1, <2>2 DEF WorkerInv
      <3> QED
        BY <1>2, <1>3, <3>1, <3>2 DEF WorkerInv
    <2>3. CASE v # w
      <3>1. pc'[v] = pc[v] /\ held'[v] = held[v]
        BY <1>0, <1>1, <1>2, <2>3 DEF TypeOK
      <3>2. Statement(v)' = Statement(v) /\ PathOf(v)' = PathOf(v)
        BY <1>2 DEF Statement, PathOf
      <3> QED
        BY <1>2, <2>1, <3>1, <3>2 DEF WorkerInv
    <2> QED
      BY <2>2, <2>3
  <1>6. WorkerControl'
    BY <1>5 DEF WorkerControl
  <1>7. pc'[Main] = pc[Main] /\ InPass2Phase' = InPass2Phase
    BY <1>0, <1>2 DEF TypeOK, InPass2Phase
  <1>8. MainControl' /\ TaskControl'
    BY <1>0, <1>2, <1>7 DEF MainControl, TaskControl
  <1>9. RegistryControl'
    <2>1. \A v \in Workers : todo'[v] \subseteq todo[v]
      BY <1>0, <1>1 DEF TypeOK
    <2> QED
      BY <1>0, <1>2, <1>7, <2>1 DEF RegistryControl
  <1>10. IncludeExclusion'
    BY <1>0, <1>2 DEF IncludeExclusion, TypeOK
  <1>11. InsertIsNew'
    BY <1>0, <1>2 DEF InsertIsNew, TypeOK, IncludeTarget, Statement, PathOf
  <1>12. OneUnitPerPath'
    BY <1>0, <1>2 DEF OneUnitPerPath
  <1>13. NoDanglingSymbol'
    <2>1. \A v \in Workers : held'[v] = held[v] \/ held'[v] = <<n, globalFns[n]>>
      BY <1>0, <1>1 DEF TypeOK
    <2> QED
      BY <1>0, <1>2, <2>1 DEF NoDanglingSymbol
  <1> QED
    BY <1>4, <1>6, <1>8, <1>9, <1>10, <1>11, <1>12, <1>13 DEF IInv

LEMMA UseSymbolStep ==
  ASSUME IInv, NEW w \in Workers, UseSymbol(w)
  PROVE  IInv'
  <1> USE ActorAssumption DEF Actors, IncludeLabels, Pass1Labels, Pass2Labels
  <1>0. /\ TypeOK /\ WorkerControl /\ MainControl /\ TaskControl
        /\ RegistryControl /\ IncludeExclusion /\ InsertIsNew /\ OneUnitPerPath
        /\ NoDanglingSymbol
    BY DEF IInv
  <1>1. /\ pc[w] = "use" /\ pc' = [pc EXCEPT ![w] = "get"]
        /\ held' = [held EXCEPT ![w] = <<>>]
        /\ UNCHANGED <<root, mutex, included, units, tree, hasErrors, queue, job, pos,
                       globalFns, todo, registered, written, exit>>
    BY DEF UseSymbol, Goto, unitVars, poolVars, fileVars
  <1>2. /\ held[w] \in Names \X Symbol /\ job[w] # NoTask /\ job[w].pass = 2
        /\ held[w][2] = globalFns[held[w][1]]
    BY <1>0, <1>1 DEF WorkerControl, WorkerInv, NoDanglingSymbol
  <1>3. /\ localFns' \in Seq(SUBSET (Names \X Symbol))
        /\ Len(localFns') = Len(localFns) /\ DOMAIN localFns' = DOMAIN localFns
        /\ \A i \in DOMAIN localFns : localFns'[i] \subseteq localFns[i] \cup {held[w]}
    <2>1. CASE held[w][2].builtin
      BY <1>0, <2>1 DEF UseSymbol, TypeOK
    <2>2. CASE ~held[w][2].builtin
      <3>1. localFns' = [localFns EXCEPT ![job[w].unit] = @ \cup {held[w]}]
        BY <2>2 DEF UseSymbol
      <3>2. job[w].unit \in DOMAIN localFns
        BY <1>0, <1>2 DEF TypeOK, TaskControl
      <3>3. localFns[job[w].unit] \cup {held[w]} \in SUBSET (Names \X Symbol)
        BY <1>0, <1>2, <3>2 DEF TypeOK
      <3>4. localFns \in Seq(SUBSET (Names \X Symbol))
        BY <1>0 DEF TypeOK
      <3> QED
        BY <3>1, <3>2, <3>3, <3>4, ReplaceElement
    <2> QED
      BY <2>1, <2>2
  <1>4. TypeOK'
    BY <1>0, <1>1, <1>3 DEF TypeOK, Labels
  <1>5. ASSUME NEW v \in Workers PROVE WorkerInv(v)'
    <2>1. WorkerInv(v)
      BY <1>0 DEF WorkerControl
    <2>2. CASE v = w
      <3>1. pc'[v] = "get" /\ held'[v] = <<>>
        BY <1>0, <1>1, <2>2 DEF TypeOK
      <3> QED
        BY <1>1, <1>2, <2>2, <3>1 DEF WorkerInv
    <2>3. CASE v # w
      <3>1. pc'[v] = pc[v] /\ held'[v] = held[v]
        BY <1>0, <1>1, <2>3 DEF TypeOK
      <3>2. Statement(v)' = Statement(v) /\ PathOf(v)' = PathOf(v)
        BY <1>1 DEF Statement, PathOf
      <3> QED
        BY <1>1, <2>1, <3>1, <3>2 DEF WorkerInv
    <2> QED
      BY <2>2, <2>3
  <1>6. WorkerControl'
    BY <1>5 DEF WorkerControl
  <1>7. pc'[Main] = pc[Main] /\ InPass2Phase' = InPass2Phase
    BY <1>0, <1>1 DEF TypeOK, InPass2Phase
  <1>8. MainControl' /\ TaskControl'
    BY <1>0, <1>1, <1>7 DEF MainControl, TaskControl
  <1>9. RegistryControl'
    <2>1. InPass2Phase
      BY <1>0, <1>2 DEF TaskControl
    <2> QED
      BY <1>0, <1>1, <1>7, <2>1 DEF RegistryControl
  <1>10. IncludeExclusion'
    BY <1>0, <1>1 DEF IncludeExclusion, TypeOK
  <1>11. InsertIsNew'
    BY <1>0, <1>1 DEF InsertIsNew, TypeOK, IncludeTarget, Statement, PathOf
  <1>12. OneUnitPerPath'
    BY <1>0, <1>1 DEF OneUnitPerPath
  <1>13. NoDanglingSymbol'
    <2>1. \A v \in Workers : held'[v] = held[v] \/ held'[v] = <<>>
      BY <1>0, <1>1 DEF TypeOK
    <2>2. \A v \in Workers : held'[v] # <<>> => held'[v][2] = globalFns'[held'[v][1]]
      BY <1>0, <1>1, <2>1 DEF NoDanglingSymbol
    <2>3. \A i \in DOMAIN localFns' : \A entry \in localFns'[i] :
             entry[2] = globalFns'[entry[1]]
      BY <1>0, <1>1, <1>2, <1>3 DEF NoDanglingSymbol
    <2> QED
      BY <2>2, <2>3 DEF NoDanglingSymbol
  <1> QED
    BY <1>4, <1>6, <1>8, <1>9, <1>10, <1>11, <1>12, <1>13 DEF IInv

---------------------------------------------------------------------------
\* compileProject.

LEMMA WaitPass1Step ==
  ASSUME IInv, WaitPass1
  PROVE  IInv'
  <1> USE ActorAssumption DEF Actors, IncludeLabels, Pass1Labels, Pass2Labels
  <1>0. /\ TypeOK /\ WorkerControl /\ MainControl /\ TaskControl
        /\ RegistryControl /\ IncludeExclusion /\ InsertIsNew /\ OneUnitPerPath
        /\ NoDanglingSymbol
    BY DEF IInv
  <1>1. /\ pc[Main] = "wait1" /\ PoolIdle /\ pc' = [pc EXCEPT ![Main] = "spawn"]
        /\ UNCHANGED <<root, mutex, included, units, tree, hasErrors, queue, job, pos,
                       globalFns, localFns, todo, held, registered, written, exit>>
    BY DEF WaitPass1, Goto, unitVars, poolVars, registryVars, fillVars, fileVars
  <1>2. TypeOK'
    BY <1>0, <1>1 DEF TypeOK, Labels
  <1>3. WorkerControl'
    BY <1>0, <1>1 DEF WorkerControl, WorkerInv, TypeOK, Statement, PathOf
  <1>4. MainControl'
    BY <1>0, <1>1 DEF MainControl, TypeOK
  <1>5. TaskControl'
    BY <1>1 DEF TaskControl, PoolIdle
  <1>6. RegistryControl'
    BY <1>0, <1>1 DEF RegistryControl, InPass2Phase, TypeOK
  <1>7. IncludeExclusion'
    BY <1>0, <1>1 DEF IncludeExclusion, TypeOK
  <1>8. InsertIsNew'
    BY <1>0, <1>1 DEF InsertIsNew, TypeOK, IncludeTarget, Statement, PathOf
  <1>9. OneUnitPerPath' /\ NoDanglingSymbol'
    BY <1>0, <1>1 DEF OneUnitPerPath, NoDanglingSymbol
  <1> QED
    BY <1>2, <1>3, <1>4, <1>5, <1>6, <1>7, <1>8, <1>9 DEF IInv

LEMMA SpawnPass2Step ==
  ASSUME IInv, SpawnPass2
  PROVE  IInv'
  <1> USE ActorAssumption DEF Actors, IncludeLabels, Pass1Labels, Pass2Labels
  <1>0. /\ TypeOK /\ WorkerControl /\ MainControl /\ TaskControl
        /\ RegistryControl /\ IncludeExclusion /\ InsertIsNew /\ OneUnitPerPath
        /\ NoDanglingSymbol
    BY DEF IInv
  <1> DEFINE task == [pass |-> 2, unit |-> pos[Main] + 1]
  <1>1. /\ pc[Main] = "spawn" /\ pos[Main] < Len(units)
        /\ queue' = Append(queue, task)
        /\ pos' = [pos EXCEPT ![Main] = @ + 1]
        /\ UNCHANGED <<root, mutex, included, units, tree, hasErrors, job, pc,
                       globalFns, localFns, todo, held, registered, written, exit>>
    BY DEF SpawnPass2, unitVars, registryVars, fillVars, fileVars
  <1>2. task \in Task /\ task.unit \in DOMAIN units /\ task.pass = 2
    BY <1>0, <1>1 DEF TypeOK, Task
  <1> HIDE DEF task
  <1>3. /\ queue' \in Seq(Task)
        /\ Len(queue) \in Nat /\ DOMAIN queue = 1 .. Len(queue)
        /\ DOMAIN queue' = 1 .. Len(queue) + 1
        /\ \A k \in DOMAIN queue : queue'[k] = queue[k]
        /\ queue'[Len(queue) + 1] = task
    BY <1>0, <1>1, <1>2, AppendElements DEF TypeOK
  <1>4. TypeOK'
    BY <1>0, <1>1, <1>3 DEF TypeOK
  <1>5. \A w \in Workers : /\ pos'[w] = pos[w]
                           /\ Statement(w)' = Statement(w)
                           /\ PathOf(w)' = PathOf(w)
    BY <1>0, <1>1 DEF TypeOK, Statement, PathOf
  <1>6. WorkerControl'
    BY <1>0, <1>1, <1>5 DEF WorkerControl, WorkerInv
  <1>7. MainControl' /\ RegistryControl' /\ InPass2Phase /\ InPass2Phase'
    BY <1>0, <1>1 DEF MainControl, RegistryControl, InPass2Phase
  <1>8. TaskControl'
    <2>1. \A k \in DOMAIN queue' :
             queue'[k].unit \in DOMAIN units' /\ queue'[k].pass = 2
      <3> SUFFICES ASSUME NEW k \in DOMAIN queue'
                   PROVE  queue'[k].unit \in DOMAIN units' /\ queue'[k].pass = 2
        OBVIOUS
      <3>1. CASE k \in DOMAIN queue
        BY <1>0, <1>1, <1>3, <1>7, <3>1 DEF TaskControl
      <3>2. CASE k = Len(queue) + 1
        BY <1>1, <1>2, <1>3, <3>2
      <3> QED
        BY <1>3, <3>1, <3>2
    <2> QED
      BY <1>0, <1>1, <1>7, <2>1 DEF TaskControl
  <1>9. IncludeExclusion'
    BY <1>0, <1>1 DEF IncludeExclusion
  <1>10. InsertIsNew'
    BY <1>0, <1>1, <1>5 DEF InsertIsNew, IncludeTarget
  <1>11. OneUnitPerPath' /\ NoDanglingSymbol'
    BY <1>0, <1>1 DEF OneUnitPerPath, NoDanglingSymbol
  <1> QED
    BY <1>4, <1>6, <1>7, <1>8, <1>9, <1>10, <1>11 DEF IInv

LEMMA FinishProjectStep ==
  ASSUME IInv, FinishProject
  PROVE  IInv'
  <1> USE ActorAssumption DEF Actors, IncludeLabels, Pass1Labels, Pass2Labels
  <1>0. /\ TypeOK /\ WorkerControl /\ MainControl /\ TaskControl
        /\ RegistryControl /\ IncludeExclusion /\ InsertIsNew /\ OneUnitPerPath
        /\ NoDanglingSymbol
    BY DEF IInv
  <1>1. /\ pc[Main] = "spawn" /\ pc' = [pc EXCEPT ![Main] = "done"]
        /\ exit' \in {"failed", "linked"}
        /\ UNCHANGED <<root, mutex, included, units, tree, hasErrors, queue, job, pos,
                       globalFns, localFns, todo, held, registered, written>>
    BY DEF FinishProject, Goto, unitVars, poolVars, registryVars, fillVars, fileVars
  <1>2. TypeOK'
    BY <1>0, <1>1 DEF TypeOK, Labels
  <1>3. WorkerControl'
    BY <1>0, <1>1 DEF WorkerControl, WorkerInv, TypeOK, Statement, PathOf
  <1>4. InPass2Phase /\ InPass2Phase'
    BY <1>0, <1>1 DEF InPass2Phase, TypeOK
  <1>5. MainControl' /\ TaskControl' /\ RegistryControl'
    BY <1>0, <1>1, <1>4 DEF MainControl, TaskControl, RegistryControl, TypeOK
  <1>6. IncludeExclusion'
    BY <1>0, <1>1 DEF IncludeExclusion, TypeOK
  <1>7. InsertIsNew'
    BY <1>0, <1>1 DEF InsertIsNew, TypeOK, IncludeTarget, Statement, PathOf
  <1>8. OneUnitPerPath' /\ NoDanglingSymbol'
    BY <1>0, <1>1 DEF OneUnitPerPath, NoDanglingSymbol
  <1> QED
    BY <1>2, <1>3, <1>5, <1>6, <1>7, <1>8 DEF IInv

\* The end of the process, and stuttering.
LEMMA EndOfProcessStep ==
  ASSUME IInv,
         exit' \in {"running", "failed", "linked", "terminated"},
         UNCHANGED <<root, mutex, included, units, hasErrors, queue, job, pc, pos, tree,
                     globalFns, todo, held, localFns, registered, written>>
  PROVE  IInv'
  <1>1. TypeOK'
    BY DEF IInv, TypeOK
  <1>2. WorkerControl' /\ MainControl' /\ TaskControl' /\ RegistryControl'
    BY DEF IInv, WorkerControl, WorkerInv, MainControl, TaskControl,
           RegistryControl, InPass2Phase, Statement, PathOf
  <1>3. IncludeExclusion' /\ InsertIsNew' /\ OneUnitPerPath' /\ NoDanglingSymbol'
    BY DEF IInv, IncludeExclusion, InsertIsNew, OneUnitPerPath, NoDanglingSymbol,
           IncludeTarget, Statement, PathOf
  <1> QED
    BY <1>1, <1>2, <1>3 DEF IInv

---------------------------------------------------------------------------
\* What the steps of pass 1 and pass 2 use of the invariant.
LEMMA WorkerFacts ==
  ASSUME IInv, NEW w \in Workers, pc[w] \in {"report"} \cup Pass1Labels \cup Pass2Labels
  PROVE  /\ pos = [pos EXCEPT ![w] = pos[w]]
         /\ pos[w] \in Nat
         /\ job[w].unit \in Nat
         /\ PathOf(w) \in Paths
         /\ pc[w] \in Pass1Labels => job[w].pass = 1
         /\ pc[w] \in Pass2Labels => job[w].pass = 2
         /\ \A v \in Workers : \A m \in todo[v] : globalFns[m] # NoSymbol
  <1> USE ActorAssumption DEF Actors
  <1>1. job[w] # NoTask
    BY DEF IInv, WorkerControl, WorkerInv, Pass1Labels, Pass2Labels, IncludeLabels
  <1>2. job[w].unit \in DOMAIN units /\ job[w].unit \in Nat
    BY <1>1 DEF IInv, TypeOK, TaskControl, Task
  <1>3. PathOf(w) \in Paths
    BY <1>2 DEF IInv, TypeOK, PathOf
  <1>4. pos = [pos EXCEPT ![w] = pos[w]] /\ pos[w] \in Nat
    BY DEF IInv, TypeOK
  <1>5. /\ pc[w] \in Pass1Labels => job[w].pass = 1
        /\ pc[w] \in Pass2Labels => job[w].pass = 2
    BY DEF IInv, WorkerControl, WorkerInv
  <1>6. \A v \in Workers : \A m \in todo[v] : globalFns[m] # NoSymbol
    BY DEF IInv, RegistryControl
  <1> QED
    BY <1>2, <1>3, <1>4, <1>5, <1>6

\* Steps of a worker that change only its program counter.
LEMMA LabelStep ==
  ASSUME IInv, NEW w \in Workers,
         pc[w] \in ({"report"} \cup Pass1Labels \cup Pass2Labels) \ {"use", "test", "insert"},
         NEW label \in {"lock", "generate", "save", "report"},
         label = "lock" => /\ pc[w] \in Pass1Labels
                           /\ pos[w] \in DOMAIN Decls[PathOf(w)]
                           /\ Statement(w).kind = "include",
         label \in {"generate", "save"} => pc[w] \in Pass2Labels,
         pc' = [pc EXCEPT ![w] = label],
         UNCHANGED <<root, mutex, included, units, tree, hasErrors, queue, job, pos,
                     globalFns, localFns, todo, held, registered, written, exit>>
  PROVE  IInv'
  <1>1. /\ pos = [pos EXCEPT ![w] = pos[w]] /\ pos[w] \in Nat
        /\ pc[w] \in Pass1Labels => job[w].pass = 1
        /\ pc[w] \in Pass2Labels => job[w].pass = 2
        /\ \A v \in Workers : \A m \in todo[v] : globalFns[m] # NoSymbol
    BY WorkerFacts
  <1>2. pos' = [pos EXCEPT ![w] = pos[w]]
    BY <1>1
  <1>3. /\ tree' \in SUBSET Nat
        /\ registered' \in SUBSET {Output[p] : p \in Paths}
        /\ todo' \in [Workers -> SUBSET Names]
    BY DEF IInv, TypeOK
  <1>4. \A v \in Workers : \A m \in todo'[v] : globalFns[m] # NoSymbol
    BY <1>1
  <1>5. /\ label \in Labels
        /\ pc[w] \notin {"idle", "use", "test", "insert"}
    BY DEF Labels, Pass1Labels, Pass2Labels, IncludeLabels
  <1>6. \/ /\ job[w].pass = 1 /\ label = "lock"
           /\ pos[w] \in DOMAIN Decls[PathOf(w)]
           /\ Decls[PathOf(w)][pos[w]].kind = "include"
        \/ job[w].pass = 2 /\ label \in {"get", "generate", "save"}
        \/ label = "report"
    BY <1>1 DEF Statement
  <1> QED
    BY <1>1, <1>2, <1>3, <1>4, <1>5, <1>6, LocalStep

\* Pass 1 of a unit.
LEMMA Pass1StepInv ==
  ASSUME IInv, NEW w \in Workers, Pass1Step(w)
  PROVE  IInv'
  <1> USE ProjectAssumption
      DEF unitVars, poolVars, registryVars, fillVars, fileVars, Goto
  <1>0. TypeOK
    BY DEF IInv
  <1>1. CASE BeginUnit(w)
    <2>1. pc[w] = "begin"
      BY <1>1 DEF BeginUnit
    <2>2. /\ PathOf(w) \in Paths /\ job[w].pass = 1
          /\ \A v \in Workers : \A m \in todo[v] : globalFns[m] # NoSymbol
      BY <2>1, WorkerFacts DEF Pass1Labels
    <2>3. /\ registered' \in SUBSET {Output[p] : p \in Paths}
          /\ tree' \in SUBSET Nat
          /\ todo' \in [Workers -> SUBSET Names]
      BY <1>0, <1>1, <2>2 DEF BeginUnit, TypeOK
    <2>4. /\ pc' = [pc EXCEPT ![w] = "builtins"]
          /\ pos' = [pos EXCEPT ![w] = 1]
          /\ \A v \in Workers : \A m \in todo'[v] : globalFns[m] # NoSymbol
          /\ UNCHANGED <<root, mutex, included, units, hasErrors, queue, job, globalFns,
                         held, localFns, written, exit>>
      BY <1>1, <2>2 DEF BeginUnit
    <2>5. "builtins" \in Labels /\ 1 \in Nat
      BY DEF Labels
    <2> HIDE DEF Goto
    <2> QED
      BY <2>1, <2>2, <2>3, <2>4, <2>5, LocalStep
  <1>2. CASE RegisterBuiltin(w)
    <2>1. Builtins[pos[w]] \in Names /\ pos[w] # 0
      BY <1>2 DEF RegisterBuiltin
    <2> QED
      BY <1>2, <2>1, RegisterStep DEF RegisterBuiltin
  <1>3. CASE ReadSource(w)
    <2>1. pc[w] = "builtins"
      BY <1>3 DEF ReadSource
    <2>2. /\ job[w].pass = 1 /\ job[w].unit \in Nat
          /\ \A v \in Workers : \A m \in todo[v] : globalFns[m] # NoSymbol
      BY <2>1, WorkerFacts DEF Pass1Labels
    <2>3. CASE ReadOutcome[PathOf(w)] = "ok"
      <3>1. /\ registered' \in SUBSET {Output[p] : p \in Paths}
            /\ tree' \in SUBSET Nat
            /\ todo' \in [Workers -> SUBSET Names]
        BY <1>0, <1>3, <2>2, <2>3 DEF ReadSource, TypeOK
      <3>2. /\ pc' = [pc EXCEPT ![w] = "visit"]
            /\ pos' = [pos EXCEPT ![w] = 1]
            /\ \A v \in Workers : \A m \in todo'[v] : globalFns[m] # NoSymbol
            /\ UNCHANGED <<root, mutex, included, units, hasErrors, queue, job, globalFns,
                           held, localFns, written, exit>>
        BY <1>3, <2>2, <2>3 DEF ReadSource
      <3>3. "visit" \in Labels /\ 1 \in Nat
        BY DEF Labels
      <3> QED
        BY <2>1, <2>2, <3>1, <3>2, <3>3, LocalStep
    <2>4. CASE ReadOutcome[PathOf(w)] = "error"
      BY <1>3, <2>1, <2>4, LabelStep DEF ReadSource, Pass1Labels
    <2>5. CASE Terminated(w)
      BY <2>5, EndOfProcessStep DEF Terminated
    <2> QED
      BY <1>3, <2>3, <2>4, <2>5 DEF ReadSource
  <1>4. CASE VisitFunction(w)
    <2>1. pc[w] = "visit" /\ pos[w] \in DOMAIN Decls[PathOf(w)]
      BY <1>4 DEF VisitFunction, AtStatement
    <2>2. PathOf(w) \in Paths
      BY <2>1, WorkerFacts DEF Pass1Labels
    <2>3. Statement(w) \in FunctionDecl \cup IncludeDecl \cup ThrowingDecl
      BY <2>1, <2>2 DEF Statement
    <2>4. Statement(w).name \in Names /\ pos[w] # 0
      BY <1>4, <2>1, <2>2, <2>3
      DEF VisitFunction, FunctionDecl, IncludeDecl, ThrowingDecl
    <2> QED
      BY <1>4, <2>1, <2>4, RegisterStep DEF VisitFunction
  <1>5. CASE VisitInclude(w)
    <2>1. /\ pc[w] = "visit" /\ pos[w] \in DOMAIN Decls[PathOf(w)]
          /\ Decls[PathOf(w)][pos[w]].kind = "include"
      BY <1>5 DEF VisitInclude, AtStatement, Statement
    <2> QED
      BY <1>5, <2>1, LabelStep DEF VisitInclude, Pass1Labels, Statement
  <1>6. CASE VisitThrows(w)
    <2>1. pc[w] = "visit"
      BY <1>6 DEF VisitThrows, AtStatement
    <2>2. CASE Terminated(w)
      BY <2>2, EndOfProcessStep DEF Terminated
    <2>3. CASE ~Terminated(w)
      BY <1>6, <2>1, <2>3, LabelStep DEF VisitThrows, Pass1Labels
    <2> QED
      BY <2>2, <2>3
  <1>7. CASE EndPass1(w)
    BY <1>0, <1>7, EndTaskStep DEF EndPass1, TypeOK
  <1> QED
    BY <1>1, <1>2, <1>3, <1>4, <1>5, <1>6, <1>7 DEF Pass1Step

\* The three ways a step of generation ends.
LEMMA GenerateCases ==
  ASSUME NEW w \in Workers, GenerateCode(w)
  PROVE  /\ pc[w] = "generate"
         /\ UNCHANGED <<mutex, unitVars, hasErrors, poolVars, pos, registryVars,
                        fillVars, fileVars>>
         /\ \/ /\ pc' = [pc EXCEPT ![w] = "save"]
               /\ exit' = exit
               /\ GenOutcome[PathOf(w)] = "ok"
            \/ /\ pc' = [pc EXCEPT ![w] = "report"]
               /\ exit' = exit
               /\ GenOutcome[PathOf(w)] = "error"
            \/ /\ UNCHANGED pc
               /\ exit' = "terminated"
               /\ "fatal" \in GenerationOutcomes(PathOf(w), job[w].unit)
  <1>1. PICK outcome \in GenerationOutcomes(PathOf(w), job[w].unit) :
          \/ /\ outcome = "ok"
             /\ Goto(w, "save")
             /\ UNCHANGED <<mutex, unitVars, hasErrors, poolVars, pos,
                            registryVars, fillVars, fileVars, exit>>
          \/ /\ outcome = "error"
             /\ Goto(w, "report")
             /\ UNCHANGED <<mutex, unitVars, hasErrors, poolVars, pos,
                            registryVars, fillVars, fileVars, exit>>
          \/ /\ outcome = "fatal"
             /\ Terminated(w)
    BY DEF GenerateCode
  <1>2. outcome # "fatal" => outcome = GenOutcome[PathOf(w)]
    BY DEF GenerationOutcomes
  <1>3. pc[w] = "generate"
    BY DEF GenerateCode
  <1> QED
    BY <1>1, <1>2, <1>3 DEF Goto, Terminated

\* Pass 2 of a unit.
LEMMA Pass2StepInv ==
  ASSUME IInv, NEW w \in Workers, Pass2Step(w)
  PROVE  IInv'
  <1> USE ProjectAssumption
      DEF unitVars, poolVars, registryVars, fillVars, fileVars, Goto
  <1>0. TypeOK
    BY DEF IInv
  <1>1. CASE BeginFill(w)
    <2>1. pc[w] = "fill"
      BY <1>1 DEF BeginFill
    <2>2. /\ job[w].pass = 2 /\ pos[w] \in Nat /\ pos = [pos EXCEPT ![w] = pos[w]]
          /\ \A v \in Workers : \A m \in todo[v] : globalFns[m] # NoSymbol
      BY <2>1, WorkerFacts DEF Pass2Labels
    <2>3. CASE job[w].unit \in tree
      <3>1. todo' = [todo EXCEPT ![w] = {n \in Names : globalFns[n] # NoSymbol}]
        BY <1>1, <2>3 DEF BeginFill
      <3>2. /\ todo' \in [Workers -> SUBSET Names]
            /\ \A v \in Workers : \A m \in todo'[v] : globalFns[m] # NoSymbol
        BY <1>0, <2>2, <3>1 DEF TypeOK
      <3>3. /\ pc' = [pc EXCEPT ![w] = "get"]
            /\ pos' = [pos EXCEPT ![w] = pos[w]]
            /\ tree' \in SUBSET Nat
            /\ registered' \in SUBSET {Output[p] : p \in Paths}
            /\ UNCHANGED <<root, mutex, included, units, hasErrors, queue, job, globalFns,
                           held, localFns, written, exit>>
        BY <1>0, <1>1, <2>2, <2>3 DEF BeginFill, TypeOK
      <3>4. "get" \in Labels
        BY DEF Labels
      <3> QED
        BY <2>1, <2>2, <3>2, <3>3, <3>4, LocalStep
    <2>4. CASE job[w].unit \notin tree
      BY <1>0, <1>1, <2>1, <2>4, EndTaskStep DEF BeginFill, TypeOK
    <2> QED
      BY <2>3, <2>4
  <1>2. CASE GetSymbol(w)
    BY <1>2, GetSymbolStep
  <1>3. CASE UseSymbol(w)
    BY <1>3, UseSymbolStep
  <1>4. CASE EndFill(w)
    <2>1. pc[w] = "get"
      BY <1>4 DEF EndFill
    <2> QED
      BY <1>4, <2>1, LabelStep DEF EndFill, Pass2Labels
  <1>5. CASE GenerateCode(w)
    <2>1. pc[w] = "generate"
      BY <1>5 DEF GenerateCode
    <2>2. CASE Terminated(w)
      BY <2>2, EndOfProcessStep DEF Terminated
    <2>3. ASSUME NEW label \in {"save", "report"}, pc' = [pc EXCEPT ![w] = label],
                 UNCHANGED <<root, mutex, included, units, tree, hasErrors, queue, job,
                             pos, globalFns, localFns, todo, held, registered,
                             written, exit>>
          PROVE  IInv'
      BY <2>1, <2>3, LabelStep DEF Pass2Labels
    <2> QED
      BY <1>5, <2>2, <2>3, GenerateCases DEF Terminated, unitVars, poolVars, registryVars, fillVars, fileVars
  <1>6. CASE SaveUnit(w)
    <2>1. pc[w] = "save"
      BY <1>6 DEF SaveUnit
    <2>2. PathOf(w) \in Paths
      BY <2>1, WorkerFacts DEF Pass2Labels
    <2> QED
      BY <1>0, <1>6, <2>1, <2>2, EndTaskStep DEF SaveUnit, TypeOK
  <1> QED
    BY <1>1, <1>2, <1>3, <1>4, <1>5, <1>6 DEF Pass2Step

\* Every step of the program preserves the invariant.
LEMMA NextIInv == IInv /\ [Next]_vars => IInv'
  <1> SUFFICES ASSUME IInv, [Next]_vars PROVE IInv'
    OBVIOUS
  <1>1. CASE UNCHANGED vars \/ Ended
    <2>1. UNCHANGED vars
      BY <1>1 DEF Ended
    <2> QED
      BY <2>1, EndOfProcessStep DEF vars, IInv, TypeOK
  <1>2. ASSUME NEW a \in Actors, IncludeStep(a) PROVE IInv'
    BY <1>2, LockIncludeStep, TestIncludedStep, InsertIncludeStep DEF IncludeStep
  <1>3. CASE MainStep
    BY <1>2, <1>3, WaitPass1Step, SpawnPass2Step, FinishProjectStep
    DEF MainStep, Actors
  <1>4. ASSUME NEW w \in Workers, WorkerStep(w) PROVE IInv'
    <2>1. CASE ReportError(w)
      <3>1. /\ pc[w] = "report" /\ EndTask(w)
            /\ hasErrors' \in BOOLEAN
            /\ written' \in SUBSET {Output[p] : p \in Paths}
            /\ UNCHANGED <<root, mutex, included, units, queue, tree, globalFns, todo,
                           held, localFns, registered, exit>>
        BY <2>1 DEF ReportError, unitVars, registryVars, fillVars, fileVars,
                    IInv, TypeOK
      <3> QED
        BY <3>1, EndTaskStep
    <2>2. CASE IncludeStep(w)
      BY <1>2, <2>2 DEF Actors
    <2> QED
      BY <1>4, <2>1, <2>2, TakeTaskStep, Pass1StepInv, Pass2StepInv DEF WorkerStep
  <1> QED
    BY <1>1, <1>3, <1>4 DEF Next

\* IInv holds of every reachable state.
LEMMA Invariance == Spec => []IInv
  BY InitIInv, NextIInv, PTL DEF Spec

---------------------------------------------------------------------------
\* Every variable keeps its type: queue, units and the registries are what
\* their C++ declarations say, for any project and any number of threads.
THEOREM TypeCorrect == Spec => []TypeOK
  <1>1. IInv => TypeOK
    BY DEF IInv
  <1> QED
    BY <1>1, Invariance, PTL

\* includeFile is a critical section: the lock_guard on *_mutex keeps every
\* other thread out of it, whichever of main and the workers calls it.
THEOREM Exclusion == Spec => []IncludeExclusion
  <1>1. IInv => IncludeExclusion
    BY DEF IInv
  <1> QED
    BY <1>1, Invariance, PTL

\* includeFile makes one unit per path, however the includes of the project
\* form cycles and whichever workers meet them together.
THEOREM OneUnit == Spec => []OneUnitPerPath
  <1>1. IInv => OneUnitPerPath
    BY DEF IInv
  <1> QED
    BY <1>1, Invariance, PTL

\* compileProject's first wait() is a barrier: pass 2 of any unit and pass 1
\* of any unit are never in the pool together.
THEOREM PassBarrier == Spec => []PassesSeparate
  <1>1. IInv => PassesSeparate
    <2> SUFFICES ASSUME IInv, NEW i \in DOMAIN units, NEW j \in DOMAIN units,
                        Pending(2, i), Pending(1, j)
                 PROVE  FALSE
      BY DEF PassesSeparate
    <2>1. ASSUME NEW n \in {1, 2}, NEW k, Pending(n, k)
          PROVE  n = IF InPass2Phase THEN 2 ELSE 1
      <3>1. CASE Queued(n, k)
        BY <3>1 DEF IInv, TaskControl, Queued
      <3>2. CASE Running(n, k)
        BY <2>1, <3>2 DEF IInv, TaskControl, Running, NoTask
      <3> QED
        BY <2>1, <3>1, <3>2 DEF Pending
    <2> QED
      BY <2>1
  <1> QED
    BY <1>1, Invariance, PTL

\* The references fill() takes from the global registry and the keys of local
\* registries that point into its symbols stay valid: registerElement destroys
\* a symbol only while no pass 2 has begun.
THEOREM SymbolsStayValid == Spec => []NoDanglingSymbol
  <1>1. IInv => NoDanglingSymbol
    BY DEF IInv
  <1> QED
    BY <1>1, Invariance, PTL

---------------------------------------------------------------------------
(* Tasks *)

\* TasksDistinct, with tasks compared as a whole.
TasksApart ==
  /\ \A k, l \in DOMAIN queue : queue[k] = queue[l] => k = l
  /\ \A w \in Workers : job[w] # NoTask =>
       /\ \A k \in DOMAIN queue : queue[k] # job[w]
       /\ \A v \in Workers : job[v] = job[w] => v = w

\* Main counts the units it has spawned, from 0.
MainPlace ==
  /\ ~InPass2Phase => pos[Main] = 0
  /\ InPass2Phase => pos[Main] <= Len(units)

\* No unit is in pass 2 before main has counted it.
SpawnedInOrder ==
  InPass2Phase =>
    /\ \A k \in DOMAIN queue : queue[k].unit <= pos[Main]
    /\ \A w \in Workers : job[w] # NoTask => job[w].unit <= pos[Main]

TInv == TasksApart /\ MainPlace /\ SpawnedInOrder

---------------------------------------------------------------------------
LEMMA InitTInv == Init => TInv
  <1> SUFFICES ASSUME Init PROVE TInv
    OBVIOUS
  <1> USE ActorAssumption DEF Init, Actors
  <1>1. TasksApart
    BY DEF TasksApart
  <1>2. ~InPass2Phase /\ pos[Main] = 0
    BY DEF InPass2Phase
  <1> QED
    BY <1>1, <1>2 DEF TInv, MainPlace, SpawnedInOrder

\* A task is added that is neither queued nor run.
LEMMA AppendApart ==
  ASSUME TypeOK, TasksApart, NEW t \in Task,
         \A k \in DOMAIN queue : queue[k] # t,
         \A w \in Workers : job[w] # t,
         queue' = Append(queue, t), UNCHANGED job
  PROVE  TasksApart'
  <1>1. queue \in Seq(Task) /\ Len(queue) \in Nat /\ DOMAIN queue = 1 .. Len(queue)
    BY DEF TypeOK
  <1>2. /\ DOMAIN queue' = 1 .. Len(queue) + 1
        /\ \A k \in DOMAIN queue : queue'[k] = queue[k]
        /\ queue'[Len(queue) + 1] = t
    BY <1>1, AppendElements
  <1>3. \A k \in DOMAIN queue' : k \in DOMAIN queue \/ k = Len(queue) + 1
    BY <1>1, <1>2
  <1>4. \A k, l \in DOMAIN queue' : queue'[k] = queue'[l] => k = l
    BY <1>2, <1>3 DEF TasksApart
  <1>5. \A w \in Workers : job[w] # NoTask =>
          /\ \A k \in DOMAIN queue' : queue'[k] # job[w]
          /\ \A v \in Workers : job[v] = job[w] => v = w
    BY <1>2, <1>3 DEF TasksApart
  <1> QED
    BY <1>4, <1>5 DEF TasksApart

\* A worker takes the oldest task.
LEMMA TakeApart ==
  ASSUME IInv, TInv, NEW w \in Workers, TakeTask(w)
  PROVE  TInv'
  <1> USE ActorAssumption DEF Actors
  <1>1. /\ queue # << >> /\ pc[w] = "idle" /\ queue' = Tail(queue)
        /\ job' = [job EXCEPT ![w] = Head(queue)]
        /\ UNCHANGED <<pos, units>>
        /\ pc' = [pc EXCEPT ![w] = IF Head(queue).pass = 1 THEN "begin" ELSE "fill"]
    BY DEF TakeTask, Goto, unitVars
  <1>2. queue \in Seq(Task) /\ job \in [Workers -> Task \cup {NoTask}] /\ pc \in [Actors -> Labels]
    BY DEF IInv, TypeOK
  <1>3. /\ Head(queue) = queue[1] /\ 1 \in DOMAIN queue
        /\ \A k \in DOMAIN queue' : queue'[k] = queue[k + 1] /\ k + 1 \in DOMAIN queue /\ k + 1 # 1
    <2>1. /\ Head(queue) = queue[1] /\ 1 \in DOMAIN queue
          /\ DOMAIN queue' = 1 .. Len(queue) - 1
          /\ \A k \in DOMAIN queue' : queue'[k] = queue[k + 1] /\ k + 1 \in DOMAIN queue
      BY <1>1, <1>2, TailElements
    <2>2. Len(queue) \in Nat
      BY <1>2
    <2> QED
      BY <2>1, <2>2
  <1>4. /\ job'[w] = queue[1] /\ job[w] = NoTask
        /\ \A v \in Workers : v # w => job'[v] = job[v]
    BY <1>1, <1>2, <1>3 DEF IInv, WorkerControl, WorkerInv
  <1>5. TasksApart'
    <2>1. \A k, l \in DOMAIN queue' : queue'[k] = queue'[l] => k = l
      <3> SUFFICES ASSUME NEW k \in DOMAIN queue', NEW l \in DOMAIN queue', queue'[k] = queue'[l]
                   PROVE  k = l
        OBVIOUS
      <3>1. k + 1 = l + 1
        BY <1>3 DEF TInv, TasksApart
      <3>2. k \in Nat /\ l \in Nat
        BY <1>1, <1>2
      <3> QED
        BY <3>1, <3>2
    <2>2. \A v \in Workers : job'[v] # NoTask => \A k \in DOMAIN queue' : queue'[k] # job'[v]
      BY <1>3, <1>4 DEF TInv, TasksApart
    <2>3. \A u, v \in Workers : job'[v] # NoTask /\ job'[u] = job'[v] => u = v
      BY <1>3, <1>4 DEF TInv, TasksApart
    <2> QED
      BY <2>1, <2>2, <2>3 DEF TasksApart
  <1>6. pc'[Main] = pc[Main] /\ InPass2Phase' = InPass2Phase
    BY <1>1, <1>2 DEF InPass2Phase
  <1>7. MainPlace' /\ SpawnedInOrder'
    BY <1>1, <1>3, <1>4, <1>6 DEF TInv, MainPlace, SpawnedInOrder
  <1> QED
    BY <1>5, <1>7 DEF TInv

\* A worker's task ends.
LEMMA EndApart ==
  ASSUME IInv, TInv, NEW w \in Workers, EndTask(w), UNCHANGED <<queue, units>>
  PROVE  TInv'
  <1> USE ActorAssumption DEF Actors
  <1>1. /\ job' = [job EXCEPT ![w] = NoTask] /\ pc' = [pc EXCEPT ![w] = "idle"]
        /\ pos' = [pos EXCEPT ![w] = 0]
    BY DEF EndTask, Goto
  <1>2. \A v \in Workers : job'[v] = (IF v = w THEN NoTask ELSE job[v])
    BY <1>1 DEF IInv, TypeOK
  <1>3. TasksApart'
    BY <1>2 DEF TInv, TasksApart
  <1>4. InPass2Phase' = InPass2Phase /\ pos'[Main] = pos[Main]
    BY <1>1 DEF IInv, TypeOK, InPass2Phase
  <1>5. MainPlace' /\ SpawnedInOrder'
    BY <1>2, <1>4 DEF TInv, MainPlace, SpawnedInOrder
  <1> QED
    BY <1>3, <1>5 DEF TInv

\* Other steps of workers leave tasks, units and main alone.
LEMMA OtherApart ==
  ASSUME TInv, UNCHANGED <<queue, job, units>>,
         pos'[Main] = pos[Main], InPass2Phase' = InPass2Phase
  PROVE  TInv'
  BY DEF TInv, TasksApart, MainPlace, SpawnedInOrder

\* A unit is made, and its pass 1 queued.
LEMMA InsertApart ==
  ASSUME IInv, TInv, NEW a \in Actors, InsertInclude(a)
  PROVE  TInv'
  <1> USE ActorAssumption DEF Actors
  <1> DEFINE t == [pass |-> 1, unit |-> Len(units) + 1]
  <1>0. TypeOK /\ TasksApart
    BY DEF IInv, TInv
  <1>1. /\ queue' = Append(queue, t) /\ UNCHANGED job
        /\ pc' = [pc EXCEPT ![a] = IF a = Main THEN "wait1" ELSE "visit"]
        /\ pos' = [pos EXCEPT ![a] = IF a = Main THEN 0 ELSE @ + 1]
        /\ pc[a] = "insert"
    BY DEF InsertInclude, ReturnFromInclude, Goto
  <1>2. Len(units) \in Nat /\ DOMAIN units = 1 .. Len(units)
    BY <1>0 DEF TypeOK
  <1>3. t \in Task
    BY <1>2 DEF Task
  <1>4. \A k \in DOMAIN queue : queue[k] # t
    BY <1>2 DEF IInv, TaskControl
  <1>5. \A w \in Workers : job[w] # t
    <2> SUFFICES ASSUME NEW w \in Workers, job[w] = t PROVE FALSE
      OBVIOUS
    <2>1. job[w] # NoTask /\ job[w].unit = Len(units) + 1
      BY DEF NoTask
    <2>2. job[w].unit \in DOMAIN units
      BY <2>1 DEF IInv, TaskControl
    <2> QED
      BY <1>2, <2>1, <2>2
  <1> HIDE DEF t
  <1>6. TasksApart'
    BY <1>0, <1>1, <1>3, <1>4, <1>5, AppendApart
  <1>7. ~InPass2Phase
    <2>1. CASE a = Main
      BY <1>1, <2>1 DEF InPass2Phase
    <2>2. CASE a \in Workers
      BY <1>1, <2>2 DEF IInv, WorkerControl, WorkerInv, TaskControl, Pass1Labels, IncludeLabels, NoTask
    <2> QED
      BY <2>1, <2>2
  <1>8. ~InPass2Phase' /\ pos'[Main] = 0
    BY <1>0, <1>1, <1>7 DEF InPass2Phase, TypeOK, TInv, MainPlace
  <1> QED
    BY <1>6, <1>8 DEF TInv, MainPlace, SpawnedInOrder

\* Main spawns pass 2 of the next unit.
LEMMA SpawnApart ==
  ASSUME IInv, TInv, SpawnPass2
  PROVE  TInv'
  <1> USE ActorAssumption DEF Actors
  <1> DEFINE n == pos[Main] + 1
             t == [pass |-> 2, unit |-> n]
  <1>0. TypeOK /\ TasksApart
    BY DEF IInv, TInv
  <1>1. /\ pc[Main] = "spawn" /\ pos[Main] < Len(units)
        /\ queue' = Append(queue, t) /\ UNCHANGED <<job, pc, units>>
        /\ pos' = [pos EXCEPT ![Main] = n]
    BY DEF SpawnPass2, unitVars
  <1>2. pos[Main] \in Nat /\ pos'[Main] = n /\ Len(units) \in Nat /\ InPass2Phase /\ InPass2Phase'
    BY <1>0, <1>1 DEF TypeOK, InPass2Phase
  <1>3. t \in Task
    BY <1>2 DEF Task
  <1>4. /\ \A k \in DOMAIN queue : queue[k].unit \in Nat /\ queue[k].unit <= pos[Main]
        /\ \A w \in Workers : job[w] # NoTask => job[w].unit \in Nat /\ job[w].unit <= pos[Main]
    <2>1. \A k \in DOMAIN queue : queue[k] \in Task
      BY <1>0 DEF TypeOK
    <2>2. \A w \in Workers : job[w] # NoTask => job[w] \in Task
      BY <1>0 DEF TypeOK
    <2> QED
      BY <1>2, <2>1, <2>2 DEF TInv, SpawnedInOrder, Task
  <1>5. /\ \A k \in DOMAIN queue : queue[k] # t
        /\ \A w \in Workers : job[w] # t
    BY <1>2, <1>4 DEF NoTask
  <1>6. TasksApart'
    <2> HIDE DEF t
    <2> QED
      BY <1>0, <1>1, <1>3, <1>5, AppendApart
  <1>7. \A k \in DOMAIN queue' : queue'[k].unit <= n
    <2>1. /\ DOMAIN queue' = 1 .. Len(queue) + 1 /\ DOMAIN queue = 1 .. Len(queue) /\ Len(queue) \in Nat
          /\ \A k \in DOMAIN queue : queue'[k] = queue[k]
          /\ queue'[Len(queue) + 1] = t
      <3> HIDE DEF t
      <3> QED
        BY <1>0, <1>1, <1>3, AppendElements DEF TypeOK
    <2>2. \A k \in DOMAIN queue' : k \in DOMAIN queue \/ k = Len(queue) + 1
      BY <2>1
    <2> QED
      BY <1>2, <1>4, <2>1, <2>2
  <1>8. \A w \in Workers : job[w] # NoTask => job[w].unit <= n
    BY <1>2, <1>4
  <1>9. MainPlace' /\ SpawnedInOrder'
    BY <1>1, <1>2, <1>7, <1>8 DEF MainPlace, SpawnedInOrder
  <1> QED
    BY <1>6, <1>9 DEF TInv

\* wait() returns when no task is left.
LEMMA WaitApart ==
  ASSUME IInv, TInv, WaitPass1
  PROVE  TInv'
  <1> USE ActorAssumption DEF Actors
  <1>1. /\ pc[Main] = "wait1" /\ UNCHANGED <<queue, job, units, pos>>
        /\ queue = << >> /\ \A w \in Workers : job[w] = NoTask
    BY DEF WaitPass1, PoolIdle, poolVars, unitVars
  <1>2. pos[Main] = 0 /\ Len(units) \in Nat
    BY <1>1 DEF IInv, TypeOK, TInv, MainPlace, InPass2Phase
  <1> QED
    BY <1>1, <1>2 DEF TInv, TasksApart, MainPlace, SpawnedInOrder

\* A worker's step leaves main's place and its phase alone.
LEMMA MainUnmoved ==
  ASSUME IInv, NEW w \in Workers, WorkerStep(w)
  PROVE  pc'[Main] = pc[Main] /\ pos'[Main] = pos[Main] /\ InPass2Phase' = InPass2Phase
  <1>1. w # Main /\ Main \in Actors /\ w \in Actors
    BY ActorAssumption DEF Actors
  <1>2. pc \in [Actors -> Labels] /\ pos \in [Actors -> Nat]
    BY DEF IInv, TypeOK
  <1>3. /\ pc' = pc \/ \E label : pc' = [pc EXCEPT ![w] = label]
        /\ pos' = pos \/ \E n : pos' = [pos EXCEPT ![w] = n]
    <2>1. CASE TakeTask(w) \/ ReportError(w)
      BY <2>1 DEF TakeTask, ReportError, EndTask, Goto
    <2>2. CASE IncludeStep(w)
      BY <2>2 DEF IncludeStep, LockInclude, TestIncluded, InsertInclude, ReturnFromInclude, Goto
    <2>3. CASE Pass1Step(w)
      BY <2>3 DEF Pass1Step, BeginUnit, RegisterBuiltin, ReadSource, VisitFunction,
                  VisitInclude, VisitThrows, EndPass1, Terminated, EndTask, Goto
    <2>4. CASE Pass2Step(w)
      BY <2>4 DEF Pass2Step, BeginFill, GetSymbol, UseSymbol, EndFill, GenerateCode,
                  SaveUnit, Terminated, EndTask, Goto
    <2> QED
      BY <2>1, <2>2, <2>3, <2>4 DEF WorkerStep
  <1>4. pc'[Main] = pc[Main] /\ pos'[Main] = pos[Main]
    BY <1>1, <1>2, <1>3
  <1> QED
    BY <1>4 DEF InPass2Phase

LEMMA NextTInv == IInv /\ TInv /\ [Next]_vars => TInv'
  <1> SUFFICES ASSUME IInv, TInv, [Next]_vars PROVE TInv'
    OBVIOUS
  <1>1. CASE UNCHANGED vars \/ Ended
    <2>1. UNCHANGED vars
      BY <1>1 DEF Ended
    <2> QED
      BY <2>1, OtherApart DEF vars, InPass2Phase
  <1>2. CASE MainStep
    <2>1. Main \in Actors
      BY DEF Actors
    <2>2. CASE LockInclude(Main) \/ TestIncluded(Main)
      <3>1. UNCHANGED <<queue, job, units>>
        BY <2>2 DEF LockInclude, TestIncluded, poolVars, unitVars
      <3>2. pc \in [Actors -> Labels] /\ pos \in [Actors -> Nat]
        BY DEF IInv, TypeOK
      <3>3. ~InPass2Phase /\ ~InPass2Phase'
        BY <2>1, <2>2, <3>2 DEF LockInclude, TestIncluded, ReturnFromInclude, Goto, InPass2Phase
      <3>4. pos[Main] = 0
        BY <3>3 DEF TInv, MainPlace
      <3>5. pos'[Main] = 0
        BY <2>1, <2>2, <3>2, <3>4 DEF LockInclude, TestIncluded, ReturnFromInclude
      <3> QED
        BY <3>1, <3>3, <3>4, <3>5, OtherApart DEF InPass2Phase
    <2>3. CASE FinishProject
      <3>1. UNCHANGED <<queue, job, units, pos>> /\ InPass2Phase /\ InPass2Phase'
        BY <2>1, <2>3 DEF FinishProject, Goto, IInv, TypeOK, InPass2Phase, poolVars, unitVars
      <3> QED
        BY <3>1, OtherApart
    <2> QED
      BY <1>2, <2>1, <2>2, <2>3, InsertApart, SpawnApart, WaitApart DEF MainStep, IncludeStep
  <1>3. ASSUME NEW w \in Workers, WorkerStep(w) PROVE TInv'
    <2>1. pos'[Main] = pos[Main] /\ InPass2Phase' = InPass2Phase
      BY <1>3, MainUnmoved
    <2>2. CASE TakeTask(w)
      BY <2>2, TakeApart
    <2>3. CASE EndTask(w) /\ UNCHANGED <<queue, units>>
      BY <2>3, EndApart
    <2>4. CASE InsertInclude(w)
      BY <2>4, InsertApart DEF Actors
    <2>5. CASE UNCHANGED <<queue, job, units>>
      BY <2>1, <2>5, OtherApart
    <2>6. CASE ReportError(w)
      BY <2>3, <2>6 DEF ReportError, unitVars
    <2>7. CASE IncludeStep(w)
      BY <2>4, <2>5, <2>7 DEF IncludeStep, LockInclude, TestIncluded, unitVars, poolVars
    <2>8. CASE Pass1Step(w)
      BY <2>3, <2>5, <2>8
      DEF Pass1Step, BeginUnit, RegisterBuiltin, ReadSource, VisitFunction, VisitInclude,
          VisitThrows, EndPass1, Terminated, unitVars, poolVars
    <2>9. CASE Pass2Step(w)
      BY <2>3, <2>5, <2>9
      DEF Pass2Step, BeginFill, GetSymbol, UseSymbol, EndFill, GenerateCode, SaveUnit,
          Terminated, unitVars, poolVars
    <2> QED
      BY <1>3, <2>2, <2>6, <2>7, <2>8, <2>9 DEF WorkerStep
  <1> QED
    BY <1>1, <1>2, <1>3 DEF Next

LEMMA TasksInvariance == Spec => []TInv
  BY Invariance, InitTInv, NextTInv, PTL DEF Spec

---------------------------------------------------------------------------
LEMMA ApartDistinct == IInv /\ TInv => TasksDistinct
  <1> SUFFICES ASSUME IInv, TInv PROVE TasksDistinct
    OBVIOUS
  <1>1. \A w \in Workers : job[w] # NoTask =>
          job[w] = [pass |-> job[w].pass, unit |-> job[w].unit]
    BY DEF IInv, TypeOK, Task
  <1> QED
    BY <1>1 DEF TInv, TasksApart, TasksDistinct, Queued

\* The two passes of a unit run once each: includeFile and compileProject
\* never queue a task that is queued or run already, and two workers never
\* run the same one.
THEOREM TasksOnce == Spec => []TasksDistinct
  BY Invariance, TasksInvariance, ApartDistinct, PTL

---------------------------------------------------------------------------
(* Analysis *)

Known == {n \in Names : globalFns[n] # NoSymbol}

\* The statements of p before the k-th have been visited without a throw.
Reached(p, k) ==
  \A j \in DOMAIN Decls[p] : j < k =>
    /\ Decls[p][j].kind \notin {"error", "fatal"}
    /\ Decls[p][j].kind = "include" => Decls[p][j].path \in included
    /\ Decls[p][j].kind = "function" => Decls[p][j].name \in Known

AnalysisOver(i) ==
  /\ Output[units[i]] \in registered
  /\ ReadOutcome[units[i]] = "ok" => i \in tree
  /\ Declared(units[i]) \subseteq Known

Sound(i) ==
  /\ ReadOutcome[units[i]] = "ok"
  /\ units[i] \notin AnalysisFails
  /\ IncludesOf[units[i]] \subseteq included

\* What a worker's program counter says of its progress through its unit.
AnalysisProgress(w) ==
  /\ pc[w] \in {"builtins", "visit"} \cup IncludeLabels => Output[PathOf(w)] \in registered
  /\ pc[w] \in {"visit"} \cup IncludeLabels =>
       /\ job[w].unit \in tree
       /\ pos[w] # 0
       /\ Reached(PathOf(w), pos[w])
  /\ pc[w] = "report" =>
       \/ /\ job[w].pass = 1
          /\ PathOf(w) \in AnalysisFails
          /\ AnalysisOver(job[w].unit)
       \/ /\ job[w].pass = 2
          /\ PathOf(w) \in GenerationFails
  /\ pc[w] \in {"get", "use", "generate", "save"} => job[w].unit \in tree

AnalysisControl == \A w \in Workers : AnalysisProgress(w)

AnalysisAccounted ==
  \A i \in DOMAIN units : ~Pending(1, i) => AnalysisOver(i) /\ (hasErrors \/ Sound(i))

TreeRead == \A i \in tree : i \in DOMAIN units /\ ReadOutcome[units[i]] = "ok"

\* The symbol stands for a declaration of n that a visitor has met.
Declares(symbol, n) ==
  /\ symbol.unit \in DOMAIN units
  /\ symbol.decl \in DOMAIN Decls[units[symbol.unit]]
  /\ \E d \in Visited(units[symbol.unit]) :
       /\ d = Decls[units[symbol.unit]][symbol.decl]
       /\ d.kind = "function" /\ d.name = n

\* Errors, registered files, the root, the marks of builtins and the other
\* symbols come from where they should.
Origins ==
  /\ registered \subseteq {Output[p] : p \in included}
  /\ hasErrors => \E p \in included : p \in AnalysisFails \cup GenerationFails
  /\ pc[Main] \in {"wait1", "spawn", "done"} => root \in included
  /\ \A n \in Known : globalFns[n].builtin => n \in BuiltinNames
  /\ \A n \in Known : ~globalFns[n].builtin => Declares(globalFns[n], n)

PInv == AnalysisControl /\ AnalysisAccounted /\ TreeRead /\ Origins

LEMMA InitPInv == Init => PInv
  <1> SUFFICES ASSUME Init PROVE PInv
    OBVIOUS
  <1> USE ActorAssumption DEF Init, Actors
  <1>1. AnalysisControl
    BY DEF AnalysisControl, AnalysisProgress, IncludeLabels
  <1>2. AnalysisAccounted /\ TreeRead
    BY DEF AnalysisAccounted, TreeRead
  <1>3. Origins
    BY DEF Origins, Known
  <1> QED
    BY <1>1, <1>2, <1>3 DEF PInv

---------------------------------------------------------------------------
(* What only grows *)

Grows ==
  /\ DOMAIN units \subseteq DOMAIN units' /\ \A i \in DOMAIN units : units'[i] = units[i]
  /\ included \subseteq included' /\ tree \subseteq tree' /\ registered \subseteq registered'
  /\ Known \subseteq Known'
  /\ hasErrors => hasErrors'

\* A symbol that registerElement stores is one.
LEMMA RegisterGrows ==
  ASSUME IInv, NEW w \in Workers, pc[w] \in {"builtins", "visit"}, pos[w] # 0,
         NEW name \in Names, NEW builtin \in BOOLEAN, RegisterGlobal(w, name, builtin)
  PROVE  /\ Known' = Known \cup {name}
         /\ globalFns'[name].builtin = builtin
         /\ globalFns'[name].unit = job[w].unit /\ globalFns'[name].decl = pos[w]
         /\ \A n \in Names \ {name} : globalFns'[n] = globalFns[n]
  <1> DEFINE s == [unit |-> job[w].unit, decl |-> pos[w], builtin |-> builtin]
  <1>1. job[w].unit \in Nat \ {0}
    <2>1. job[w] # NoTask
      BY DEF IInv, WorkerControl, WorkerInv
    <2> QED
      BY <2>1 DEF IInv, TypeOK, Task
  <1>2. s \in Symbol /\ s # NoSymbol
    <2>1. pos[w] \in Nat \ {0}
      BY DEF IInv, TypeOK, Actors
    <2> QED
      BY <1>1, <2>1, SymbolAssumption DEF Symbol
  <1>3. /\ globalFns' = [globalFns EXCEPT ![name] = s]
        /\ s.builtin = builtin /\ s.unit = job[w].unit /\ s.decl = pos[w]
    BY DEF RegisterGlobal
  <1> HIDE DEF s
  <1>4. \A n \in Names : globalFns'[n] = IF n = name THEN s ELSE globalFns[n]
    BY <1>3 DEF IInv, TypeOK
  <1> QED
    BY <1>2, <1>3, <1>4 DEF Known

\* The names that are registered are names.
LEMMA StatementNames ==
  /\ \A k \in DOMAIN Builtins : Builtins[k] \in Names /\ k \in Nat \ {0}
  /\ \A p \in Paths : \A k \in DOMAIN Decls[p] :
       /\ k \in Nat \ {0}
       /\ Decls[p][k].kind = "function" => Decls[p][k].name \in Names
       /\ Decls[p][k].kind = "include" => Decls[p][k].path \in Paths
       /\ Decls[p][k].kind \in {"function", "include", "error", "fatal"}
  <1>1. \A k \in DOMAIN Builtins : Builtins[k] \in Names /\ k \in Nat \ {0}
    BY ProjectAssumption
  <1>2. ASSUME NEW p \in Paths, NEW k \in DOMAIN Decls[p]
        PROVE  /\ k \in Nat \ {0}
               /\ Decls[p][k] \in FunctionDecl \cup IncludeDecl \cup ThrowingDecl
    <2>1. Decls[p] \in Seq(FunctionDecl \cup IncludeDecl \cup ThrowingDecl)
      BY ProjectAssumption
    <2> QED
      BY <2>1
  <1>3. \A d \in FunctionDecl \cup IncludeDecl \cup ThrowingDecl :
          /\ d.kind = "function" => d.name \in Names
          /\ d.kind = "include" => d.path \in Paths
          /\ d.kind \in {"function", "include", "error", "fatal"}
    BY DEF FunctionDecl, IncludeDecl, ThrowingDecl
  <1> QED
    BY <1>1, <1>2, <1>3

\* What a worker's task is about.
LEMMA UnitFacts ==
  ASSUME IInv, NEW w \in Workers, pc[w] # "idle"
  PROVE  /\ job[w] \in Task /\ job[w].unit \in DOMAIN units
         /\ PathOf(w) = units[job[w].unit] /\ PathOf(w) \in Paths /\ PathOf(w) \in included
         /\ pos[w] \in Nat
  <1>1. job[w] # NoTask
    BY DEF IInv, WorkerControl, WorkerInv
  <1>2. job[w] \in Task /\ job[w].unit \in DOMAIN units /\ pos[w] \in Nat
    BY <1>1 DEF IInv, TypeOK, TaskControl, Actors
  <1>3. PathOf(w) \in Paths
    BY <1>2 DEF IInv, TypeOK, PathOf
  <1> QED
    BY <1>2, <1>3 DEF PathOf, IInv, OneUnitPerPath

LEMMA NextGrows == IInv /\ PInv /\ [Next]_vars => Grows
  <1> SUFFICES ASSUME IInv, PInv, [Next]_vars PROVE Grows
    OBVIOUS
  <1>1. ASSUME UNCHANGED <<included, units, tree, globalFns, hasErrors>>, registered \subseteq registered'
        PROVE  Grows
    BY <1>1 DEF Grows, Known
  <1>2. ASSUME NEW a \in Actors, IncludeStep(a) PROVE Grows
    <2>1. CASE InsertInclude(a)
      <3>1. /\ included \subseteq included'
            /\ UNCHANGED <<tree, globalFns, hasErrors, registered>>
            /\ units' = Append(units, IncludeTarget(a))
        BY <2>1 DEF InsertInclude, fileVars
      <3>2. units \in Seq(Paths)
        BY DEF IInv, TypeOK
      <3> QED
        BY <3>1, <3>2 DEF Grows, Known
    <2> QED
      BY <1>1, <1>2, <2>1 DEF IncludeStep, LockInclude, TestIncluded, unitVars, registryVars, fileVars
  <1>3. ASSUME NEW w \in Workers, Pass1Step(w) PROVE Grows
    <2>1. ASSUME NEW name \in Names, NEW b \in BOOLEAN, RegisterGlobal(w, name, b), pos[w] # 0,
                 pc[w] \in {"builtins", "visit"},
                 UNCHANGED <<unitVars, hasErrors, registered>>
          PROVE  Grows
      BY <2>1, RegisterGrows DEF Grows, unitVars
    <2>2. CASE RegisterBuiltin(w)
      BY <2>1, <2>2, StatementNames DEF RegisterBuiltin, fileVars
    <2>3. CASE VisitFunction(w)
      <3>1. /\ pos[w] \in DOMAIN Decls[PathOf(w)] /\ pc[w] = "visit"
            /\ Decls[PathOf(w)][pos[w]].kind = "function"
            /\ RegisterGlobal(w, Decls[PathOf(w)][pos[w]].name, FALSE)
            /\ UNCHANGED <<unitVars, hasErrors, registered>>
        BY <2>3 DEF VisitFunction, AtStatement, Statement, fileVars
      <3>2. PathOf(w) \in Paths
        BY <3>1, UnitFacts
      <3> QED
        BY <2>1, <3>1, <3>2, StatementNames
    <2>4. CASE ReadSource(w)
      BY <1>1, <2>4 DEF ReadSource, Terminated, Grows, Known, unitVars, registryVars, fileVars
    <2> QED
      BY <1>1, <1>3, <2>2, <2>3, <2>4
      DEF Pass1Step, BeginUnit, VisitInclude, VisitThrows, EndPass1, Terminated, unitVars,
          registryVars, fileVars
  <1>4. ASSUME NEW w \in Workers, Pass2Step(w) PROVE Grows
    BY <1>1, <1>4
    DEF Pass2Step, BeginFill, GetSymbol, UseSymbol, EndFill, GenerateCode, SaveUnit,
        Terminated, unitVars, registryVars, fileVars
  <1>5. ASSUME NEW w \in Workers, TakeTask(w) \/ ReportError(w) PROVE Grows
    BY <1>5 DEF TakeTask, ReportError, Grows, Known, unitVars, registryVars, fileVars
  <1>6. CASE MainStep
    BY <1>1, <1>2, <1>6
    DEF MainStep, Actors, WaitPass1, SpawnPass2, FinishProject, unitVars, registryVars, fileVars
  <1>7. CASE UNCHANGED vars \/ Ended
    BY <1>1, <1>7 DEF Ended, vars
  <1> QED
    BY <1>2, <1>3, <1>4, <1>5, <1>6, <1>7 DEF Next, WorkerStep, Actors

---------------------------------------------------------------------------
(* What is pending *)

LEMMA PendingStep ==
  ASSUME IInv, NEW w \in Workers, WorkerStep(w), NEW n \in {1, 2}, NEW i, Pending(n, i)
  PROVE  \/ Pending(n, i)'
         \/ job[w] = [pass |-> n, unit |-> i] /\ EndTask(w) /\ pc[w] # "idle"
  <1> DEFINE t == [pass |-> n, unit |-> i]
  <1>0. /\ queue \in Seq(Task) /\ job \in [Workers -> Task \cup {NoTask}]
        /\ DOMAIN queue = 1 .. Len(queue) /\ Len(queue) \in Nat
    BY DEF IInv, TypeOK
  <1>1. (\E k \in DOMAIN queue : queue[k] = t) \/ (\E v \in Workers : job[v] = t)
    BY DEF Pending, Queued, Running
  <1>2. t # NoTask
    BY DEF NoTask
  <1> HIDE DEF t
  <1>3. (\E k \in DOMAIN queue' : queue'[k] = t) \/ (\E v \in Workers : job'[v] = t) => Pending(n, i)'
    BY DEF Pending, Queued, Running, t
  <1>4. CASE UNCHANGED <<queue, job>>
    BY <1>1, <1>3, <1>4
  <1>5. CASE TakeTask(w)
    <2>1. /\ queue # << >> /\ queue' = Tail(queue) /\ job' = [job EXCEPT ![w] = Head(queue)]
          /\ job[w] = NoTask
      BY <1>5 DEF TakeTask, IInv, WorkerControl, WorkerInv
    <2>2. Head(queue) = queue[1] /\ \A k \in DOMAIN queue : k # 1 =>
                                       k - 1 \in DOMAIN queue' /\ queue'[k - 1] = queue[k]
      <3>1. /\ Head(queue) = queue[1] /\ DOMAIN queue' = 1 .. Len(queue) - 1
            /\ \A k \in DOMAIN queue' : queue'[k] = queue[k + 1]
        BY <1>0, <2>1, TailElements
      <3>2. ASSUME NEW k \in DOMAIN queue, k # 1
            PROVE  k - 1 \in DOMAIN queue' /\ queue'[k - 1] = queue[k]
        <4>1. k - 1 \in DOMAIN queue' /\ (k - 1) + 1 = k
          BY <1>0, <3>1, <3>2
        <4> QED
          BY <3>1, <4>1
      <3> QED
        BY <3>1, <3>2
    <2>3. job'[w] = queue[1] /\ \A v \in Workers : v # w => job'[v] = job[v]
      BY <1>0, <2>1, <2>2
    <2> QED
      BY <1>1, <1>2, <1>3, <2>1, <2>2, <2>3
  <1>6. CASE EndTask(w) /\ queue' = queue /\ pc[w] # "idle"
    <2>1. \A v \in Workers : v # w => job'[v] = job[v]
      BY <1>0, <1>6 DEF EndTask
    <2> QED
      BY <1>1, <1>3, <1>6, <2>1 DEF t
  <1>7. CASE InsertInclude(w)
    <2>1. UNCHANGED job /\ queue' = Append(queue, [pass |-> 1, unit |-> Len(units) + 1])
      BY <1>7 DEF InsertInclude
    <2>2. \A k \in DOMAIN queue : k \in DOMAIN queue' /\ queue'[k] = queue[k]
      BY <1>0, <2>1
    <2> QED
      BY <1>1, <1>3, <2>1, <2>2
  <1>8. CASE ReportError(w)
    BY <1>6, <1>8 DEF ReportError
  <1>9. CASE IncludeStep(w)
    BY <1>4, <1>7, <1>9 DEF IncludeStep, LockInclude, TestIncluded, poolVars
  <1>10. CASE Pass1Step(w)
    BY <1>4, <1>6, <1>10
    DEF Pass1Step, BeginUnit, RegisterBuiltin, ReadSource, VisitFunction, VisitInclude,
        VisitThrows, EndPass1, Terminated, poolVars
  <1>11. CASE Pass2Step(w)
    BY <1>4, <1>6, <1>11
    DEF Pass2Step, BeginFill, GetSymbol, UseSymbol, EndFill, GenerateCode, SaveUnit,
        Terminated, poolVars
  <1> QED
    BY <1>5, <1>8, <1>9, <1>10, <1>11 DEF WorkerStep

LEMMA PendingMain ==
  ASSUME IInv, MainStep, NEW n \in {1, 2}, NEW i, Pending(n, i)
  PROVE  Pending(n, i)'
  <1>1. queue \in Seq(Task) /\ DOMAIN queue = 1 .. Len(queue) /\ Len(queue) \in Nat
    BY DEF IInv, TypeOK
  <1>2. UNCHANGED job /\ (UNCHANGED queue \/ \E t : queue' = Append(queue, t))
    BY DEF MainStep, IncludeStep, LockInclude, TestIncluded, InsertInclude, WaitPass1,
           SpawnPass2, FinishProject, poolVars
  <1>3. \A k \in DOMAIN queue : k \in DOMAIN queue' /\ queue'[k] = queue[k]
    BY <1>1, <1>2
  <1> QED
    BY <1>2, <1>3 DEF Pending, Queued, Running

\* A new unit has its pass 1 queued.
LEMMA NewPending ==
  ASSUME IInv, [Next]_vars, NEW i \in DOMAIN units'
  PROVE  i \in DOMAIN units \/ Pending(1, i)'
  <1>1. CASE UNCHANGED units
    BY <1>1
  <1>2. ASSUME NEW a \in Actors, InsertInclude(a) PROVE i \in DOMAIN units \/ Pending(1, i)'
    <2> DEFINE t == [pass |-> 1, unit |-> Len(units) + 1]
    <2>1. units' = Append(units, IncludeTarget(a)) /\ queue' = Append(queue, t)
      BY <1>2 DEF InsertInclude
    <2>2. units \in Seq(Paths) /\ queue \in Seq(Task)
      BY DEF IInv, TypeOK
    <2>3. i \in DOMAIN units \/ i = Len(units) + 1
      BY <2>1, <2>2
    <2>4. Len(queue) + 1 \in DOMAIN queue' /\ queue'[Len(queue) + 1] = t
      BY <2>1, <2>2
    <2> QED
      BY <2>3, <2>4 DEF Pending, Queued
  <1> QED
    BY <1>1, <1>2
    DEF Next, MainStep, WorkerStep, Ended, vars, Actors, unitVars, IncludeStep, LockInclude,
        TestIncluded, WaitPass1, SpawnPass2, FinishProject, TakeTask, ReportError, Pass1Step,
        BeginUnit, RegisterBuiltin, ReadSource, VisitFunction, VisitInclude, VisitThrows,
        EndPass1, Terminated, Pass2Step, BeginFill, GetSymbol, UseSymbol, EndFill,
        GenerateCode, SaveUnit

---------------------------------------------------------------------------
(* What a step leaves true *)

LEMMA OverKept ==
  ASSUME Grows, NEW i \in DOMAIN units
  PROVE  /\ AnalysisOver(i) => AnalysisOver(i)'
         /\ Sound(i) => Sound(i)'
  <1>1. units'[i] = units[i]
    BY DEF Grows
  <1>2. AnalysisOver(i) => AnalysisOver(i)'
    BY <1>1 DEF Grows, AnalysisOver, Declared, Visited
  <1>3. Sound(i) => Sound(i)'
    BY <1>1 DEF Grows, Sound, IncludesOf, Visited, AnalysisFails, Throws
  <1> QED
    BY <1>2, <1>3

LEMMA ReachedKept ==
  ASSUME Grows, NEW p, NEW k, Reached(p, k)
  PROVE  Reached(p, k)'
  BY DEF Grows, Reached

\* Workers that do not move.
LEMMA OthersKept ==
  ASSUME IInv, PInv, Grows, NEW v \in Workers, UNCHANGED <<pc[v], pos[v], job[v]>>
  PROVE  AnalysisProgress(v)'
  <1>1. AnalysisProgress(v)
    BY DEF PInv, AnalysisControl
  <1>2. CASE pc[v] = "idle"
    BY <1>2 DEF AnalysisProgress, IncludeLabels
  <1>3. CASE pc[v] # "idle"
    <2>1. job[v].unit \in DOMAIN units /\ PathOf(v)' = PathOf(v)
      BY <1>3, UnitFacts DEF Grows, PathOf
    <2>2. PathOf(v) \in AnalysisFails \cup GenerationFails => (PathOf(v) \in AnalysisFails \cup GenerationFails)'
      BY <2>1 DEF AnalysisFails, GenerationFails, Throws
    <2>3. Reached(PathOf(v), pos[v]) => Reached(PathOf(v), pos[v])'
      BY <2>1 DEF Grows, Reached
    <2>4. AnalysisOver(job[v].unit) => AnalysisOver(job[v].unit)'
      BY <2>1 DEF Grows, AnalysisOver, Declared, Visited
    <2> QED
      BY <1>1, <2>1, <2>2, <2>3, <2>4 DEF AnalysisProgress, Grows
  <1> QED
    BY <1>2, <1>3

\* A step of w moves only w.
LEMMA OthersUnmoved ==
  ASSUME IInv, NEW w \in Workers, WorkerStep(w), NEW v \in Workers, v # w
  PROVE  UNCHANGED <<pc[v], pos[v], job[v], held[v], todo[v]>>
  <1>1. /\ pc \in [Actors -> Labels] /\ pos \in [Actors -> Nat] /\ w \in Actors /\ v \in Actors
        /\ job \in [Workers -> Task \cup {NoTask}] /\ todo \in [Workers -> SUBSET Names]
        /\ held \in [Workers -> (Names \X (Symbol \cup {NoSymbol})) \cup {<<>>}]
    BY DEF IInv, TypeOK, Actors
  <1>2. /\ pc' = pc \/ \E x : pc' = [pc EXCEPT ![w] = x]
        /\ pos' = pos \/ \E x : pos' = [pos EXCEPT ![w] = x]
        /\ job' = job \/ \E x : job' = [job EXCEPT ![w] = x]
        /\ held' = held \/ \E x : held' = [held EXCEPT ![w] = x]
        /\ todo' = todo \/ \E x : todo' = [todo EXCEPT ![w] = x]
    <2>1. CASE TakeTask(w) \/ ReportError(w)
      BY <2>1 DEF TakeTask, ReportError, EndTask, Goto, fillVars
    <2>2. CASE IncludeStep(w)
      BY <2>2 DEF IncludeStep, LockInclude, TestIncluded, InsertInclude, ReturnFromInclude, Goto,
                  fillVars, poolVars
    <2>3. CASE Pass1Step(w)
      BY <2>3 DEF Pass1Step, BeginUnit, RegisterBuiltin, ReadSource, VisitFunction, VisitInclude,
                  VisitThrows, EndPass1, Terminated, EndTask, Goto, fillVars, poolVars
    <2>4. CASE Pass2Step(w)
      BY <2>4 DEF Pass2Step, BeginFill, GetSymbol, UseSymbol, EndFill, GenerateCode, SaveUnit,
                  Terminated, EndTask, Goto, fillVars, poolVars
    <2> QED
      BY <2>1, <2>2, <2>3, <2>4 DEF WorkerStep
  <1> QED
    BY <1>1, <1>2

---------------------------------------------------------------------------
(* The progress of the worker that moves *)

\* The visitors have seen all of a file, or all up to what throws.
LEMMA DeclaredReached ==
  ASSUME NEW p \in Paths, NEW k \in Nat, k # 0, Reached(p, k),
         k \in DOMAIN Decls[p] => Decls[p][k].kind \in {"error", "fatal"}
  PROVE  Declared(p) \subseteq Known
  <1> SUFFICES ASSUME NEW d \in Visited(p), d.kind = "function" PROVE d.name \in Known
    BY DEF Declared
  <1>1. PICK m \in DOMAIN Decls[p] :
          d = Decls[p][m] /\ \A j \in 1 .. m : Decls[p][j].kind \notin {"error", "fatal"}
    BY DEF Visited
  <1>2. m < k
    <2>1. DOMAIN Decls[p] = 1 .. Len(Decls[p]) /\ Len(Decls[p]) \in Nat
      BY ProjectAssumption
    <2>2. CASE k \in DOMAIN Decls[p]
      BY <1>1, <2>1, <2>2
    <2>3. CASE k \notin DOMAIN Decls[p]
      BY <2>1, <2>3
    <2> QED
      BY <2>2, <2>3
  <1> QED
    BY <1>1, <1>2 DEF Reached

\* One more statement is visited.
LEMMA ReachedNext ==
  ASSUME NEW p \in Paths, NEW k \in DOMAIN Decls[p], Reached(p, k)',
         Decls[p][k].kind = "include" => Decls[p][k].path \in included',
         Decls[p][k].kind = "function" => Decls[p][k].name \in Known',
         Decls[p][k].kind \notin {"error", "fatal"}
  PROVE  Reached(p, k + 1)'
  <1>1. DOMAIN Decls[p] = 1 .. Len(Decls[p]) /\ Len(Decls[p]) \in Nat
    BY ProjectAssumption
  <1>2. \A j \in DOMAIN Decls[p] : j < k + 1 => j < k \/ j = k
    BY <1>1
  <1> QED
    BY <1>2 DEF Reached

LEMMA IncludeProgress ==
  ASSUME IInv, PInv, Grows, NEW w \in Workers, IncludeStep(w)
  PROVE  AnalysisProgress(w)'
  <1>0. AnalysisProgress(w) /\ WorkerInv(w)
    BY DEF PInv, AnalysisControl, IInv, WorkerControl
  <1>1. pc[w] \in IncludeLabels
    BY DEF IncludeStep, LockInclude, TestIncluded, InsertInclude, IncludeLabels
  <1>2. PICK p \in Paths, k \in Nat : p = PathOf(w) /\ k = pos[w]
    BY <1>1, UnitFacts DEF IncludeLabels
  <1>3. job[w].unit \in DOMAIN units /\ p = units[job[w].unit]
    BY <1>1, <1>2, UnitFacts DEF IncludeLabels
  <1>4. job'[w] = job[w] /\ PathOf(w)' = p
    BY <1>2, <1>3 DEF IncludeStep, LockInclude, TestIncluded, InsertInclude, poolVars, Grows, PathOf
  <1>5. Output[p] \in registered' /\ job[w].unit \in tree' /\ k # 0
    BY <1>0, <1>1, <1>2 DEF AnalysisProgress, Grows
  <1>6. Reached(p, k)'
    BY <1>0, <1>1, <1>2, ReachedKept DEF AnalysisProgress
  <1>7. w # Main /\ pc \in [Actors -> Labels] /\ pos \in [Actors -> Nat] /\ w \in Actors
    BY ActorAssumption DEF IInv, TypeOK, Actors
  <1>8. CASE pc' = [pc EXCEPT ![w] = "test"] /\ pos' = pos
    BY <1>2, <1>4, <1>5, <1>6, <1>7, <1>8 DEF AnalysisProgress, IncludeLabels
  <1>9. CASE pc' = [pc EXCEPT ![w] = "insert"] /\ pos' = pos
    BY <1>2, <1>4, <1>5, <1>6, <1>7, <1>9 DEF AnalysisProgress, IncludeLabels
  <1>10. ASSUME IncludeTarget(w) \in included', ReturnFromInclude(w) PROVE AnalysisProgress(w)'
    <2>1. pc'[w] = "visit" /\ pos'[w] = k + 1
      BY <1>2, <1>7, <1>10 DEF ReturnFromInclude, Goto
    <2>2. k \in DOMAIN Decls[p] /\ Decls[p][k].kind = "include" /\ Decls[p][k].path = IncludeTarget(w)
      BY <1>0, <1>1, <1>2, <1>7 DEF WorkerInv, IncludeTarget, Statement
    <2>3. Reached(p, k + 1)'
      BY <1>6, <1>10, <2>2, ReachedNext
    <2> QED
      BY <1>4, <1>5, <2>1, <2>3 DEF AnalysisProgress, IncludeLabels
  <1> QED
    BY <1>8, <1>9, <1>10 DEF IncludeStep, LockInclude, TestIncluded, InsertInclude, Goto, unitVars, Grows

LEMMA Pass1Progress ==
  ASSUME IInv, PInv, Grows, NEW w \in Workers, Pass1Step(w)
  PROVE  AnalysisProgress(w)'
  <1>0. AnalysisProgress(w) /\ WorkerInv(w)
    BY DEF PInv, AnalysisControl, IInv, WorkerControl
  <1>1. pc[w] \in {"begin", "builtins", "visit"}
    BY DEF Pass1Step, BeginUnit, RegisterBuiltin, ReadSource, VisitFunction, VisitInclude,
           VisitThrows, EndPass1, AtStatement
  <1>2. PICK p \in Paths, k \in Nat, i \in DOMAIN units :
          p = PathOf(w) /\ k = pos[w] /\ i = job[w].unit /\ p = units[i]
    BY <1>1, UnitFacts
  <1>3. job[w].pass = 1
    BY <1>0, <1>1 DEF WorkerInv, Pass1Labels
  <1>4. pc \in [Actors -> Labels] /\ pos \in [Actors -> Nat] /\ w \in Actors
    BY DEF IInv, TypeOK, Actors
  <1>5. ASSUME UNCHANGED job PROVE job'[w].unit = i /\ PathOf(w)' = p /\ units'[i] = p
    BY <1>2, <1>5 DEF Grows, PathOf
  <1>6. CASE BeginUnit(w)
    <2>1. pc'[w] = "builtins" /\ UNCHANGED job /\ Output[p] \in registered'
      BY <1>2, <1>4, <1>6 DEF BeginUnit, Goto, poolVars
    <2> QED
      BY <1>5, <2>1 DEF AnalysisProgress, IncludeLabels
  <1>7. CASE RegisterBuiltin(w)
    <2>1. pc'[w] = "builtins" /\ UNCHANGED job /\ Output[p] \in registered'
      BY <1>0, <1>2, <1>7 DEF RegisterBuiltin, poolVars, fileVars, AnalysisProgress
    <2> QED
      BY <1>5, <2>1 DEF AnalysisProgress, IncludeLabels
  <1>8. CASE ReadSource(w)
    <2>0. Output[p] \in registered' /\ pc[w] = "builtins"
      BY <1>0, <1>2, <1>8 DEF ReadSource, AnalysisProgress, Grows
    <2>1. CASE ReadOutcome[p] = "ok"
      <3>1. pc'[w] = "visit" /\ pos'[w] = 1 /\ UNCHANGED job /\ i \in tree'
        BY <1>2, <1>4, <1>8, <2>1 DEF ReadSource, Goto, poolVars
      <3>2. Reached(p, 1)'
        <4>1. \A j \in DOMAIN Decls[p] : ~(j < 1)
          BY StatementNames
        <4> QED
          BY <4>1 DEF Reached
      <3> QED
        BY <1>5, <2>0, <3>1, <3>2 DEF AnalysisProgress, IncludeLabels
    <2>2. CASE ReadOutcome[p] = "error"
      <3>1. pc'[w] = "report" /\ UNCHANGED job
        BY <1>2, <1>4, <1>8, <2>2 DEF ReadSource, Goto, poolVars
      <3>2. p \in AnalysisFails /\ Declared(p) = {}
        BY <2>2 DEF AnalysisFails, Declared, Visited
      <3>3. AnalysisOver(i)'
        BY <1>5, <2>0, <2>2, <3>1, <3>2 DEF AnalysisOver, Declared, Visited
      <3>4. (AnalysisOver(job[w].unit))'
        BY <1>5, <3>1, <3>3 DEF AnalysisOver
      <3>5. job'[w].pass = 1 /\ (AnalysisFails)' = AnalysisFails
        BY <1>3, <3>1 DEF AnalysisFails, Throws
      <3> QED
        BY <1>5, <3>1, <3>2, <3>4, <3>5 DEF AnalysisProgress, IncludeLabels
    <2>3. CASE ReadOutcome[p] = "fatal"
      <3>1. UNCHANGED <<pc, pos, job>>
        BY <1>2, <1>8, <2>3 DEF ReadSource, Terminated, poolVars
      <3> QED
        BY <1>5, <2>0, <3>1 DEF AnalysisProgress, IncludeLabels
    <2> QED
      BY <1>2, <1>8, <2>1, <2>2, <2>3 DEF ReadSource
  <1>9. ASSUME pc[w] = "visit"
        PROVE  /\ Output[p] \in registered' /\ i \in tree' /\ k # 0 /\ i \in tree /\ Output[p] \in registered
               /\ Reached(p, k) /\ Reached(p, k)'
    BY <1>0, <1>2, <1>9, ReachedKept DEF AnalysisProgress, Grows
  <1>10. CASE VisitFunction(w)
    <2>1. /\ pc[w] = "visit" /\ pc'[w] = "visit" /\ UNCHANGED job /\ pos'[w] = k + 1
          /\ k \in DOMAIN Decls[p] /\ Decls[p][k].kind = "function"
          /\ RegisterGlobal(w, Decls[p][k].name, FALSE)
      BY <1>2, <1>4, <1>10 DEF VisitFunction, AtStatement, Statement, poolVars
    <2>2. Decls[p][k].name \in Known'
      BY <1>2, <1>9, <2>1, StatementNames, RegisterGrows
    <2>3. Reached(p, k + 1)'
      BY <1>9, <2>1, <2>2, ReachedNext
    <2> QED
      BY <1>5, <1>9, <2>1, <2>3 DEF AnalysisProgress, IncludeLabels
  <1>11. CASE VisitInclude(w)
    <2>1. pc[w] = "visit" /\ pc'[w] = "lock" /\ UNCHANGED job /\ pos'[w] = k
      BY <1>2, <1>4, <1>11 DEF VisitInclude, AtStatement, Goto, poolVars
    <2> QED
      BY <1>5, <1>9, <2>1 DEF AnalysisProgress, IncludeLabels
  <1>12. CASE VisitThrows(w)
    <2>0. /\ pc[w] = "visit" /\ k \in DOMAIN Decls[p] /\ UNCHANGED job
          /\ Decls[p][k].kind \in {"error", "fatal"}
      BY <1>2, <1>12 DEF VisitThrows, AtStatement, Statement, Terminated, poolVars
    <2>1. CASE Decls[p][k].kind = "error" /\ pc' = [pc EXCEPT ![w] = "report"]
      <3>1. pc'[w] = "report"
        BY <1>4, <2>1
      <3>2. p \in AnalysisFails
        <4>1. ReadOutcome[p] = "ok"
          BY <1>2, <1>9, <2>0 DEF PInv, TreeRead
        <4>2. DOMAIN Decls[p] = 1 .. Len(Decls[p]) /\ Len(Decls[p]) \in Nat
          BY ProjectAssumption
        <4>3. \A j \in 1 .. k - 1 : j \in DOMAIN Decls[p] /\ j < k
          BY <2>0, <4>2
        <4>4. \A j \in 1 .. k - 1 : Decls[p][j].kind \notin {"error", "fatal"}
          BY <1>9, <2>0, <4>3 DEF Reached
        <4> QED
          BY <2>0, <2>1, <4>1, <4>4 DEF AnalysisFails, Throws
      <3>3. Declared(p) \subseteq Known
        BY <1>9, <2>0, DeclaredReached
      <3>4. AnalysisOver(i)
        BY <1>2, <1>9, <2>0, <3>3 DEF AnalysisOver
      <3>5. AnalysisOver(i)'
        BY <3>4, OverKept
      <3>6. (AnalysisOver(job[w].unit))'
        BY <1>5, <2>0, <3>5 DEF AnalysisOver
      <3>7. job'[w].pass = 1 /\ (AnalysisFails)' = AnalysisFails
        BY <1>3, <2>0 DEF AnalysisFails, Throws
      <3> QED
        BY <1>5, <2>0, <3>1, <3>2, <3>6, <3>7 DEF AnalysisProgress, IncludeLabels
    <2>2. CASE UNCHANGED <<pc, pos>>
      <3>1. pc'[w] = "visit" /\ pos'[w] = k
        BY <1>2, <2>0, <2>2
      <3> QED
        BY <1>5, <1>9, <2>0, <3>1 DEF AnalysisProgress, IncludeLabels
    <2> QED
      BY <1>2, <1>12, <2>1, <2>2 DEF VisitThrows, AtStatement, Statement, Terminated, Goto
  <1>13. CASE EndPass1(w)
    <2>1. pc'[w] = "idle"
      BY <1>4, <1>13 DEF EndPass1, EndTask, Goto
    <2> QED
      BY <2>1 DEF AnalysisProgress, IncludeLabels
  <1> QED
    BY <1>6, <1>7, <1>8, <1>10, <1>11, <1>12, <1>13 DEF Pass1Step

LEMMA Pass2Progress ==
  ASSUME IInv, PInv, Grows, NEW w \in Workers, Pass2Step(w)
  PROVE  AnalysisProgress(w)'
  <1>0. AnalysisProgress(w) /\ WorkerInv(w)
    BY DEF PInv, AnalysisControl, IInv, WorkerControl
  <1>1. pc[w] \in Pass2Labels
    BY DEF Pass2Step, BeginFill, GetSymbol, UseSymbol, EndFill, GenerateCode, SaveUnit, Pass2Labels
  <1>2. PICK p \in Paths, i \in DOMAIN units : p = PathOf(w) /\ i = job[w].unit /\ p = units[i]
    BY <1>1, UnitFacts DEF Pass2Labels
  <1>3. job[w].pass = 2
    BY <1>0, <1>1 DEF WorkerInv
  <1>4. pc \in [Actors -> Labels] /\ w \in Actors
    BY DEF IInv, TypeOK, Actors
  <1>5. ASSUME UNCHANGED job, i \in tree, pc'[w] \in {"get", "use", "generate", "save"}
        PROVE  AnalysisProgress(w)'
    BY <1>2, <1>5 DEF AnalysisProgress, IncludeLabels, Grows
  <1>6. CASE BeginFill(w)
    <2>1. CASE i \in tree
      BY <1>2, <1>4, <1>5, <1>6, <2>1 DEF BeginFill, Goto
    <2>2. CASE i \notin tree
      <3>1. pc'[w] = "idle"
        BY <1>2, <1>4, <1>6, <2>2 DEF BeginFill, EndTask, Goto
      <3> QED
        BY <3>1 DEF AnalysisProgress, IncludeLabels
    <2> QED
      BY <2>1, <2>2
  <1>7. CASE GetSymbol(w) \/ UseSymbol(w) \/ EndFill(w)
    <2>1. UNCHANGED job /\ pc[w] \in {"get", "use"} /\ pc'[w] \in {"get", "use", "generate"}
      BY <1>4, <1>7 DEF GetSymbol, UseSymbol, EndFill, Goto, poolVars
    <2> QED
      BY <1>0, <1>2, <1>5, <2>1 DEF AnalysisProgress
  <1>8. CASE GenerateCode(w)
    <2>0. UNCHANGED job /\ pc[w] = "generate" /\ i \in tree
      BY <1>0, <1>2, <1>8, GenerateCases DEF AnalysisProgress, poolVars
    <2>1. CASE pc'[w] \in {"generate", "save"}
      BY <1>5, <2>0, <2>1
    <2>2. CASE pc'[w] = "report" /\ GenOutcome[p] = "error"
      <3>1. p \in GenerationFails
        BY <1>2, <2>0, <2>2 DEF PInv, TreeRead, GenerationFails
      <3>2. job'[w].pass = 2 /\ PathOf(w)' = p
        BY <1>2, <1>3, <2>0 DEF Grows, PathOf
      <3> QED
        BY <2>2, <3>1, <3>2 DEF AnalysisProgress, IncludeLabels, GenerationFails
    <2>3. \/ pc' = [pc EXCEPT ![w] = "save"] \/ UNCHANGED pc
          \/ pc' = [pc EXCEPT ![w] = "report"] /\ GenOutcome[p] = "error"
      BY <1>2, <1>8, GenerateCases
    <2> QED
      BY <1>4, <2>0, <2>1, <2>2, <2>3
  <1>9. CASE SaveUnit(w)
    <2>1. pc'[w] = "idle"
      BY <1>4, <1>9 DEF SaveUnit, EndTask, Goto
    <2> QED
      BY <2>1 DEF AnalysisProgress, IncludeLabels
  <1> QED
    BY <1>6, <1>7, <1>8, <1>9 DEF Pass2Step

---------------------------------------------------------------------------
(* Units whose task has ended *)

\* The four actions that end a task.
LEMMA TaskEnds ==
  ASSUME IInv, NEW w \in Workers, WorkerStep(w), EndTask(w), pc[w] # "idle"
  PROVE  ReportError(w) \/ EndPass1(w) \/ BeginFill(w) \/ SaveUnit(w)
  <1>1. pc \in [Actors -> Labels] /\ w \in Actors /\ w # Main
    BY ActorAssumption DEF IInv, TypeOK, Actors
  <1>2. pc'[w] = "idle"
    BY <1>1 DEF EndTask, Goto
  <1>3. ~TakeTask(w)
    BY DEF TakeTask
  <1>4. ~IncludeStep(w)
    BY <1>1, <1>2 DEF IncludeStep, LockInclude, TestIncluded, InsertInclude, ReturnFromInclude, Goto
  <1>5. Pass1Step(w) => EndPass1(w)
    BY <1>1, <1>2
    DEF Pass1Step, BeginUnit, RegisterBuiltin, ReadSource, VisitFunction, VisitInclude,
        VisitThrows, Terminated, Goto
  <1>6. Pass2Step(w) => BeginFill(w) \/ SaveUnit(w)
    BY <1>1, <1>2
    DEF Pass2Step, GetSymbol, UseSymbol, EndFill, GenerateCode, Terminated, Goto
  <1> QED
    BY <1>3, <1>4, <1>5, <1>6 DEF WorkerStep

\* The visitors have reached the end of a file.
LEMMA EndReached ==
  ASSUME IInv, PInv, NEW w \in Workers, EndPass1(w)
  PROVE  AnalysisOver(job[w].unit) /\ Sound(job[w].unit)
  <1>0. pc[w] = "visit" /\ pos[w] \notin DOMAIN Decls[PathOf(w)]
    BY DEF EndPass1
  <1>1. PICK p \in Paths, k \in Nat, i \in DOMAIN units :
          p = PathOf(w) /\ k = pos[w] /\ i = job[w].unit /\ p = units[i]
    BY <1>0, UnitFacts
  <1>2. /\ Output[p] \in registered /\ i \in tree /\ k # 0 /\ Reached(p, k)
        /\ ReadOutcome[p] = "ok" /\ k \notin DOMAIN Decls[p]
    BY <1>0, <1>1 DEF PInv, AnalysisControl, AnalysisProgress, TreeRead
  <1>3. Declared(p) \subseteq Known
    BY <1>2, DeclaredReached
  <1>4. \A m \in DOMAIN Decls[p] : m < k
    <2>1. DOMAIN Decls[p] = 1 .. Len(Decls[p]) /\ Len(Decls[p]) \in Nat
      BY ProjectAssumption
    <2> QED
      BY <1>2, <2>1
  <1>5. p \notin AnalysisFails
    BY <1>2, <1>4 DEF AnalysisFails, Throws, Reached
  <1>6. IncludesOf[p] \subseteq included
    BY <1>2, <1>4 DEF IncludesOf, Visited, Reached
  <1> QED
    BY <1>1, <1>2, <1>3, <1>5, <1>6 DEF AnalysisOver, Sound

LEMMA AccountedStep ==
  ASSUME IInv, PInv, [Next]_vars, Grows
  PROVE  AnalysisAccounted'
  <1> SUFFICES ASSUME NEW i \in DOMAIN units', ~Pending(1, i)'
               PROVE  AnalysisOver(i)' /\ (hasErrors' \/ Sound(i)')
    BY DEF AnalysisAccounted
  <1>1. i \in DOMAIN units
    BY NewPending
  <1>2. ASSUME AnalysisOver(i), hasErrors' \/ Sound(i)
        PROVE  AnalysisOver(i)' /\ (hasErrors' \/ Sound(i)')
    BY <1>1, <1>2, OverKept
  <1>3. CASE ~Pending(1, i)
    BY <1>1, <1>2, <1>3 DEF PInv, AnalysisAccounted, Grows
  <1>4. CASE Pending(1, i)
    <2>1. PICK w \in Workers : WorkerStep(w)
      <3>1. CASE UNCHANGED vars \/ Ended
        BY <1>4, <3>1 DEF Ended, vars, Pending, Queued, Running
      <3> QED
        BY <1>4, <3>1, PendingMain DEF Next
    <2>2. job[w] = [pass |-> 1, unit |-> i] /\ EndTask(w) /\ pc[w] # "idle"
      BY <1>4, <2>1, PendingStep
    <2>3. AnalysisProgress(w) /\ WorkerInv(w) /\ job[w].pass = 1 /\ job[w].unit = i
      BY <2>2 DEF PInv, AnalysisControl, IInv, WorkerControl
    <2>4. CASE ReportError(w)
      BY <1>2, <2>3, <2>4 DEF ReportError, AnalysisProgress
    <2>5. CASE EndPass1(w)
      BY <1>2, <2>3, <2>5, EndReached
    <2>6. ~BeginFill(w) /\ ~SaveUnit(w)
      BY <2>3 DEF BeginFill, SaveUnit, WorkerInv, Pass2Labels
    <2> QED
      BY <2>1, <2>2, <2>4, <2>5, <2>6, TaskEnds
  <1> QED
    BY <1>3, <1>4

LEMMA TreeReadStep ==
  ASSUME IInv, PInv, [Next]_vars, Grows
  PROVE  TreeRead'
  <1>1. \A i \in tree : i \in DOMAIN units' /\ ReadOutcome[units'[i]] = "ok"
    BY DEF PInv, TreeRead, Grows
  <1>2. CASE UNCHANGED tree
    BY <1>1, <1>2 DEF TreeRead
  <1>3. ASSUME NEW w \in Workers, ReadSource(w) PROVE TreeRead'
    <2>1. /\ pc[w] = "builtins"
          /\ \/ UNCHANGED tree
             \/ ReadOutcome[PathOf(w)] = "ok" /\ tree' = tree \cup {job[w].unit}
      BY <1>3 DEF ReadSource, Terminated, unitVars
    <2>2. job[w].unit \in DOMAIN units /\ PathOf(w) = units[job[w].unit]
      BY <2>1, UnitFacts
    <2>3. job[w].unit \in DOMAIN units' /\ PathOf(w) = units'[job[w].unit]
      BY <2>2 DEF Grows
    <2> QED
      BY <1>1, <1>2, <2>1, <2>3 DEF TreeRead
  <1> QED
    BY <1>2, <1>3
    DEF Next, MainStep, WorkerStep, Ended, vars, unitVars, IncludeStep, LockInclude,
        TestIncluded, InsertInclude, WaitPass1, SpawnPass2, FinishProject, TakeTask,
        ReportError, Pass1Step, BeginUnit, RegisterBuiltin, VisitFunction, VisitInclude,
        VisitThrows, EndPass1, Terminated, Pass2Step, BeginFill, GetSymbol, UseSymbol,
        EndFill, GenerateCode, SaveUnit

---------------------------------------------------------------------------
(* Where registered files, errors, the root and builtins come from *)

LEMMA RegisteredStep ==
  ASSUME IInv, PInv, [Next]_vars, Grows
  PROVE  registered' \subseteq {Output[p] : p \in included'}
  <1>1. registered \subseteq {Output[p] : p \in included'}
    BY DEF PInv, Origins, Grows
  <1>2. ASSUME NEW w \in Workers, BeginUnit(w) PROVE registered' \subseteq {Output[p] : p \in included'}
    <2>1. registered' = registered \cup {Output[PathOf(w)]} /\ pc[w] # "idle"
      BY <1>2 DEF BeginUnit
    <2>2. PathOf(w) \in included'
      BY <2>1, UnitFacts DEF Grows
    <2> QED
      BY <1>1, <2>1, <2>2
  <1>3. UNCHANGED registered \/ \E w \in Workers : BeginUnit(w)
    BY DEF Next, MainStep, WorkerStep, Ended, vars, fileVars, IncludeStep, LockInclude,
           TestIncluded, InsertInclude, WaitPass1, SpawnPass2, FinishProject, TakeTask,
           ReportError, Pass1Step, RegisterBuiltin, ReadSource, VisitFunction, VisitInclude,
           VisitThrows, EndPass1, Terminated, Pass2Step, BeginFill, GetSymbol, UseSymbol,
           EndFill, GenerateCode, SaveUnit
  <1> QED
    BY <1>1, <1>2, <1>3

LEMMA ErrorsStep ==
  ASSUME IInv, PInv, [Next]_vars, Grows, hasErrors'
  PROVE  \E p \in included' : p \in AnalysisFails \cup GenerationFails
  <1>1. CASE hasErrors
    BY <1>1 DEF PInv, Origins, Grows
  <1>2. ASSUME NEW w \in Workers, ReportError(w)
        PROVE  \E p \in included' : p \in AnalysisFails \cup GenerationFails
    <2>1. pc[w] = "report"
      BY <1>2 DEF ReportError
    <2>2. PathOf(w) \in included /\ PathOf(w) \in AnalysisFails \cup GenerationFails
      BY <2>1, UnitFacts DEF PInv, AnalysisControl, AnalysisProgress
    <2> QED
      BY <2>2 DEF Grows
  <1>3. UNCHANGED hasErrors \/ \E w \in Workers : ReportError(w)
    BY DEF Next, MainStep, WorkerStep, Ended, vars, IncludeStep, LockInclude,
           TestIncluded, InsertInclude, WaitPass1, SpawnPass2, FinishProject, TakeTask,
           Pass1Step, BeginUnit, RegisterBuiltin, ReadSource, VisitFunction, VisitInclude,
           VisitThrows, EndPass1, Terminated, Pass2Step, BeginFill, GetSymbol, UseSymbol,
           EndFill, GenerateCode, SaveUnit
  <1> QED
    BY <1>1, <1>2, <1>3

LEMMA RootStep ==
  ASSUME IInv, PInv, [Next]_vars, Grows, pc'[Main] \in {"wait1", "spawn", "done"}
  PROVE  root' \in included'
  <1>1. pc \in [Actors -> Labels] /\ Main \in Actors
    BY DEF IInv, TypeOK, Actors
  <1>2. UNCHANGED root
    BY DEF Next, MainStep, WorkerStep, Ended, vars, unitVars, IncludeStep, LockInclude,
           TestIncluded, InsertInclude, WaitPass1, SpawnPass2, FinishProject, TakeTask,
           ReportError, Pass1Step, BeginUnit, RegisterBuiltin, ReadSource, VisitFunction,
           VisitInclude, VisitThrows, EndPass1, Terminated, Pass2Step, BeginFill, GetSymbol,
           UseSymbol, EndFill, GenerateCode, SaveUnit
  <1>3. CASE pc[Main] \in {"wait1", "spawn", "done"}
    BY <1>2, <1>3 DEF PInv, Origins, Grows
  <1>4. CASE pc[Main] \notin {"wait1", "spawn", "done"}
    <2>1. (TestIncluded(Main) /\ root \in included) \/ InsertInclude(Main)
      <3>1. CASE MainStep
        BY <1>1, <1>4, <3>1
        DEF MainStep, IncludeStep, LockInclude, TestIncluded, WaitPass1, SpawnPass2,
            FinishProject, Goto, IncludeTarget
      <3>2. CASE UNCHANGED vars \/ Ended
        BY <1>4, <3>2 DEF vars, Ended
      <3>3. ASSUME NEW w \in Workers, WorkerStep(w) PROVE FALSE
        BY <1>4, <3>3, MainUnmoved
      <3> QED
        BY <3>1, <3>2, <3>3 DEF Next
    <2> QED
      BY <1>2, <2>1 DEF Grows, InsertInclude, IncludeTarget
  <1> QED
    BY <1>3, <1>4

LEMMA BuiltinStep ==
  ASSUME IInv, PInv, [Next]_vars, Grows, NEW n \in Known', globalFns'[n].builtin
  PROVE  n \in BuiltinNames
  <1>1. n \in Names
    BY DEF Known
  <1>2. CASE globalFns'[n] = globalFns[n]
    BY <1>1, <1>2 DEF PInv, Origins, Known
  <1>3. ASSUME NEW w \in Workers, RegisterBuiltin(w) PROVE n \in BuiltinNames
    <2>1. /\ pc[w] = "builtins" /\ pos[w] \in DOMAIN Builtins
          /\ RegisterGlobal(w, Builtins[pos[w]], TRUE)
      BY <1>3 DEF RegisterBuiltin
    <2>2. pos[w] # 0 /\ Builtins[pos[w]] \in Names /\ TRUE \in BOOLEAN
      BY <2>1, StatementNames
    <2>3. \A m \in Names \ {Builtins[pos[w]]} : globalFns'[m] = globalFns[m]
      BY <2>1, <2>2, RegisterGrows
    <2> QED
      BY <1>1, <1>2, <2>1, <2>3 DEF BuiltinNames
  <1>4. ASSUME NEW w \in Workers, VisitFunction(w) PROVE n \in BuiltinNames
    <2>1. /\ pc[w] = "visit" /\ pos[w] \in DOMAIN Decls[PathOf(w)]
          /\ Decls[PathOf(w)][pos[w]].kind = "function"
          /\ RegisterGlobal(w, Decls[PathOf(w)][pos[w]].name, FALSE)
      BY <1>4 DEF VisitFunction, AtStatement, Statement
    <2>2. PathOf(w) \in Paths
      BY <2>1, UnitFacts
    <2>3. pos[w] # 0 /\ Decls[PathOf(w)][pos[w]].name \in Names /\ FALSE \in BOOLEAN
      BY <2>1, <2>2, StatementNames
    <2>4. /\ globalFns'[Decls[PathOf(w)][pos[w]].name].builtin = FALSE
          /\ \A m \in Names \ {Decls[PathOf(w)][pos[w]].name} : globalFns'[m] = globalFns[m]
      BY <2>1, <2>3, RegisterGrows
    <2>5. n # Decls[PathOf(w)][pos[w]].name
      BY <2>4
    <2> QED
      BY <1>1, <1>2, <2>4, <2>5
  <1>5. CASE UNCHANGED globalFns
    BY <1>2, <1>5
  <1> QED
    BY <1>3, <1>4, <1>5
    DEF Next, MainStep, WorkerStep, Ended, vars, registryVars, IncludeStep, LockInclude,
        TestIncluded, InsertInclude, WaitPass1, SpawnPass2, FinishProject, TakeTask,
        ReportError, Pass1Step, BeginUnit, ReadSource, VisitInclude, VisitThrows, EndPass1,
        Terminated, Pass2Step, BeginFill, GetSymbol, UseSymbol, EndFill, GenerateCode, SaveUnit

LEMMA SymbolStep ==
  ASSUME IInv, PInv, [Next]_vars, Grows, NEW n \in Known', ~globalFns'[n].builtin
  PROVE  Declares(globalFns[n], n)'
  <1>1. n \in Names
    BY DEF Known
  <1>2. CASE globalFns'[n] = globalFns[n]
    <2>1. Declares(globalFns[n], n)
      BY <1>1, <1>2 DEF PInv, Origins, Known
    <2>2. PICK i, k : i = globalFns[n].unit /\ k = globalFns[n].decl
      OBVIOUS
    <2>3. /\ i \in DOMAIN units /\ k \in DOMAIN Decls[units[i]]
          /\ \E d \in Visited(units[i]) :
               d = Decls[units[i]][k] /\ d.kind = "function" /\ d.name = n
      BY <2>1, <2>2 DEF Declares
    <2>4. /\ i \in DOMAIN units' /\ units'[i] = units[i]
          /\ globalFns'[n].unit = i /\ globalFns'[n].decl = k
      BY <1>2, <2>2, <2>3 DEF Grows
    <2> QED
      BY <2>3, <2>4 DEF Declares, Visited
  <1>3. ASSUME NEW w \in Workers, RegisterBuiltin(w) PROVE Declares(globalFns[n], n)'
    <2>1. /\ pc[w] = "builtins" /\ pos[w] \in DOMAIN Builtins
          /\ RegisterGlobal(w, Builtins[pos[w]], TRUE)
      BY <1>3 DEF RegisterBuiltin
    <2>2. pos[w] # 0 /\ Builtins[pos[w]] \in Names /\ TRUE \in BOOLEAN
      BY <2>1, StatementNames
    <2>3. globalFns'[Builtins[pos[w]]].builtin = TRUE
      BY <2>1, <2>2, RegisterGrows
    <2>4. \A m \in Names \ {Builtins[pos[w]]} : globalFns'[m] = globalFns[m]
      BY <2>1, <2>2, RegisterGrows
    <2> QED
      BY <1>1, <1>2, <2>3, <2>4
  <1>4. ASSUME NEW w \in Workers, VisitFunction(w) PROVE Declares(globalFns[n], n)'
    <2>1. PICK p \in Paths, k \in Nat, i \in DOMAIN units :
            /\ p = PathOf(w) /\ k = pos[w] /\ i = job[w].unit /\ p = units[i]
      BY <1>4, UnitFacts DEF VisitFunction, AtStatement
    <2>2. /\ pc[w] = "visit" /\ k \in DOMAIN Decls[p] /\ Decls[p][k].kind = "function"
          /\ RegisterGlobal(w, Decls[p][k].name, FALSE)
          /\ UNCHANGED units
      BY <1>4, <2>1 DEF VisitFunction, AtStatement, Statement, unitVars
    <2>3. k # 0 /\ Decls[p][k].name \in Names /\ FALSE \in BOOLEAN
      BY <2>2, StatementNames
    <2>4. /\ globalFns'[Decls[p][k].name].unit = i /\ globalFns'[Decls[p][k].name].decl = k
          /\ \A m \in Names \ {Decls[p][k].name} : globalFns'[m] = globalFns[m]
      BY <2>1, <2>2, <2>3, RegisterGrows
    <2>5. Decls[p][k] \in Visited(p)
      <3>1. ReadOutcome[p] = "ok" /\ Reached(p, k)
        BY <2>1, <2>2 DEF PInv, TreeRead, AnalysisControl, AnalysisProgress
      <3>2. DOMAIN Decls[p] = 1 .. Len(Decls[p]) /\ Len(Decls[p]) \in Nat
        BY ProjectAssumption
      <3>3. \A j \in 1 .. k : j \in DOMAIN Decls[p] /\ (j < k \/ j = k)
        BY <2>2, <3>2
      <3>4. \A j \in 1 .. k : Decls[p][j].kind \notin {"error", "fatal"}
        BY <2>2, <3>1, <3>3 DEF Reached
      <3> QED
        BY <2>2, <3>1, <3>4 DEF Visited
    <2>6. CASE n = Decls[p][k].name
      <3>1. /\ globalFns'[n].unit = i /\ globalFns'[n].decl = k
            /\ i \in DOMAIN units' /\ units'[i] = p
        BY <2>1, <2>2, <2>4, <2>6
      <3>2. /\ k \in DOMAIN Decls[p]
            /\ \E d \in Visited(p) :
                 d = Decls[p][k] /\ d.kind = "function" /\ d.name = n
        BY <2>2, <2>5, <2>6
      <3> QED
        BY <3>1, <3>2 DEF Declares, Visited
    <2> QED
      BY <1>1, <1>2, <2>4, <2>6
  <1>5. CASE UNCHANGED globalFns
    BY <1>2, <1>5
  <1> QED
    BY <1>3, <1>4, <1>5
    DEF Next, MainStep, WorkerStep, Ended, vars, registryVars, IncludeStep, LockInclude,
        TestIncluded, InsertInclude, WaitPass1, SpawnPass2, FinishProject, TakeTask,
        ReportError, Pass1Step, BeginUnit, ReadSource, VisitInclude, VisitThrows, EndPass1,
        Terminated, Pass2Step, BeginFill, GetSymbol, UseSymbol, EndFill, GenerateCode, SaveUnit

---------------------------------------------------------------------------
LEMMA NextPInv == IInv /\ PInv /\ [Next]_vars => PInv'
  <1> SUFFICES ASSUME IInv, PInv, [Next]_vars PROVE PInv'
    OBVIOUS
  <1>0. Grows
    BY NextGrows
  <1>1. AnalysisControl'
    <2> SUFFICES ASSUME NEW v \in Workers PROVE AnalysisProgress(v)'
      BY DEF AnalysisControl
    <2>1. CASE UNCHANGED <<pc[v], pos[v], job[v]>>
      BY <1>0, <2>1, OthersKept
    <2>2. CASE MainStep
      <3>1. v # Main /\ v \in Actors /\ pc \in [Actors -> Labels] /\ pos \in [Actors -> Nat]
        BY ActorAssumption DEF IInv, TypeOK, Actors
      <3>2. UNCHANGED job
        BY <2>2 DEF MainStep, IncludeStep, LockInclude, TestIncluded, InsertInclude, WaitPass1,
                    SpawnPass2, FinishProject, poolVars
      <3>3. UNCHANGED <<pc[v], pos[v]>>
        BY <2>2, <3>1
        DEF MainStep, IncludeStep, LockInclude, TestIncluded, InsertInclude, ReturnFromInclude,
            WaitPass1, SpawnPass2, FinishProject, Goto
      <3> QED
        BY <2>1, <3>2, <3>3
    <2>3. CASE UNCHANGED vars \/ Ended
      BY <2>1, <2>3 DEF vars, Ended
    <2>4. ASSUME NEW w \in Workers, WorkerStep(w), v # w PROVE AnalysisProgress(v)'
      BY <2>1, <2>4, OthersUnmoved
    <2>5. ASSUME WorkerStep(v) PROVE AnalysisProgress(v)'
      <3>1. CASE TakeTask(v) \/ ReportError(v)
        <4>1. pc'[v] \in {"idle", "begin", "fill"}
          BY <3>1 DEF TakeTask, ReportError, EndTask, Goto, IInv, TypeOK, Actors
        <4> QED
          BY <4>1 DEF AnalysisProgress, IncludeLabels
      <3> QED
        BY <1>0, <2>5, <3>1, IncludeProgress, Pass1Progress, Pass2Progress DEF WorkerStep
    <2> QED
      BY <2>2, <2>3, <2>4, <2>5 DEF Next
  <1>2. AnalysisAccounted' /\ TreeRead'
    BY <1>0, AccountedStep, TreeReadStep
  <1>3. Origins'
    <2>1. (AnalysisFails \cup GenerationFails)' = AnalysisFails \cup GenerationFails
      BY DEF AnalysisFails, GenerationFails, Throws
    <2>2. BuiltinNames' = BuiltinNames
      BY DEF BuiltinNames
    <2> QED
      BY <1>0, <2>1, <2>2, RegisteredStep, ErrorsStep, RootStep, BuiltinStep, SymbolStep
      DEF Origins
  <1> QED
    BY <1>1, <1>2, <1>3 DEF PInv

LEMMA AnalysisInvariance == Spec => []PInv
  BY Invariance, InitPInv, NextPInv, PTL DEF Spec

---------------------------------------------------------------------------
(* Pass 2: a local registry holds what fill() has copied so far; a unit    *)
(* whose pass 2 is over has written its file, unless an error is recorded  *)
(* or the unit has no tree.                                                *)

\* What fill() has copied when it has the keys todo left and holds one more.
Copied(w) ==
  {<<n, globalFns[n]>> : n \in {n \in Known : /\ ~globalFns[n].builtin
                                              /\ n \notin todo[w]
                                              /\ pc[w] = "use" => n # held[w][1]}}

FillProgress(w) ==
  /\ pc[w] = "fill" => localFns[job[w].unit] = {}
  /\ pc[w] \in {"get", "use"} => localFns[job[w].unit] = Copied(w)
  /\ pc[w] = "use" => held[w][1] \notin todo[w]
  /\ pc[w] \in {"generate", "save"} => localFns[job[w].unit] = UserFunctions
  /\ pc[w] = "save" => GenOutcome[PathOf(w)] = "ok"

FillControl == \A w \in Workers : FillProgress(w)

\* The local registries of the units that are not in pass 2 yet are empty.
Untouched ==
  InPass2Phase =>
    /\ \A k \in DOMAIN queue : localFns[queue[k].unit] = {}
    /\ \A i \in DOMAIN units : i > pos[Main] => localFns[i] = {}

GenerationOver(i) ==
  \/ hasErrors
  \/ i \notin tree
  \/ Output[units[i]] \in written /\ GenOutcome[units[i]] = "ok"

GenerationAccounted ==
  InPass2Phase => \A i \in DOMAIN units : i <= pos[Main] /\ ~Pending(2, i) => GenerationOver(i)

WrittenOrigin == written \subseteq {Output[p] : p \in included}

CInv ==
  /\ FillControl
  /\ Untouched
  /\ GenerationAccounted
  /\ WrittenOrigin
  /\ ExitTruthful
  /\ DeathDeserved

LEMMA InitCInv == Init => CInv
  <1> SUFFICES ASSUME Init PROVE CInv
    OBVIOUS
  <1> USE ActorAssumption DEF Init, Actors
  <1>1. FillControl
    BY DEF FillControl, FillProgress
  <1>2. ~InPass2Phase /\ written = {} /\ exit = "running"
    BY DEF InPass2Phase
  <1> QED
    BY <1>1, <1>2 DEF CInv, Untouched, GenerationAccounted, WrittenOrigin, ExitTruthful, DeathDeserved

---------------------------------------------------------------------------
(* The steps of the second phase *)

\* In pass 2 no unit is made or analysed any more.
LEMMA Pass2Moves ==
  ASSUME IInv, InPass2Phase, [Next]_vars
  PROVE  \/ UNCHANGED vars
         \/ /\ exit = "running"
            /\ \/ SpawnPass2
               \/ FinishProject
               \/ \E w \in Workers : /\ WorkerStep(w)
                                     /\ TakeTask(w) \/ ReportError(w) \/ Pass2Step(w)
  <1>1. CASE MainStep
    BY <1>1 DEF MainStep, InPass2Phase, IncludeStep, LockInclude, TestIncluded, InsertInclude, WaitPass1
  <1>2. ASSUME NEW w \in Workers, WorkerStep(w), IncludeStep(w) \/ Pass1Step(w) PROVE FALSE
    <2>1. pc[w] \in Pass1Labels
      BY <1>2 DEF IncludeStep, LockInclude, TestIncluded, InsertInclude, Pass1Step, BeginUnit,
                  RegisterBuiltin, ReadSource, VisitFunction, VisitInclude, VisitThrows, EndPass1,
                  AtStatement, Pass1Labels, IncludeLabels
    <2>2. job[w] # NoTask /\ job[w].pass = 1
      BY <2>1 DEF IInv, WorkerControl, WorkerInv, Pass1Labels, IncludeLabels
    <2> QED
      BY <2>2 DEF IInv, TaskControl
  <1>3. CASE Ended \/ UNCHANGED vars
    BY <1>3 DEF Ended
  <1>4. ASSUME NEW w \in Workers, WorkerStep(w)
        PROVE  exit = "running" /\ (TakeTask(w) \/ ReportError(w) \/ Pass2Step(w))
    BY <1>2, <1>4 DEF WorkerStep
  <1>5. MainStep => exit = "running"
    BY DEF MainStep
  <1> QED
    BY <1>1, <1>3, <1>4, <1>5 DEF Next, MainStep

LEMMA Pass2Frozen ==
  ASSUME IInv, InPass2Phase, [Next]_vars
  PROVE  UNCHANGED <<root, included, units, tree, globalFns, registered>> /\ InPass2Phase'
  <1>1. CASE UNCHANGED vars
    BY <1>1 DEF vars, InPass2Phase
  <1>2. CASE SpawnPass2
    BY <1>2 DEF SpawnPass2, InPass2Phase, unitVars, registryVars, fileVars
  <1>3. CASE FinishProject
    <2>1. pc' = [pc EXCEPT ![Main] = "done"] /\ pc \in [Actors -> Labels] /\ Main \in Actors
      BY <1>3 DEF FinishProject, Goto, IInv, TypeOK, Actors
    <2> QED
      BY <1>3, <2>1 DEF FinishProject, InPass2Phase, unitVars, registryVars, fileVars
  <1>4. ASSUME NEW w \in Workers, WorkerStep(w), TakeTask(w) \/ ReportError(w) \/ Pass2Step(w)
        PROVE  UNCHANGED <<root, included, units, tree, globalFns, registered>> /\ InPass2Phase'
    <2>1. InPass2Phase'
      BY <1>4, MainUnmoved
    <2> QED
      BY <1>4, <2>1
      DEF TakeTask, ReportError, Pass2Step, BeginFill, GetSymbol, UseSymbol, EndFill, GenerateCode,
          SaveUnit, Terminated, unitVars, registryVars, fileVars
  <1> QED
    BY <1>1, <1>2, <1>3, <1>4, Pass2Moves

\* The second phase begins when the pool is idle.
LEMMA Pass2Begins ==
  ASSUME IInv, TInv, [Next]_vars, ~InPass2Phase, InPass2Phase'
  PROVE  WaitPass1 /\ pos'[Main] = 0 /\ UNCHANGED <<queue, job, units, localFns, written>>
  <1>1. pc \in [Actors -> Labels] /\ Main \in Actors
    BY DEF IInv, TypeOK, Actors
  <1>2. ~UNCHANGED vars /\ ~Ended
    BY DEF vars, Ended, InPass2Phase
  <1>3. ASSUME NEW w \in Workers, WorkerStep(w) PROVE FALSE
    BY <1>3, MainUnmoved
  <1>4. ~IncludeStep(Main)
    BY <1>1 DEF IncludeStep, LockInclude, TestIncluded, InsertInclude, ReturnFromInclude, Goto, InPass2Phase
  <1>5. WaitPass1
    BY <1>2, <1>3, <1>4 DEF Next, MainStep, SpawnPass2, FinishProject, InPass2Phase
  <1> QED
    BY <1>5 DEF WaitPass1, TInv, MainPlace, poolVars, unitVars, registryVars, fileVars

---------------------------------------------------------------------------
(* The local registries *)

\* fill() of one unit leaves the registries of the others alone.
LEMMA LocalKept ==
  ASSUME IInv, InPass2Phase, [Next]_vars, NEW i \in DOMAIN units,
         \A w \in Workers : UseSymbol(w) => job[w].unit # i
  PROVE  localFns'[i] = localFns[i]
  <1>1. CASE UNCHANGED localFns
    BY <1>1
  <1>2. ASSUME NEW w \in Workers, UseSymbol(w) PROVE localFns'[i] = localFns[i]
    <2>1. localFns \in Seq(SUBSET (Names \X Symbol)) /\ i \in DOMAIN localFns
      BY DEF IInv, TypeOK
    <2>2. localFns' = localFns \/ \E x : localFns' = [localFns EXCEPT ![job[w].unit] = x]
      BY <1>2 DEF UseSymbol
    <2> QED
      BY <1>2, <2>1, <2>2
  <1>3. UNCHANGED localFns \/ \E w \in Workers : UseSymbol(w)
    BY Pass2Moves
    DEF vars, SpawnPass2, FinishProject, TakeTask, ReportError, Pass2Step, BeginFill, GetSymbol,
        EndFill, GenerateCode, SaveUnit, Terminated, registryVars
  <1> QED
    BY <1>1, <1>2, <1>3

\* Two workers in pass 2 are at different units.
LEMMA UnitsApart ==
  ASSUME IInv, TInv, NEW w \in Workers, UseSymbol(w)
  PROVE  /\ job[w].pass = 2 /\ job[w] # NoTask /\ job[w] \in Task
         /\ \A v \in Workers : v # w /\ pc[v] \in Pass2Labels => job[v].unit # job[w].unit
         /\ \A k \in DOMAIN queue : InPass2Phase => queue[k].unit # job[w].unit
         /\ InPass2Phase => job[w].unit <= pos[Main]
  <1>1. pc[w] = "use"
    BY DEF UseSymbol
  <1>2. job[w].pass = 2 /\ job[w] # NoTask /\ job[w] \in Task
    BY <1>1 DEF IInv, WorkerControl, WorkerInv, Pass2Labels, TypeOK
  <1>3. \A s, t \in Task : s.pass = t.pass /\ s.unit = t.unit => s = t
    BY DEF Task
  <1>4. ASSUME NEW v \in Workers, v # w, pc[v] \in Pass2Labels PROVE job[v].unit # job[w].unit
    <2>1. job[v].pass = 2 /\ job[v] \in Task
      BY <1>4 DEF IInv, WorkerControl, WorkerInv, Pass2Labels, TypeOK
    <2> QED
      BY <1>2, <1>3, <1>4, <2>1 DEF TInv, TasksApart
  <1>5. ASSUME NEW k \in DOMAIN queue, InPass2Phase PROVE queue[k].unit # job[w].unit
    <2>1. queue[k].pass = 2 /\ queue[k] \in Task
      BY <1>5 DEF IInv, TaskControl, TypeOK
    <2> QED
      BY <1>2, <1>3, <2>1 DEF TInv, TasksApart
  <1> QED
    BY <1>2, <1>4, <1>5 DEF TInv, SpawnedInOrder

\* The fill of a worker that does not move.
LEMMA FillKept ==
  ASSUME IInv, TInv, InPass2Phase, [Next]_vars, NEW v \in Workers, FillProgress(v),
         UNCHANGED <<pc[v], job[v], held[v], todo[v]>>
  PROVE  FillProgress(v)'
  <1>1. CASE pc[v] \notin Pass2Labels
    BY <1>1 DEF FillProgress, Pass2Labels
  <1>2. CASE pc[v] \in Pass2Labels
    <2>1. UNCHANGED globalFns /\ UNCHANGED units
      BY Pass2Frozen
    <2>2. PICK u \in DOMAIN units : u = job[v].unit
      BY <1>2, UnitFacts DEF Pass2Labels
    <2>3. job'[v].unit = u /\ PathOf(v)' = PathOf(v)
      BY <2>1, <2>2 DEF PathOf
    <2>4. Copied(v)' = Copied(v) /\ UserFunctions' = UserFunctions
      BY <2>1 DEF Copied, UserFunctions, Known
    <2>5. CASE \A w \in Workers : UseSymbol(w) => job[w].unit # u
      <3>1. localFns'[u] = localFns[u]
        BY <2>5, LocalKept
      <3> QED
        BY <2>2, <2>3, <2>4, <3>1 DEF FillProgress
    <2>6. ASSUME NEW w \in Workers, UseSymbol(w), job[w].unit = u PROVE FALSE
      <3>1. v = w
        BY <1>2, <2>2, <2>6, UnitsApart
      <3>2. pc[w] = "use" /\ pc' = [pc EXCEPT ![w] = "get"] /\ pc \in [Actors -> Labels] /\ w \in Actors
        BY <2>6 DEF UseSymbol, Goto, IInv, TypeOK, Actors
      <3> QED
        BY <3>1, <3>2
    <2> QED
      BY <2>5, <2>6
  <1> QED
    BY <1>1, <1>2

\* The fill of the worker that moves.
LEMMA FillMoves ==
  ASSUME IInv, TInv, PInv, InPass2Phase, [Next]_vars, Untouched, NEW w \in Workers,
         FillProgress(w), WorkerStep(w)
  PROVE  FillProgress(w)'
  <1>0. /\ pc \in [Actors -> Labels] /\ w \in Actors /\ w # Main
        /\ todo \in [Workers -> SUBSET Names] /\ job \in [Workers -> Task \cup {NoTask}]
        /\ held \in [Workers -> (Names \X (Symbol \cup {NoSymbol})) \cup {<<>>}]
        /\ DOMAIN localFns = DOMAIN units
    BY ActorAssumption DEF IInv, TypeOK, Actors
  <1>1. UNCHANGED globalFns /\ UNCHANGED units
    BY Pass2Frozen
  <1>2. CASE TakeTask(w)
    <2>1. /\ queue # << >> /\ job' = [job EXCEPT ![w] = Head(queue)] /\ UNCHANGED localFns
          /\ pc' = [pc EXCEPT ![w] = IF Head(queue).pass = 1 THEN "begin" ELSE "fill"]
      BY <1>2 DEF TakeTask, Goto, registryVars
    <2>2. Head(queue) = queue[1] /\ 1 \in DOMAIN queue
      BY <2>1, TailElements DEF IInv, TypeOK
    <2>3. job'[w] = queue[1] /\ pc'[w] \in {"begin", "fill"}
      BY <1>0, <2>1, <2>2
    <2>4. localFns'[job'[w].unit] = {}
      BY <2>1, <2>2, <2>3 DEF Untouched
    <2> QED
      BY <2>3, <2>4 DEF FillProgress
  <1>3. CASE EndTask(w)
    BY <1>0, <1>3 DEF EndTask, Goto, FillProgress
  <1>4. ASSUME pc[w] # "idle"
        PROVE  \E u \in DOMAIN units : u = job[w].unit
    BY <1>4, UnitFacts
  <1>5. CASE BeginFill(w) /\ ~EndTask(w)
    <2>1. /\ pc[w] = "fill" /\ todo' = [todo EXCEPT ![w] = Known] /\ UNCHANGED <<job, localFns>>
          /\ pc' = [pc EXCEPT ![w] = "get"]
      BY <1>5 DEF BeginFill, Goto, registryVars, Known
    <2>2. pc'[w] = "get" /\ todo'[w] = Known /\ Known' = Known
      BY <1>0, <1>1, <2>1 DEF Known
    <2>3. Copied(w)' = {}
      BY <2>2 DEF Copied
    <2>4. (localFns[job[w].unit])' = {}
      BY <2>1 DEF FillProgress
    <2> QED
      BY <2>2, <2>3, <2>4 DEF FillProgress
  <1>6. CASE GetSymbol(w)
    <2>1. PICK n \in todo[w] : /\ held' = [held EXCEPT ![w] = <<n, globalFns[n]>>]
                               /\ todo' = [todo EXCEPT ![w] = @ \ {n}]
      BY <1>6 DEF GetSymbol
    <2>2. /\ pc[w] = "get" /\ pc' = [pc EXCEPT ![w] = "use"] /\ UNCHANGED <<job, localFns>>
      BY <1>6 DEF GetSymbol, Goto, poolVars, registryVars
    <2>3. /\ pc'[w] = "use" /\ todo'[w] = todo[w] \ {n} /\ held'[w] = <<n, globalFns[n]>>
          /\ held'[w][1] = n /\ Known' = Known
      BY <1>0, <1>1, <2>1, <2>2 DEF Known
    <2>4. Copied(w)' = Copied(w)
      BY <1>1, <2>2, <2>3 DEF Copied
    <2>5. (localFns[job[w].unit])' = Copied(w)
      BY <2>2 DEF FillProgress
    <2> QED
      BY <2>3, <2>4, <2>5 DEF FillProgress
  <1>7. CASE UseSymbol(w)
    <2>1. /\ pc[w] = "use" /\ pc' = [pc EXCEPT ![w] = "get"] /\ UNCHANGED <<job, todo>>
          /\ localFns' = IF held[w][2].builtin THEN localFns
                         ELSE [localFns EXCEPT ![job[w].unit] = @ \cup {held[w]}]
      BY <1>7 DEF UseSymbol, Goto, poolVars
    <2>2. PICK u \in DOMAIN units : u = job[w].unit
      BY <1>4, <2>1
    <2>3. PICK n \in Names, s \in Symbol : held[w] = <<n, s>>
      BY <2>1 DEF IInv, WorkerControl, WorkerInv
    <2>4. /\ held[w][1] = n /\ held[w][2] = s /\ s = globalFns[n] /\ n \in Known
      BY <2>3, SymbolAssumption DEF IInv, NoDanglingSymbol, Known
    <2>5. pc'[w] = "get" /\ Known' = Known /\ n \notin todo[w] /\ localFns[u] = Copied(w)
      BY <1>0, <1>1, <2>1, <2>2, <2>4 DEF Known, FillProgress
    <2>6. localFns'[u] = IF s.builtin THEN Copied(w) ELSE Copied(w) \cup {<<n, s>>}
      BY <1>0, <2>1, <2>2, <2>3, <2>4, <2>5
    <2>7. Copied(w)' = {<<m, globalFns[m]>> : m \in {m \in Known : ~globalFns[m].builtin /\ m \notin todo[w]}}
      BY <1>1, <2>1, <2>5 DEF Copied
    <2>8. Copied(w) = {<<m, globalFns[m]>> : m \in {m \in Known : ~globalFns[m].builtin /\ m \notin todo[w] /\ m # n}}
      BY <2>1, <2>4 DEF Copied
    <2>9. localFns'[u] = Copied(w)'
      <3>1. CASE s.builtin
        BY <2>4, <2>6, <2>7, <2>8, <3>1
      <3>2. CASE ~s.builtin
        BY <2>4, <2>5, <2>6, <2>7, <2>8, <3>2
      <3> QED
        BY <3>1, <3>2
    <2>10. job'[w].unit = u
      BY <2>1, <2>2
    <2> QED
      BY <2>5, <2>9, <2>10 DEF FillProgress
  <1>8. CASE EndFill(w)
    <2>1. /\ pc[w] = "get" /\ todo[w] = {} /\ pc' = [pc EXCEPT ![w] = "generate"]
          /\ UNCHANGED <<job, localFns>>
      BY <1>8 DEF EndFill, Goto, poolVars, registryVars
    <2>2. Copied(w) = UserFunctions
      BY <2>1 DEF Copied, UserFunctions, Known
    <2>3. UserFunctions' = UserFunctions /\ pc'[w] = "generate"
      BY <1>0, <1>1, <2>1 DEF UserFunctions
    <2>4. (localFns[job[w].unit])' = UserFunctions
      BY <2>1, <2>2 DEF FillProgress
    <2> QED
      BY <2>3, <2>4 DEF FillProgress
  <1>9. CASE GenerateCode(w)
    <2>1. /\ pc[w] = "generate" /\ UNCHANGED <<job, localFns>>
          /\ \/ pc' = pc
             \/ pc' = [pc EXCEPT ![w] = "report"]
             \/ pc' = [pc EXCEPT ![w] = "save"] /\ GenOutcome[PathOf(w)] = "ok"
      BY <1>9, GenerateCases DEF poolVars, registryVars
    <2>2. UserFunctions' = UserFunctions /\ PathOf(w)' = PathOf(w)
      BY <1>1, <2>1 DEF UserFunctions, PathOf
    <2>3. (localFns[job[w].unit])' = UserFunctions
      BY <2>1 DEF FillProgress
    <2>4. /\ pc'[w] \in {"generate", "report", "save"}
          /\ pc'[w] = "save" => GenOutcome[PathOf(w)] = "ok"
      BY <1>0, <2>1
    <2> QED
      BY <2>2, <2>3, <2>4 DEF FillProgress
  <1>10. TakeTask(w) \/ ReportError(w) \/ Pass2Step(w)
    <2>1. pc[w] \notin Pass1Labels
      BY DEF IInv, WorkerControl, WorkerInv, TaskControl, Pass1Labels, IncludeLabels
    <2> QED
      BY <2>1
      DEF WorkerStep, IncludeStep, LockInclude, TestIncluded, InsertInclude, Pass1Step, BeginUnit,
          RegisterBuiltin, ReadSource, VisitFunction, VisitInclude, VisitThrows, EndPass1,
          AtStatement, Pass1Labels, IncludeLabels
  <1> QED
    BY <1>2, <1>3, <1>5, <1>6, <1>7, <1>8, <1>9, <1>10
    DEF ReportError, Pass2Step, SaveUnit

LEMMA FillStep ==
  ASSUME IInv, TInv, PInv, CInv, [Next]_vars, IInv', TInv'
  PROVE  FillControl'
  <1> SUFFICES ASSUME NEW v \in Workers PROVE FillProgress(v)'
    BY DEF FillControl
  <1>1. CASE pc'[v] \notin Pass2Labels
    BY <1>1 DEF FillProgress, Pass2Labels
  <1>2. CASE ~InPass2Phase
    <2>1. CASE ~InPass2Phase'
      BY <1>1, <2>1 DEF IInv, WorkerControl, WorkerInv, TaskControl, Pass2Labels
    <2>2. CASE InPass2Phase'
      <3>1. WaitPass1
        BY <1>2, <2>2, Pass2Begins
      <3>2. job[v] = NoTask /\ UNCHANGED job
        BY <3>1 DEF WaitPass1, PoolIdle, poolVars
      <3>3. pc'[v] = "idle"
        BY <3>2 DEF IInv, WorkerControl, WorkerInv
      <3> QED
        BY <1>1, <3>3 DEF Pass2Labels
    <2> QED
      BY <2>1, <2>2
  <1>3. CASE InPass2Phase
    <2>0. FillProgress(v) /\ Untouched
      BY DEF CInv, FillControl
    <2>1. CASE UNCHANGED <<pc[v], job[v], held[v], todo[v]>>
      BY <1>3, <2>0, <2>1, FillKept
    <2>2. CASE UNCHANGED vars
      BY <2>1, <2>2 DEF vars
    <2>3. CASE SpawnPass2 \/ FinishProject
      <3>1. pc \in [Actors -> Labels] /\ v # Main /\ v \in Actors
        BY ActorAssumption DEF IInv, TypeOK, Actors
      <3>2. pc'[v] = pc[v] /\ UNCHANGED <<job, held, todo>>
        BY <2>3, <3>1 DEF SpawnPass2, FinishProject, Goto, poolVars, fillVars
      <3> QED
        BY <2>1, <3>2
    <2>4. ASSUME NEW w \in Workers, WorkerStep(w) PROVE FillProgress(v)'
      BY <1>3, <2>0, <2>1, <2>4, OthersUnmoved, FillMoves
    <2> QED
      BY <1>3, <2>2, <2>3, <2>4, Pass2Moves
  <1> QED
    BY <1>2, <1>3

LEMMA UntouchedStep ==
  ASSUME IInv, TInv, PInv, CInv, [Next]_vars, IInv', TInv'
  PROVE  Untouched'
  <1>0. /\ DOMAIN localFns = DOMAIN units /\ queue \in Seq(Task) /\ pos[Main] \in Nat
        /\ DOMAIN units \subseteq Nat /\ pos \in [Actors -> Nat] /\ Main \in Actors
    BY DEF IInv, TypeOK, Actors
  <1>1. CASE ~InPass2Phase /\ InPass2Phase'
    <2>1. UNCHANGED <<queue, units, localFns>>
      BY <1>1, Pass2Begins
    <2>2. \A i \in DOMAIN localFns : localFns[i] = {}
      BY <1>1 DEF IInv, RegistryControl
    <2>3. \A k \in DOMAIN queue : queue[k].unit \in DOMAIN units
      BY DEF IInv, TaskControl
    <2> QED
      BY <1>0, <2>1, <2>2, <2>3 DEF Untouched
  <1>2. CASE InPass2Phase
    <2>0. /\ Untouched /\ UNCHANGED units
      BY <1>2, Pass2Frozen DEF CInv
    <2>1. ASSUME NEW i \in DOMAIN units,
                 (i > pos[Main]) \/ (\E k \in DOMAIN queue : queue[k].unit = i)
          PROVE  localFns'[i] = {}
      <3>1. localFns[i] = {}
        BY <1>2, <2>0, <2>1 DEF Untouched
      <3>2. \A w \in Workers : UseSymbol(w) => job[w].unit # i
        <4> SUFFICES ASSUME NEW w \in Workers, UseSymbol(w), job[w].unit = i PROVE FALSE
          OBVIOUS
        <4>1. i <= pos[Main] /\ \A k \in DOMAIN queue : queue[k].unit # i
          BY <1>2, UnitsApart
        <4> QED
          BY <1>0, <2>1, <4>1
      <3> QED
        BY <1>2, <3>1, <3>2, LocalKept
    <2>2. \/ queue' = queue
          \/ queue # << >> /\ queue' = Tail(queue)
          \/ /\ queue' = Append(queue, [pass |-> 2, unit |-> pos[Main] + 1])
             /\ pos[Main] < Len(units)
      BY <1>2, Pass2Moves
      DEF vars, SpawnPass2, FinishProject, TakeTask, ReportError, Pass2Step, BeginFill, GetSymbol,
          UseSymbol, EndFill, GenerateCode, SaveUnit, Terminated, EndTask, poolVars
    <2>3. \A k \in DOMAIN queue' :
            (\E l \in DOMAIN queue : queue'[k] = queue[l]) \/
            (queue'[k].unit = pos[Main] + 1 /\ pos[Main] + 1 \in DOMAIN units)
      <3>1. CASE queue' = queue
        BY <3>1
      <3>2. CASE queue # << >> /\ queue' = Tail(queue)
        BY <1>0, <3>2, TailElements
      <3>3. CASE /\ queue' = Append(queue, [pass |-> 2, unit |-> pos[Main] + 1])
                 /\ pos[Main] < Len(units)
        <4> DEFINE t == [pass |-> 2, unit |-> pos[Main] + 1]
        <4>1. t \in Task /\ t.unit = pos[Main] + 1
          BY <1>0 DEF Task
        <4>2. DOMAIN units = 1 .. Len(units) /\ Len(units) \in Nat
          BY DEF IInv, TypeOK
        <4>3. pos[Main] + 1 \in DOMAIN units
          BY <1>0, <3>3, <4>2
        <4> HIDE DEF t
        <4>4. queue' = Append(queue, t)
          BY <3>3 DEF t
        <4>5. \A k \in DOMAIN queue' : (k \in DOMAIN queue /\ queue'[k] = queue[k]) \/ queue'[k] = t
          BY <1>0, <4>1, <4>4
        <4> QED
          BY <4>1, <4>3, <4>5
      <3> QED
        BY <2>2, <3>1, <3>2, <3>3
    <2>4. \A k \in DOMAIN queue : queue[k].unit \in DOMAIN units
      BY DEF IInv, TaskControl
    <2>5. \A k \in DOMAIN queue' : localFns'[queue'[k].unit] = {}
      BY <1>0, <2>1, <2>3, <2>4
    <2>6. pos'[Main] = pos[Main] \/ pos'[Main] = pos[Main] + 1
      BY <1>0, <1>2, Pass2Moves, MainUnmoved DEF vars, SpawnPass2, FinishProject
    <2>7. \A i \in DOMAIN units : i > pos'[Main] => localFns'[i] = {}
      BY <1>0, <2>1, <2>6
    <2> QED
      BY <2>0, <2>5, <2>7 DEF Untouched
  <1> QED
    BY <1>1, <1>2 DEF Untouched

---------------------------------------------------------------------------
(* The units whose pass 2 is over *)

LEMMA GenerationStep ==
  ASSUME IInv, TInv, PInv, CInv, [Next]_vars, IInv', TInv'
  PROVE  GenerationAccounted'
  <1> SUFFICES ASSUME InPass2Phase', NEW i \in DOMAIN units', i <= pos'[Main], ~Pending(2, i)'
               PROVE  GenerationOver(i)'
    BY DEF GenerationAccounted
  <1>0. /\ pos[Main] \in Nat /\ pos \in [Actors -> Nat] /\ Main \in Actors
        /\ units \in Seq(Paths) /\ queue \in Seq(Task) /\ units' \in Seq(Paths)
    BY DEF IInv, TypeOK, Actors
  <1>1. InPass2Phase
    <2> SUFFICES ASSUME ~InPass2Phase PROVE FALSE
      OBVIOUS
    <2>1. pos'[Main] = 0
      BY Pass2Begins
    <2> QED
      BY <1>0, <2>1
  <1>2. i \in DOMAIN units /\ units' = units /\ tree' = tree
    BY <1>1, Pass2Frozen
  <1>3. hasErrors => hasErrors'
    BY NextGrows DEF Grows
  <1>4. written \subseteq written'
    BY <1>1, Pass2Moves
    DEF vars, SpawnPass2, FinishProject, TakeTask, ReportError, Pass2Step, BeginFill, GetSymbol,
        UseSymbol, EndFill, GenerateCode, SaveUnit, Terminated, fileVars
  <1>5. CASE i <= pos[Main] /\ ~Pending(2, i)
    <2>1. GenerationOver(i)
      BY <1>1, <1>2, <1>5 DEF CInv, GenerationAccounted
    <2> QED
      BY <1>2, <1>3, <1>4, <2>1 DEF GenerationOver
  <1>6. ASSUME NEW w \in Workers, WorkerStep(w) PROVE GenerationOver(i)'
    <2>1. i <= pos[Main]
      BY <1>6, MainUnmoved
    <2>2. CASE Pending(2, i)
      <3>1. job[w] = [pass |-> 2, unit |-> i] /\ EndTask(w) /\ pc[w] # "idle"
        BY <1>6, <2>2, PendingStep
      <3>2. job[w].pass = 2 /\ job[w].unit = i /\ PathOf(w) = units[i]
        BY <3>1 DEF PathOf
      <3>3. CASE ReportError(w)
        BY <3>3 DEF ReportError, GenerationOver
      <3>4. ~EndPass1(w)
        BY <3>2 DEF EndPass1, IInv, WorkerControl, WorkerInv, Pass1Labels
      <3>5. CASE BeginFill(w)
        <4>1. i \notin tree
          <5>1. pc \in [Actors -> Labels] /\ w \in Actors
            BY DEF IInv, TypeOK, Actors
          <5>2. pc'[w] = "idle"
            BY <3>1, <5>1 DEF EndTask, Goto
          <5> QED
            BY <3>2, <3>5, <5>1, <5>2 DEF BeginFill, Goto
        <4> QED
          BY <1>2, <4>1 DEF GenerationOver
      <3>6. CASE SaveUnit(w)
        <4>1. GenOutcome[units[i]] = "ok"
          BY <3>2, <3>6 DEF SaveUnit, CInv, FillControl, FillProgress
        <4>2. Output[units[i]] \in written'
          BY <3>2, <3>6 DEF SaveUnit
        <4> QED
          BY <1>2, <4>1, <4>2 DEF GenerationOver
      <3> QED
        BY <1>6, <3>1, <3>3, <3>4, <3>5, <3>6, TaskEnds
    <2> QED
      BY <1>5, <2>1, <2>2
  <1>7. CASE SpawnPass2
    <2>1. pos'[Main] = pos[Main] + 1 /\ UNCHANGED job
          /\ queue' = Append(queue, [pass |-> 2, unit |-> pos[Main] + 1])
      BY <1>0, <1>7 DEF SpawnPass2
    <2>2. i # pos[Main] + 1
      <3> SUFFICES ASSUME i = pos[Main] + 1 PROVE Pending(2, i)'
        OBVIOUS
      <3> DEFINE t == [pass |-> 2, unit |-> pos[Main] + 1]
      <3>1. t \in Task
        BY <1>0 DEF Task
      <3> HIDE DEF t
      <3>2. queue' = Append(queue, t)
        BY <2>1 DEF t
      <3>3. Len(queue) + 1 \in DOMAIN queue' /\ queue'[Len(queue) + 1] = t
        BY <1>0, <3>1, <3>2
      <3> QED
        BY <3>3 DEF Pending, Queued, t
    <2>3. i <= pos[Main]
      BY <1>0, <1>2, <2>1, <2>2
    <2>4. ~Pending(2, i)
      <3>1. \A k \in DOMAIN queue : k \in DOMAIN queue' /\ queue'[k] = queue[k]
        BY <1>0, <2>1
      <3> QED
        BY <2>1, <3>1 DEF Pending, Queued, Running
    <2> QED
      BY <1>5, <2>3, <2>4
  <1>8. CASE UNCHANGED vars \/ FinishProject
    <2>1. UNCHANGED <<queue, job, pos>>
      BY <1>8 DEF vars, FinishProject, poolVars
    <2> QED
      BY <1>5, <2>1 DEF Pending, Queued, Running
  <1> QED
    BY <1>1, <1>6, <1>7, <1>8, Pass2Moves

LEMMA WrittenStep ==
  ASSUME IInv, PInv, CInv, [Next]_vars
  PROVE  WrittenOrigin'
  <1>1. written \subseteq {Output[p] : p \in included'}
    BY NextGrows DEF Grows, CInv, WrittenOrigin
  <1>2. ASSUME NEW w \in Workers, SaveUnit(w) PROVE WrittenOrigin'
    <2>1. written' = written \cup {Output[PathOf(w)]} /\ pc[w] # "idle" /\ UNCHANGED included
      BY <1>2 DEF SaveUnit, unitVars
    <2>2. PathOf(w) \in included'
      BY <2>1, UnitFacts
    <2> QED
      BY <1>1, <2>1, <2>2 DEF WrittenOrigin
  <1>3. UNCHANGED written \/ \E w \in Workers : SaveUnit(w)
    BY DEF Next, MainStep, WorkerStep, Ended, vars, fileVars, IncludeStep, LockInclude,
           TestIncluded, InsertInclude, WaitPass1, SpawnPass2, FinishProject, TakeTask,
           ReportError, Pass1Step, BeginUnit, RegisterBuiltin, ReadSource, VisitFunction,
           VisitInclude, VisitThrows, EndPass1, Terminated, Pass2Step, BeginFill, GetSymbol,
           UseSymbol, EndFill, GenerateCode
  <1> QED
    BY <1>1, <1>2, <1>3 DEF WrittenOrigin

---------------------------------------------------------------------------
(* What generation finds, and how the process ends *)

\* In pass 2 every unit is accounted for by pass 1.
LEMMA AllAnalysed ==
  ASSUME IInv, PInv, InPass2Phase, NEW i \in DOMAIN units
  PROVE  AnalysisOver(i) /\ (hasErrors \/ Sound(i))
  <1>1. ~Queued(1, i)
    BY DEF Queued, IInv, TaskControl
  <1>2. ~Running(1, i)
    <2> SUFFICES ASSUME NEW w \in Workers, job[w] = [pass |-> 1, unit |-> i] PROVE FALSE
      BY DEF Running
    <2>1. job[w].pass = 1 /\ job[w] # NoTask
      BY DEF NoTask
    <2> QED
      BY <2>1 DEF IInv, TaskControl
  <1> QED
    BY <1>1, <1>2 DEF Pending, PInv, AnalysisAccounted

\* A unit that generates code knows the functions of all units.
LEMMA DeclaredLocal ==
  ASSUME IInv, PInv, FillControl, NEW w \in Workers, pc[w] \in {"generate", "save"},
         NEW i \in DOMAIN units
  PROVE  Declared(units[i]) \subseteq LocalNames(job[w].unit)
  <1>1. InPass2Phase
    <2>1. job[w] # NoTask /\ job[w].pass = 2
      BY DEF IInv, WorkerControl, WorkerInv, Pass2Labels
    <2> QED
      BY <2>1 DEF IInv, TaskControl
  <1>2. Declared(units[i]) \subseteq Known
    BY <1>1, AllAnalysed DEF AnalysisOver
  <1>3. localFns[job[w].unit] = UserFunctions
    BY DEF FillControl, FillProgress
  <1> SUFFICES ASSUME NEW n \in Known PROVE n \in LocalNames(job[w].unit)
    BY <1>2
  <1>4. CASE globalFns[n].builtin
    BY <1>4 DEF PInv, Origins, LocalNames
  <1>5. CASE ~globalFns[n].builtin
    <2>1. <<n, globalFns[n]>> \in UserFunctions /\ <<n, globalFns[n]>>[1] = n
      BY <1>5 DEF UserFunctions, Known
    <2> QED
      BY <1>3, <2>1 DEF LocalNames
  <1> QED
    BY <1>4, <1>5

LEMMA CompleteFromCInv == IInv /\ PInv /\ CInv => LocalRegistryComplete
  <1> SUFFICES ASSUME IInv, PInv, CInv, NEW w \in Workers, pc[w] \in {"generate", "save"}
               PROVE  /\ localFns[job[w].unit] = UserFunctions
                      /\ \A i \in tree : Declared(units[i]) \subseteq LocalNames(job[w].unit)
    BY DEF LocalRegistryComplete
  <1>1. localFns[job[w].unit] = UserFunctions
    BY DEF CInv, FillControl, FillProgress
  <1>2. \A i \in tree : i \in DOMAIN units
    BY DEF PInv, TreeRead
  <1> QED
    BY <1>1, <1>2, DeclaredLocal DEF CInv

\* compileProject returns when every task of both passes is over.
LEMMA FinishTruthful ==
  ASSUME IInv, PInv, CInv, FinishProject
  PROVE  ExitTruthful'
  <1>1. /\ pc[Main] = "spawn" /\ pos[Main] = Len(units) /\ PoolIdle
        /\ exit' = IF hasErrors THEN "failed" ELSE "linked"
        /\ UNCHANGED <<root, included, registered, written>>
    BY DEF FinishProject, unitVars, fileVars
  <1>2. (AnalysisFails \cup GenerationFails)' = AnalysisFails \cup GenerationFails /\ IncludesOf' = IncludesOf
    BY DEF AnalysisFails, GenerationFails, Throws, IncludesOf, Visited
  <1>3. CASE hasErrors
    <2>1. \E p \in included : p \in AnalysisFails \cup GenerationFails
      BY <1>3 DEF PInv, Origins
    <2> QED
      BY <1>1, <1>2, <1>3, <2>1 DEF ExitTruthful
  <1>4. CASE ~hasErrors
    <2>1. root \in included /\ InPass2Phase
      BY <1>1 DEF PInv, Origins, InPass2Phase
    <2>2. ASSUME NEW i \in DOMAIN units
          PROVE  /\ Sound(i) /\ Output[units[i]] \in registered /\ Output[units[i]] \in written
                 /\ GenOutcome[units[i]] = "ok"
      <3>1. Sound(i) /\ AnalysisOver(i)
        BY <1>4, <2>1, AllAnalysed
      <3>2. i \in tree
        BY <3>1 DEF Sound, AnalysisOver
      <3>3. ~Pending(2, i)
        BY <1>1 DEF PoolIdle, Pending, Queued, Running, NoTask
      <3>4. i <= pos[Main]
        BY <1>1 DEF IInv, TypeOK
      <3>5. GenerationOver(i)
        BY <2>1, <3>3, <3>4 DEF CInv, GenerationAccounted
      <3> QED
        BY <1>4, <3>1, <3>2, <3>5 DEF AnalysisOver, GenerationOver
    <2>3. included = {units[i] : i \in DOMAIN units}
      BY DEF IInv, OneUnitPerPath
    <2>4. \A p \in included : /\ IncludesOf[p] \subseteq included
                              /\ p \notin AnalysisFails \cup GenerationFails
                              /\ ReadOutcome[p] = "ok"
      BY <2>2, <2>3 DEF Sound, GenerationFails
    <2>5. registered = written
      <3>1. registered \subseteq {Output[p] : p \in included}
        BY DEF PInv, Origins
      <3>2. written \subseteq {Output[p] : p \in included}
        BY DEF CInv, WrittenOrigin
      <3>3. \A p \in included : Output[p] \in registered /\ Output[p] \in written
        BY <2>2, <2>3
      <3> QED
        BY <3>1, <3>2, <3>3
    <2> QED
      BY <1>1, <1>2, <1>4, <2>1, <2>4, <2>5 DEF ExitTruthful
  <1> QED
    BY <1>3, <1>4

\* An include never ends the process.
LEMMA IncludeKeepsExit ==
  ASSUME NEW a, IncludeStep(a)
  PROVE  exit' = exit
  BY DEF IncludeStep, LockInclude, TestIncluded, InsertInclude

\* The steps that end the process.
LEMMA ExitSteps ==
  ASSUME [Next]_vars
  PROVE  \/ UNCHANGED vars
         \/ exit = "running" /\ FinishProject
         \/ exit = "running" /\ exit' = "running"
         \/ /\ exit = "running" /\ exit' = "terminated"
            /\ UNCHANGED included
            /\ \E w \in Workers : ReadSource(w) \/ VisitThrows(w) \/ GenerateCode(w)
  <1>1. CASE MainStep
    <2>1. exit = "running"
      BY <1>1 DEF MainStep
    <2>2. CASE IncludeStep(Main) \/ WaitPass1 \/ SpawnPass2
      BY <2>1, <2>2, IncludeKeepsExit DEF WaitPass1, SpawnPass2
    <2> QED
      BY <1>1, <2>1, <2>2 DEF MainStep
  <1>2. ASSUME NEW w \in Workers, WorkerStep(w)
        PROVE  \/ exit = "running" /\ exit' = "running"
               \/ /\ exit = "running" /\ exit' = "terminated"
                  /\ UNCHANGED included
                  /\ ReadSource(w) \/ VisitThrows(w) \/ GenerateCode(w)
    <2>1. exit = "running"
      BY <1>2 DEF WorkerStep
    <2>2. CASE TakeTask(w) \/ ReportError(w) \/ IncludeStep(w)
      BY <2>1, <2>2, IncludeKeepsExit DEF TakeTask, ReportError
    <2>3. CASE BeginUnit(w) \/ RegisterBuiltin(w) \/ VisitFunction(w) \/ VisitInclude(w) \/ EndPass1(w)
      BY <2>1, <2>3 DEF BeginUnit, RegisterBuiltin, VisitFunction, VisitInclude, EndPass1
    <2>4. CASE BeginFill(w) \/ GetSymbol(w) \/ UseSymbol(w) \/ EndFill(w) \/ SaveUnit(w)
      BY <2>1, <2>4 DEF BeginFill, GetSymbol, UseSymbol, EndFill, SaveUnit
    <2>5. CASE ReadSource(w)
      BY <2>1, <2>5 DEF ReadSource, Terminated, unitVars
    <2>6. CASE VisitThrows(w)
      BY <2>1, <2>6 DEF VisitThrows, Terminated, unitVars
    <2>7. CASE GenerateCode(w)
      BY <2>1, <2>7, GenerateCases DEF unitVars
    <2> QED
      BY <1>2, <2>2, <2>3, <2>4, <2>5, <2>6, <2>7 DEF WorkerStep, Pass1Step, Pass2Step
  <1> QED
    BY <1>1, <1>2 DEF Next, Ended

LEMMA ExitStep ==
  ASSUME IInv, PInv, CInv, [Next]_vars
  PROVE  ExitTruthful'
  <1>1. CASE UNCHANGED vars
    BY <1>1 DEF vars, CInv, ExitTruthful, IncludesOf, Visited, AnalysisFails, GenerationFails, Throws
  <1>2. CASE FinishProject
    BY <1>2, FinishTruthful
  <1>3. CASE exit' \in {"running", "terminated"}
    BY <1>3 DEF ExitTruthful
  <1> QED
    BY <1>1, <1>2, <1>3, ExitSteps

\* Why the process may end without main's leave.
Deserved(p) ==
  \/ ReadOutcome[p] = "fatal"
  \/ Throws(p, "fatal")
  \/ GenOutcome[p] = "fatal"
  \/ \E r \in References(p) : \/ r.name \notin BuiltinNames \cup UNION {Declared(q) : q \in included}
                               \/ Disputed(r)

LEMMA TerminatedDeserved ==
  ASSUME IInv, PInv, CInv, NEW w \in Workers, exit' = "terminated", exit = "running",
         ReadSource(w) \/ VisitThrows(w) \/ GenerateCode(w)
  PROVE  \E p \in included : Deserved(p)
  <1>1. pc[w] \in {"builtins", "visit", "generate"}
    BY DEF ReadSource, VisitThrows, GenerateCode, AtStatement
  <1>2. PICK p \in Paths, k \in Nat, i \in DOMAIN units :
          /\ p = PathOf(w) /\ k = pos[w] /\ i = job[w].unit /\ p = units[i] /\ p \in included
    BY <1>1, UnitFacts
  <1>3. CASE ReadSource(w)
    <2>1. ReadOutcome[p] = "fatal"
      BY <1>2, <1>3 DEF ReadSource
    <2> QED
      BY <1>2, <2>1 DEF Deserved
  <1>4. CASE VisitThrows(w)
    <2>1. pc[w] = "visit" /\ k \in DOMAIN Decls[p] /\ Decls[p][k].kind = "fatal"
      BY <1>2, <1>4 DEF VisitThrows, AtStatement, Statement
    <2>2. Reached(p, k)
      BY <1>2, <2>1 DEF PInv, AnalysisControl, AnalysisProgress
    <2>3. DOMAIN Decls[p] = 1 .. Len(Decls[p]) /\ Len(Decls[p]) \in Nat
      BY ProjectAssumption
    <2>4. \A j \in 1 .. k - 1 : j \in DOMAIN Decls[p] /\ j < k
      BY <2>1, <2>3
    <2>5. \A j \in 1 .. k - 1 : Decls[p][j].kind \notin {"error", "fatal"}
      BY <2>2, <2>4 DEF Reached
    <2>6. Throws(p, "fatal")
      BY <2>1, <2>5 DEF Throws
    <2> QED
      BY <1>2, <2>6 DEF Deserved
  <1>5. CASE GenerateCode(w)
    <2>1. pc[w] = "generate"
      BY <1>5 DEF GenerateCode
    <2>2. CASE GenOutcome[p] = "fatal"
      BY <1>2, <2>2 DEF Deserved
    <2>3. ASSUME NEW r \in References(p), ~Fits(r, i)
          PROVE  \/ r.name \notin BuiltinNames \cup UNION {Declared(q) : q \in included}
                 \/ Disputed(r)
      <3>1. CASE r.name \notin LocalNames(i)
        <4>1. BuiltinNames \subseteq LocalNames(i)
          BY DEF LocalNames
        <4>2. \A q \in included : Declared(q) \subseteq LocalNames(i)
          BY <1>2, <2>1, DeclaredLocal DEF CInv, IInv, OneUnitPerPath
        <4> QED
          BY <3>1, <4>1, <4>2
      <3>2. ASSUME NEW entry \in localFns[i], entry[1] = r.name, SignatureOf(entry[2]) # r.signature
            PROVE  Disputed(r)
        <4>1. localFns[i] = UserFunctions
          BY <1>2, <2>1 DEF CInv, FillControl, FillProgress
        <4>2. PICK n \in Known : entry = <<n, globalFns[n]>> /\ ~globalFns[n].builtin
          BY <3>2, <4>1 DEF UserFunctions, Known
        <4>3. Declares(globalFns[n], n)
          BY <4>2 DEF PInv, Origins
        <4>4. PICK q : q = units[globalFns[n].unit] /\ q \in included
          BY <4>3 DEF Declares, IInv, OneUnitPerPath
        <4>5. PICK d \in Visited(q) : /\ d.kind = "function" /\ d.name = n
                                      /\ d = Decls[q][globalFns[n].decl]
          BY <4>3, <4>4 DEF Declares
        <4>6. d.name = r.name /\ d.signature # r.signature
          BY <3>2, <4>2, <4>4, <4>5 DEF SignatureOf
        <4> QED
          BY <4>4, <4>5, <4>6 DEF Disputed
      <3>3. CASE /\ r.name \in LocalNames(i) /\ r.kind = "function"
                 /\ \A entry \in localFns[i] : entry[1] # r.name
        BY <3>3 DEF LocalNames, Disputed
      <3> QED
        BY <2>3, <3>1, <3>2, <3>3 DEF Fits
    <2>4. GenOutcome[p] = "fatal" \/ \E r \in References(p) : ~Fits(r, i)
      BY <1>2, <1>5, GenerateCases DEF GenerationOutcomes
    <2> QED
      BY <1>2, <2>2, <2>3, <2>4 DEF Deserved
  <1> QED
    BY <1>3, <1>4, <1>5

LEMMA DeathStep ==
  ASSUME IInv, PInv, CInv, [Next]_vars
  PROVE  DeathDeserved'
  <1>1. CASE UNCHANGED vars
    BY <1>1 DEF vars, CInv, DeathDeserved, Throws, References, BuiltinNames, Declared, Visited, Disputed
  <1>2. CASE exit' # "terminated"
    BY <1>2 DEF DeathDeserved
  <1>3. ASSUME exit' = "terminated", UNCHANGED included, \E p \in included : Deserved(p)
        PROVE  DeathDeserved'
    BY <1>3 DEF DeathDeserved, Deserved, Throws, References, BuiltinNames, Declared, Visited, Disputed
  <1>4. FinishProject => exit' # "terminated"
    BY DEF FinishProject
  <1> QED
    BY <1>1, <1>2, <1>3, <1>4, ExitSteps, TerminatedDeserved

---------------------------------------------------------------------------
LEMMA NextCInv == IInv /\ TInv /\ PInv /\ CInv /\ [Next]_vars => CInv'
  <1> SUFFICES ASSUME IInv, TInv, PInv, CInv, [Next]_vars PROVE CInv'
    OBVIOUS
  <1>1. IInv' /\ TInv'
    BY NextIInv, NextTInv
  <1> QED
    BY <1>1, FillStep, UntouchedStep, GenerationStep, WrittenStep, ExitStep, DeathStep DEF CInv

LEMMA CompletionInvariance == Spec => []CInv
  BY Invariance, TasksInvariance, AnalysisInvariance, InitCInv, NextCInv, PTL DEF Spec

---------------------------------------------------------------------------
\* Whatever the schedule of pass 1, code is generated against all functions of
\* the project: fill() copies a registry that no unit changes any more, into a
\* local registry no other task touches.
THEOREM RegistryComplete == Spec => []LocalRegistryComplete
  BY Invariance, AnalysisInvariance, CompletionInvariance, CompleteFromCInv, PTL

\* main links a complete project and files this run wrote, or reports a
\* failure that a unit had.
THEOREM TruthfulExit == Spec => []ExitTruthful
  <1>1. CInv => ExitTruthful
    BY DEF CInv
  <1> QED
    BY <1>1, CompletionInvariance, PTL

\* The process is ended by what the source files contain.  The order in which
\* the threads registered functions decides only in a project whose files
\* disagree on a function: the local registry a file is generated against holds
\* a declaration that a visitor met, whichever registration came last.
THEOREM DeservedDeath == Spec => []DeathDeserved
  <1>1. CInv => DeathDeserved
    BY DEF CInv
  <1> QED
    BY <1>1, CompletionInvariance, PTL

---------------------------------------------------------------------------
(***************************************************************************)
(* The threads, the queue of the pool and *_mutex implement the sequential *)
(* pipeline of CompilePipeline, for any project and any number of workers. *)
(* Every step is a step of the pipeline or leaves what it shows unchanged. *)
(***************************************************************************)

\* Nothing is discovered before main has included the root, and main is done
\* when it has left its exit code.
MainEnds ==
  /\ pc[Main] \in IncludeLabels => included = {}
  /\ pc[Main] = "done" => exit # "running"

\* The pipeline's variables.
Analysed == {units[i] : i \in {i \in DOMAIN units : ~Pending(1, i)}}
Generated == {units[i] : i \in {i \in Spawned : ~Pending(2, i)}}

LEMMA InitMainEnds == Init => MainEnds
  BY ActorAssumption DEF Init, MainEnds, Actors

\* While nothing is included, no worker has a task.
LEMMA NothingIncluded ==
  ASSUME IInv, included = {}
  PROVE  /\ units = << >> /\ queue = << >>
         /\ \A w \in Workers : pc[w] = "idle"
  <1>0. units \in Seq(Paths) /\ queue \in Seq(Task)
    BY DEF IInv, TypeOK
  <1>1. \A i \in DOMAIN units : FALSE
    BY DEF IInv, OneUnitPerPath
  <1>2. \A k \in DOMAIN queue : FALSE
    BY <1>1 DEF IInv, TaskControl
  <1>3. \A w \in Workers : job[w] = NoTask
    BY <1>1 DEF IInv, TaskControl
  <1>4. \A w \in Workers : pc[w] = "idle"
    BY <1>3 DEF IInv, WorkerControl, WorkerInv
  <1>5. units = << >>
    <2>1. DOMAIN units = 1 .. Len(units) /\ Len(units) \in Nat
      BY <1>0
    <2>2. Len(units) = 0
      BY <1>1, <2>1
    <2> QED
      BY <1>0, <2>2
  <1>6. queue = << >>
    <2>1. DOMAIN queue = 1 .. Len(queue) /\ Len(queue) \in Nat
      BY <1>0
    <2>2. Len(queue) = 0
      BY <1>2, <2>1
    <2> QED
      BY <1>0, <2>2
  <1> QED
    BY <1>4, <1>5, <1>6

LEMMA NextMainEnds == IInv /\ MainEnds /\ [Next]_vars => MainEnds'
  <1> SUFFICES ASSUME IInv, MainEnds, [Next]_vars PROVE MainEnds'
    OBVIOUS
  <1>1. pc \in [Actors -> Labels] /\ Main \in Actors
    BY DEF IInv, TypeOK, Actors
  <1>2. CASE UNCHANGED vars \/ Ended
    BY <1>2 DEF vars, Ended, MainEnds
  <1>3. CASE MainStep
    BY <1>1, <1>3
    DEF MainStep, IncludeStep, LockInclude, TestIncluded, InsertInclude, ReturnFromInclude,
        WaitPass1, SpawnPass2, FinishProject, Goto, unitVars, MainEnds, IncludeLabels
  <1>4. ASSUME NEW w \in Workers, WorkerStep(w) PROVE MainEnds'
    <2>1. pc'[Main] = pc[Main] /\ exit = "running"
      BY <1>4, MainUnmoved DEF WorkerStep
    <2>2. CASE included = {}
      <3>1. pc[w] = "idle" /\ queue = << >>
        BY <2>2, NothingIncluded
      <3> QED
        BY <1>4, <3>1
        DEF WorkerStep, TakeTask, ReportError, IncludeStep, LockInclude, TestIncluded,
            InsertInclude, Pass1Step, BeginUnit, RegisterBuiltin, ReadSource, VisitFunction,
            VisitInclude, VisitThrows, EndPass1, AtStatement, Pass2Step, BeginFill, GetSymbol,
            UseSymbol, EndFill, GenerateCode, SaveUnit
    <2> QED
      BY <2>1, <2>2 DEF MainEnds
  <1> QED
    BY <1>2, <1>3, <1>4 DEF Next

---------------------------------------------------------------------------
(* What is pending after a step *)

\* A task is pending that was not: it has just been made.
LEMMA PendingFrom ==
  ASSUME IInv, [Next]_vars, NEW n \in {1, 2}, NEW i, Pending(n, i)'
  PROVE  \/ Pending(n, i)
         \/ n = 1 /\ i = Len(units) + 1 /\ i \notin DOMAIN units
         \/ n = 2 /\ i = pos[Main] + 1 /\ SpawnPass2
  <1> DEFINE t == [pass |-> n, unit |-> i]
  <1>0. /\ queue \in Seq(Task) /\ job \in [Workers -> Task \cup {NoTask}]
        /\ units \in Seq(Paths) /\ t # NoTask
    BY DEF IInv, TypeOK, NoTask
  <1>1. (\E k \in DOMAIN queue' : queue'[k] = t) \/ (\E v \in Workers : job'[v] = t)
    BY DEF Pending, Queued, Running
  <1>2. (\E k \in DOMAIN queue : queue[k] = t) \/ (\E v \in Workers : job[v] = t) => Pending(n, i)
    BY DEF Pending, Queued, Running
  <1>3. t.pass = n /\ t.unit = i
    OBVIOUS
  <1> HIDE DEF t
  <1>4. ASSUME UNCHANGED <<queue, job>> PROVE Pending(n, i)
    BY <1>1, <1>2, <1>4
  <1>5. ASSUME NEW w \in Workers, EndTask(w), UNCHANGED queue PROVE Pending(n, i)
    <2>1. job' = [job EXCEPT ![w] = NoTask]
      BY <1>5 DEF EndTask
    <2> QED
      BY <1>0, <1>1, <1>2, <1>5, <2>1
  <1>6. ASSUME NEW w \in Workers, TakeTask(w) PROVE Pending(n, i)
    <2>1. queue # << >> /\ queue' = Tail(queue) /\ job' = [job EXCEPT ![w] = Head(queue)]
      BY <1>6 DEF TakeTask
    <2>2. /\ Head(queue) = queue[1] /\ 1 \in DOMAIN queue
          /\ \A k \in DOMAIN queue' : queue'[k] = queue[k + 1] /\ k + 1 \in DOMAIN queue
      BY <1>0, <2>1, TailElements
    <2> QED
      BY <1>0, <1>1, <1>2, <2>1, <2>2
  <1>7. ASSUME NEW s \in Task, queue' = Append(queue, s), UNCHANGED job
        PROVE  Pending(n, i) \/ t = s
    <2>1. \A k \in DOMAIN queue' : (k \in DOMAIN queue /\ queue'[k] = queue[k]) \/ queue'[k] = s
      BY <1>0, <1>7
    <2> QED
      BY <1>1, <1>2, <1>7, <2>1
  <1>8. ASSUME NEW a \in Actors, InsertInclude(a)
        PROVE  Pending(n, i) \/ (n = 1 /\ i = Len(units) + 1 /\ i \notin DOMAIN units)
    <2> DEFINE s == [pass |-> 1, unit |-> Len(units) + 1]
    <2>1. s \in Task /\ s.pass = 1 /\ s.unit = Len(units) + 1 /\ s.unit \notin DOMAIN units
      BY <1>0 DEF Task
    <2>2. queue' = Append(queue, s) /\ UNCHANGED job
      BY <1>8 DEF InsertInclude
    <2> HIDE DEF s
    <2> QED
      BY <1>3, <1>7, <2>1, <2>2
  <1>9. CASE SpawnPass2
    <2> DEFINE s == [pass |-> 2, unit |-> pos[Main] + 1]
    <2>1. s \in Task /\ s.pass = 2 /\ s.unit = pos[Main] + 1
      BY DEF Task, IInv, TypeOK, Actors
    <2>2. queue' = Append(queue, s) /\ UNCHANGED job
      BY <1>9 DEF SpawnPass2
    <2> HIDE DEF s
    <2> QED
      BY <1>3, <1>7, <1>9, <2>1, <2>2
  <1>10. CASE MainStep
    BY <1>4, <1>8, <1>9, <1>10
    DEF MainStep, IncludeStep, LockInclude, TestIncluded, WaitPass1, FinishProject, poolVars, Actors
  <1>11. CASE UNCHANGED vars \/ Ended
    BY <1>4, <1>11 DEF vars, Ended
  <1>12. ASSUME NEW w \in Workers, WorkerStep(w)
         PROVE  Pending(n, i) \/ (n = 1 /\ i = Len(units) + 1 /\ i \notin DOMAIN units)
    <2>1. CASE ReportError(w)
      BY <1>5, <2>1 DEF ReportError
    <2>2. CASE IncludeStep(w)
      BY <1>4, <1>8, <2>2 DEF IncludeStep, LockInclude, TestIncluded, poolVars, Actors
    <2>3. CASE Pass1Step(w)
      BY <1>4, <1>5, <2>3
      DEF Pass1Step, BeginUnit, RegisterBuiltin, ReadSource, VisitFunction, VisitInclude,
          VisitThrows, EndPass1, Terminated, poolVars
    <2>4. CASE Pass2Step(w)
      BY <1>4, <1>5, <2>4
      DEF Pass2Step, BeginFill, GetSymbol, UseSymbol, EndFill, GenerateCode, SaveUnit,
          Terminated, poolVars
    <2> QED
      BY <1>6, <1>12, <2>1, <2>2, <2>3, <2>4 DEF WorkerStep
  <1> QED
    BY <1>10, <1>11, <1>12 DEF Next

\* A task that ends is not pending any more, and it is the only one that ends.
LEMMA EndPending ==
  ASSUME IInv, TInv, NEW w \in Workers, EndTask(w), pc[w] # "idle",
         UNCHANGED <<queue, units>>, NEW n \in {1, 2}, NEW i
  PROVE  Pending(n, i)' <=> Pending(n, i) /\ ~(n = job[w].pass /\ i = job[w].unit)
  <1> DEFINE t == [pass |-> n, unit |-> i]
  <1>0. /\ job \in [Workers -> Task \cup {NoTask}] /\ t # NoTask
        /\ job[w] # NoTask /\ job[w] \in Task
    BY DEF IInv, TypeOK, NoTask, WorkerControl, WorkerInv
  <1>1. t = job[w] <=> n = job[w].pass /\ i = job[w].unit
    BY <1>0 DEF Task
  <1>2. job' = [job EXCEPT ![w] = NoTask]
    BY DEF EndTask
  <1>3. /\ Pending(n, i) <=> (\E k \in DOMAIN queue : queue[k] = t) \/ (\E v \in Workers : job[v] = t)
        /\ Pending(n, i)' <=> (\E k \in DOMAIN queue : queue[k] = t) \/ (\E v \in Workers : job'[v] = t)
    BY DEF Pending, Queued, Running
  <1> HIDE DEF t
  <1>4. CASE t = job[w]
    <2>1. ~\E k \in DOMAIN queue : queue[k] = t
      BY <1>0, <1>4 DEF TInv, TasksApart
    <2>2. ~\E v \in Workers : job'[v] = t
      BY <1>0, <1>2, <1>4 DEF TInv, TasksApart
    <2> QED
      BY <1>1, <1>3, <1>4, <2>1, <2>2
  <1>5. CASE t # job[w]
    <2>1. (\E v \in Workers : job'[v] = t) <=> (\E v \in Workers : job[v] = t)
      BY <1>0, <1>2, <1>5
    <2> QED
      BY <1>1, <1>3, <1>5, <2>1
  <1> QED
    BY <1>4, <1>5

---------------------------------------------------------------------------
(* What the pipeline shows of a step *)

LEMMA SpawnedUnits ==
  ASSUME IInv, TInv
  PROVE  Spawned \subseteq DOMAIN units /\ (~InPass2Phase => Spawned = {})
  <1>1. /\ units \in Seq(Paths) /\ DOMAIN units = 1 .. Len(units) /\ Len(units) \in Nat
        /\ pos[Main] \in Nat
    BY DEF IInv, TypeOK, Actors
  <1> QED
    BY <1>1 DEF Spawned, InPass2Phase, TInv, MainPlace

LEMMA WorkerPhase ==
  ASSUME IInv, MainEnds, NEW w \in Workers, WorkerStep(w)
  PROVE  /\ exit = "running"
         /\ Phase = IF InPass2Phase THEN "generation" ELSE "analysis"
         /\ Spawned' = Spawned
         /\ exit' = "running" => Phase' = Phase
  <1>1. exit = "running" /\ pc[Main] # "done"
    BY DEF WorkerStep, MainEnds
  <1> QED
    BY <1>1, MainUnmoved DEF Phase, Spawned, InPass2Phase

\* A worker that does not end a task.
LEMMA WorkerView ==
  ASSUME IInv, TInv, PInv, MainEnds, NEW w \in Workers, WorkerStep(w), [Next]_vars,
         ~(EndTask(w) /\ pc[w] # "idle")
  PROVE  Analysed' = Analysed /\ Generated' = Generated
  <1>1. DOMAIN units \subseteq DOMAIN units' /\ \A i \in DOMAIN units : units'[i] = units[i]
    BY NextGrows DEF Grows
  <1>2. ~SpawnPass2
    <2>1. pos \in [Actors -> Nat] /\ Main \in Actors /\ pos[Main] \in Nat
      BY DEF IInv, TypeOK, Actors
    <2>2. SpawnPass2 => pos'[Main] = pos[Main] + 1
      BY <2>1 DEF SpawnPass2
    <2> QED
      BY <2>1, <2>2, MainUnmoved
  <1>3. \A i \in DOMAIN units : Pending(1, i)' <=> Pending(1, i)
    <2> SUFFICES ASSUME NEW i \in DOMAIN units PROVE Pending(1, i)' <=> Pending(1, i)
      OBVIOUS
    <2>1. Pending(1, i) => Pending(1, i)'
      BY PendingStep
    <2>2. Pending(1, i)' => Pending(1, i)
      BY PendingFrom
    <2> QED
      BY <2>1, <2>2
  <1>4. \A i \in DOMAIN units : Pending(2, i)' <=> Pending(2, i)
    BY <1>2, PendingStep, PendingFrom
  <1>5. \A i \in DOMAIN units' : i \in DOMAIN units \/ Pending(1, i)'
    BY NewPending
  <1>6. Analysed' = Analysed
    BY <1>1, <1>3, <1>5 DEF Analysed
  <1>7. Generated' = Generated
    BY <1>1, <1>4, SpawnedUnits, WorkerPhase DEF Generated
  <1> QED
    BY <1>6, <1>7

\* A worker that ends a task.
LEMMA EndView ==
  ASSUME IInv, TInv, PInv, MainEnds, NEW w \in Workers, WorkerStep(w), [Next]_vars,
         EndTask(w), pc[w] # "idle"
  PROVE  /\ job[w].pass = 1 => /\ Analysed' = Analysed \cup {PathOf(w)}
                               /\ Generated' = Generated
                               /\ PathOf(w) \in included \ Analysed
                               /\ ~InPass2Phase
         /\ job[w].pass = 2 => /\ Analysed' = Analysed
                               /\ Generated' = Generated \cup {PathOf(w)}
                               /\ PathOf(w) \in Analysed \ Generated
                               /\ InPass2Phase
         /\ UNCHANGED <<included, units>>
  <1>1. UNCHANGED <<queue, included, units>>
    BY TaskEnds
    DEF ReportError, EndPass1, BeginFill, SaveUnit, unitVars
  <1>2. PICK u \in DOMAIN units : u = job[w].unit /\ PathOf(w) = units[u] /\ PathOf(w) \in included
    BY UnitFacts
  <1>3. job[w] \in Task /\ job[w] # NoTask
    BY DEF IInv, TypeOK, WorkerControl, WorkerInv
  <1>4. \A i : Pending(1, i)' <=> Pending(1, i) /\ ~(job[w].pass = 1 /\ i = u)
    BY <1>1, <1>2, EndPending
  <1>5. \A i : Pending(2, i)' <=> Pending(2, i) /\ ~(job[w].pass = 2 /\ i = u)
    BY <1>1, <1>2, EndPending
  <1>6. job[w] = [pass |-> job[w].pass, unit |-> u]
    BY <1>2, <1>3 DEF Task
  <1>7. \A i \in DOMAIN units : units[i] = units[u] => i = u
    BY DEF IInv, OneUnitPerPath
  <1>8. Spawned' = Spawned /\ Spawned \subseteq DOMAIN units
    BY WorkerPhase, SpawnedUnits
  <1>9. CASE job[w].pass = 1
    <2>1. ~InPass2Phase
      BY <1>3, <1>9 DEF IInv, TaskControl
    <2>2. Pending(1, u)
      BY <1>6, <1>9 DEF Pending, Running
    <2>3. Analysed' = Analysed \cup {units[u]} /\ units[u] \notin Analysed
      BY <1>1, <1>4, <1>7, <1>9, <2>2 DEF Analysed
    <2>4. Generated' = Generated
      BY <1>1, <1>5, <1>8, <1>9 DEF Generated
    <2> QED
      BY <1>1, <1>2, <1>9, <2>1, <2>3, <2>4
  <1>10. CASE job[w].pass = 2
    <2>1. InPass2Phase
      BY <1>3, <1>10 DEF IInv, TaskControl
    <2>2. Pending(2, u)
      BY <1>6, <1>10 DEF Pending, Running
    <2>3. u \in Spawned
      <3>1. u <= pos[Main] /\ pos[Main] \in Nat /\ u \in Nat /\ u # 0
        BY <1>2, <1>3, <2>1 DEF TInv, SpawnedInOrder, IInv, TypeOK, Actors, Task
      <3> QED
        BY <2>1, <3>1 DEF Spawned, InPass2Phase
    <2>4. Generated' = Generated \cup {units[u]} /\ units[u] \notin Generated
      BY <1>1, <1>5, <1>7, <1>8, <1>10, <2>2, <2>3 DEF Generated
    <2>5. Analysed' = Analysed
      BY <1>1, <1>4, <1>10 DEF Analysed
    <2>6. ~Pending(1, u)
      <3>1. ~Queued(1, u)
        BY <2>1 DEF Queued, IInv, TaskControl
      <3>2. ~Running(1, u)
        <4> SUFFICES ASSUME NEW v \in Workers, job[v] = [pass |-> 1, unit |-> u] PROVE FALSE
          BY DEF Running
        <4>1. job[v].pass = 1 /\ job[v] # NoTask
          BY DEF NoTask
        <4> QED
          BY <2>1, <4>1 DEF IInv, TaskControl
      <3> QED
        BY <3>1, <3>2 DEF Pending
    <2>7. units[u] \in Analysed
      BY <2>6 DEF Analysed
    <2> QED
      BY <1>1, <1>2, <1>10, <2>1, <2>4, <2>5, <2>7
  <1> QED
    BY <1>1, <1>3, <1>9, <1>10 DEF Task

---------------------------------------------------------------------------
(* The steps of the workers *)

Moves == Pipeline!Next \/ UNCHANGED Pipeline!vars

\* The pipeline's variables under the mapping.
LEMMA ViewKept ==
  ASSUME UNCHANGED <<root, included, hasErrors>>, Phase' = Phase,
         Analysed' = Analysed, Generated' = Generated
  PROVE  Moves
  BY DEF Moves, Pipeline!vars, Analysed, Generated

LEMMA AnalyseMoves ==
  ASSUME IInv, TInv, PInv, MainEnds, NEW w \in Workers, WorkerStep(w), [Next]_vars,
         EndTask(w), pc[w] # "idle", job[w].pass = 1, UNCHANGED <<root, exit>>,
         PathOf(w) \notin AnalysisFails => IncludesOf[PathOf(w)] \subseteq included,
         hasErrors' = (hasErrors \/ PathOf(w) \in AnalysisFails)
  PROVE  Moves
  <1>1. PICK p \in Paths : p = PathOf(w)
    BY UnitFacts
  <1>2. Phase = "analysis" /\ Phase' = "analysis"
    BY WorkerPhase, EndView
  <1>3. /\ Analysed' = Analysed \cup {PathOf(w)} /\ Generated' = Generated
        /\ PathOf(w) \in included \ Analysed /\ UNCHANGED included
    BY EndView
  <1>4. Pipeline!Analyse(p)
    BY <1>1, <1>2, <1>3 DEF Pipeline!Analyse, Analysed, Generated
  <1> QED
    BY <1>1, <1>4 DEF Moves, Pipeline!Next

LEMMA GenerateMoves ==
  ASSUME IInv, TInv, PInv, MainEnds, NEW w \in Workers, WorkerStep(w), [Next]_vars,
         EndTask(w), pc[w] # "idle", job[w].pass = 2, UNCHANGED <<root, exit>>,
         hasErrors' = (hasErrors \/ PathOf(w) \in GenerationFails)
  PROVE  Moves
  <1>1. PICK p \in Paths : p = PathOf(w)
    BY UnitFacts
  <1>2. Phase = "generation" /\ Phase' = "generation"
    BY WorkerPhase, EndView
  <1>3. /\ Analysed' = Analysed /\ Generated' = Generated \cup {PathOf(w)}
        /\ PathOf(w) \in Analysed \ Generated /\ UNCHANGED included
    BY EndView
  <1>4. Pipeline!Generate(p)
    BY <1>1, <1>2, <1>3 DEF Pipeline!Generate, Analysed, Generated
  <1> QED
    BY <1>1, <1>4 DEF Moves, Pipeline!Next

LEMMA DiscoverMoves ==
  ASSUME IInv, TInv, PInv, MainEnds, NEW w \in Workers, WorkerStep(w), [Next]_vars,
         InsertInclude(w)
  PROVE  Moves
  <1>1. pc[w] = "insert" /\ w # Main
    BY ActorAssumption DEF InsertInclude
  <1>2. PICK p \in Paths, k \in Nat, i \in DOMAIN units :
          p = PathOf(w) /\ k = pos[w] /\ i = job[w].unit /\ p = units[i] /\ p \in included
    BY <1>1, UnitFacts
  <1>3. k \in DOMAIN Decls[p] /\ Decls[p][k].kind = "include"
    BY <1>1, <1>2 DEF IInv, WorkerControl, WorkerInv, IncludeLabels, Statement
  <1>4. PICK q \in Paths : q = Decls[p][k].path
    BY <1>3, StatementNames
  <1>5. q \in IncludesOf[p]
    <2>1. ReadOutcome[p] = "ok" /\ Reached(p, k)
      BY <1>1, <1>2 DEF PInv, AnalysisControl, AnalysisProgress, TreeRead, IncludeLabels
    <2>2. DOMAIN Decls[p] = 1 .. Len(Decls[p]) /\ Len(Decls[p]) \in Nat
      BY ProjectAssumption
    <2>3. \A j \in 1 .. k : j \in DOMAIN Decls[p] /\ (j < k \/ j = k)
      BY <1>3, <2>2
    <2>4. \A j \in 1 .. k : Decls[p][j].kind \notin {"error", "fatal"}
      BY <1>3, <2>1, <2>3 DEF Reached
    <2>5. Decls[p][k] \in Visited(p)
      BY <1>3, <2>1, <2>4 DEF Visited
    <2> QED
      BY <1>3, <1>4, <2>5 DEF IncludesOf
  <1>6. job[w].pass = 1 /\ job[w] # NoTask /\ job[w] \in Task
    BY <1>1 DEF IInv, WorkerControl, WorkerInv, Pass1Labels, IncludeLabels, TypeOK
  <1>7. p \notin Analysed
    <2>1. job[w] = [pass |-> 1, unit |-> i]
      BY <1>2, <1>6 DEF Task
    <2>2. Pending(1, i)
      BY <2>1 DEF Pending, Running
    <2>3. \A j \in DOMAIN units : units[j] = units[i] => j = i
      BY DEF IInv, OneUnitPerPath
    <2> QED
      BY <1>2, <2>2, <2>3 DEF Analysed
  <1>8. /\ included' = included \cup {q} /\ UNCHANGED <<root, hasErrors, exit>>
        /\ pc' = [pc EXCEPT ![w] = "visit"]
    BY <1>1, <1>2, <1>4 DEF InsertInclude, ReturnFromInclude, Goto, IncludeTarget, Statement
  <1>9. Phase = "analysis" /\ Phase' = "analysis"
    <2>1. ~InPass2Phase
      BY <1>6 DEF IInv, TaskControl
    <2> QED
      BY <1>8, <2>1, WorkerPhase
  <1>10. Analysed' = Analysed /\ Generated' = Generated
    <2>1. pc \in [Actors -> Labels] /\ w \in Actors
      BY DEF IInv, TypeOK, Actors
    <2>2. ~EndTask(w)
      BY <1>8, <2>1 DEF EndTask, Goto
    <2> QED
      BY <2>2, WorkerView
  <1>11. Pipeline!Discover(p, q)
    BY <1>2, <1>5, <1>7, <1>8, <1>9, <1>10 DEF Pipeline!Discover, Analysed, Generated
  <1> QED
    BY <1>11 DEF Moves, Pipeline!Next

LEMMA TerminateMoves ==
  ASSUME IInv, TInv, PInv, MainEnds, NEW w \in Workers, WorkerStep(w), [Next]_vars,
         Terminated(w), pc[w] # "idle"
  PROVE  Moves
  <1>1. included # {}
    BY UnitFacts
  <1>2. /\ UNCHANGED <<root, included, units, hasErrors, queue, job, pc>> /\ exit' = "terminated"
    BY DEF Terminated, unitVars, poolVars
  <1>3. Phase \in {"analysis", "generation"} /\ Phase' = "terminated"
    BY <1>2, WorkerPhase DEF Phase
  <1>4. Analysed' = Analysed /\ Generated' = Generated
    <2>1. \A n, i : Pending(n, i)' <=> Pending(n, i)
      BY <1>2 DEF Pending, Queued, Running
    <2>2. Spawned' = Spawned
      BY <1>2 DEF Spawned, Terminated
    <2> QED
      BY <1>2, <2>1, <2>2 DEF Analysed, Generated
  <1>5. Pipeline!Terminate
    BY <1>1, <1>2, <1>3, <1>4 DEF Pipeline!Terminate, Analysed, Generated
  <1> QED
    BY <1>5 DEF Moves, Pipeline!Next

LEMMA WorkerMoves ==
  ASSUME IInv, TInv, PInv, CInv, MainEnds, NEW w \in Workers, WorkerStep(w), [Next]_vars
  PROVE  Moves
  <1>0. pc \in [Actors -> Labels] /\ w \in Actors /\ UNCHANGED root
    <2>1. UNCHANGED root
      BY DEF WorkerStep, TakeTask, ReportError, IncludeStep, LockInclude, TestIncluded,
             InsertInclude, Pass1Step, BeginUnit, RegisterBuiltin, ReadSource, VisitFunction,
             VisitInclude, VisitThrows, EndPass1, Terminated, Pass2Step, BeginFill, GetSymbol,
             UseSymbol, EndFill, GenerateCode, SaveUnit, unitVars
    <2> QED
      BY <2>1 DEF IInv, TypeOK, Actors
  <1>1. CASE EndTask(w) /\ pc[w] # "idle"
    <2>0. job[w].pass \in {1, 2} /\ UNCHANGED exit
      <3>1. job[w] \in Task
        BY <1>1, UnitFacts
      <3> QED
        BY <1>1, <3>1, TaskEnds DEF Task, ReportError, EndPass1, BeginFill, SaveUnit
    <2>1. PICK p \in Paths, i \in DOMAIN units : p = PathOf(w) /\ i = job[w].unit /\ p = units[i]
      BY <1>1, UnitFacts
    <2>2. CASE ReportError(w)
      <3>1. hasErrors' = TRUE /\ pc[w] = "report"
        BY <2>2 DEF ReportError
      <3>2. \/ job[w].pass = 1 /\ p \in AnalysisFails
            \/ job[w].pass = 2 /\ p \in GenerationFails
        BY <2>1, <3>1 DEF PInv, AnalysisControl, AnalysisProgress
      <3> QED
        BY <1>0, <1>1, <2>0, <2>1, <3>1, <3>2, AnalyseMoves, GenerateMoves
    <2>3. CASE EndPass1(w)
      <3>1. Sound(i) /\ UNCHANGED hasErrors
        BY <2>1, <2>3, EndReached DEF EndPass1
      <3>2. job[w].pass = 1
        BY <2>3 DEF EndPass1, IInv, WorkerControl, WorkerInv, Pass1Labels
      <3> QED
        BY <1>0, <1>1, <2>0, <2>1, <3>1, <3>2, AnalyseMoves DEF Sound, IInv, TypeOK
    <2>4. CASE BeginFill(w) \/ SaveUnit(w)
      <3>1. job[w].pass = 2 /\ UNCHANGED hasErrors
        BY <2>4 DEF BeginFill, SaveUnit, IInv, WorkerControl, WorkerInv, Pass2Labels
      <3>2. p \notin GenerationFails
        <4>1. CASE BeginFill(w)
          <5>1. i \notin tree
            <6>1. pc'[w] = "idle"
              BY <1>0, <1>1 DEF EndTask, Goto
            <6> QED
              BY <1>0, <2>1, <4>1, <6>1 DEF BeginFill, Goto
          <5>2. InPass2Phase
            BY <1>1, <3>1, EndView
          <5> QED
            BY <2>1, <5>1, <5>2, AllAnalysed DEF AnalysisOver, GenerationFails
        <4>2. CASE SaveUnit(w)
          BY <2>1, <4>2 DEF SaveUnit, CInv, FillControl, FillProgress, GenerationFails
        <4> QED
          BY <2>4, <4>1, <4>2
      <3> QED
        BY <1>0, <1>1, <2>0, <2>1, <3>1, <3>2, GenerateMoves DEF IInv, TypeOK
    <2> QED
      BY <1>1, <2>2, <2>3, <2>4, TaskEnds
  <1>2. CASE ~(EndTask(w) /\ pc[w] # "idle")
    <2>1. Analysed' = Analysed /\ Generated' = Generated
      BY <1>2, WorkerView
    <2>2. ASSUME UNCHANGED <<included, hasErrors, exit>> PROVE Moves
      <3>1. Phase' = Phase
        BY <2>2, WorkerPhase
      <3> QED
        BY <1>0, <2>1, <2>2, <3>1, ViewKept
    <2>3. CASE InsertInclude(w)
      BY <2>3, DiscoverMoves
    <2>4. ASSUME Terminated(w), pc[w] # "idle" PROVE Moves
      BY <2>4, TerminateMoves DEF Terminated
    <2>5. CASE TakeTask(w) \/ LockInclude(w) \/ TestIncluded(w)
      BY <2>2, <2>5 DEF TakeTask, LockInclude, TestIncluded, unitVars
    <2>6. CASE ReportError(w)
      BY <1>2, <2>6 DEF ReportError
    <2>7. CASE Pass1Step(w)
      BY <1>2, <2>2, <2>4, <2>7
      DEF Pass1Step, BeginUnit, RegisterBuiltin, ReadSource, VisitFunction, VisitInclude,
          VisitThrows, EndPass1, AtStatement, unitVars
    <2>8. CASE Pass2Step(w)
      BY <1>2, <2>2, <2>4, <2>8
      DEF Pass2Step, BeginFill, GetSymbol, UseSymbol, EndFill, GenerateCode, SaveUnit, unitVars
    <2> QED
      BY <2>3, <2>5, <2>6, <2>7, <2>8 DEF WorkerStep, IncludeStep
  <1> QED
    BY <1>1, <1>2

---------------------------------------------------------------------------
(* The steps of main *)

LEMMA StartMoves ==
  ASSUME IInv, TInv, PInv, MainEnds, IncludeStep(Main), exit = "running", [Next]_vars
  PROVE  Moves
  <1>1. /\ pc \in [Actors -> Labels] /\ Main \in Actors /\ pc[Main] \in IncludeLabels
        /\ ~InPass2Phase /\ pc'[Main] \in IncludeLabels \cup {"wait1"}
    BY DEF IInv, TypeOK, Actors, IncludeStep, LockInclude, TestIncluded, InsertInclude,
           ReturnFromInclude, Goto, IncludeLabels, InPass2Phase
  <1>2. included = {} /\ units = << >>
    BY <1>1, NothingIncluded DEF MainEnds
  <1>3. Phase = "analysis" /\ Phase' = "analysis" /\ UNCHANGED <<root, hasErrors>>
    BY <1>1 DEF IncludeStep, LockInclude, TestIncluded, InsertInclude, Phase, IncludeLabels, unitVars
  <1>4. Analysed = {} /\ Analysed' = {}
    <2>1. \A i \in DOMAIN units' : Pending(1, i)'
      BY <1>2, NewPending
    <2> QED
      BY <1>2, <2>1 DEF Analysed
  <1>5. Generated = {} /\ Generated' = {}
    BY <1>1 DEF Generated, Spawned, InPass2Phase, IncludeLabels
  <1>6. CASE LockInclude(Main) \/ TestIncluded(Main)
    BY <1>3, <1>4, <1>5, <1>6, ViewKept DEF LockInclude, TestIncluded, unitVars
  <1>7. CASE InsertInclude(Main)
    <2>1. included' = {root}
      BY <1>2, <1>7 DEF InsertInclude, IncludeTarget
    <2>2. Pipeline!Start
      BY <1>2, <1>3, <1>4, <1>5, <2>1 DEF Pipeline!Start, Analysed, Generated
    <2> QED
      BY <2>2 DEF Moves, Pipeline!Next
  <1> QED
    BY <1>6, <1>7 DEF IncludeStep

\* When the pool is idle, every unit has its pass 1 behind it.
LEMMA IdleAnalysed ==
  ASSUME IInv, PoolIdle
  PROVE  /\ Analysed = included
         /\ \A n \in {1, 2} : \A i : ~Pending(n, i)
  <1>1. \A n \in {1, 2} : \A i : ~Pending(n, i)
    BY DEF PoolIdle, Pending, Queued, Running, NoTask
  <1> QED
    BY <1>1 DEF Analysed, IInv, OneUnitPerPath

LEMMA AdvanceMoves ==
  ASSUME IInv, TInv, PInv, MainEnds, WaitPass1, exit = "running"
  PROVE  Moves
  <1>1. /\ pc[Main] = "wait1" /\ PoolIdle /\ pc'[Main] = "spawn" /\ pos'[Main] = 0
        /\ UNCHANGED <<root, included, units, hasErrors, queue, job, exit>>
    BY DEF WaitPass1, Goto, IInv, TypeOK, Actors, TInv, MainPlace, InPass2Phase, unitVars, poolVars
  <1>2. Phase = "analysis" /\ Phase' = "generation"
    BY <1>1 DEF Phase
  <1>3. root \in included /\ Analysed = included /\ Analysed' = Analysed
    <2>1. \A i : Pending(1, i)' <=> Pending(1, i)
      BY <1>1 DEF Pending, Queued, Running
    <2>2. Analysed' = Analysed
      BY <1>1, <2>1 DEF Analysed
    <2> QED
      BY <1>1, <2>2, IdleAnalysed DEF PInv, Origins
  <1>4. Generated = {} /\ Generated' = {}
    BY <1>1 DEF Generated, Spawned
  <1>5. Pipeline!Advance
    BY <1>1, <1>2, <1>3, <1>4 DEF Pipeline!Advance, Analysed, Generated
  <1> QED
    BY <1>5 DEF Moves, Pipeline!Next

LEMMA SpawnMoves ==
  ASSUME IInv, TInv, PInv, MainEnds, SpawnPass2, MainStep, [Next]_vars
  PROVE  Moves
  <1>1. /\ pc[Main] = "spawn" /\ pos'[Main] = pos[Main] + 1 /\ pos[Main] \in Nat
        /\ queue' = Append(queue, [pass |-> 2, unit |-> pos[Main] + 1])
        /\ UNCHANGED <<root, included, units, hasErrors, job, pc, exit>>
    BY DEF SpawnPass2, IInv, TypeOK, Actors, unitVars
  <1>0. PICK m \in Nat : m = pos[Main] + 1
    BY <1>1
  <1>2. \A n \in {1, 2} : \A i : Pending(n, i) => Pending(n, i)'
    BY PendingMain
  <1>3. Pending(2, m)'
    <2> DEFINE t == [pass |-> 2, unit |-> m]
    <2>1. t \in Task /\ queue \in Seq(Task)
      BY <1>0, <1>1 DEF Task, IInv, TypeOK
    <2>2. queue' = Append(queue, t)
      BY <1>0, <1>1
    <2> HIDE DEF t
    <2>3. Len(queue) + 1 \in DOMAIN queue' /\ queue'[Len(queue) + 1] = t
      BY <2>1, <2>2
    <2> QED
      BY <2>3 DEF Pending, Queued, t
  <1>4. \A i \in DOMAIN units : Pending(1, i)' => Pending(1, i)
    <2> SUFFICES ASSUME NEW i \in DOMAIN units, Pending(1, i)' PROVE Pending(1, i)
      OBVIOUS
    <2> QED
      BY PendingFrom
  <1>5. \A i : Pending(2, i)' => Pending(2, i) \/ i = m
    <2> SUFFICES ASSUME NEW i, Pending(2, i)' PROVE Pending(2, i) \/ i = m
      OBVIOUS
    <2> QED
      BY <1>0, PendingFrom
  <1>6. Analysed' = Analysed
    BY <1>1, <1>2, <1>4 DEF Analysed
  <1>7. Generated' = Generated
    <2>1. Spawned' = Spawned \cup {m} /\ m \notin Spawned
      BY <1>0, <1>1 DEF Spawned
    <2>2. {i \in Spawned' : ~Pending(2, i)'} = {i \in Spawned : ~Pending(2, i)}
      BY <1>2, <1>3, <1>5, <2>1
    <2> QED
      BY <1>1, <2>2 DEF Generated
  <1>8. Phase' = Phase
    BY <1>1 DEF Phase
  <1> QED
    BY <1>1, <1>6, <1>7, <1>8, ViewKept

LEMMA FinishMoves ==
  ASSUME IInv, TInv, PInv, MainEnds, FinishProject, exit = "running"
  PROVE  Moves
  <1>1. /\ pc[Main] = "spawn" /\ pos[Main] = Len(units) /\ PoolIdle /\ pc'[Main] = "done"
        /\ exit' = IF hasErrors THEN "failed" ELSE "linked"
        /\ UNCHANGED <<root, included, units, hasErrors, queue, job, pos>>
    BY DEF FinishProject, Goto, IInv, TypeOK, Actors, unitVars, poolVars
  <1>2. Phase = "generation" /\ Phase' = IF hasErrors THEN "failed" ELSE "linked"
    BY <1>1 DEF Phase
  <1>3. Spawned = DOMAIN units /\ Spawned' = Spawned
    BY <1>1 DEF Spawned, IInv, TypeOK
  <1>4. Analysed = included /\ Generated = included
    <2>1. \A i : ~Pending(2, i)
      BY <1>1, IdleAnalysed
    <2> QED
      BY <1>1, <1>3, <2>1, IdleAnalysed DEF Generated, IInv, OneUnitPerPath
  <1>5. Analysed' = Analysed /\ Generated' = Generated
    BY <1>1, <1>3 DEF Analysed, Generated, Pending, Queued, Running
  <1>6. Pipeline!Finish
    BY <1>1, <1>2, <1>4, <1>5 DEF Pipeline!Finish, Analysed, Generated
  <1> QED
    BY <1>6 DEF Moves, Pipeline!Next

---------------------------------------------------------------------------
LEMMA StepMoves == IInv /\ TInv /\ PInv /\ CInv /\ MainEnds /\ [Next]_vars => Moves
  <1> SUFFICES ASSUME IInv, TInv, PInv, CInv, MainEnds, [Next]_vars PROVE Moves
    OBVIOUS
  <1>1. CASE UNCHANGED vars \/ Ended
    <2>1. UNCHANGED vars
      BY <1>1 DEF Ended
    <2>2. Analysed' = Analysed /\ Generated' = Generated /\ Phase' = Phase
      BY <2>1 DEF vars, Analysed, Generated, Pending, Queued, Running, Spawned, Phase
    <2> QED
      BY <2>1, <2>2, ViewKept DEF vars
  <1>2. CASE MainStep
    BY <1>2, StartMoves, AdvanceMoves, SpawnMoves, FinishMoves DEF MainStep
  <1>3. ASSUME NEW w \in Workers, WorkerStep(w) PROVE Moves
    BY <1>3, WorkerMoves
  <1> QED
    BY <1>1, <1>2, <1>3 DEF Next

LEMMA InitMoves == Init => Pipeline!Init
  <1> SUFFICES ASSUME Init PROVE Pipeline!Init
    OBVIOUS
  <1>1. pc[Main] = "lock" /\ DOMAIN units = {}
    BY ActorAssumption DEF Init, Actors
  <1>2. Phase = "analysis" /\ Analysed = {} /\ Generated = {}
    BY <1>1 DEF Init, Phase, Analysed, Generated, Spawned
  <1> QED
    BY <1>2 DEF Init, Pipeline!Init, Analysed, Generated

\* The safety part of ImplementsPipeline: whatever the threads do, an observer
\* of the discovered, analysed and generated paths, the error flag and the exit
\* sees a run of the sequential pipeline.
THEOREM PipelineSafety == Spec => Pipeline!Init /\ [][Pipeline!Next]_(Pipeline!vars)
  <1>1. Spec => []MainEnds
    BY Invariance, InitMainEnds, NextMainEnds, PTL DEF Spec
  <1>2. IInv /\ TInv /\ PInv /\ CInv /\ MainEnds /\ [Next]_vars => [Pipeline!Next]_(Pipeline!vars)
    BY StepMoves DEF Moves
  <1> QED
    BY <1>1, <1>2, Invariance, TasksInvariance, AnalysisInvariance, CompletionInvariance,
       InitMoves, PTL DEF Spec

---------------------------------------------------------------------------
(* Spellings *)

Plain(p) == p = Path(TRUE, p.parts) /\ WithoutDots(p.parts)

\* The root and the paths marked as included are spelled without dots.
PlainPaths == Plain(root) /\ \A p \in included : Plain(p)

\* What the components of such a spelling are.
LEMMA PlainFacts ==
  ASSUME NEW s, WithoutDots(s)
  PROVE  /\ IsSequence(s) /\ Len(s) \in Nat \ {0} /\ DOMAIN s = 1 .. Len(s)
         /\ \A k \in DOMAIN s : s[k] \notin {Up, Here}
  <1> DEFINE S == ToSet(s) \ {Up, Here}
  <1>1. s \in Seq(S) /\ s # <<>>
    BY DEF WithoutDots
  <1> HIDE DEF S
  <1>2. IsSequence(s) /\ \A k \in DOMAIN s : s[k] \in S
    BY <1>1, IsSequenceOf
  <1>3. Len(s) \in Nat \ {0}
    BY <1>1, <1>2, TailFacts
  <1> QED
    BY <1>2, <1>3, IsSequenceFacts DEF S

\* How to show that a spelling is one.
LEMMA WithoutDotsOf ==
  ASSUME NEW s, IsSequence(s), Len(s) # 0, \A k \in DOMAIN s : s[k] \notin {Up, Here}
  PROVE  WithoutDots(s)
  <1> DEFINE S == ToSet(s) \ {Up, Here}
  <1>1. DOMAIN s = 1 .. Len(s) /\ Len(s) \in Nat /\ s \in Seq(ToSet(s))
    BY IsSequenceFacts
  <1>2. \A k \in 1 .. Len(s) : s[k] \in S
    BY <1>1 DEF ToSet
  <1>3. s = [k \in 1 .. Len(s) |-> s[k]]
    BY <1>1
  <1> HIDE DEF S
  <1>4. s \in Seq(S)
    BY <1>1, <1>2, <1>3, SeqDef
  <1>5. s # <<>>
    BY <1>1, EmptySeq
  <1> QED
    BY <1>4, <1>5 DEF WithoutDots, S

\* A prefix is the next shorter one and one more element.
LEMMA PrefixAppended ==
  ASSUME NEW s, IsSequence(s), NEW n \in 1 .. Len(s)
  PROVE  SubSeq(s, 1, n) = Append(SubSeq(s, 1, n - 1), s[n])
  <1> DEFINE r == SubSeq(s, 1, n)
             q == SubSeq(s, 1, n - 1)
             t == Append(q, s[n])
  <1>0. Len(s) \in Nat
    BY IsSequenceFacts
  <1>1. IsSequence(r) /\ Len(r) = n /\ \A i \in 1 .. n : r[i] = s[i]
    <2>1. 1 \in 1 .. Len(s) + 1 /\ n \in 0 .. Len(s) /\ 1 <= n
      BY <1>0
    <2>2. /\ IsSequence(r) /\ Len(r) = n - 1 + 1
          /\ \A i \in 1 .. n - 1 + 1 : r[i] = s[1 + i - 1]
      BY <2>1, SubSeqFacts
    <2> QED
      BY <1>0, <2>2
  <1>2. IsSequence(q) /\ Len(q) = n - 1 /\ \A i \in 1 .. n - 1 : q[i] = s[i]
    <2>1. 1 \in 1 .. Len(s) + 1 /\ n - 1 \in 0 .. Len(s)
      BY <1>0
    <2>2. /\ IsSequence(q) /\ Len(q) = IF 1 <= n - 1 THEN (n - 1) - 1 + 1 ELSE 0
          /\ \A i \in 1 .. (n - 1) - 1 + 1 : q[i] = s[1 + i - 1]
      BY <2>1, SubSeqFacts
    <2> QED
      BY <1>0, <2>2
  <1> HIDE DEF r, q
  <1>3. /\ IsSequence(t) /\ Len(t) = n
        /\ \A i \in 1 .. n - 1 : t[i] = q[i]
        /\ t[n] = s[n]
    BY <1>0, <1>2, AppendFacts
  <1> HIDE DEF t
  <1>4. DOMAIN r = 1 .. n /\ DOMAIN t = 1 .. n
    BY <1>1, <1>3, IsSequenceFacts
  <1>5. \A i \in 1 .. n : r[i] = t[i]
    BY <1>0, <1>1, <1>2, <1>3
  <1>6. r = [i \in 1 .. n |-> r[i]] /\ t = [i \in 1 .. n |-> t[i]]
    BY <1>1, <1>3, <1>4, IsSequenceFacts
  <1>7. r = t
    BY <1>5, <1>6
  <1> QED
    BY <1>7 DEF r, q, t

\* The system opens what an absolute path without dots says.
LEMMA FileAtPlain ==
  ASSUME NEW p, Plain(p)
  PROVE  FileAt(p) = p.parts
  <1> DEFINE s == p.parts
             n == Len(s)
             Walk(f) == [k \in 0 .. n |-> IF k = 0 THEN <<>> ELSE Follow(f[k - 1], s[k])]
             g == [k \in 0 .. n |-> SubSeq(s, 1, k)]
  <1>1. Absolute(p).parts = s
    <2>1. p = Path(TRUE, s)
      BY DEF Plain
    <2> HIDE DEF s
    <2>2. p.absolute = TRUE /\ p.parts = s
      BY <2>1 DEF Path
    <2> QED
      BY <2>2 DEF Absolute
  <1>2. /\ IsSequence(s) /\ n \in Nat \ {0} /\ DOMAIN s = 1 .. n
        /\ \A k \in DOMAIN s : s[k] \notin {Up, Here}
    BY PlainFacts DEF Plain
  <1>3. FileAt(p) = (CHOOSE f : f = Walk(f))[n]
    BY <1>1 DEF FileAt
  <1> HIDE DEF s, n
  <1>4. ASSUME NEW k \in 0 .. n PROVE g[k] = IF k = 0 THEN <<>> ELSE Follow(g[k - 1], s[k])
    <2>1. CASE k = 0
      <3>1. g[k] = SubSeq(s, 1, 0)
        BY <2>1
      <3>2. 1 \in 1 .. Len(s) + 1 /\ 0 \in 0 .. Len(s)
        BY <1>2 DEF n
      <3>3. IsSequence(SubSeq(s, 1, 0)) /\ Len(SubSeq(s, 1, 0)) = 0
        BY <1>2, <3>2, SubSeqFacts
      <3>4. SubSeq(s, 1, 0) = <<>>
        BY <3>3, EmptySeq DEF IsSequence
      <3> QED
        BY <2>1, <3>1, <3>4
    <2>2. CASE k # 0
      <3>1. k \in 1 .. n /\ k - 1 \in 0 .. n
        BY <1>2, <2>2
      <3>2. g[k] = SubSeq(s, 1, k) /\ g[k - 1] = SubSeq(s, 1, k - 1)
        BY <3>1
      <3>3. SubSeq(s, 1, k) = Append(SubSeq(s, 1, k - 1), s[k])
        BY <1>2, <3>1, PrefixAppended DEF n
      <3>4. s[k] # Up /\ s[k] # Here
        BY <1>2, <3>1
      <3>5. \A at : Follow(at, s[k]) = Append(at, s[k])
        BY <3>4 DEF Follow
      <3> HIDE DEF g
      <3> QED
        BY <2>2, <3>2, <3>3, <3>5
    <2> QED
      BY <2>1, <2>2
  <1>5. g = Walk(g)
    <2>1. g = [k \in 0 .. n |-> g[k]]
      OBVIOUS
    <2> HIDE DEF g
    <2> QED
      BY <1>4, <2>1
  <1> DEFINE f == CHOOSE f : f = Walk(f)
  <1>6. f = Walk(f)
    <2> HIDE DEF g
    <2> QED
      BY <1>5, Zenon
  <1> HIDE DEF f
  <1>7. \A k \in 0 .. n : f[k] = IF k = 0 THEN <<>> ELSE Follow(f[k - 1], s[k])
    BY <1>6, Zenon
  <1> HIDE DEF g
  <1> DEFINE T == {k \in 0 .. n : f[k] # g[k]}
  <1>8. T = {}
    <2> SUFFICES ASSUME T # {} PROVE FALSE
      OBVIOUS
    <2>1. PICK m \in T : \A k \in T : m <= k
      <3>1. T \subseteq Nat /\ T # {}
        BY <1>2
      <3> HIDE DEF T
      <3> QED
        BY <3>1, LeastNumber
    <2>2. m \in 0 .. n /\ f[m] # g[m]
      BY <2>1
    <2>3. CASE m = 0
      BY <1>4, <1>7, <2>2, <2>3
    <2>4. CASE m # 0
      <3>1. m - 1 \in 0 .. n /\ m - 1 \notin T
        BY <1>2, <2>1, <2>2, <2>4
      <3>2. f[m - 1] = g[m - 1]
        BY <3>1
      <3> HIDE DEF T
      <3>3. f[m] = Follow(f[m - 1], s[m]) /\ g[m] = Follow(g[m - 1], s[m])
        BY <1>4, <1>7, <2>2, <2>4
      <3> QED
        BY <2>2, <3>2, <3>3
    <2> QED
      BY <2>3, <2>4
  <1>9. f[n] = g[n]
    BY <1>2, <1>8
  <1>10. g[n] = s
    <2>1. g[n] = SubSeq(s, 1, n)
      BY <1>2 DEF g
    <2>2. SubSeq(s, 1, Len(s)) = s
      <3>1. 1 \in 1 .. Len(s) + 1 /\ Len(s) \in 0 .. Len(s) /\ 1 <= Len(s) /\ Len(s) \in Nat
        BY <1>2 DEF n
      <3> DEFINE r == SubSeq(s, 1, Len(s))
      <3>2. IsSequence(r) /\ Len(r) = Len(s) - 1 + 1 /\ \A i \in 1 .. Len(s) - 1 + 1 : r[i] = s[1 + i - 1]
        BY <1>2, <3>1, SubSeqFacts
      <3> HIDE DEF r
      <3>3. r = [i \in 1 .. Len(s) |-> r[i]] /\ s = [i \in 1 .. Len(s) |-> s[i]]
        BY <1>2, <3>1, <3>2, IsSequenceFacts
      <3>4. \A i \in 1 .. Len(s) : r[i] = s[i]
        BY <3>1, <3>2
      <3>5. r = s
        BY <3>3, <3>4
      <3> QED
        BY <3>5 DEF r
    <2> QED
      BY <2>1, <2>2 DEF n
  <1> QED
    BY <1>3, <1>9, <1>10 DEF f, s

\* A path without dots behind a directory without dots.
LEMMA JoinWithoutDots ==
  ASSUME NEW s, IsSequence(s), \A k \in DOMAIN s : s[k] \notin {Up, Here},
         NEW t, WithoutDots(t)
  PROVE  WithoutDots(s \o t)
  <1> DEFINE r == s \o t
  <1>1. /\ IsSequence(t) /\ Len(t) \in Nat \ {0} /\ DOMAIN t = 1 .. Len(t)
        /\ \A k \in DOMAIN t : t[k] \notin {Up, Here}
    BY PlainFacts
  <1>2. Len(s) \in Nat /\ DOMAIN s = 1 .. Len(s)
    BY IsSequenceFacts
  <1>3. IsSequence(r) /\ Len(r) = Len(s) + Len(t) /\ ToSet(r) = ToSet(s) \cup ToSet(t)
    BY <1>1, ConcatFacts, ConcatenatedSet
  <1> HIDE DEF r
  <1>4. ASSUME NEW k \in DOMAIN r PROVE r[k] \notin {Up, Here}
    <2>1. r[k] \in ToSet(s) \cup ToSet(t)
      BY <1>3 DEF ToSet
    <2> QED
      BY <1>1, <2>1 DEF ToSet
  <1>5. Len(r) # 0
    BY <1>1, <1>2, <1>3
  <1>6. WithoutDots(r)
    BY <1>3, <1>4, <1>5, WithoutDotsOf
  <1> QED
    BY <1>6 DEF r

\* An include that leaves no directory, met in a file spelled without dots, is
\* spelled without dots.
LEMMA ResolvePlain ==
  ASSUME NEW p, Plain(p), NEW t, WithoutDots(t)
  PROVE  Plain(ResolveInclude(p, Path(FALSE, t)))
  <1> DEFINE s == p.parts
             front == SubSeq(s, 1, Len(s) - 1)
  <1>1. p = Path(TRUE, s) /\ WithoutDots(s)
    BY DEF Plain
  <1>2. ResolveInclude(p, Path(FALSE, t)) = Path(TRUE, front \o t)
    <2> HIDE DEF s
    <2>1. p.absolute = TRUE /\ p.parts = s
      BY <1>1 DEF Path
    <2>2. ParentPath(Absolute(p)) = Path(TRUE, front)
      BY <2>1 DEF ParentPath, Absolute, Front
    <2> QED
      BY <2>2 DEF ResolveInclude, Join, Path
  <1>3. /\ IsSequence(s) /\ Len(s) \in Nat \ {0} /\ DOMAIN s = 1 .. Len(s)
        /\ \A k \in DOMAIN s : s[k] \notin {Up, Here}
    BY <1>1, PlainFacts
  <1>4. /\ IsSequence(front) /\ Len(front) = Len(s) - 1
        /\ \A i \in 1 .. Len(s) - 1 : front[i] = s[i]
    <2>1. 1 \in 1 .. Len(s) + 1 /\ Len(s) - 1 \in 0 .. Len(s)
      BY <1>3
    <2>2. /\ IsSequence(front)
          /\ Len(front) = IF 1 <= Len(s) - 1 THEN (Len(s) - 1) - 1 + 1 ELSE 0
          /\ \A i \in 1 .. (Len(s) - 1) - 1 + 1 : front[i] = s[1 + i - 1]
      BY <1>3, <2>1, SubSeqFacts
    <2> QED
      BY <1>3, <2>2
  <1> HIDE DEF s, front
  <1>5. \A k \in DOMAIN front : front[k] \notin {Up, Here}
    <2>1. DOMAIN front = 1 .. Len(s) - 1
      BY <1>4, IsSequenceFacts
    <2> QED
      BY <1>3, <1>4, <2>1
  <1>6. WithoutDots(front \o t)
    BY <1>4, <1>5, JoinWithoutDots
  <1>7. Path(TRUE, front \o t).parts = front \o t
    BY DEF Path
  <1> QED
    BY <1>2, <1>6, <1>7 DEF Plain

\* What a worker is about to include is spelled without dots.
LEMMA IncludedPlain ==
  ASSUME Spelled, Descends, NEW p \in Paths, Plain(p), NEW k \in DOMAIN Decls[p],
         Decls[p][k].kind = "include"
  PROVE  Plain(Decls[p][k].path)
  <1>1. PICK m \in DOMAIN IncludesAt(p, Project) : Decls[p][k].path = IncludesAt(p, Project)[m]
    BY DEF Spelled
  <1>2. CASE Opens(p, DOMAIN Project)
    <2>1. FileAt(p) \in DOMAIN Project
      BY <1>2 DEF Opens
    <2>2. IncludesAt(p, Project) =
            [i \in DOMAIN Project[FileAt(p)] |-> ResolveInclude(p, Path(FALSE, Project[FileAt(p)][i]))]
      BY <1>2 DEF IncludesAt
    <2>3. m \in DOMAIN Project[FileAt(p)]
      BY <1>1, <2>2
    <2>4. WithoutDots(Project[FileAt(p)][m])
      BY <2>1, <2>3 DEF Descends
    <2>5. IncludesAt(p, Project)[m] = ResolveInclude(p, Path(FALSE, Project[FileAt(p)][m]))
      BY <2>2, <2>3
    <2> QED
      BY <1>1, <2>4, <2>5, ResolvePlain
  <1>3. CASE ~Opens(p, DOMAIN Project)
    BY <1>1, <1>3 DEF IncludesAt
  <1> QED
    BY <1>2, <1>3

\* No step brings in a spelling with dots.
LEMMA NextPlain ==
  ASSUME Spelled, Descends, IInv, PlainPaths, [Next]_vars
  PROVE  PlainPaths'
  <1>1. ASSUME UNCHANGED <<root, included>> PROVE PlainPaths'
    BY <1>1 DEF PlainPaths
  <1>2. ASSUME NEW a \in Actors, IncludeStep(a) PROVE PlainPaths'
    <2>1. CASE InsertInclude(a)
      <3>1. /\ included' = included \cup {IncludeTarget(a)} /\ root' = root
            /\ pc[a] = "insert"
        BY <2>1 DEF InsertInclude
      <3>2. Plain(IncludeTarget(a))
        <4>1. CASE a = Main
          BY <4>1 DEF IncludeTarget, PlainPaths
        <4>2. CASE a \in Workers
          <5>1. PathOf(a) \in Paths /\ PathOf(a) \in included
            BY <3>1, <4>2, UnitFacts
          <5>2. /\ pos[a] \in DOMAIN Decls[PathOf(a)]
                /\ Decls[PathOf(a)][pos[a]].kind = "include"
            BY <3>1, <4>2 DEF IInv, WorkerControl, WorkerInv, IncludeLabels, Statement
          <5>3. Plain(Decls[PathOf(a)][pos[a]].path)
            BY <5>1, <5>2, IncludedPlain DEF PlainPaths
          <5> QED
            BY <4>2, <5>3, ActorAssumption DEF IncludeTarget, Statement
        <4> QED
          BY <4>1, <4>2 DEF Actors
      <3> QED
        BY <3>1, <3>2 DEF PlainPaths
    <2> QED
      BY <1>1, <1>2, <2>1 DEF IncludeStep, LockInclude, TestIncluded, unitVars
  <1>3. ASSUME NEW w \in Workers, WorkerStep(w), ~IncludeStep(w) PROVE UNCHANGED <<root, included>>
    BY <1>3
    DEF WorkerStep, TakeTask, ReportError, Pass1Step, BeginUnit, RegisterBuiltin, ReadSource,
        VisitFunction, VisitInclude, VisitThrows, EndPass1, Terminated, Pass2Step, BeginFill,
        GetSymbol, UseSymbol, EndFill, GenerateCode, SaveUnit, unitVars
  <1>4. CASE MainStep
    BY <1>1, <1>2, <1>4 DEF MainStep, Actors, WaitPass1, SpawnPass2, FinishProject, unitVars
  <1>5. CASE UNCHANGED vars \/ Ended
    BY <1>1, <1>5 DEF Ended, vars
  <1> QED
    BY <1>1, <1>2, <1>3, <1>4, <1>5 DEF Next, Actors

\* FileCompiledOnce, for any project whose root is absolute and whose paths
\* leave no directory: such spellings are as many as the files they open, so
\* the test on spellings in includeFile is one on files.
THEOREM FilesOnce ==
  ASSUME Spelled, Descends
  PROVE  Spec => []FileCompiledOnce
  <1>1. Init => PlainPaths
    BY DEF Init, PlainPaths, Plain, Descends
  <1>2. IInv /\ PlainPaths /\ [Next]_vars => PlainPaths'
    BY NextPlain
  <1>3. IInv /\ PlainPaths => FileCompiledOnce
    <2> SUFFICES ASSUME IInv, PlainPaths, NEW i \in DOMAIN units, NEW j \in DOMAIN units,
                        FileAt(units[i]) = FileAt(units[j])
                 PROVE  i = j
      BY DEF FileCompiledOnce
    <2>1. Plain(units[i]) /\ Plain(units[j])
      BY DEF IInv, OneUnitPerPath, PlainPaths
    <2>2. units[i].parts = units[j].parts
      BY <2>1, FileAtPlain
    <2>3. units[i] = units[j]
      BY <2>1, <2>2 DEF Plain
    <2> QED
      BY <2>3 DEF IInv, OneUnitPerPath
  <1> QED
    BY <1>1, <1>2, <1>3, Invariance, PTL DEF Spec

===========================================================================
