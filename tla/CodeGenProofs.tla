--------------------------- MODULE CodeGenProofs ---------------------------
(***************************************************************************)
(* Code generation for any unit: the contexts of a function are pushed and *)
(* popped once, and its instructions reach no address of another function. *)
(* The agenda stands for the call stack of the visitors: at most one task  *)
(* in it ends a function; those before it hold nodes, addresses and blocks *)
(* of that function, those behind it are functions still to be declared.   *)
(***************************************************************************)
EXTENDS CodeGen, SequenceFacts, SequenceTheorems, FiniteSetTheorems, TLAPS

\* The addresses a function has made, and its blocks.
MadeIn(bs, f, address) ==
  \E b \in DOMAIN bs : \E k \in DOMAIN bs[b].code :
    /\ bs[b].function = f
    /\ bs[b].code[k].op \in {"alloca", "gep", "load"}
    /\ bs[b].code[k].result = address
BlockOf(bs, f, b) == b \in DOMAIN bs /\ bs[b].function = f

Tasks ==
  {"visit", "right", "operate", "negate", "add", "call", "print", "load", "store",
   "read", "declare", "element", "fill", "assign", "indexed", "assignelement",
   "branch", "else", "endif", "loop", "repeat", "return"}

\* A task inside a function holds nodes, addresses and blocks of that function.
Pending(bs, f, task) ==
  /\ task.do \in Tasks
  /\ task.do = "visit" => task.node \in Nodes
  /\ task.do = "right" => task.node.right \in Nodes
  /\ task.do \in {"add", "call"} => task.node.arguments \in Seq(Nodes)
  /\ task.do \in {"add", "element"} => task.index \in Nat \ {0}
  /\ task.do \in {"load", "store", "fill"} => MadeIn(bs, f, task.address)
  /\ task.do = "read" => MadeIn(bs, f, task.array.address)
  /\ task.do = "declare" => MadeIn(bs, f, task.symbol.address)
  /\ task.do = "element" =>
       /\ DOMAIN task = {"do", "node", "array", "index"}
       /\ MadeIn(bs, f, task.array)
       /\ task.node.expression.elements \in Seq(Nodes)
  /\ task.do = "indexed" => task.node.expression \in Nodes
  /\ task.do = "branch" => task.node.then \in Seq(Nodes)
  /\ task.do \in {"branch", "else"} => task.node.else \in Seq(Nodes)
  /\ task.do = "else" => BlockOf(bs, f, task.else)
  /\ task.do \in {"else", "endif", "repeat"} => BlockOf(bs, f, task.end)
  /\ task.do = "loop" =>
       /\ task.node.body \in Seq(Nodes)
       /\ BlockOf(bs, f, task.condition + 1) /\ BlockOf(bs, f, task.condition + 2)

\* The functions that are still to be declared.
Ahead(task) == task.do = "visit" /\ IsFunction(task.node)

\* An instruction made as one of the first n, which takes its address from f.
Sound(bs, f, n, instruction) ==
  /\ instruction.op \in Operations
  /\ instruction.result \in {Register(i) : i \in 1 .. n}
  /\ instruction.op \in {"load", "store", "gep"} => MadeIn(bs, f, instruction.operands[1])

IsBlock(block) == DOMAIN block = {"function", "code"} /\ IsSequence(block.code)
SoundBlock(bs, n, block) ==
  /\ IsBlock(block)
  /\ \A k \in DOMAIN block.code : Sound(bs, block.function, n, block.code[k])

SoundCode(bs, n) == IsSequence(bs) /\ \A b \in DOMAIN bs : SoundBlock(bs, n, bs[b])

\* Between functions: no context but the global scope, which is empty.
Outside ==
  /\ \A i \in DOMAIN agenda : Ahead(agenda[i])
  /\ Len(scopes) = 1 /\ DOMAIN scopes[1] = {}
  /\ returns = <<>>

\* In a function f, whose end is the k-th task, and whose names are those of the
\* second scope.
InsideUntil(k, f) ==
  /\ agenda[k].do = "end"
  /\ \A i \in 1 .. k - 1 : Pending(blocks, f, agenda[i])
  /\ \A i \in k + 1 .. Len(agenda) : Ahead(agenda[i])
ScopeIn(ss, bs, f) ==
  /\ Len(ss) = 2
  /\ DOMAIN ss[1] = {}
  /\ \A name \in DOMAIN ss[2] : MadeIn(bs, f, ss[2][name].address)
Within(f) ==
  /\ insert \in DOMAIN blocks
  /\ f = blocks[insert].function
  /\ \E k \in DOMAIN agenda : InsideUntil(k, f)
  /\ ScopeIn(scopes, blocks, f)
  /\ Len(returns) = 1

AgendaTyped ==
  IsSequence(agenda) /\ \A i \in DOMAIN agenda : agenda[i].do \in Tasks \cup {"end"}
StateTyped ==
  /\ IsSequence(scopes) /\ scopes # <<>>
  /\ returns \in Seq({"void", "value"})
  /\ insert \in 0 .. Len(blocks)
  /\ serial \in Nat
  /\ status \in Stages
ContextInv == status = "running" => Outside \/ Within(blocks[insert].function)

IInv == SoundCode(blocks, serial) /\ AgendaTyped /\ StateTyped /\ ContextInv

---------------------------------------------------------------------------
\* What a step does to the blocks: block b gets new instructions, and there may
\* be new blocks of its function, which are empty.
Grown(bs, cs, b, new) ==
  /\ IsSequence(cs) /\ DOMAIN bs \subseteq DOMAIN cs
  /\ \A c \in DOMAIN bs :
       /\ cs[c].function = bs[c].function
       /\ IsBlock(cs[c])
       /\ ToSet(cs[c].code) = ToSet(bs[c].code) \cup (IF c = b THEN new ELSE {})
  /\ \A c \in DOMAIN cs \ DOMAIN bs :
       IsBlock(cs[c]) /\ cs[c].function = bs[b].function /\ cs[c].code = <<>>

LEMMA MadeGrows ==
  ASSUME NEW bs, NEW cs, NEW b, NEW new, Grown(bs, cs, b, new),
         NEW f, NEW address, MadeIn(bs, f, address)
  PROVE  MadeIn(cs, f, address)
  <1>1. PICK c \in DOMAIN bs : \E k \in DOMAIN bs[c].code :
          /\ bs[c].function = f
          /\ bs[c].code[k].op \in {"alloca", "gep", "load"}
          /\ bs[c].code[k].result = address
    BY DEF MadeIn
  <1>2. PICK k \in DOMAIN bs[c].code :
          /\ bs[c].function = f
          /\ bs[c].code[k].op \in {"alloca", "gep", "load"}
          /\ bs[c].code[k].result = address
    BY <1>1
  <1>3. bs[c].code[k] \in ToSet(cs[c].code)
    BY DEF Grown, ToSet
  <1>4. PICK j \in DOMAIN cs[c].code : cs[c].code[j] = bs[c].code[k]
    BY <1>3 DEF ToSet
  <1>5. c \in DOMAIN cs /\ cs[c].function = f
    BY <1>2 DEF Grown
  <1> QED
    BY <1>2, <1>4, <1>5 DEF MadeIn

LEMMA MadeNew ==
  ASSUME NEW bs, NEW cs, NEW b \in DOMAIN bs, NEW new, Grown(bs, cs, b, new),
         NEW i \in new, i.op \in {"alloca", "gep", "load"}
  PROVE  MadeIn(cs, bs[b].function, i.result)
  <1>1. i \in ToSet(cs[b].code) /\ b \in DOMAIN cs /\ cs[b].function = bs[b].function
    BY DEF Grown
  <1>2. PICK j \in DOMAIN cs[b].code : cs[b].code[j] = i
    BY <1>1 DEF ToSet
  <1> QED
    BY <1>1, <1>2 DEF MadeIn

LEMMA PendingGrows ==
  ASSUME NEW bs, NEW cs, NEW b, NEW new, Grown(bs, cs, b, new),
         NEW f, NEW task, Pending(bs, f, task)
  PROVE  Pending(cs, f, task)
  <1>1. \A address : MadeIn(bs, f, address) => MadeIn(cs, f, address)
    BY MadeGrows
  <1>2. \A c : BlockOf(bs, f, c) => BlockOf(cs, f, c)
    BY DEF BlockOf, Grown
  <1> QED
    BY <1>1, <1>2 DEF Pending

LEMMA SoundGrows ==
  ASSUME NEW bs, NEW cs, NEW b \in DOMAIN bs, NEW new, Grown(bs, cs, b, new),
         NEW m \in Nat, NEW n \in Nat, m <= n, SoundCode(bs, m),
         \A i \in new : Sound(cs, bs[b].function, n, i)
  PROVE  SoundCode(cs, n)
  <1>1. IsSequence(cs)
    BY DEF Grown
  <1>2. ASSUME NEW f, NEW i, Sound(bs, f, m, i)
        PROVE  Sound(cs, f, n, i)
    <2>1. i.op \in Operations
      BY <1>2 DEF Sound
    <2>2. i.result \in {Register(j) : j \in 1 .. n}
      BY <1>2 DEF Sound
    <2>3. i.op \in {"load", "store", "gep"} => MadeIn(cs, f, i.operands[1])
      BY <1>2, MadeGrows DEF Sound
    <2> QED
      BY <2>1, <2>2, <2>3 DEF Sound
  <1>3. ASSUME NEW c \in DOMAIN bs PROVE SoundBlock(cs, n, cs[c])
    <2>1. IsBlock(cs[c]) /\ cs[c].function = bs[c].function
      BY DEF Grown
    <2>2. ASSUME NEW k \in DOMAIN cs[c].code
          PROVE  Sound(cs, cs[c].function, n, cs[c].code[k])
      <3>1. cs[c].code[k] \in ToSet(cs[c].code)
        BY DEF ToSet
      <3>2. CASE cs[c].code[k] \in ToSet(bs[c].code)
        <4>1. PICK j \in DOMAIN bs[c].code : bs[c].code[j] = cs[c].code[k]
          BY <3>2 DEF ToSet
        <4>2. Sound(bs, bs[c].function, m, bs[c].code[j])
          BY DEF SoundCode, SoundBlock
        <4> QED
          BY <4>1, <4>2, <2>1, <1>2
      <3>3. CASE c = b /\ cs[c].code[k] \in new
        BY <3>3, <2>1
      <3> QED
        BY <3>1, <3>2, <3>3 DEF Grown
    <2> QED
      BY <2>1, <2>2 DEF SoundBlock
  <1>4. ASSUME NEW c \in DOMAIN cs \ DOMAIN bs PROVE SoundBlock(cs, n, cs[c])
    <2>1. IsBlock(cs[c]) /\ cs[c].code = <<>>
      BY DEF Grown
    <2>2. DOMAIN <<>> = {}
      OBVIOUS
    <2> QED
      BY <2>1, <2>2 DEF SoundBlock
  <1> QED
    BY <1>1, <1>3, <1>4 DEF SoundCode

\* The three ways to add instructions.
LEMMA NothingGrown ==
  ASSUME NEW b, SoundCode(blocks, serial)
  PROVE  Grown(blocks, blocks, b, {})
  BY DEF SoundCode, SoundBlock, IsBlock, Grown

LEMMA AppendedGrown ==
  ASSUME NEW i, SoundCode(blocks, serial), insert \in DOMAIN blocks
  PROVE  Grown(blocks, Appended(i), insert, {i}) /\ Len(Appended(i)) = Len(blocks)
  <1> DEFINE code == blocks[insert].code
             block == [blocks[insert] EXCEPT !.code = Append(code, i)]
  <1>1. IsSequence(code) /\ IsSequence(blocks) /\ DOMAIN blocks[insert] = {"function", "code"}
    BY DEF SoundCode, SoundBlock, IsBlock
  <1>2. IsSequence(Append(code, i)) /\ ToSet(Append(code, i)) = ToSet(code) \cup {i}
    BY <1>1, AppendedSet
  <1>3. Appended(i) = [blocks EXCEPT ![insert] = block]
    BY DEF Appended
  <1>4. /\ DOMAIN block = {"function", "code"}
        /\ block.function = blocks[insert].function /\ block.code = Append(code, i)
    BY <1>1
  <1> HIDE DEF block
  <1>5. /\ IsSequence(Appended(i)) /\ Len(Appended(i)) = Len(blocks)
        /\ DOMAIN Appended(i) = DOMAIN blocks
        /\ \A c \in DOMAIN blocks : Appended(i)[c] = IF c = insert THEN block ELSE blocks[c]
    <2> DEFINE bs == [blocks EXCEPT ![insert] = block]
    <2>1. /\ IsSequence(bs) /\ Len(bs) = Len(blocks)
          /\ DOMAIN bs = DOMAIN blocks
          /\ \A c \in DOMAIN blocks : bs[c] = IF c = insert THEN block ELSE blocks[c]
      BY <1>1, ExceptFacts
    <2> HIDE DEF bs
    <2> QED
      BY <1>3, <2>1 DEF bs
  <1>6. \A c \in DOMAIN blocks : IsBlock(blocks[c])
    BY DEF SoundCode, SoundBlock
  <1>7. IsBlock(block)
    BY <1>2, <1>4 DEF IsBlock
  <1> HIDE DEF code
  <1> QED
    BY <1>2, <1>4, <1>5, <1>6, <1>7 DEF Grown, code

LEMMA AllocatedGrown ==
  ASSUME SoundCode(blocks, serial), insert \in DOMAIN blocks, Allocate
  PROVE  Grown(blocks, blocks', insert, {Instruction("alloca", <<>>)})
  <1> DEFINE code == blocks[insert].code
             i == Instruction("alloca", <<>>)
             block == [blocks[insert] EXCEPT !.code = WithAlloca(code)]
  <1>1. IsSequence(code) /\ IsSequence(blocks) /\ DOMAIN blocks[insert] = {"function", "code"}
    BY DEF SoundCode, SoundBlock, IsBlock
  <1>2. IsSequence(WithAlloca(code)) /\ ToSet(WithAlloca(code)) = ToSet(code) \cup {i}
    <2> HIDE DEF code, i
    <2> DEFINE S == {0} \cup {k \in DOMAIN code : code[k].op = "alloca"}
    <2>1. DOMAIN code = 1 .. Len(code) /\ Len(code) \in Nat
      BY <1>1, IsSequenceFacts
    <2>2. S \subseteq 0 .. Len(code) /\ S # {}
      BY <2>1
    <2> HIDE DEF S
    <2>3. Max(S) \in 0 .. Len(code)
      BY <2>1, <2>2, MaxOfBounded
    <2>4. Max(S) + 1 \in 1 .. Len(code) + 1
      BY <2>1, <2>3
    <2>5. /\ IsSequence(InsertAt(code, Max(S) + 1, i))
          /\ ToSet(InsertAt(code, Max(S) + 1, i)) = ToSet(code) \cup {i}
      BY <1>1, <2>4, InsertFacts
    <2>6. WithAlloca(code) = InsertAt(code, Max(S) + 1, i)
      BY DEF WithAlloca, S, i
    <2> QED
      BY <2>5, <2>6
  <1>3. blocks' = [blocks EXCEPT ![insert] = block]
    BY DEF Allocate
  <1>4. /\ DOMAIN block = {"function", "code"}
        /\ block.function = blocks[insert].function /\ block.code = WithAlloca(code)
    BY <1>1
  <1> HIDE DEF block
  <1>5. /\ IsSequence(blocks') /\ DOMAIN blocks' = DOMAIN blocks
        /\ \A c \in DOMAIN blocks : blocks'[c] = IF c = insert THEN block ELSE blocks[c]
    <2> DEFINE bs == [blocks EXCEPT ![insert] = block]
    <2>1. /\ IsSequence(bs) /\ DOMAIN bs = DOMAIN blocks
          /\ \A c \in DOMAIN blocks : bs[c] = IF c = insert THEN block ELSE blocks[c]
      BY <1>1, ExceptFacts
    <2> HIDE DEF bs
    <2> QED
      BY <1>3, <2>1 DEF bs
  <1>6. \A c \in DOMAIN blocks : IsBlock(blocks[c])
    BY DEF SoundCode, SoundBlock
  <1>7. IsBlock(block)
    BY <1>2, <1>4 DEF IsBlock
  <1> HIDE DEF code, i
  <1>8. ToSet(block.code) = ToSet(blocks[insert].code) \cup {i}
    BY <1>2, <1>4 DEF code
  <1>9. Grown(blocks, blocks', insert, {i})
    BY <1>4, <1>5, <1>6, <1>7, <1>8 DEF Grown
  <1> QED
    BY <1>9 DEF i

\* New blocks of the present function.
LEMMA MovedGrown ==
  ASSUME NEW i, NEW n \in Nat, SoundCode(blocks, serial), insert \in DOMAIN blocks
  PROVE  LET bs == Appended(i) \o NewBlocks(n)
         IN /\ Grown(blocks, bs, insert, {i})
            /\ Len(bs) = Len(blocks) + n
            /\ \A c \in Len(blocks) + 1 .. Len(blocks) + n : BlockOf(bs, blocks[insert].function, c)
            /\ \A c \in DOMAIN blocks : \A f : BlockOf(blocks, f, c) => BlockOf(bs, f, c)
  <1> DEFINE old == Appended(i)
             made == NewBlocks(n)
             bs == old \o made
             f == blocks[insert].function
  <1>1. /\ Grown(blocks, old, insert, {i}) /\ Len(old) = Len(blocks)
        /\ DOMAIN blocks = 1 .. Len(blocks) /\ Len(blocks) \in Nat
    BY AppendedGrown, IsSequenceFacts DEF SoundCode
  <1>2. IsSequence(old)
    BY <1>1 DEF Grown
  <1>3. /\ IsSequence(made) /\ Len(made) = n
        /\ \A c \in 1 .. n : made[c] = [function |-> f, code |-> <<>>]
    <2>1. made = [c \in 1 .. n |-> [function |-> f, code |-> <<>>]]
      BY DEF NewBlocks
    <2> HIDE DEF made
    <2>2. made = [c \in 1 .. n |-> made[c]]
      BY <2>1
    <2> QED
      BY <2>1, <2>2, IsSequenceFunction
  <1>4. \A c \in 1 .. n : IsBlock(made[c]) /\ made[c].function = f /\ made[c].code = <<>>
    <2>1. <<>> \in Seq({})
      OBVIOUS
    <2>2. IsSequence(<<>>)
      BY <2>1, IsSequenceOf
    <2> QED
      BY <1>3, <2>2 DEF IsBlock
  <1> HIDE DEF old, made, f
  <1>5. /\ IsSequence(bs) /\ Len(bs) = Len(blocks) + n
        /\ \A c \in 1 .. Len(blocks) : bs[c] = old[c]
        /\ \A c \in 1 .. n : bs[Len(blocks) + c] = made[c]
    BY <1>1, <1>2, <1>3, ConcatFacts
  <1> HIDE DEF bs
  <1>6. DOMAIN bs = 1 .. Len(blocks) + n
    BY <1>5, IsSequenceFacts
  <1>7. \A c \in Len(blocks) + 1 .. Len(blocks) + n :
          IsBlock(bs[c]) /\ bs[c].function = f /\ bs[c].code = <<>>
    <2> TAKE c \in Len(blocks) + 1 .. Len(blocks) + n
    <2>1. c - Len(blocks) \in 1 .. n /\ c = Len(blocks) + (c - Len(blocks))
      BY <1>1
    <2> QED
      BY <2>1, <1>4, <1>5
  <1>8. Grown(blocks, bs, insert, {i})
    <2>1. \A c \in DOMAIN bs \ DOMAIN blocks : c \in Len(blocks) + 1 .. Len(blocks) + n
      BY <1>1, <1>6
    <2>2. \A c \in DOMAIN blocks : bs[c] = old[c]
      BY <1>1, <1>5
    <2>3. IsSequence(bs) /\ DOMAIN blocks \subseteq DOMAIN bs
      BY <1>1, <1>5, <1>6
    <2>4. \A c \in DOMAIN blocks :
            /\ bs[c].function = blocks[c].function
            /\ IsBlock(bs[c])
            /\ ToSet(bs[c].code) = ToSet(blocks[c].code) \cup (IF c = insert THEN {i} ELSE {})
      BY <1>1, <2>2 DEF Grown
    <2>5. \A c \in DOMAIN bs \ DOMAIN blocks :
            IsBlock(bs[c]) /\ bs[c].function = blocks[insert].function /\ bs[c].code = <<>>
      BY <1>7, <2>1 DEF f
    <2> QED
      BY <2>3, <2>4, <2>5 DEF Grown
  <1>9. \A c \in Len(blocks) + 1 .. Len(blocks) + n : BlockOf(bs, f, c)
    BY <1>1, <1>6, <1>7 DEF BlockOf
  <1>10. \A c \in DOMAIN blocks : \A g : BlockOf(blocks, g, c) => BlockOf(bs, g, c)
    BY <1>8 DEF Grown, BlockOf
  <1> QED
    BY <1>5, <1>8, <1>9, <1>10 DEF bs, old, made, f

---------------------------------------------------------------------------
\* Steps inside a function.

\* In function f, with a task of it at hand.
Busy(f) ==
  /\ IInv
  /\ status = "running"
  /\ Within(f)
  /\ agenda # <<>>
  /\ Pending(blocks, f, Task)

AllPending(bs, f, tasks) ==
  IsSequence(tasks) /\ \A i \in DOMAIN tasks : Pending(bs, f, tasks[i])

\* Whoever does something other than to visit or to end a function is in one.
LEMMA TaskWithin ==
  ASSUME IInv, NEW what, Doing(what), what # "end",
         what = "visit" => Task.node.kind # "function"
  PROVE  Busy(blocks[insert].function)
  <1> DEFINE f == blocks[insert].function
  <1>1. /\ status = "running" /\ agenda # <<>> /\ Task.do = what
        /\ IsSequence(agenda)
    BY DEF Doing, IInv, AgendaTyped
  <1>2. Len(agenda) \in Nat \ {0} /\ Task = agenda[1] /\ DOMAIN agenda = 1 .. Len(agenda)
    BY <1>1, TailFacts, IsSequenceFacts DEF Task
  <1>3. ~Outside
    BY <1>1, <1>2 DEF Outside, Ahead, IsFunction, IsSequence
  <1>4. Within(f)
    BY <1>1, <1>3 DEF IInv, ContextInv
  <1>5. PICK k \in DOMAIN agenda : InsideUntil(k, f)
    BY <1>4 DEF Within
  <1>6. k # 1
    BY <1>1, <1>2, <1>5 DEF InsideUntil
  <1>7. Pending(blocks, f, Task)
    BY <1>2, <1>5, <1>6 DEF InsideUntil
  <1> QED
    BY <1>1, <1>4, <1>7 DEF Busy

\* The agenda stays in order when a task of f is replaced by tasks of f.
LEMMA AgendaContinues ==
  ASSUME NEW f, NEW cs, NEW tasks, NEW later, Busy(f),
         NEW new, Grown(blocks, cs, insert, new),
         AllPending(cs, f, tasks), later = tasks \o Tail(agenda)
  PROVE  /\ IsSequence(later)
         /\ \A i \in DOMAIN later : later[i].do \in Tasks \cup {"end"}
         /\ \E k \in DOMAIN later :
              /\ later[k].do = "end"
              /\ \A i \in 1 .. k - 1 : Pending(cs, f, later[i])
              /\ \A i \in k + 1 .. Len(later) : Ahead(later[i])
  <1>1. IsSequence(agenda) /\ agenda # <<>> /\ IsSequence(tasks)
    BY DEF Busy, IInv, AgendaTyped, AllPending
  <1>2. PICK k \in DOMAIN agenda : InsideUntil(k, f)
    BY DEF Busy, Within
  <1>3. /\ IsSequence(Tail(agenda)) /\ Len(Tail(agenda)) = Len(agenda) - 1
        /\ Len(agenda) \in Nat \ {0} /\ Task = agenda[1]
        /\ \A i \in 1 .. Len(agenda) - 1 : Tail(agenda)[i] = agenda[i + 1]
    BY <1>1, TailFacts DEF Task
  <1>4. DOMAIN agenda = 1 .. Len(agenda) /\ DOMAIN tasks = 1 .. Len(tasks) /\ Len(tasks) \in Nat
    BY <1>1, IsSequenceFacts
  <1>5. k \in 2 .. Len(agenda)
    <2>1. k # 1
      BY <1>2, <1>3 DEF InsideUntil, Busy, Pending, Tasks
    <2> QED
      BY <1>4, <2>1
  <1> DEFINE n == Len(tasks)
  <1>6. /\ IsSequence(later) /\ Len(later) = n + Len(agenda) - 1
        /\ \A i \in 1 .. n : later[i] = tasks[i]
        /\ \A i \in 1 .. Len(agenda) - 1 : later[n + i] = agenda[i + 1]
    <2>1. /\ IsSequence(later) /\ Len(later) = n + Len(Tail(agenda))
          /\ \A i \in 1 .. n : later[i] = tasks[i]
          /\ \A i \in 1 .. Len(Tail(agenda)) : later[n + i] = Tail(agenda)[i]
      BY <1>1, <1>3, ConcatFacts
    <2> QED
      BY <2>1, <1>3, <1>4
  <1> HIDE DEF n
  <1>7. \A i \in n + 1 .. Len(later) : later[i] = agenda[i - n + 1] /\ i - n + 1 \in 2 .. Len(agenda)
    <2> TAKE i \in n + 1 .. Len(later)
    <2>1. i - n \in 1 .. Len(agenda) - 1 /\ i = n + (i - n)
      BY <1>3, <1>4, <1>6 DEF n
    <2>2. later[n + (i - n)] = agenda[(i - n) + 1]
      BY <2>1, <1>6
    <2> QED
      BY <2>1, <2>2, <1>3, <1>4 DEF n
  <1>8. DOMAIN later = 1 .. Len(later) /\ Len(later) \in Nat /\ n \in Nat
    BY <1>4, <1>6, IsSequenceFacts DEF n
  <1>9. ASSUME NEW i \in DOMAIN later PROVE later[i].do \in Tasks \cup {"end"}
    <2>1. CASE i <= n
      <3>1. i \in 1 .. n /\ i \in DOMAIN tasks
        BY <2>1, <1>4, <1>8 DEF n
      <3>2. Pending(cs, f, tasks[i])
        BY <3>1 DEF AllPending
      <3> QED
        BY <3>1, <3>2, <1>6 DEF Pending
    <2>2. CASE i > n
      <3>1. i \in n + 1 .. Len(later)
        BY <2>2, <1>8
      <3>2. later[i] = agenda[i - n + 1] /\ i - n + 1 \in DOMAIN agenda
        BY <3>1, <1>3, <1>4, <1>7
      <3> QED
        BY <3>2 DEF Busy, IInv, AgendaTyped
    <2> QED
      BY <2>1, <2>2, <1>8
  <1> DEFINE e == n + k - 1
  <1>10. e \in DOMAIN later /\ later[e].do = "end"
    <2>1. e \in n + 1 .. Len(later) /\ e - n + 1 = k
      BY <1>3, <1>5, <1>6, <1>8
    <2> QED
      BY <2>1, <1>2, <1>7, <1>8 DEF InsideUntil
  <1>11. ASSUME NEW i \in 1 .. e - 1 PROVE Pending(cs, f, later[i])
    <2>0. i \in Nat /\ i >= 1
      BY <1>3, <1>5, <1>8
    <2>1. CASE i <= n
      <3>1. i \in 1 .. n /\ i \in DOMAIN tasks
        BY <2>0, <2>1, <1>4, <1>8 DEF n
      <3>2. Pending(cs, f, tasks[i])
        BY <3>1 DEF AllPending
      <3> QED
        BY <3>1, <3>2, <1>6
    <2>2. CASE i > n
      <3>1. i \in n + 1 .. Len(later) /\ i - n + 1 \in 1 .. k - 1
        BY <2>2, <1>3, <1>5, <1>6, <1>8
      <3>2. later[i] = agenda[i - n + 1]
        BY <3>1, <1>7
      <3>3. Pending(blocks, f, agenda[i - n + 1])
        BY <3>1, <1>2 DEF InsideUntil
      <3> QED
        BY <3>2, <3>3, PendingGrows
    <2>3. i <= n \/ i > n
      BY <2>0, <1>8
    <2> QED
      BY <2>1, <2>2, <2>3
  <1>12. ASSUME NEW i \in e + 1 .. Len(later) PROVE Ahead(later[i])
    <2>1. i \in n + 1 .. Len(later) /\ i - n + 1 \in k + 1 .. Len(agenda)
      BY <1>3, <1>5, <1>6, <1>8
    <2> QED
      BY <2>1, <1>2, <1>7 DEF InsideUntil
  <1> HIDE DEF e
  <1> QED
    BY <1>6, <1>9, <1>10, <1>11, <1>12

\* A step inside a function that adds sound instructions, keeps or extends the
\* function's own scope, and goes on with tasks of the function or gives up.
LEMMA StaysWithin ==
  ASSUME NEW f, NEW new, NEW tasks, Busy(f),
         Grown(blocks, blocks', insert, new),
         serial' \in Nat, serial <= serial',
         \A i \in new : Sound(blocks', f, serial', i),
         BlockOf(blocks', f, insert'),
         IsSequence(scopes'), ScopeIn(scopes', blocks', f),
         UNCHANGED returns,
         \/ Continue(tasks) /\ AllPending(blocks', f, tasks)
         \/ status' \in Stages \ {"running"} /\ UNCHANGED agenda
  PROVE  IInv'
  <1>1. SoundCode(blocks', serial')
    BY SoundGrows DEF Busy, IInv, StateTyped, Within
  <1>2. insert' \in 0 .. Len(blocks')
    BY IsSequenceFacts DEF BlockOf, Grown
  <1>3. scopes' # <<>>
    BY EmptySeq DEF ScopeIn
  <1>4. status' \in Stages
    BY DEF Busy, Continue, Stages
  <1>5. StateTyped'
    BY <1>2, <1>3, <1>4 DEF StateTyped, Busy, IInv
  <1>6. CASE Continue(tasks) /\ AllPending(blocks', f, tasks)
    <2>1. agenda' = tasks \o Tail(agenda)
      BY <1>6 DEF Continue
    <2>2. /\ IsSequence(agenda')
          /\ \A i \in DOMAIN agenda' : agenda'[i].do \in Tasks \cup {"end"}
          /\ \E k \in DOMAIN agenda' :
              /\ agenda'[k].do = "end"
              /\ \A i \in 1 .. k - 1 : Pending(blocks', f, agenda'[i])
              /\ \A i \in k + 1 .. Len(agenda') : Ahead(agenda'[i])
      BY <1>6, <2>1, AgendaContinues
    <2>3. AgendaTyped'
      BY <2>2 DEF AgendaTyped
    <2>4. blocks[insert].function' = f
      BY DEF BlockOf
    <2>5. (\E k \in DOMAIN agenda : InsideUntil(k, f))'
      BY <2>2 DEF InsideUntil
    <2>6. Within(blocks[insert].function)'
      BY <2>4, <2>5 DEF Within, Busy, BlockOf
    <2> QED
      BY <1>1, <1>5, <2>3, <2>6 DEF IInv, ContextInv
  <1>7. CASE status' \in Stages \ {"running"} /\ UNCHANGED agenda
    BY <1>1, <1>5, <1>7 DEF IInv, ContextInv, AgendaTyped, Busy
  <1> QED
    BY <1>6, <1>7

\* What is known of the node that is visited inside a function.
LEMMA VisitWithin ==
  ASSUME IInv, NEW kind, Visiting(kind), kind # "function"
  PROVE  /\ Busy(blocks[insert].function)
         /\ Task.node \in Nodes /\ WellFormed(Task.node) /\ Task.node.kind = kind
  <1>1. Doing("visit") /\ Task.node.kind = kind
    BY DEF Visiting
  <1>2. Busy(blocks[insert].function)
    BY <1>1, TaskWithin
  <1>3. Task.node \in Nodes
    BY <1>1, <1>2 DEF Busy, Pending, Doing
  <1> QED
    BY <1>1, <1>2, <1>3, ProgramAssumption

LEMMA NoTasks == ASSUME NEW bs, NEW f PROVE AllPending(bs, f, <<>>)
  <1>1. <<>> \in Seq({}) /\ DOMAIN <<>> = {}
    OBVIOUS
  <1> QED
    BY <1>1, IsSequenceOf DEF AllPending

LEMMA OneTask ==
  ASSUME NEW bs, NEW f, NEW t, Pending(bs, f, t)
  PROVE  AllPending(bs, f, <<t>>)
  <1>1. <<t>> \in Seq({t}) /\ DOMAIN <<t>> = {1} /\ <<t>>[1] = t
    OBVIOUS
  <1> QED
    BY <1>1, IsSequenceOf DEF AllPending

LEMMA TwoTasks ==
  ASSUME NEW bs, NEW f, NEW t, NEW u, Pending(bs, f, t), Pending(bs, f, u)
  PROVE  AllPending(bs, f, <<t, u>>)
  <1>1. /\ <<t, u>> \in Seq({t, u}) /\ DOMAIN <<t, u>> = {1, 2}
        /\ <<t, u>>[1] = t /\ <<t, u>>[2] = u
    OBVIOUS
  <1> QED
    BY <1>1, IsSequenceOf DEF AllPending

LEMMA ThreeTasks ==
  ASSUME NEW bs, NEW f, NEW t, NEW u, NEW v,
         Pending(bs, f, t), Pending(bs, f, u), Pending(bs, f, v)
  PROVE  AllPending(bs, f, <<t, u, v>>)
  <1>1. /\ <<t, u, v>> \in Seq({t, u, v}) /\ DOMAIN <<t, u, v>> = {1, 2, 3}
        /\ <<t, u, v>>[1] = t /\ <<t, u, v>>[2] = u /\ <<t, u, v>>[3] = v
    OBVIOUS
  <1> QED
    BY <1>1, IsSequenceOf DEF AllPending

LEMMA VisitPending ==
  ASSUME NEW bs, NEW f, NEW node \in Nodes
  PROVE  Pending(bs, f, Visit(node))
  BY DEF Pending, Visit, Tasks

\* The nodes of a body, and a task behind them.
LEMMA FunctionTasks ==
  ASSUME NEW nodes \in Seq(Nodes), NEW t
  PROVE  LET all == VisitAll(nodes) \o <<t>>
         IN /\ IsSequence(all) /\ Len(all) = Len(nodes) + 1
            /\ \A i \in 1 .. Len(nodes) : all[i] = Visit(nodes[i])
            /\ all[Len(nodes) + 1] = t
  <1> DEFINE visits == VisitAll(nodes)
             all == visits \o <<t>>
  <1>1. DOMAIN nodes = 1 .. Len(nodes) /\ Len(nodes) \in Nat
    OBVIOUS
  <1>2. visits = [i \in 1 .. Len(nodes) |-> Visit(nodes[i])]
    BY <1>1 DEF VisitAll
  <1> HIDE DEF visits
  <1>3. IsSequence(visits) /\ Len(visits) = Len(nodes)
    <2>1. visits = [i \in 1 .. Len(nodes) |-> visits[i]]
      BY <1>2
    <2> QED
      BY <1>1, <2>1, IsSequenceFunction
  <1>4. IsSequence(<<t>>) /\ Len(<<t>>) = 1 /\ <<t>>[1] = t
    <2>1. <<t>> \in Seq({t})
      OBVIOUS
    <2> QED
      BY <2>1, IsSequenceOf
  <1>5. /\ IsSequence(all) /\ Len(all) = Len(visits) + Len(<<t>>)
        /\ \A i \in 1 .. Len(visits) : all[i] = visits[i]
        /\ \A i \in 1 .. Len(<<t>>) : all[Len(visits) + i] = <<t>>[i]
    BY <1>3, <1>4, ConcatFacts
  <1> HIDE DEF all
  <1>6. /\ IsSequence(all) /\ Len(all) = Len(nodes) + 1
        /\ \A i \in 1 .. Len(nodes) : all[i] = Visit(nodes[i])
        /\ all[Len(nodes) + 1] = t
    <2>1. all[Len(nodes) + 1] = t
      BY <1>1, <1>3, <1>4, <1>5
    <2>2. \A i \in 1 .. Len(nodes) : all[i] = Visit(nodes[i])
      BY <1>2, <1>3, <1>5
    <2>3. Len(all) = Len(nodes) + 1
      BY <1>3, <1>4, <1>5
    <2> QED
      BY <1>5, <2>1, <2>2, <2>3
  <1> QED
    BY <1>6 DEF all, visits

LEMMA BodyTasks ==
  ASSUME NEW bs, NEW f, NEW nodes \in Seq(Nodes), NEW t, Pending(bs, f, t)
  PROVE  AllPending(bs, f, VisitAll(nodes) \o <<t>>)
  <1> DEFINE all == VisitAll(nodes) \o <<t>>
  <1>1. /\ IsSequence(all) /\ Len(all) = Len(nodes) + 1
        /\ \A i \in 1 .. Len(nodes) : all[i] = Visit(nodes[i])
        /\ all[Len(nodes) + 1] = t
    BY FunctionTasks
  <1> HIDE DEF all
  <1>2. DOMAIN all = 1 .. Len(nodes) + 1
    BY <1>1, IsSequenceFacts
  <1>3. \A i \in 1 .. Len(nodes) : Pending(bs, f, all[i])
    <2> TAKE i \in 1 .. Len(nodes)
    <2>1. nodes[i] \in Nodes
      OBVIOUS
    <2> QED
      BY <1>1, <2>1, VisitPending
  <1>4. \A i \in DOMAIN all : Pending(bs, f, all[i])
    BY <1>1, <1>2, <1>3
  <1>5. AllPending(bs, f, all)
    BY <1>1, <1>4 DEF AllPending
  <1> QED
    BY <1>5 DEF all

---------------------------------------------------------------------------
\* The shapes of steps.

LEMMA GivesUp ==
  ASSUME NEW how \in Stages \ {"running"}, IInv, GiveUp(how)
  PROVE  IInv'
  BY DEF IInv, GiveUp, context, ir, AgendaTyped, StateTyped, ContextInv

LEMMA QuietStep ==
  ASSUME NEW f, NEW tasks, Busy(f), UNCHANGED <<scopes, returns, ir>>,
         Continue(tasks), AllPending(blocks, f, tasks)
  PROVE  IInv'
  <1>1. UNCHANGED <<scopes, returns, blocks, insert, serial>>
    BY DEF ir
  <1>2. Grown(blocks, blocks', insert, {})
    BY <1>1, NothingGrown DEF Busy, IInv
  <1>3. BlockOf(blocks', f, insert')
    BY <1>1 DEF BlockOf, Busy, Within
  <1>4. IsSequence(scopes') /\ ScopeIn(scopes', blocks', f) /\ serial' \in Nat /\ serial <= serial'
    BY <1>1 DEF Busy, IInv, StateTyped, Within
  <1>5. AllPending(blocks', f, tasks)
    BY <1>1
  <1> QED
    BY <1>1, <1>2, <1>3, <1>4, <1>5, StaysWithin

\* What holds after an instruction has been added to the present block.
LEMMA EmitFacts ==
  ASSUME NEW f, NEW i, Busy(f), Emit(i)
  PROVE  /\ Grown(blocks, blocks', insert, {i})
         /\ insert \in DOMAIN blocks /\ f = blocks[insert].function
         /\ serial' = serial + 1 /\ serial' \in Nat /\ serial <= serial'
         /\ BlockOf(blocks', f, insert')
         /\ IsSequence(scopes) /\ ScopeIn(scopes, blocks', f)
         /\ \A address : MadeIn(blocks, f, address) => MadeIn(blocks', f, address)
         /\ i.op \in {"alloca", "gep", "load"} => MadeIn(blocks', f, i.result)
  <1>1. insert \in DOMAIN blocks /\ f = blocks[insert].function
    BY DEF Busy, Within
  <1>2. Grown(blocks, blocks', insert, {i})
    BY <1>1, AppendedGrown DEF Emit, Busy, IInv
  <1>3. \A address : MadeIn(blocks, f, address) => MadeIn(blocks', f, address)
    BY <1>2, MadeGrows
  <1>4. i.op \in {"alloca", "gep", "load"} => MadeIn(blocks', f, i.result)
    BY <1>1, <1>2, MadeNew
  <1>5. BlockOf(blocks', f, insert')
    BY <1>1, <1>2 DEF BlockOf, Grown, Emit
  <1>6. IsSequence(scopes) /\ ScopeIn(scopes, blocks', f)
    BY <1>3 DEF Busy, Within, ScopeIn, IInv, StateTyped
  <1>7. serial \in Nat
    BY DEF Busy, IInv, StateTyped
  <1>8. serial' = serial + 1
    BY DEF Emit
  <1> QED
    BY <1>1, <1>2, <1>3, <1>4, <1>5, <1>6, <1>7, <1>8

\* The instruction is sound if it is made now and has an address of the function.
LEMMA MadeNow ==
  ASSUME NEW bs, NEW f, NEW i, i.op \in Operations, i.result = Result, serial \in Nat,
         serial' = serial + 1,
         i.op \in {"load", "store", "gep"} => MadeIn(bs, f, i.operands[1])
  PROVE  Sound(bs, f, serial', i)
  <1>1. serial + 1 \in 1 .. serial'
    OBVIOUS
  <1>2. i.result \in {Register(j) : j \in 1 .. serial'}
    BY <1>1 DEF Result
  <1> QED
    BY <1>2 DEF Sound

LEMMA EmittingStep ==
  ASSUME NEW f, NEW i, NEW tasks, Busy(f), Emit(i), i.op \in Operations, i.result = Result,
         i.op \in {"load", "store", "gep"} => MadeIn(blocks, f, i.operands[1]),
         UNCHANGED <<scopes, returns>>,
         Continue(tasks), AllPending(blocks', f, tasks)
  PROVE  IInv'
  <1>1. /\ Grown(blocks, blocks', insert, {i})
        /\ serial' = serial + 1 /\ serial' \in Nat /\ serial <= serial'
        /\ BlockOf(blocks', f, insert')
        /\ IsSequence(scopes) /\ ScopeIn(scopes, blocks', f)
        /\ \A address : MadeIn(blocks, f, address) => MadeIn(blocks', f, address)
    BY EmitFacts
  <1>2. Sound(blocks', f, serial', i)
    BY <1>1, MadeNow DEF Busy, IInv, StateTyped
  <1>3. IsSequence(scopes') /\ ScopeIn(scopes', blocks', f)
    BY <1>1
  <1>4. \A j \in {i} : Sound(blocks', f, serial', j)
    BY <1>2
  <1> QED
    BY <1>1, <1>3, <1>4, StaysWithin

\* What holds after a terminator and n new blocks.
LEMMA MoveFacts ==
  ASSUME NEW f, NEW i, NEW n \in Nat, NEW next, Busy(f), EmitAndMove(i, n, next)
  PROVE  /\ Grown(blocks, blocks', insert, {i})
         /\ serial' = serial + 1 /\ serial' \in Nat /\ serial <= serial'
         /\ IsSequence(scopes) /\ ScopeIn(scopes, blocks', f)
         /\ Len(blocks) \in Nat
         /\ \A c \in Len(blocks) + 1 .. Len(blocks) + n : BlockOf(blocks', f, c)
         /\ \A c : BlockOf(blocks, f, c) => BlockOf(blocks', f, c)
  <1>1. insert \in DOMAIN blocks /\ f = blocks[insert].function /\ SoundCode(blocks, serial)
    BY DEF Busy, Within, IInv
  <1>2. blocks' = Appended(i) \o NewBlocks(n)
    BY DEF EmitAndMove
  <1>3. /\ Grown(blocks, blocks', insert, {i})
        /\ \A c \in Len(blocks) + 1 .. Len(blocks) + n : BlockOf(blocks', f, c)
        /\ \A c \in DOMAIN blocks : \A g : BlockOf(blocks, g, c) => BlockOf(blocks', g, c)
    BY <1>1, <1>2, MovedGrown
  <1>4. \A address : MadeIn(blocks, f, address) => MadeIn(blocks', f, address)
    BY <1>3, MadeGrows
  <1>5. IsSequence(scopes) /\ ScopeIn(scopes, blocks', f)
    BY <1>4 DEF Busy, Within, ScopeIn, IInv, StateTyped
  <1>6. serial \in Nat /\ serial' = serial + 1
    BY DEF Busy, IInv, StateTyped, EmitAndMove
  <1>7. Len(blocks) \in Nat
    BY <1>1, IsSequenceFacts DEF SoundCode
  <1>8. \A c : BlockOf(blocks, f, c) => BlockOf(blocks', f, c)
    BY <1>3 DEF BlockOf
  <1> QED
    BY <1>3, <1>5, <1>6, <1>7, <1>8

LEMMA MovingStep ==
  ASSUME NEW f, NEW i, NEW n \in Nat, NEW next, NEW tasks, Busy(f), EmitAndMove(i, n, next),
         i.op \in {"br", "condbr"}, i.result = Result, BlockOf(blocks', f, next),
         UNCHANGED <<scopes, returns>>,
         Continue(tasks), AllPending(blocks', f, tasks)
  PROVE  IInv'
  <1>1. /\ Grown(blocks, blocks', insert, {i})
        /\ serial' = serial + 1 /\ serial' \in Nat /\ serial <= serial'
        /\ IsSequence(scopes) /\ ScopeIn(scopes, blocks', f)
    BY MoveFacts
  <1>2. Sound(blocks', f, serial', i)
    BY <1>1, MadeNow DEF Busy, IInv, StateTyped, Operations, Terminators
  <1>3. IsSequence(scopes') /\ ScopeIn(scopes', blocks', f)
    BY <1>1
  <1>4. \A j \in {i} : Sound(blocks', f, serial', j)
    BY <1>2
  <1>5. BlockOf(blocks', f, insert')
    BY DEF EmitAndMove
  <1> QED
    BY <1>1, <1>3, <1>4, <1>5, StaysWithin

\* What a name of the function stands for has an address of the function.
LEMMA DeclaredMade ==
  ASSUME NEW f, NEW name, Busy(f), Declared(name)
  PROVE  MadeIn(blocks, f, AddressOf(name))
  <1>1. IsSequence(scopes) /\ ScopeIn(scopes, blocks, f)
    BY DEF Busy, IInv, StateTyped, Within
  <1>2. DOMAIN scopes = 1 .. 2
    BY <1>1, IsSequenceFacts DEF ScopeIn
  <1> DEFINE I == {i \in DOMAIN scopes : name \in DOMAIN scopes[i]}
  <1>3. I = {2}
    BY <1>1, <1>2 DEF ScopeIn, Declared
  <1>4. Max({2}) = 2
    <2>1. {2} \subseteq 0 .. 2 /\ {2} # {}
      OBVIOUS
    <2> QED
      BY <2>1, MaxOfBounded
  <1>5. SymbolOf(name) = scopes[2][name]
    BY <1>3, <1>4 DEF SymbolOf
  <1>6. name \in DOMAIN scopes[2]
    BY <1>3
  <1> QED
    BY <1>1, <1>5, <1>6 DEF ScopeIn, AddressOf

---------------------------------------------------------------------------
\* The handlers of expressions.
LEMMA ExpressionStep == IInv /\ Expression => IInv'
  <1> SUFFICES ASSUME IInv, Expression PROVE IInv'
    OBVIOUS
  <1> DEFINE f == blocks[insert].function
  <1>0. {"fatal", "crash", "error"} \subseteq Stages \ {"running"}
    BY DEF Stages
  <1>1. CASE VisitLiteral
    <2>1. Busy(f)
      BY <1>1, VisitWithin DEF VisitLiteral
    <2>2. UNCHANGED <<scopes, returns, ir>> /\ Continue(<<>>)
      BY <1>1 DEF VisitLiteral, ir
    <2> QED
      BY <2>1, <2>2, NoTasks, QuietStep
  <1>2. CASE VisitVariable
    <2>1. Busy(f)
      BY <1>2, VisitWithin DEF VisitVariable
    <2>2. CASE ~Declared(Task.node.name)
      BY <1>0, <1>2, <2>2, GivesUp DEF VisitVariable
    <2>3. CASE Declared(Task.node.name)
      <3> DEFINE i == Instruction("load", <<AddressOf(Task.node.name)>>)
      <3>1. MadeIn(blocks, f, AddressOf(Task.node.name))
        BY <2>1, <2>3, DeclaredMade
      <3>2. /\ i.op = "load" /\ i.op \in Operations /\ i.result = Result
            /\ i.operands[1] = AddressOf(Task.node.name)
        BY DEF Instruction, Operations
      <3>3. Emit(i) /\ Continue(<<>>) /\ UNCHANGED <<scopes, returns>>
        BY <1>2, <2>3 DEF VisitVariable
      <3> HIDE DEF i
      <3> QED
        BY <2>1, <3>1, <3>2, <3>3, NoTasks, EmittingStep
    <2> QED
      BY <2>2, <2>3
  <1>3. CASE VisitOperation
    <2>1. Busy(f) /\ {Task.node.left, Task.node.right} \subseteq Nodes
      BY <1>3, VisitWithin DEF VisitOperation, WellFormed
    <2> DEFINE t == [do |-> "right", node |-> Task.node]
    <2>2. Pending(blocks, f, t)
      BY <2>1 DEF Pending, Tasks
    <2>3. UNCHANGED <<scopes, returns, ir>> /\ Continue(<<Visit(Task.node.left), t>>)
      BY <1>3 DEF VisitOperation, context, ir
    <2> HIDE DEF t
    <2>4. AllPending(blocks, f, <<Visit(Task.node.left), t>>)
      BY <2>1, <2>2, VisitPending, TwoTasks
    <2> QED
      BY <2>1, <2>3, <2>4, QuietStep
  <1>4. CASE VisitRight
    <2>1. Busy(f) /\ Task.do = "right"
      BY <1>4, TaskWithin DEF VisitRight, Doing
    <2>2. Task.node.right \in Nodes
      BY <2>1 DEF Busy, Pending
    <2> DEFINE t == [do |-> "operate", left |-> temporary]
    <2>3. Pending(blocks, f, t)
      BY DEF Pending, Tasks
    <2>4. UNCHANGED <<scopes, returns, ir>> /\ Continue(<<Visit(Task.node.right), t>>)
      BY <1>4 DEF VisitRight, context, ir
    <2> HIDE DEF t
    <2>5. AllPending(blocks, f, <<Visit(Task.node.right), t>>)
      BY <2>2, <2>3, VisitPending, TwoTasks
    <2> QED
      BY <2>1, <2>4, <2>5, QuietStep
  <1>5. CASE Operate
    <2>1. Busy(f)
      BY <1>5, TaskWithin DEF Operate
    <2>2. CASE GiveUp("crash")
      BY <1>0, <2>2, GivesUp
    <2> DEFINE i == Instruction("operation", <<Task.left, temporary>>)
    <2>3. CASE Emit(i) /\ Continue(<<>>) /\ UNCHANGED <<scopes, returns>>
      <3>1. i.op = "operation" /\ i.op \in Operations /\ i.result = Result
        BY DEF Instruction, Operations
      <3> HIDE DEF i
      <3> QED
        BY <2>1, <2>3, <3>1, NoTasks, EmittingStep
    <2> QED
      BY <1>5, <2>2, <2>3 DEF Operate
  <1>6. CASE VisitNegation
    <2>1. Busy(f) /\ Task.node.operand \in Nodes
      BY <1>6, VisitWithin DEF VisitNegation, WellFormed
    <2> DEFINE t == [do |-> "negate"]
    <2>2. Pending(blocks, f, t)
      BY DEF Pending, Tasks
    <2>3. UNCHANGED <<scopes, returns, ir>> /\ Continue(<<Visit(Task.node.operand), t>>)
      BY <1>6 DEF VisitNegation, context, ir
    <2> HIDE DEF t
    <2>4. AllPending(blocks, f, <<Visit(Task.node.operand), t>>)
      BY <2>1, <2>2, VisitPending, TwoTasks
    <2> QED
      BY <2>1, <2>3, <2>4, QuietStep
  <1>7. CASE Negate
    <2>1. Busy(f)
      BY <1>7, TaskWithin DEF Negate
    <2>2. CASE GiveUp("crash")
      BY <1>0, <2>2, GivesUp
    <2> DEFINE i == Instruction("not", <<temporary>>)
    <2>3. CASE Emit(i) /\ Continue(<<>>) /\ UNCHANGED <<scopes, returns>>
      <3>1. i.op = "not" /\ i.op \in Operations /\ i.result = Result
        BY DEF Instruction, Operations
      <3> HIDE DEF i
      <3> QED
        BY <2>1, <2>3, <3>1, NoTasks, EmittingStep
    <2> QED
      BY <1>7, <2>2, <2>3 DEF Negate
  <1> QED
    BY <1>1, <1>2, <1>3, <1>4, <1>5, <1>6, <1>7 DEF Expression

\* The handlers of pointers and elements of arrays.
LEMMA PlaceStep == IInv /\ Place => IInv'
  <1> SUFFICES ASSUME IInv, Place PROVE IInv'
    OBVIOUS
  <1> DEFINE f == blocks[insert].function
  <1>0. {"fatal", "crash", "error"} \subseteq Stages \ {"running"}
    BY DEF Stages
  <1>1. CASE VisitRef
    <2>1. Busy(f)
      BY <1>1, VisitWithin DEF VisitRef
    <2>2. CASE GiveUp("error")
      BY <1>0, <2>2, GivesUp
    <2>3. CASE UNCHANGED <<scopes, returns, ir>> /\ Continue(<<>>)
      BY <2>1, <2>3, NoTasks, QuietStep
    <2> QED
      BY <1>1, <2>2, <2>3 DEF VisitRef, ir
  <1>2. CASE VisitUnref
    <2>1. Busy(f)
      BY <1>2, VisitWithin DEF VisitUnref
    <2>2. CASE GiveUp("fatal")
      BY <1>0, <2>2, GivesUp
    <2> DEFINE i == Instruction("load", <<AddressOf(Task.node.name)>>)
    <2>3. CASE /\ Declared(Task.node.name)
               /\ Emit(i) /\ Continue(<<LoadFrom(Result)>>) /\ UNCHANGED <<scopes, returns>>
      <3>1. MadeIn(blocks, f, AddressOf(Task.node.name))
        BY <2>1, <2>3, DeclaredMade
      <3>2. /\ i.op = "load" /\ i.op \in Operations /\ i.result = Result
            /\ i.operands[1] = AddressOf(Task.node.name)
        BY DEF Instruction, Operations
      <3> HIDE DEF i
      <3>3. MadeIn(blocks', f, Result)
        BY <2>1, <2>3, <3>2, EmitFacts
      <3>4. AllPending(blocks', f, <<LoadFrom(Result)>>)
        BY <3>3, OneTask DEF Pending, Tasks, LoadFrom
      <3> QED
        BY <2>1, <2>3, <3>1, <3>2, <3>4, EmittingStep
    <2> QED
      BY <1>2, <2>2, <2>3 DEF VisitUnref, context
  <1>3. CASE VisitRead
    <2>1. Busy(f) /\ Task.node.index \in Nodes
      BY <1>3, VisitWithin DEF VisitRead, WellFormed
    <2>2. CASE GiveUp("fatal")
      BY <1>0, <2>2, GivesUp
    <2> DEFINE t == [do |-> "read", array |-> SymbolOf(Task.node.name)]
    <2>3. CASE /\ Declared(Task.node.name) /\ UNCHANGED <<scopes, returns, ir>>
               /\ Continue(<<Visit(Task.node.index), t>>)
      <3>1. MadeIn(blocks, f, AddressOf(Task.node.name))
        BY <2>1, <2>3, DeclaredMade
      <3>2. Pending(blocks, f, t)
        BY <3>1 DEF Pending, Tasks, AddressOf
      <3> HIDE DEF t
      <3>3. AllPending(blocks, f, <<Visit(Task.node.index), t>>)
        BY <2>1, <3>2, VisitPending, TwoTasks
      <3> QED
        BY <2>1, <2>3, <3>3, QuietStep
    <2> QED
      BY <1>3, <2>2, <2>3 DEF VisitRead, context, ir
  <1>4. CASE EndRead
    <2>1. Busy(f) /\ Task.do = "read"
      BY <1>4, TaskWithin DEF EndRead, Doing
    <2>2. CASE GiveUp("crash")
      BY <1>0, <2>2, GivesUp
    <2> DEFINE i == Element(Task.array.address, temporary)
    <2>3. CASE Emit(i) /\ Continue(<<LoadFrom(Result)>>) /\ UNCHANGED <<scopes, returns>>
      <3>1. MadeIn(blocks, f, Task.array.address)
        BY <2>1 DEF Busy, Pending
      <3>2. /\ i.op = "gep" /\ i.op \in Operations /\ i.result = Result
            /\ i.operands[1] = Task.array.address
        BY DEF Element, Instruction, Operations
      <3> HIDE DEF i
      <3>3. MadeIn(blocks', f, Result)
        BY <2>1, <2>3, <3>2, EmitFacts
      <3>4. AllPending(blocks', f, <<LoadFrom(Result)>>)
        BY <3>3, OneTask DEF Pending, Tasks, LoadFrom
      <3> QED
        BY <2>1, <2>3, <3>1, <3>2, <3>4, EmittingStep
    <2> QED
      BY <1>4, <2>2, <2>3 DEF EndRead, context
  <1>5. CASE Load
    <2>1. Busy(f) /\ Task.do = "load"
      BY <1>5, TaskWithin DEF Load, Doing
    <2> DEFINE i == Instruction("load", <<Task.address>>)
    <2>2. Emit(i) /\ Continue(<<>>) /\ UNCHANGED <<scopes, returns>>
      BY <1>5 DEF Load
    <2>3. MadeIn(blocks, f, Task.address)
      BY <2>1 DEF Busy, Pending
    <2>4. /\ i.op = "load" /\ i.op \in Operations /\ i.result = Result
          /\ i.operands[1] = Task.address
      BY DEF Instruction, Operations
    <2> HIDE DEF i
    <2> QED
      BY <2>1, <2>2, <2>3, <2>4, NoTasks, EmittingStep
  <1>6. CASE Store
    <2>1. Busy(f) /\ Task.do = "store"
      BY <1>6, TaskWithin DEF Store, Doing
    <2> DEFINE i == Instruction("store", <<Task.address, Task.value>>)
    <2>2. Emit(i) /\ Continue(<<>>) /\ UNCHANGED <<scopes, returns>>
      BY <1>6 DEF Store
    <2>3. MadeIn(blocks, f, Task.address)
      BY <2>1 DEF Busy, Pending
    <2>4. /\ i.op = "store" /\ i.op \in Operations /\ i.result = Result
          /\ i.operands[1] = Task.address
      BY DEF Instruction, Operations
    <2> HIDE DEF i
    <2> QED
      BY <2>1, <2>2, <2>3, <2>4, NoTasks, EmittingStep
  <1>7. CASE VisitInitialisation
    <2>1. Busy(f)
      BY <1>7, VisitWithin DEF VisitInitialisation
    <2>2. UNCHANGED <<scopes, returns, ir>> /\ Continue(<<>>)
      BY <1>7 DEF VisitInitialisation, ir
    <2> QED
      BY <2>1, <2>2, NoTasks, QuietStep
  <1> QED
    BY <1>1, <1>2, <1>3, <1>4, <1>5, <1>6, <1>7 DEF Place

\* The handlers of calls.
LEMMA ArgumentsPending ==
  ASSUME NEW f, NEW node, node.arguments \in Seq(Nodes), NEW i \in Nat \ {0}
  PROVE  AllPending(blocks, f, ArgumentTasks(node, i))
  <1> DEFINE add == [do |-> "add", node |-> node, index |-> i]
             call == [do |-> "call", node |-> node]
  <1>1. Pending(blocks, f, add) /\ Pending(blocks, f, call)
    BY DEF Pending, Tasks
  <1>2. CASE i <= Len(node.arguments)
    <2>1. node.arguments[i] \in Nodes
      BY <1>2
    <2>2. ArgumentTasks(node, i) = <<Visit(node.arguments[i]), add>>
      BY <1>2 DEF ArgumentTasks
    <2> HIDE DEF add
    <2> QED
      BY <1>1, <2>1, <2>2, VisitPending, TwoTasks
  <1>3. CASE ~(i <= Len(node.arguments))
    <2>1. ArgumentTasks(node, i) = <<call>>
      BY <1>3 DEF ArgumentTasks
    <2> HIDE DEF call
    <2> QED
      BY <1>1, <2>1, OneTask
  <1> QED
    BY <1>2, <1>3

LEMMA CallStep == IInv /\ Call => IInv'
  <1> SUFFICES ASSUME IInv, Call PROVE IInv'
    OBVIOUS
  <1> DEFINE f == blocks[insert].function
  <1>0. {"fatal", "crash", "error"} \subseteq Stages \ {"running"}
    BY DEF Stages
  <1>1. CASE VisitCall
    <2>1. Busy(f) /\ Task.node.arguments \in Seq(Nodes)
      BY <1>1, VisitWithin DEF VisitCall, WellFormed
    <2>2. UNCHANGED <<scopes, returns, ir>>
      BY <1>1 DEF VisitCall, ir
    <2>3. CASE Continue(ArgumentTasks(Task.node, 1))
      <3>1. AllPending(blocks, f, ArgumentTasks(Task.node, 1))
        BY <2>1, ArgumentsPending
      <3> QED
        BY <2>1, <2>2, <2>3, <3>1, QuietStep
    <2>4. CASE status' = "fatal" /\ UNCHANGED agenda
      BY <1>0, <2>2, <2>4 DEF IInv, ir, AgendaTyped, StateTyped, ContextInv
    <2> QED
      BY <1>1, <2>3, <2>4 DEF VisitCall
  <1>2. CASE AddArgument
    <2>1. Busy(f) /\ Task.do = "add"
      BY <1>2, TaskWithin DEF AddArgument, Doing
    <2>2. CASE GiveUp("fatal")
      BY <1>0, <2>2, GivesUp
    <2>3. CASE /\ UNCHANGED <<scopes, returns, ir>>
               /\ Continue(ArgumentTasks(Task.node, Task.index + 1))
      <3>1. Task.node.arguments \in Seq(Nodes) /\ Task.index + 1 \in Nat \ {0}
        BY <2>1 DEF Busy, Pending
      <3>2. AllPending(blocks, f, ArgumentTasks(Task.node, Task.index + 1))
        BY <3>1, ArgumentsPending
      <3> QED
        BY <2>1, <2>3, <3>2, QuietStep
    <2> QED
      BY <1>2, <2>2, <2>3 DEF AddArgument, ir
  <1>3. CASE EmitCall
    <2>1. Busy(f)
      BY <1>3, TaskWithin DEF EmitCall
    <2> DEFINE i == Instruction("call", <<Task.node.name, arguments>>)
    <2>2. Emit(i) /\ Continue(<<>>) /\ UNCHANGED <<scopes, returns>>
      BY <1>3 DEF EmitCall
    <2>3. i.op = "call" /\ i.op \in Operations /\ i.result = Result
      BY DEF Instruction, Operations
    <2> HIDE DEF i
    <2> QED
      BY <2>1, <2>2, <2>3, NoTasks, EmittingStep
  <1>4. CASE VisitPrint
    <2>1. Busy(f) /\ Task.node.arguments \in Seq(Nodes)
      BY <1>4, VisitWithin DEF VisitPrint, WellFormed
    <2>2. UNCHANGED <<scopes, returns, ir>>
      BY <1>4 DEF VisitPrint, context, ir
    <2>3. CASE Task.node.arguments = <<>>
      <3>1. Continue(<<>>)
        BY <1>4, <2>3 DEF VisitPrint
      <3> QED
        BY <2>1, <2>2, <3>1, NoTasks, QuietStep
    <2>4. CASE Task.node.arguments # <<>>
      <3> DEFINE t == [do |-> "print"]
      <3>1. Continue(<<Visit(Task.node.arguments[1]), t>>)
        BY <1>4, <2>4 DEF VisitPrint
      <3>2. Task.node.arguments[1] \in Nodes
        BY <2>1, <2>4
      <3>3. Pending(blocks, f, t)
        BY DEF Pending, Tasks
      <3> HIDE DEF t
      <3>4. AllPending(blocks, f, <<Visit(Task.node.arguments[1]), t>>)
        BY <3>2, <3>3, VisitPending, TwoTasks
      <3> QED
        BY <2>1, <2>2, <3>1, <3>4, QuietStep
    <2> QED
      BY <2>3, <2>4
  <1>5. CASE EmitPrint
    <2>1. Busy(f)
      BY <1>5, TaskWithin DEF EmitPrint
    <2>2. CASE GiveUp("fatal")
      BY <1>0, <2>2, GivesUp
    <2> DEFINE i == Instruction("call", <<"print", <<temporary>>>>)
    <2>3. CASE Emit(i) /\ Continue(<<>>) /\ UNCHANGED <<scopes, returns>>
      <3>1. i.op = "call" /\ i.op \in Operations /\ i.result = Result
        BY DEF Instruction, Operations
      <3> HIDE DEF i
      <3> QED
        BY <2>1, <2>3, <3>1, NoTasks, EmittingStep
    <2> QED
      BY <1>5, <2>2, <2>3 DEF EmitPrint
  <1> QED
    BY <1>1, <1>2, <1>3, <1>4, <1>5 DEF Call

\* The handlers of declarations and assignments.
LEMMA AllocateFacts ==
  ASSUME NEW f, Busy(f), Allocate
  PROVE  /\ Grown(blocks, blocks', insert, {Instruction("alloca", <<>>)})
         /\ insert \in DOMAIN blocks /\ f = blocks[insert].function
         /\ serial' = serial + 1 /\ serial' \in Nat /\ serial <= serial'
         /\ BlockOf(blocks', f, insert')
         /\ IsSequence(scopes) /\ ScopeIn(scopes, blocks', f)
         /\ MadeIn(blocks', f, Result)
         /\ Sound(blocks', f, serial', Instruction("alloca", <<>>))
  <1> DEFINE i == Instruction("alloca", <<>>)
  <1>0. i.op = "alloca" /\ i.op \in Operations /\ i.result = Result
    BY DEF Instruction, Operations
  <1>1. insert \in DOMAIN blocks /\ f = blocks[insert].function
    BY DEF Busy, Within
  <1>2. Grown(blocks, blocks', insert, {i})
    BY <1>1, AllocatedGrown DEF Busy, IInv
  <1> HIDE DEF i
  <1>3. \A address : MadeIn(blocks, f, address) => MadeIn(blocks', f, address)
    BY <1>2, MadeGrows
  <1>4. MadeIn(blocks', f, Result)
    BY <1>0, <1>1, <1>2, MadeNew
  <1>5. BlockOf(blocks', f, insert')
    BY <1>1, <1>2 DEF BlockOf, Grown, Allocate
  <1>6. IsSequence(scopes) /\ ScopeIn(scopes, blocks', f)
    BY <1>3 DEF Busy, Within, ScopeIn, IInv, StateTyped
  <1>7. serial \in Nat /\ serial' = serial + 1
    BY DEF Busy, IInv, StateTyped, Allocate
  <1>8. Sound(blocks', f, serial', i)
    BY <1>0, <1>7, MadeNow
  <1> QED
    BY <1>1, <1>2, <1>4, <1>5, <1>6, <1>7, <1>8 DEF i

LEMMA AllocatingStep ==
  ASSUME NEW f, NEW tasks, Busy(f), Allocate, UNCHANGED <<scopes, returns>>,
         Continue(tasks), AllPending(blocks', f, tasks)
  PROVE  IInv'
  <1> DEFINE i == Instruction("alloca", <<>>)
  <1>1. /\ Grown(blocks, blocks', insert, {i})
        /\ serial' \in Nat /\ serial <= serial'
        /\ BlockOf(blocks', f, insert')
        /\ IsSequence(scopes) /\ ScopeIn(scopes, blocks', f)
        /\ Sound(blocks', f, serial', i)
    BY AllocateFacts
  <1> HIDE DEF i
  <1>2. IsSequence(scopes') /\ ScopeIn(scopes', blocks', f)
    BY <1>1
  <1>3. \A j \in {i} : Sound(blocks', f, serial', j)
    BY <1>1
  <1> QED
    BY <1>1, <1>2, <1>3, StaysWithin

\* A name bound to an address of the function.
LEMMA BindFacts ==
  ASSUME NEW f, NEW bs, NEW name, NEW symbol, status = "running",
         Bind(name, symbol), IsSequence(scopes), ScopeIn(scopes, bs, f),
         MadeIn(bs, f, symbol.address)
  PROVE  /\ IsSequence(scopes') /\ ScopeIn(scopes', bs, f)
         /\ Continue(<<>>) \/ (status' = "error" /\ UNCHANGED agenda)
  <1>1. CASE name \in DOMAIN Last(scopes)
    BY <1>1 DEF Bind
  <1>2. CASE name \notin DOMAIN Last(scopes)
    <2>1. DOMAIN scopes = 1 .. 2 /\ Len(scopes) = 2
      BY IsSequenceFacts DEF ScopeIn
    <2> DEFINE scope == [n \in DOMAIN scopes[2] \cup {name} |->
                           IF n = name THEN symbol ELSE scopes[2][n]]
    <2>2. scopes' = [scopes EXCEPT ![2] = scope] /\ Continue(<<>>)
      BY <1>2, <2>1 DEF Bind
    <2>3. \A n \in DOMAIN scope : MadeIn(bs, f, scope[n].address)
      <3>1. /\ DOMAIN scope = DOMAIN scopes[2] \cup {name}
            /\ \A n \in DOMAIN scopes[2] : n # name => scope[n] = scopes[2][n]
            /\ scope[name] = symbol
        OBVIOUS
      <3>2. name \notin DOMAIN scopes[2]
        BY <1>2, <2>1 DEF Last
      <3> HIDE DEF scope
      <3> QED
        BY <3>1, <3>2 DEF ScopeIn
    <2> HIDE DEF scope
    <2> DEFINE ss == [scopes EXCEPT ![2] = scope]
    <2>4. /\ IsSequence(ss) /\ Len(ss) = Len(scopes)
          /\ \A j \in DOMAIN scopes : ss[j] = IF j = 2 THEN scope ELSE scopes[j]
      BY ExceptFacts
    <2> HIDE DEF ss
    <2>5. ss[1] = scopes[1] /\ ss[2] = scope /\ Len(ss) = 2
      BY <2>1, <2>4
    <2>6. ScopeIn(ss, bs, f)
      BY <2>3, <2>5 DEF ScopeIn
    <2> QED
      BY <2>2, <2>4, <2>6 DEF ss
  <1> QED
    BY <1>1, <1>2

LEMMA DeclarationStep ==
  ASSUME IInv, VisitDeclaration \/ EndDeclaration
  PROVE  IInv'
  <1> DEFINE f == blocks[insert].function
             node == Task.node
  <1>1. CASE VisitDeclaration
    <2>1. Busy(f) /\ node.expression \in Nodes
      BY <1>1, VisitWithin DEF VisitDeclaration, WellFormed
    <2> DEFINE t == [do |-> "declare", name |-> node.name, symbol |-> Symbol(Result, node.type)]
    <2>2. Allocate /\ UNCHANGED <<scopes, returns>> /\ Continue(<<Visit(node.expression), t>>)
      BY <1>1 DEF VisitDeclaration, context
    <2>3. MadeIn(blocks', f, Result)
      BY <2>1, <2>2, AllocateFacts
    <2>4. Pending(blocks', f, t)
      BY <2>3 DEF Pending, Tasks, Symbol
    <2> HIDE DEF t
    <2>5. AllPending(blocks', f, <<Visit(node.expression), t>>)
      BY <2>1, <2>4, VisitPending, TwoTasks
    <2> QED
      BY <2>1, <2>2, <2>5, AllocatingStep
  <1>2. CASE EndDeclaration
    <2>1. Busy(f) /\ Task.do = "declare"
      BY <1>2, TaskWithin DEF EndDeclaration, Doing
    <2>2. CASE temporary = NoValue
      <3>1. UNCHANGED <<scopes, returns, ir>> /\ Continue(<<>>)
        BY <1>2, <2>2 DEF EndDeclaration
      <3> QED
        BY <2>1, <3>1, NoTasks, QuietStep
    <2>3. CASE temporary # NoValue
      <3> DEFINE i == Instruction("store", <<Task.symbol.address, temporary>>)
      <3>1. Emit(i) /\ Bind(Task.name, Task.symbol) /\ UNCHANGED returns
        BY <1>2, <2>3 DEF EndDeclaration
      <3>2. MadeIn(blocks, f, Task.symbol.address)
        BY <2>1 DEF Busy, Pending
      <3>3. /\ i.op = "store" /\ i.op \in Operations /\ i.result = Result
            /\ i.operands[1] = Task.symbol.address
        BY DEF Instruction, Operations
      <3> HIDE DEF i
      <3>4. /\ Grown(blocks, blocks', insert, {i})
            /\ serial' = serial + 1 /\ serial' \in Nat /\ serial <= serial'
            /\ BlockOf(blocks', f, insert')
            /\ IsSequence(scopes) /\ ScopeIn(scopes, blocks', f)
            /\ \A address : MadeIn(blocks, f, address) => MadeIn(blocks', f, address)
        BY <2>1, <3>1, EmitFacts
      <3>5. \A j \in {i} : Sound(blocks', f, serial', j)
        BY <2>1, <3>2, <3>3, <3>4, MadeNow DEF Busy, IInv, StateTyped
      <3>6. /\ IsSequence(scopes') /\ ScopeIn(scopes', blocks', f)
            /\ Continue(<<>>) \/ (status' = "error" /\ UNCHANGED agenda)
        BY <2>1, <3>1, <3>2, <3>4, BindFacts DEF Busy
      <3> DEFINE tasks == <<>>
      <3>7. \/ Continue(tasks) /\ AllPending(blocks', f, tasks)
            \/ status' \in Stages \ {"running"} /\ UNCHANGED agenda
        BY <3>6, NoTasks DEF Stages
      <3> HIDE DEF tasks
      <3> QED
        BY <2>1, <3>1, <3>4, <3>5, <3>6, <3>7, StaysWithin
    <2> QED
      BY <2>2, <2>3
  <1> QED
    BY <1>1, <1>2

LEMMA ArrayStep ==
  ASSUME IInv, VisitArrayDeclaration \/ VisitElement \/ FillElement \/ EndArrayDeclaration
  PROVE  IInv'
  <1> DEFINE f == blocks[insert].function
             node == Task.node
  <1>0. {"fatal", "crash", "error"} \subseteq Stages \ {"running"}
    BY DEF Stages
  <1>1. CASE VisitArrayDeclaration
    <2>1. Busy(f) /\ node.expression \in Nodes /\ node.expression.kind = "initialisation"
      BY <1>1, VisitWithin DEF VisitArrayDeclaration, WellFormed
    <2>2. node.expression.elements \in Seq(Nodes)
      BY <2>1, ProgramAssumption DEF WellFormed
    <2>3. CASE GiveUp("fatal")
      BY <1>0, <2>3, GivesUp
    <2> DEFINE t == [do |-> "element", node |-> node, array |-> Result, index |-> 1]
    <2>4. CASE Allocate /\ UNCHANGED <<scopes, returns>> /\ Continue(<<t>>)
      <3>1. MadeIn(blocks', f, Result)
        BY <2>1, <2>4, AllocateFacts
      <3>2. Pending(blocks', f, t)
        BY <2>2, <3>1 DEF Pending, Tasks
      <3> HIDE DEF t
      <3> QED
        BY <2>1, <2>4, <3>2, OneTask, AllocatingStep
    <2> QED
      BY <1>1, <2>3, <2>4 DEF VisitArrayDeclaration, context
  <1>2. CASE VisitElement
    <2> DEFINE elements == node.expression.elements
               i == Element(Task.array, Constant(Task.index - 1))
               fill == [do |-> "fill", address |-> Result]
               more == [Task EXCEPT !.index = Task.index + 1]
    <2>1. Busy(f) /\ Task.do = "element"
      BY <1>2, TaskWithin DEF VisitElement, Doing
    <2>2. /\ DOMAIN Task = {"do", "node", "array", "index"}
          /\ MadeIn(blocks, f, Task.array) /\ elements \in Seq(Nodes) /\ Task.index \in Nat \ {0}
      BY <2>1 DEF Busy, Pending
    <2>3. /\ Task.index <= Len(elements) /\ Emit(i) /\ UNCHANGED <<scopes, returns>>
          /\ Continue(<<Visit(elements[Task.index]), fill, more>>)
      BY <1>2 DEF VisitElement, context
    <2>4. elements[Task.index] \in Nodes
      BY <2>2, <2>3
    <2>5. i.op = "gep" /\ i.op \in Operations /\ i.result = Result /\ i.operands[1] = Task.array
      BY DEF Element, Instruction, Operations
    <2> HIDE DEF i
    <2>6. /\ MadeIn(blocks', f, Result)
          /\ \A address : MadeIn(blocks, f, address) => MadeIn(blocks', f, address)
      BY <2>1, <2>3, <2>5, EmitFacts
    <2>7. Pending(blocks', f, fill)
      BY <2>6 DEF Pending, Tasks
    <2>8. /\ more.do = "element" /\ more.index = Task.index + 1
          /\ more.node = node /\ more.array = Task.array
          /\ DOMAIN more = {"do", "node", "array", "index"}
      BY <2>1, <2>2
    <2> HIDE DEF more
    <2>9. Pending(blocks', f, more)
      BY <2>2, <2>6, <2>8 DEF Pending, Tasks
    <2> HIDE DEF fill, elements
    <2>10. AllPending(blocks', f, <<Visit(elements[Task.index]), fill, more>>)
      BY <2>4, <2>7, <2>9, VisitPending, ThreeTasks
    <2> QED
      BY <2>1, <2>2, <2>3, <2>5, <2>10, EmittingStep
  <1>3. CASE FillElement
    <2>1. Busy(f) /\ Task.do = "fill"
      BY <1>3, TaskWithin DEF FillElement, Doing
    <2>2. CASE GiveUp("crash")
      BY <1>0, <2>2, GivesUp
    <2> DEFINE i == Instruction("store", <<Task.address, temporary>>)
    <2>3. CASE Emit(i) /\ Continue(<<>>) /\ UNCHANGED <<scopes, returns>>
      <3>1. MadeIn(blocks, f, Task.address)
        BY <2>1 DEF Busy, Pending
      <3>2. /\ i.op = "store" /\ i.op \in Operations /\ i.result = Result
            /\ i.operands[1] = Task.address
        BY DEF Instruction, Operations
      <3> HIDE DEF i
      <3> QED
        BY <2>1, <2>3, <3>1, <3>2, NoTasks, EmittingStep
    <2> QED
      BY <1>3, <2>2, <2>3 DEF FillElement, context
  <1>4. CASE EndArrayDeclaration
    <2>1. Busy(f) /\ Task.do = "element"
      BY <1>4, TaskWithin DEF EndArrayDeclaration, Doing
    <2> DEFINE symbol == Symbol(Task.array, "array")
    <2>2. Bind(node.name, symbol) /\ UNCHANGED <<returns, blocks, insert, serial>>
      BY <1>4 DEF EndArrayDeclaration, ir
    <2>3. MadeIn(blocks, f, symbol.address)
      BY <2>1 DEF Busy, Pending, Symbol
    <2> HIDE DEF symbol
    <2>4. IsSequence(scopes) /\ ScopeIn(scopes, blocks, f) /\ serial \in Nat
      BY <2>1 DEF Busy, IInv, StateTyped, Within
    <2>5. /\ IsSequence(scopes') /\ ScopeIn(scopes', blocks, f)
          /\ Continue(<<>>) \/ (status' = "error" /\ UNCHANGED agenda)
      BY <2>1, <2>2, <2>3, <2>4, BindFacts DEF Busy
    <2> DEFINE none == {}
    <2>6. Grown(blocks, blocks', insert, none) /\ \A j \in none : Sound(blocks', f, serial', j)
      BY <2>1, <2>2, NothingGrown DEF Busy, IInv
    <2> HIDE DEF none
    <2>7. BlockOf(blocks', f, insert')
      BY <2>1, <2>2 DEF BlockOf, Busy, Within
    <2> DEFINE tasks == <<>>
    <2>8. \/ Continue(tasks) /\ AllPending(blocks', f, tasks)
          \/ status' \in Stages \ {"running"} /\ UNCHANGED agenda
      BY <2>5, NoTasks DEF Stages
    <2> HIDE DEF tasks
    <2>9. ScopeIn(scopes', blocks', f) /\ serial' \in Nat /\ serial <= serial'
      BY <2>2, <2>4, <2>5
    <2> QED
      BY <2>1, <2>2, <2>5, <2>6, <2>7, <2>8, <2>9, StaysWithin
  <1> QED
    BY <1>1, <1>2, <1>3, <1>4

LEMMA StorePending ==
  ASSUME NEW bs, NEW f, NEW address, NEW value, MadeIn(bs, f, address)
  PROVE  AllPending(bs, f, <<StoreTo(address, value)>>)
  <1>1. Pending(bs, f, StoreTo(address, value))
    BY DEF Pending, Tasks, StoreTo
  <1> QED
    BY <1>1, OneTask

LEMMA AssignmentStep ==
  ASSUME IInv, VisitAssignment \/ EndAssignment
  PROVE  IInv'
  <1> DEFINE f == blocks[insert].function
  <1>0. {"fatal", "crash", "error"} \subseteq Stages \ {"running"}
    BY DEF Stages
  <1>1. CASE VisitAssignment
    <2>1. Busy(f) /\ Task.node.expression \in Nodes
      BY <1>1, VisitWithin DEF VisitAssignment, WellFormed
    <2> DEFINE t == [do |-> "assign", name |-> Task.node.name]
    <2>2. Pending(blocks, f, t)
      BY DEF Pending, Tasks
    <2>3. UNCHANGED <<scopes, returns, ir>> /\ Continue(<<Visit(Task.node.expression), t>>)
      BY <1>1 DEF VisitAssignment, context, ir
    <2> HIDE DEF t
    <2>4. AllPending(blocks, f, <<Visit(Task.node.expression), t>>)
      BY <2>1, <2>2, VisitPending, TwoTasks
    <2> QED
      BY <2>1, <2>3, <2>4, QuietStep
  <1>2. CASE EndAssignment
    <2> DEFINE place == SymbolOf(Task.name)
               i == Instruction("load", <<place.address>>)
    <2>1. Busy(f)
      BY <1>2, TaskWithin DEF EndAssignment
    <2>2. CASE GiveUp("fatal") \/ GiveUp("crash")
      BY <1>0, <2>2, GivesUp
    <2>3. CASE /\ Declared(Task.name) /\ UNCHANGED <<scopes, returns>>
               /\ Emit(i) /\ Continue(<<StoreTo(Result, temporary)>>)
      <3>1. MadeIn(blocks, f, place.address)
        BY <2>1, <2>3, DeclaredMade DEF AddressOf
      <3>2. /\ i.op = "load" /\ i.op \in Operations /\ i.result = Result
            /\ i.operands[1] = place.address
        BY DEF Instruction, Operations
      <3> HIDE DEF i, place
      <3>3. MadeIn(blocks', f, Result)
        BY <2>1, <2>3, <3>2, EmitFacts
      <3> QED
        BY <2>1, <2>3, <3>1, <3>2, <3>3, StorePending, EmittingStep
    <2>4. CASE /\ Declared(Task.name) /\ UNCHANGED <<scopes, returns, ir>>
               /\ Continue(<<StoreTo(place.address, temporary)>>)
      <3>1. MadeIn(blocks, f, place.address)
        BY <2>1, <2>4, DeclaredMade DEF AddressOf
      <3> HIDE DEF i, place
      <3> QED
        BY <2>1, <2>4, <3>1, StorePending, QuietStep
    <2>5. CASE ~Declared(Task.name)
      BY <1>2, <2>2, <2>5 DEF EndAssignment
    <2>6. CASE Declared(Task.name) /\ temporary = NoValue
      BY <1>2, <2>2, <2>6 DEF EndAssignment
    <2>7. CASE Declared(Task.name) /\ temporary # NoValue
      BY <1>2, <2>3, <2>4, <2>7 DEF EndAssignment, context, ir
    <2> QED
      BY <2>5, <2>6, <2>7
  <1> QED
    BY <1>1, <1>2

LEMMA ElementAssignmentStep ==
  ASSUME IInv, VisitElementAssignment \/ VisitElementValue \/ EndElementAssignment
  PROVE  IInv'
  <1> DEFINE f == blocks[insert].function
  <1>0. {"fatal", "crash", "error"} \subseteq Stages \ {"running"}
    BY DEF Stages
  <1>1. CASE VisitElementAssignment
    <2>1. Busy(f) /\ Task.node.index \in Nodes /\ Task.node.expression \in Nodes
      BY <1>1, VisitWithin DEF VisitElementAssignment, WellFormed
    <2> DEFINE t == [do |-> "indexed", node |-> Task.node]
    <2>2. Pending(blocks, f, t)
      BY <2>1 DEF Pending, Tasks
    <2>3. UNCHANGED <<scopes, returns, ir>> /\ Continue(<<Visit(Task.node.index), t>>)
      BY <1>1 DEF VisitElementAssignment, context, ir
    <2> HIDE DEF t
    <2>4. AllPending(blocks, f, <<Visit(Task.node.index), t>>)
      BY <2>1, <2>2, VisitPending, TwoTasks
    <2> QED
      BY <2>1, <2>3, <2>4, QuietStep
  <1>2. CASE VisitElementValue
    <2>1. Busy(f) /\ Task.do = "indexed"
      BY <1>2, TaskWithin DEF VisitElementValue, Doing
    <2>2. Task.node.expression \in Nodes
      BY <2>1 DEF Busy, Pending
    <2> DEFINE t == [do |-> "assignelement", name |-> Task.node.name, index |-> temporary]
    <2>3. Pending(blocks, f, t)
      BY DEF Pending, Tasks
    <2>4. UNCHANGED <<scopes, returns, ir>> /\ Continue(<<Visit(Task.node.expression), t>>)
      BY <1>2 DEF VisitElementValue, context, ir
    <2> HIDE DEF t
    <2>5. AllPending(blocks, f, <<Visit(Task.node.expression), t>>)
      BY <2>2, <2>3, VisitPending, TwoTasks
    <2> QED
      BY <2>1, <2>4, <2>5, QuietStep
  <1>3. CASE EndElementAssignment
    <2> DEFINE i == Element(AddressOf(Task.name), Task.index)
    <2>1. Busy(f)
      BY <1>3, TaskWithin DEF EndElementAssignment
    <2>2. CASE GiveUp("fatal") \/ GiveUp("crash")
      BY <1>0, <2>2, GivesUp
    <2>3. CASE /\ Declared(Task.name) /\ UNCHANGED <<scopes, returns>>
               /\ Emit(i) /\ Continue(<<StoreTo(Result, temporary)>>)
      <3>1. MadeIn(blocks, f, AddressOf(Task.name))
        BY <2>1, <2>3, DeclaredMade
      <3>2. /\ i.op = "gep" /\ i.op \in Operations /\ i.result = Result
            /\ i.operands[1] = AddressOf(Task.name)
        BY DEF Element, Instruction, Operations
      <3> HIDE DEF i
      <3>3. MadeIn(blocks', f, Result)
        BY <2>1, <2>3, <3>2, EmitFacts
      <3> QED
        BY <2>1, <2>3, <3>1, <3>2, <3>3, StorePending, EmittingStep
    <2>4. CASE ~Declared(Task.name)
      BY <1>3, <2>2, <2>4 DEF EndElementAssignment
    <2>5. CASE /\ Declared(Task.name)
               /\ NoValue \in {Task.index, temporary} \/ TypeOf(Task.name) # "array"
      BY <1>3, <2>2, <2>5 DEF EndElementAssignment
    <2>6. CASE /\ Declared(Task.name)
               /\ ~(NoValue \in {Task.index, temporary} \/ TypeOf(Task.name) # "array")
      BY <1>3, <2>3, <2>6 DEF EndElementAssignment, context
    <2> QED
      BY <2>4, <2>5, <2>6
  <1> QED
    BY <1>1, <1>2, <1>3

LEMMA VariableStep == IInv /\ Variable => IInv'
  BY DeclarationStep, ArrayStep, AssignmentStep, ElementAssignmentStep DEF Variable

\* The handlers of if, while and return.
LEMMA IfStep == IInv /\ If => IInv'
  <1> SUFFICES ASSUME IInv, If PROVE IInv'
    OBVIOUS
  <1> DEFINE f == blocks[insert].function
             node == Task.node
  <1>0. {"fatal", "crash", "error"} \subseteq Stages \ {"running"}
    BY DEF Stages
  <1>1. CASE VisitIf
    <2>1. /\ Busy(f) /\ node.condition \in Nodes
          /\ node.then \in Seq(Nodes) /\ node.else \in Seq(Nodes)
      BY <1>1, VisitWithin DEF VisitIf, WellFormed
    <2> DEFINE t == [do |-> "branch", node |-> node]
    <2>2. Pending(blocks, f, t)
      BY <2>1 DEF Pending, Tasks
    <2>3. UNCHANGED <<scopes, returns, ir>> /\ Continue(<<Visit(node.condition), t>>)
      BY <1>1 DEF VisitIf, context, ir
    <2> HIDE DEF t
    <2>4. AllPending(blocks, f, <<Visit(node.condition), t>>)
      BY <2>1, <2>2, VisitPending, TwoTasks
    <2> QED
      BY <2>1, <2>3, <2>4, QuietStep
  <1>2. CASE BranchOnCondition
    <2> DEFINE first == Len(blocks) + 1
               i == CondBranch(temporary, first, first + 1)
               t == [do |-> "else", node |-> node, else |-> first + 1, end |-> first + 2]
    <2>1. Busy(f) /\ Task.do = "branch"
      BY <1>2, TaskWithin DEF BranchOnCondition, Doing
    <2>2. CASE GiveUp("crash")
      BY <1>0, <2>2, GivesUp
    <2>3. CASE /\ EmitAndMove(i, 3, first) /\ UNCHANGED <<scopes, returns>>
               /\ Continue(VisitAll(node.then) \o <<t>>)
      <3>1. node.then \in Seq(Nodes) /\ node.else \in Seq(Nodes)
        BY <2>1 DEF Busy, Pending
      <3>2. i.op \in {"br", "condbr"} /\ i.result = Result
        BY DEF CondBranch, Instruction
      <3>3. /\ Len(blocks) \in Nat
            /\ \A c \in Len(blocks) + 1 .. Len(blocks) + 3 : BlockOf(blocks', f, c)
        BY <2>1, <2>3, MoveFacts
      <3>4. /\ BlockOf(blocks', f, first) /\ BlockOf(blocks', f, first + 1)
            /\ BlockOf(blocks', f, first + 2)
        BY <3>3
      <3>5. Pending(blocks', f, t)
        BY <3>1, <3>4 DEF Pending, Tasks
      <3> HIDE DEF i, t, first
      <3>6. AllPending(blocks', f, VisitAll(node.then) \o <<t>>)
        BY <3>1, <3>5, BodyTasks
      <3> QED
        BY <2>1, <2>3, <3>2, <3>4, <3>6, MovingStep
    <2> QED
      BY <1>2, <2>2, <2>3 DEF BranchOnCondition, context
  <1>3. CASE BeginElse
    <2> DEFINE i == Branch(Task.end)
               t == [do |-> "endif", end |-> Task.end]
    <2>1. Busy(f) /\ Task.do = "else"
      BY <1>3, TaskWithin DEF BeginElse, Doing
    <2>2. /\ EmitAndMove(i, 0, Task.else) /\ UNCHANGED <<scopes, returns>>
          /\ Continue(VisitAll(node.else) \o <<t>>)
      BY <1>3 DEF BeginElse, context
    <2>3. /\ node.else \in Seq(Nodes)
          /\ BlockOf(blocks, f, Task.else) /\ BlockOf(blocks, f, Task.end)
      BY <2>1 DEF Busy, Pending
    <2>4. i.op \in {"br", "condbr"} /\ i.result = Result
      BY DEF Branch, Instruction
    <2>5. BlockOf(blocks', f, Task.else) /\ BlockOf(blocks', f, Task.end)
      BY <2>1, <2>2, <2>3, MoveFacts
    <2>6. Pending(blocks', f, t)
      BY <2>5 DEF Pending, Tasks
    <2> HIDE DEF i, t
    <2>7. AllPending(blocks', f, VisitAll(node.else) \o <<t>>)
      BY <2>3, <2>6, BodyTasks
    <2> QED
      BY <2>1, <2>2, <2>4, <2>5, <2>7, MovingStep
  <1>4. CASE EndIf
    <2> DEFINE i == Branch(Task.end)
    <2>1. Busy(f) /\ Task.do = "endif"
      BY <1>4, TaskWithin DEF EndIf, Doing
    <2>2. EmitAndMove(i, 0, Task.end) /\ UNCHANGED <<scopes, returns>> /\ Continue(<<>>)
      BY <1>4 DEF EndIf
    <2>3. BlockOf(blocks, f, Task.end)
      BY <2>1 DEF Busy, Pending
    <2>4. i.op \in {"br", "condbr"} /\ i.result = Result
      BY DEF Branch, Instruction
    <2>5. BlockOf(blocks', f, Task.end)
      BY <2>1, <2>2, <2>3, MoveFacts
    <2> HIDE DEF i
    <2> QED
      BY <2>1, <2>2, <2>4, <2>5, NoTasks, MovingStep
  <1> QED
    BY <1>1, <1>2, <1>3, <1>4 DEF If

LEMMA WhileStep == IInv /\ While => IInv'
  <1> SUFFICES ASSUME IInv, While PROVE IInv'
    OBVIOUS
  <1> DEFINE f == blocks[insert].function
             node == Task.node
  <1>0. {"fatal", "crash", "error"} \subseteq Stages \ {"running"}
    BY DEF Stages
  <1>1. CASE VisitWhile
    <2> DEFINE first == Len(blocks) + 1
               i == Branch(first)
               t == [do |-> "loop", node |-> node, condition |-> first]
    <2>1. Busy(f) /\ node.condition \in Nodes /\ node.body \in Seq(Nodes)
      BY <1>1, VisitWithin DEF VisitWhile, WellFormed
    <2>2. /\ EmitAndMove(i, 3, first) /\ UNCHANGED <<scopes, returns>>
          /\ Continue(<<Visit(node.condition), t>>)
      BY <1>1 DEF VisitWhile, context
    <2>3. i.op \in {"br", "condbr"} /\ i.result = Result
      BY DEF Branch, Instruction
    <2>4. /\ Len(blocks) \in Nat
          /\ \A c \in Len(blocks) + 1 .. Len(blocks) + 3 : BlockOf(blocks', f, c)
      BY <2>1, <2>2, MoveFacts
    <2>5. /\ BlockOf(blocks', f, first) /\ BlockOf(blocks', f, first + 1)
          /\ BlockOf(blocks', f, first + 2)
      BY <2>4
    <2>6. Pending(blocks', f, t)
      BY <2>1, <2>5 DEF Pending, Tasks
    <2> HIDE DEF i, t, first
    <2>7. AllPending(blocks', f, <<Visit(node.condition), t>>)
      BY <2>1, <2>6, VisitPending, TwoTasks
    <2> QED
      BY <2>1, <2>2, <2>3, <2>5, <2>7, MovingStep
  <1>2. CASE EnterLoop
    <2> DEFINE body == Task.condition + 1
               end == Task.condition + 2
               i == CondBranch(temporary, body, end)
               t == [do |-> "repeat", condition |-> Task.condition, end |-> end]
    <2>1. Busy(f) /\ Task.do = "loop"
      BY <1>2, TaskWithin DEF EnterLoop, Doing
    <2>2. CASE GiveUp("crash")
      BY <1>0, <2>2, GivesUp
    <2>3. CASE /\ EmitAndMove(i, 0, body) /\ UNCHANGED <<scopes, returns>>
               /\ Continue(VisitAll(node.body) \o <<t>>)
      <3>1. node.body \in Seq(Nodes) /\ BlockOf(blocks, f, body) /\ BlockOf(blocks, f, end)
        BY <2>1 DEF Busy, Pending
      <3>2. i.op \in {"br", "condbr"} /\ i.result = Result
        BY DEF CondBranch, Instruction
      <3> HIDE DEF i, body
      <3>3. BlockOf(blocks', f, body) /\ BlockOf(blocks', f, end)
        BY <2>1, <2>3, <3>1, MoveFacts
      <3>4. Pending(blocks', f, t)
        BY <3>3 DEF Pending, Tasks
      <3> HIDE DEF t
      <3>5. AllPending(blocks', f, VisitAll(node.body) \o <<t>>)
        BY <3>1, <3>4, BodyTasks
      <3> QED
        BY <2>1, <2>3, <3>2, <3>3, <3>5, MovingStep
    <2> QED
      BY <1>2, <2>2, <2>3 DEF EnterLoop, context
  <1>3. CASE Repeat
    <2> DEFINE i == Branch(Task.condition)
    <2>1. Busy(f) /\ Task.do = "repeat"
      BY <1>3, TaskWithin DEF Repeat, Doing
    <2>2. EmitAndMove(i, 0, Task.end) /\ UNCHANGED <<scopes, returns>> /\ Continue(<<>>)
      BY <1>3 DEF Repeat, context
    <2>3. BlockOf(blocks, f, Task.end)
      BY <2>1 DEF Busy, Pending
    <2>4. i.op \in {"br", "condbr"} /\ i.result = Result
      BY DEF Branch, Instruction
    <2>5. BlockOf(blocks', f, Task.end)
      BY <2>1, <2>2, <2>3, MoveFacts
    <2> HIDE DEF i
    <2> QED
      BY <2>1, <2>2, <2>4, <2>5, NoTasks, MovingStep
  <1> QED
    BY <1>1, <1>2, <1>3 DEF While

LEMMA ReturnStep == IInv /\ Return => IInv'
  <1> SUFFICES ASSUME IInv, Return PROVE IInv'
    OBVIOUS
  <1> DEFINE f == blocks[insert].function
  <1>0. {"fatal", "crash", "error"} \subseteq Stages \ {"running"}
    BY DEF Stages
  <1>1. CASE VisitReturn
    <2>1. Busy(f) /\ Task.node.returned \in Nodes \cup {NoNode}
      BY <1>1, VisitWithin DEF VisitReturn, WellFormed
    <2>2. CASE Task.node.returned = NoNode
      BY <1>0, <1>1, <2>2, GivesUp DEF VisitReturn
    <2>3. CASE Task.node.returned # NoNode
      <3> DEFINE t == [do |-> "return"]
      <3>1. Pending(blocks, f, t)
        BY DEF Pending, Tasks
      <3>2. UNCHANGED <<scopes, returns, ir>> /\ Continue(<<Visit(Task.node.returned), t>>)
        BY <1>1, <2>3 DEF VisitReturn, context, ir
      <3> HIDE DEF t
      <3>3. AllPending(blocks, f, <<Visit(Task.node.returned), t>>)
        BY <2>1, <2>3, <3>1, VisitPending, TwoTasks
      <3> QED
        BY <2>1, <3>2, <3>3, QuietStep
    <2> QED
      BY <2>2, <2>3
  <1>2. CASE EndReturn
    <2>1. Busy(f)
      BY <1>2, TaskWithin DEF EndReturn
    <2>2. CASE GiveUp("crash")
      BY <1>0, <2>2, GivesUp
    <2> DEFINE i == Instruction("ret", <<temporary>>)
    <2>3. CASE Emit(i) /\ Continue(<<>>) /\ UNCHANGED <<scopes, returns>>
      <3>1. i.op = "ret" /\ i.op \in Operations /\ i.result = Result
        BY DEF Instruction, Operations, Terminators
      <3> HIDE DEF i
      <3> QED
        BY <2>1, <2>3, <3>1, NoTasks, EmittingStep
    <2> QED
      BY <1>2, <2>2, <2>3 DEF EndReturn, context
  <1> QED
    BY <1>1, <1>2 DEF Return

---------------------------------------------------------------------------
\* Entering and leaving a function.

\* The code at the entry of a function: the address stored to is made just before.
LEMMA ParameterCodeFacts ==
  ASSUME NEW n \in Nat, serial \in Nat
  PROVE  /\ IsSequence(ParameterCode(n)) /\ Len(ParameterCode(n)) = 2 * n
         /\ \A j \in 1 .. 2 * n :
              /\ ParameterCode(n)[j].op \in {"alloca", "store"}
              /\ ParameterCode(n)[j].result = Register(serial + j)
              /\ ParameterCode(n)[j].op = "store" =>
                   /\ j - 1 \in 1 .. 2 * n
                   /\ ParameterCode(n)[j - 1].op = "alloca"
                   /\ ParameterCode(n)[j].operands[1] = Register(serial + (j - 1))
         /\ \A i \in 1 .. n : /\ 2 * i - 1 \in 1 .. 2 * n
                              /\ ParameterCode(n)[2 * i - 1].op = "alloca"
  <1> DEFINE code == ParameterCode(n)
  <1>1. /\ \A j \in 1 .. 2 * n : code[j] =
             IF j % 2 = 1
             THEN [op |-> "alloca", operands |-> <<>>, result |-> Register(serial + j)]
             ELSE [op |-> "store", operands |-> <<Register(serial + j - 1), Parameter(j \div 2)>>,
                   result |-> Register(serial + j)]
        /\ code = [j \in 1 .. 2 * n |-> code[j]]
    BY DEF ParameterCode
  <1> HIDE DEF code
  <1>2. 2 * n \in Nat
    OBVIOUS
  <1>3. IsSequence(code) /\ Len(code) = 2 * n
    BY <1>1, <1>2, IsSequenceFunction
  <1>4. ASSUME NEW j \in 1 .. 2 * n
        PROVE  /\ code[j].op \in {"alloca", "store"}
               /\ code[j].result = Register(serial + j)
               /\ code[j].op = "alloca" <=> j % 2 = 1
               /\ code[j].op = "store" => code[j].operands[1] = Register(serial + (j - 1))
    <2>1. CASE j % 2 = 1
      BY <1>1, <2>1
    <2>2. CASE j % 2 # 1
      <3>1. serial + j - 1 = serial + (j - 1)
        OBVIOUS
      <3> QED
        BY <1>1, <2>2, <3>1
    <2> QED
      BY <2>1, <2>2
  <1>5. ASSUME NEW j \in 1 .. 2 * n, code[j].op = "store"
        PROVE  j - 1 \in 1 .. 2 * n /\ code[j - 1].op = "alloca"
    <2>1. j % 2 # 1
      BY <1>4, <1>5
    <2>2. j - 1 \in 1 .. 2 * n /\ (j - 1) % 2 = 1
      BY <2>1
    <2> QED
      BY <1>4, <2>2
  <1>6. ASSUME NEW i \in 1 .. n
        PROVE  2 * i - 1 \in 1 .. 2 * n /\ code[2 * i - 1].op = "alloca"
    <2>1. 2 * i - 1 \in 1 .. 2 * n /\ (2 * i - 1) % 2 = 1
      OBVIOUS
    <2> QED
      BY <1>4, <2>1
  <1> QED
    BY <1>3, <1>4, <1>5, <1>6 DEF code

\* Where a parameter is found in the list is a place of the list.
LEMMA ParameterFound ==
  ASSUME NEW s, NEW name \in ToSet(s), IsSequence(s)
  PROVE  SelectInSeq(s, LAMBDA p : p = name) \in 1 .. Len(s)
  <1> DEFINE I == {i \in 1 .. Len(s) : s[i] = name}
  <1>1. DOMAIN s = 1 .. Len(s) /\ Len(s) \in Nat
    BY IsSequenceFacts
  <1>2. I # {} /\ I \subseteq Nat /\ I \subseteq 1 .. Len(s)
    BY <1>1 DEF ToSet
  <1>3. SelectInSeq(s, LAMBDA p : p = name) = Min(I)
    BY <1>2 DEF SelectInSeq
  <1> HIDE DEF I
  <1>4. \E i \in I : \A j \in I : i <= j
    BY <1>2, LeastNumber
  <1>5. Min(I) \in I
    BY <1>4 DEF Min
  <1> QED
    BY <1>2, <1>3, <1>5

LEMMA DeclareFunctionStep == IInv /\ DeclareFunction => IInv'
  <1> SUFFICES ASSUME IInv, DeclareFunction PROVE IInv'
    OBVIOUS
  <1> DEFINE node == Task.node
             n == Len(node.parameters)
             block == [function |-> node.name, code |-> ParameterCode(n)]
             scope == [name \in ToSet(node.parameters) |->
                         LET i == SelectInSeq(node.parameters, LAMBDA p : p = name)
                         IN Symbol(Register(serial + 2 * i - 1), "value")]
  <1>1. /\ status = "running" /\ agenda # <<>> /\ IsSequence(agenda)
        /\ Task.do = "visit" /\ node.kind = "function"
    BY DEF DeclareFunction, Visiting, Doing, IInv, AgendaTyped
  <1>2. /\ Len(agenda) \in Nat \ {0} /\ Task = agenda[1] /\ DOMAIN agenda = 1 .. Len(agenda)
        /\ IsSequence(Tail(agenda)) /\ Len(Tail(agenda)) = Len(agenda) - 1
        /\ \A i \in 1 .. Len(agenda) - 1 : Tail(agenda)[i] = agenda[i + 1]
    BY <1>1, TailFacts, IsSequenceFacts DEF Task
  <1>3. Outside
    <2> SUFFICES ASSUME Within(blocks[insert].function) PROVE FALSE
      BY <1>1 DEF IInv, ContextInv
    <2>1. PICK k \in DOMAIN agenda : InsideUntil(k, blocks[insert].function)
      BY DEF Within
    <2>2. k # 1
      BY <1>1, <1>2, <2>1 DEF InsideUntil
    <2>3. Task.node \in Nodes
      BY <1>1, <1>2, <2>1, <2>2 DEF InsideUntil, Pending
    <2> QED
      BY <1>1, <2>3, ProgramAssumption DEF WellFormed
  <1>4. IsFunction(node) /\ IsSequence(node.parameters) /\ n \in Nat
    BY <1>2, <1>3, IsSequenceFacts DEF Outside, Ahead, IsFunction, IsSequence
  <1>5. /\ SoundCode(blocks, serial) /\ serial \in Nat /\ IsSequence(blocks)
        /\ DOMAIN blocks = 1 .. Len(blocks) /\ Len(blocks) \in Nat
    BY IsSequenceFacts DEF IInv, StateTyped, SoundCode
  <1>6. blocks' = Append(blocks, block) /\ insert' = Len(blocks) + 1 /\ serial' = serial + 2 * n
    BY DEF DeclareFunction
  <1>7. /\ block.function = node.name /\ block.code = ParameterCode(n)
        /\ DOMAIN block = {"function", "code"}
    OBVIOUS
  <1> HIDE DEF block
  <1>8. /\ IsSequence(blocks') /\ DOMAIN blocks' = 1 .. Len(blocks) + 1
        /\ Len(blocks') = Len(blocks) + 1
        /\ \A b \in DOMAIN blocks : blocks'[b] = blocks[b]
        /\ blocks'[Len(blocks) + 1] = block
    BY <1>5, <1>6, AppendFacts, IsSequenceFacts
  <1>9. \A f, address : MadeIn(blocks, f, address) => MadeIn(blocks', f, address)
    BY <1>5, <1>8 DEF MadeIn
  <1>10. /\ IsSequence(block.code) /\ DOMAIN block.code = 1 .. 2 * n
         /\ \A j \in 1 .. 2 * n :
              /\ block.code[j].op \in {"alloca", "store"}
              /\ block.code[j].result = Register(serial + j)
              /\ block.code[j].op = "store" =>
                   /\ j - 1 \in 1 .. 2 * n
                   /\ block.code[j - 1].op = "alloca"
                   /\ block.code[j].operands[1] = Register(serial + (j - 1))
         /\ \A i \in 1 .. n : /\ 2 * i - 1 \in 1 .. 2 * n
                              /\ block.code[2 * i - 1].op = "alloca"
    <2> HIDE DEF n
    <2> DEFINE code == ParameterCode(n)
    <2>1. /\ IsSequence(code) /\ Len(code) = 2 * n
          /\ \A j \in 1 .. 2 * n :
               /\ code[j].op \in {"alloca", "store"}
               /\ code[j].result = Register(serial + j)
               /\ code[j].op = "store" =>
                    /\ j - 1 \in 1 .. 2 * n
                    /\ code[j - 1].op = "alloca"
                    /\ code[j].operands[1] = Register(serial + (j - 1))
          /\ \A i \in 1 .. n : 2 * i - 1 \in 1 .. 2 * n /\ code[2 * i - 1].op = "alloca"
      BY <1>4, <1>5, ParameterCodeFacts
    <2> HIDE DEF code
    <2>2. DOMAIN code = 1 .. 2 * n
      BY <2>1, IsSequenceFacts
    <2>3. block.code = code
      BY <1>7 DEF code
    <2> QED
      BY <2>1, <2>2, <2>3
  <1>11. \A j \in 1 .. 2 * n : block.code[j].op = "alloca" =>
           MadeIn(blocks', node.name, Register(serial + j))
    <2> TAKE j \in 1 .. 2 * n
    <2> SUFFICES ASSUME block.code[j].op = "alloca"
                 PROVE  MadeIn(blocks', node.name, Register(serial + j))
      OBVIOUS
    <2>1. Len(blocks) + 1 \in DOMAIN blocks' /\ blocks'[Len(blocks) + 1] = block
      BY <1>5, <1>8
    <2>2. j \in DOMAIN block.code /\ block.code[j].result = Register(serial + j)
      BY <1>10
    <2> QED
      BY <1>7, <2>1, <2>2 DEF MadeIn
  <1>12. SoundBlock(blocks', serial', block)
    <2>1. IsBlock(block)
      BY <1>7, <1>10 DEF IsBlock
    <2>2. ASSUME NEW j \in DOMAIN block.code
          PROVE  Sound(blocks', block.function, serial', block.code[j])
      <3>1. j \in 1 .. 2 * n
        BY <1>10
      <3>2. block.code[j].op \in Operations
        BY <1>10, <3>1 DEF Operations
      <3>3. serial + j \in 1 .. serial'
        BY <1>4, <1>5, <1>6, <3>1
      <3>4. block.code[j].result \in {Register(i) : i \in 1 .. serial'}
        BY <1>10, <3>1, <3>3
      <3>5. block.code[j].op \in {"load", "store", "gep"} =>
              MadeIn(blocks', node.name, block.code[j].operands[1])
        BY <1>10, <1>11, <3>1
      <3> QED
        BY <1>7, <3>2, <3>4, <3>5 DEF Sound
    <2> QED
      BY <2>1, <2>2 DEF SoundBlock
  <1>13. ASSUME NEW b \in DOMAIN blocks PROVE SoundBlock(blocks', serial', blocks[b])
    <2>1. SoundBlock(blocks, serial, blocks[b])
      BY <1>5 DEF SoundCode
    <2>2. serial' \in Nat /\ serial <= serial'
      BY <1>4, <1>5, <1>6
    <2>3. 1 .. serial \subseteq 1 .. serial'
      BY <1>5, <2>2
    <2>4. ASSUME NEW i, Sound(blocks, blocks[b].function, serial, i)
          PROVE  Sound(blocks', blocks[b].function, serial', i)
      <3>1. i.op \in Operations
        BY <2>4 DEF Sound
      <3>2. i.result \in {Register(j) : j \in 1 .. serial'}
        BY <2>3, <2>4 DEF Sound
      <3>3. i.op \in {"load", "store", "gep"} =>
              MadeIn(blocks', blocks[b].function, i.operands[1])
        BY <1>9, <2>4 DEF Sound
      <3> QED
        BY <3>1, <3>2, <3>3 DEF Sound
    <2> QED
      BY <2>1, <2>4 DEF SoundBlock
  <1>14. SoundCode(blocks', serial')
    <2>1. ASSUME NEW b \in DOMAIN blocks' PROVE SoundBlock(blocks', serial', blocks'[b])
      <3>1. CASE b \in DOMAIN blocks
        BY <1>8, <1>13, <3>1
      <3>2. CASE b = Len(blocks) + 1
        BY <1>8, <1>12, <3>2
      <3> QED
        BY <1>5, <1>8, <3>1, <3>2
    <2> QED
      BY <1>8, <2>1 DEF SoundCode
  <1>15. \A name \in DOMAIN scope : MadeIn(blocks', node.name, scope[name].address)
    <2> TAKE name \in DOMAIN scope
    <2> DEFINE i == SelectInSeq(node.parameters, LAMBDA p : p = name)
    <2>1. name \in ToSet(node.parameters)
      OBVIOUS
    <2>2. i \in 1 .. n
      BY <1>4, <2>1, ParameterFound
    <2>3. scope[name] = Symbol(Register(serial + 2 * i - 1), "value")
      OBVIOUS
    <2> HIDE DEF i
    <2>4. serial + 2 * i - 1 = serial + (2 * i - 1)
      BY <1>4, <1>5, <2>2
    <2>5. MadeIn(blocks', node.name, Register(serial + (2 * i - 1)))
      BY <1>10, <1>11, <2>2
    <2> QED
      BY <2>3, <2>4, <2>5 DEF Symbol
  <1>16. scopes' = Append(scopes, scope)
    BY DEF DeclareFunction
  <1> HIDE DEF scope
  <1>17. IsSequence(scopes') /\ ScopeIn(scopes', blocks', node.name)
    <2>1. IsSequence(scopes) /\ Len(scopes) = 1 /\ DOMAIN scopes[1] = {}
      BY <1>3 DEF IInv, StateTyped, Outside
    <2>2. IsSequence(scopes') /\ Len(scopes') = 2 /\ scopes'[1] = scopes[1] /\ scopes'[2] = scope
      <3> DEFINE ss == Append(scopes, scope)
      <3>1. /\ IsSequence(ss) /\ Len(ss) = Len(scopes) + 1
            /\ \A i \in 1 .. Len(scopes) : ss[i] = scopes[i]
            /\ ss[Len(scopes) + 1] = scope
        BY <2>1, AppendFacts
      <3> HIDE DEF ss
      <3>2. IsSequence(ss) /\ Len(ss) = 2 /\ ss[1] = scopes[1] /\ ss[2] = scope
        BY <2>1, <3>1
      <3> QED
        BY <1>16, <3>2 DEF ss
    <2> QED
      BY <1>15, <2>1, <2>2 DEF ScopeIn
  <1>18. returns' \in Seq({"void", "value"}) /\ Len(returns') = 1
    <2>1. returns' = Append(<<>>, ReturnType(node.name))
      BY <1>3 DEF DeclareFunction, Outside
    <2>2. ReturnType(node.name) \in {"void", "value"}
      BY DEF ReturnType
    <2> QED
      BY <2>1, <2>2
  <1>19. insert' \in DOMAIN blocks' /\ blocks'[insert'].function = node.name
    BY <1>5, <1>6, <1>7, <1>8
  <1>20. status' \in Stages
    BY <1>1 DEF DeclareFunction, Continue, Stages
  <1>21. StateTyped'
    <2>1. scopes' # <<>>
      <3>1. Len(scopes') = 2
        BY <1>17 DEF ScopeIn
      <3>2. Len(<<>>) = 0
        OBVIOUS
      <3> QED
        BY <3>1, <3>2
    <2>2. insert' \in 0 .. Len(blocks')
      BY <1>5, <1>6, <1>8
    <2>3. serial' \in Nat
      BY <1>4, <1>5, <1>6
    <2> QED
      BY <1>17, <1>18, <1>20, <2>1, <2>2, <2>3 DEF StateTyped
  <1>22. CASE status' # "running"
    <2>1. UNCHANGED agenda
      BY <1>1, <1>22 DEF DeclareFunction, Continue
    <2> QED
      BY <1>14, <1>21, <1>22, <2>1 DEF IInv, AgendaTyped, ContextInv
  <1>23. CASE status' = "running"
    <2> DEFINE end == [do |-> "end", name |-> node.name]
               tasks == VisitAll(node.body) \o <<end>>
    <2>0. PICK m, f : m = Len(node.body) /\ f = node.name
      OBVIOUS
    <2>1. agenda' = tasks \o Tail(agenda)
      BY <1>23 DEF DeclareFunction, Continue
    <2>2. node.body \in Seq(Nodes) /\ m \in Nat
      BY <1>4, <2>0 DEF IsFunction
    <2>3. /\ IsSequence(tasks) /\ Len(tasks) = m + 1
          /\ \A i \in 1 .. m : tasks[i] = Visit(node.body[i])
          /\ tasks[m + 1] = end
      <3> HIDE DEF end
      <3>1. /\ IsSequence(tasks) /\ Len(tasks) = Len(node.body) + 1
            /\ \A i \in 1 .. Len(node.body) : tasks[i] = Visit(node.body[i])
            /\ tasks[Len(node.body) + 1] = end
        BY <2>2, FunctionTasks
      <3> HIDE DEF tasks
      <3> QED
        BY <2>0, <3>1
    <2>4. end.do = "end"
      OBVIOUS
    <2> HIDE DEF end, tasks
    <2>5. /\ IsSequence(agenda') /\ Len(agenda') = (m + 1) + (Len(agenda) - 1)
          /\ \A i \in 1 .. m + 1 : agenda'[i] = tasks[i]
          /\ \A i \in 1 .. Len(agenda) - 1 : agenda'[(m + 1) + i] = agenda[i + 1]
      <3>1. /\ IsSequence(agenda') /\ Len(agenda') = Len(tasks) + Len(Tail(agenda))
            /\ \A i \in 1 .. Len(tasks) : agenda'[i] = tasks[i]
            /\ \A i \in 1 .. Len(Tail(agenda)) : agenda'[Len(tasks) + i] = Tail(agenda)[i]
        <4>1. IsSequence(tasks) /\ IsSequence(Tail(agenda))
          BY <1>2, <2>3
        <4> DEFINE rest == Tail(agenda)
        <4> HIDE DEF rest
        <4>2. /\ IsSequence(tasks \o rest) /\ Len(tasks \o rest) = Len(tasks) + Len(rest)
              /\ \A i \in 1 .. Len(tasks) : (tasks \o rest)[i] = tasks[i]
              /\ \A i \in 1 .. Len(rest) : (tasks \o rest)[Len(tasks) + i] = rest[i]
          BY <4>1, ConcatFacts DEF rest
        <4> QED
          BY <2>1, <4>2 DEF rest
      <3> QED
        BY <1>2, <2>3, <3>1
    <2>6. DOMAIN agenda' = 1 .. m + Len(agenda) /\ Len(agenda') = m + Len(agenda)
      BY <1>2, <2>2, <2>5, IsSequenceFacts
    <2>7. ASSUME NEW i \in 1 .. m PROVE Pending(blocks', f, agenda'[i])
      <3>1. agenda'[i] = Visit(node.body[i]) /\ node.body[i] \in Nodes
        BY <2>0, <2>2, <2>3, <2>5
      <3> QED
        BY <3>1, VisitPending
    <2>8. agenda'[m + 1].do = "end" /\ m + 1 \in DOMAIN agenda'
      BY <1>2, <2>2, <2>3, <2>4, <2>5, <2>6
    <2>9. ASSUME NEW i \in m + 2 .. Len(agenda') PROVE Ahead(agenda'[i])
      <3>1. i - (m + 1) \in 1 .. Len(agenda) - 1 /\ i = (m + 1) + (i - (m + 1))
        BY <1>2, <2>2, <2>6
      <3>2. agenda'[i] = agenda[(i - (m + 1)) + 1]
        BY <2>5, <3>1
      <3>3. (i - (m + 1)) + 1 \in DOMAIN agenda
        BY <1>2, <3>1
      <3> QED
        BY <1>3, <3>2, <3>3 DEF Outside
    <2>10. (\E k \in DOMAIN agenda : InsideUntil(k, f))'
      <3>1. (m + 1) - 1 = m /\ (m + 1) + 1 = m + 2
        BY <2>2
      <3>2. InsideUntil(m + 1, f)'
        BY <2>7, <2>8, <2>9, <3>1 DEF InsideUntil
      <3> QED
        BY <2>8, <3>2
    <2>11. ASSUME NEW i \in DOMAIN agenda' PROVE agenda'[i].do \in Tasks \cup {"end"}
      <3>1. CASE i \in 1 .. m
        BY <2>7, <3>1 DEF Pending
      <3>2. CASE i = m + 1
        BY <2>8, <3>2
      <3>3. CASE i \in m + 2 .. Len(agenda')
        BY <2>9, <3>3 DEF Ahead, Tasks
      <3>4. i \in 1 .. m \/ i = m + 1 \/ i \in m + 2 .. Len(agenda')
        BY <1>2, <2>2, <2>6
      <3> QED
        BY <3>1, <3>2, <3>3, <3>4
    <2>12. AgendaTyped'
      BY <2>5, <2>11 DEF AgendaTyped
    <2>13. Within(blocks[insert].function)'
      BY <1>17, <1>18, <1>19, <2>0, <2>10 DEF Within
    <2> QED
      BY <1>14, <1>21, <2>12, <2>13 DEF IInv, ContextInv
  <1> QED
    BY <1>22, <1>23

LEMMA EndFunctionStep == IInv /\ EndFunction => IInv'
  <1> SUFFICES ASSUME IInv, EndFunction PROVE IInv'
    OBVIOUS
  <1> DEFINE g == blocks[insert].function
  <1>1. /\ status = "running" /\ agenda # <<>> /\ IsSequence(agenda) /\ Task.do = "end"
        /\ status' = "running" /\ agenda' = <<>> \o Tail(agenda)
    BY DEF EndFunction, Doing, IInv, AgendaTyped, Continue
  <1>2. /\ Len(agenda) \in Nat \ {0} /\ Task = agenda[1] /\ DOMAIN agenda = 1 .. Len(agenda)
        /\ IsSequence(Tail(agenda)) /\ Len(Tail(agenda)) = Len(agenda) - 1
        /\ \A i \in 1 .. Len(agenda) - 1 : Tail(agenda)[i] = agenda[i + 1]
    BY <1>1, TailFacts, IsSequenceFacts DEF Task
  <1>3. Within(g)
    <2>1. ~Outside
      BY <1>1, <1>2 DEF Outside, Ahead
    <2> QED
      BY <1>1, <2>1 DEF IInv, ContextInv
  <1>4. \A i \in 2 .. Len(agenda) : Ahead(agenda[i])
    <2>1. PICK k \in DOMAIN agenda : InsideUntil(k, g)
      BY <1>3 DEF Within
    <2>2. k = 1
      <3> SUFFICES ASSUME k # 1 PROVE FALSE
        OBVIOUS
      <3>1. Pending(blocks, g, agenda[1])
        BY <1>2, <2>1 DEF InsideUntil
      <3> QED
        BY <1>1, <1>2, <3>1 DEF Pending, Tasks
    <2> QED
      BY <2>1, <2>2 DEF InsideUntil
  <1>5. /\ IsSequence(agenda') /\ Len(agenda') = Len(agenda) - 1
        /\ \A i \in DOMAIN agenda' : Ahead(agenda'[i])
    <2> DEFINE rest == Tail(agenda)
               none == <<>>
    <2>1. IsSequence(none) /\ Len(none) = 0
      <3>1. <<>> \in Seq({})
        OBVIOUS
      <3> QED
        BY <3>1, IsSequenceOf
    <2> HIDE DEF rest, none
    <2>2. /\ IsSequence(none \o rest) /\ Len(none \o rest) = Len(none) + Len(rest)
          /\ \A i \in 1 .. Len(rest) : (none \o rest)[Len(none) + i] = rest[i]
      BY <1>2, <2>1, ConcatFacts DEF rest
    <2>3. /\ IsSequence(agenda') /\ Len(agenda') = Len(agenda) - 1
          /\ \A i \in 1 .. Len(agenda) - 1 : agenda'[0 + i] = Tail(agenda)[i]
      BY <1>1, <1>2, <2>1, <2>2 DEF rest, none
    <2>4. DOMAIN agenda' = 1 .. Len(agenda) - 1
      BY <2>3, IsSequenceFacts
    <2>5. ASSUME NEW i \in 1 .. Len(agenda) - 1 PROVE Ahead(agenda'[i])
      <3>1. agenda'[i] = agenda[i + 1] /\ i + 1 \in 2 .. Len(agenda)
        BY <1>2, <2>3
      <3> QED
        BY <1>4, <3>1
    <2> QED
      BY <2>3, <2>4, <2>5
  <1>6. AgendaTyped'
    BY <1>5 DEF AgendaTyped, Ahead, Tasks
  <1>7. /\ IsSequence(scopes) /\ Len(scopes) = 2 /\ DOMAIN scopes[1] = {}
        /\ Len(returns) = 1 /\ returns \in Seq({"void", "value"})
        /\ SoundCode(blocks, serial) /\ serial \in Nat /\ insert \in DOMAIN blocks
    BY <1>3 DEF IInv, StateTyped, Within, ScopeIn
  <1>8. IsSequence(scopes') /\ Len(scopes') = 1 /\ scopes'[1] = scopes[1]
    <2> DEFINE front == SubSeq(scopes, 1, 1)
    <2>1. scopes' = front
      BY <1>7 DEF EndFunction, Front
    <2>2. 1 \in 1 .. Len(scopes) + 1 /\ 1 \in 0 .. Len(scopes)
      BY <1>7
    <2>3. /\ IsSequence(front) /\ Len(front) = IF 1 <= 1 THEN 1 - 1 + 1 ELSE 0
          /\ \A i \in 1 .. 1 - 1 + 1 : front[i] = scopes[1 + i - 1]
      BY <1>7, <2>2, SubSeqFacts
    <2> HIDE DEF front
    <2> QED
      BY <2>1, <2>3
  <1>9. returns' = <<>>
    <2>1. returns' = SubSeq(returns, 1, 0)
      BY <1>7 DEF EndFunction, Front
    <2>2. SubSeq(returns, 1, 0) = <<>>
      BY SubSeqEmpty
    <2> QED
      BY <2>1, <2>2
  <1>10. Outside'
    BY <1>5, <1>7, <1>8, <1>9 DEF Outside
  <1>11. /\ SoundCode(blocks', serial') /\ serial' \in Nat
         /\ insert' \in 0 .. Len(blocks')
    <2>1. CASE UNCHANGED ir
      BY <1>7, <2>1 DEF ir, IInv, StateTyped
    <2> DEFINE i == Instruction("retvoid", <<>>)
    <2>2. CASE Emit(i)
      <3>1. i.op = "retvoid" /\ i.op \in Operations /\ i.result = Result
        BY DEF Instruction, Operations, Terminators
      <3> HIDE DEF i
      <3>2. Grown(blocks, blocks', insert, {i}) /\ serial' = serial + 1
        BY <1>7, <2>2, AppendedGrown DEF Emit
      <3>3. \A j \in {i} : Sound(blocks', g, serial', j)
        BY <1>7, <3>1, <3>2, MadeNow
      <3>4. SoundCode(blocks', serial')
        BY <1>7, <3>2, <3>3, SoundGrows
      <3>5. insert' = insert /\ insert' \in DOMAIN blocks'
        BY <1>7, <2>2, <3>2 DEF Emit, Grown
      <3>6. insert' \in 0 .. Len(blocks')
        BY <3>4, <3>5, IsSequenceFacts DEF SoundCode
      <3> QED
        BY <1>7, <3>2, <3>4, <3>6
    <2> QED
      BY <2>1, <2>2 DEF EndFunction
  <1>12. StateTyped'
    <2>1. scopes' # <<>>
      <3>1. Len(<<>>) = 0
        OBVIOUS
      <3> QED
        BY <1>8, <3>1
    <2>2. returns' \in Seq({"void", "value"})
      BY <1>9
    <2> QED
      BY <1>1, <1>8, <1>11, <2>1, <2>2 DEF StateTyped, Stages
  <1> QED
    BY <1>6, <1>10, <1>11, <1>12 DEF IInv, ContextInv

---------------------------------------------------------------------------
LEMMA InitIInv == Init => IInv
  <1> SUFFICES ASSUME Init PROVE IInv
    OBVIOUS
  <1>1. PICK program \in Programs : agenda = VisitAll(program)
    BY DEF Init
  <1>2. IsSequence(program) /\ \A i \in DOMAIN program : IsFunction(program[i])
    BY ProgramAssumption DEF IsSequence
  <1>3. DOMAIN program = 1 .. Len(program) /\ Len(program) \in Nat
    BY <1>2, IsSequenceFacts
  <1>4. agenda = [i \in 1 .. Len(program) |-> Visit(program[i])]
    BY <1>1, <1>3 DEF VisitAll
  <1>5. IsSequence(agenda) /\ DOMAIN agenda = 1 .. Len(program)
    <2>1. agenda = [i \in 1 .. Len(program) |-> agenda[i]]
      BY <1>4
    <2> QED
      BY <1>3, <2>1, IsSequenceFunction, IsSequenceFacts
  <1>6. \A i \in DOMAIN agenda : Ahead(agenda[i])
    BY <1>2, <1>3, <1>4, <1>5 DEF Ahead, Visit
  <1>7. AgendaTyped
    BY <1>5, <1>6 DEF AgendaTyped, Ahead, Tasks
  <1>8. <<>> \in Seq({}) /\ DOMAIN <<>> = {} /\ Len(<<>>) = 0
    OBVIOUS
  <1>9. SoundCode(blocks, serial)
    BY <1>8, IsSequenceOf DEF Init, SoundCode
  <1>10. /\ IsSequence(scopes) /\ Len(scopes) = 1 /\ DOMAIN scopes[1] = {}
    <2> DEFINE empty == [name \in {} |-> 0]
    <2>1. scopes = <<empty>> /\ DOMAIN empty = {}
      BY DEF Init
    <2> HIDE DEF empty
    <2>2. <<empty>> \in Seq({empty}) /\ Len(<<empty>>) = 1 /\ <<empty>>[1] = empty
      OBVIOUS
    <2> QED
      BY <2>1, <2>2, IsSequenceOf
  <1>11. Outside
    BY <1>6, <1>10 DEF Outside, Init
  <1>12. scopes # <<>>
    BY <1>8, <1>10
  <1>13. StateTyped
    BY <1>8, <1>10, <1>12 DEF StateTyped, Init, Stages
  <1> QED
    BY <1>7, <1>9, <1>11, <1>13 DEF IInv, ContextInv

LEMMA NextIInv == IInv /\ [Next]_vars => IInv'
  <1>1. IInv /\ EndUnit => IInv'
    BY DEF EndUnit, IInv, context, ir, AgendaTyped, StateTyped, ContextInv, Stages
  <1>2. IInv /\ UNCHANGED vars => IInv'
    BY DEF vars, IInv, context, ir, AgendaTyped, StateTyped, ContextInv, Outside, Within,
           InsideUntil
  <1>3. IInv /\ Stopped => IInv'
    BY <1>2 DEF Stopped
  <1>4. IInv /\ Function => IInv'
    BY <1>1, DeclareFunctionStep, EndFunctionStep DEF Function
  <1> QED
    BY <1>2, <1>3, <1>4, ExpressionStep, PlaceStep, CallStep, VariableStep, IfStep,
       WhileStep, ReturnStep DEF Next

LEMMA IInvHolds == Spec => []IInv
  BY InitIInv, NextIInv, PTL DEF Spec

\* The state has its types: every task is known, and results of instructions are
\* registers made so far.
THEOREM TypeCorrect == Spec => []CodeGenTypeOK
  <1>1. IInv => CodeGenTypeOK
    <2> SUFFICES ASSUME IInv PROVE CodeGenTypeOK
      OBVIOUS
    <2>1. \A b \in DOMAIN blocks : \A k \in DOMAIN blocks[b].code :
            /\ blocks[b].code[k].op \in Operations
            /\ blocks[b].code[k].result \in {Register(i) : i \in 1 .. serial}
      BY DEF IInv, SoundCode, SoundBlock, Sound
    <2>2. \A i \in DOMAIN agenda : agenda[i].do \in
            {"visit", "right", "operate", "negate", "add", "call", "print", "load", "store",
             "read", "declare", "element", "fill", "assign", "indexed", "assignelement",
             "branch", "else", "endif", "loop", "repeat", "return", "end"}
      BY DEF IInv, AgendaTyped, Tasks
    <2> QED
      BY <2>1, <2>2 DEF IInv, StateTyped, CodeGenTypeOK
  <1> QED
    BY <1>1, IInvHolds, PTL

\* Scopes and return types are pushed once per function that is open, whatever the
\* function contains: nested ifs and loops, returns in them, calls in calls.
THEOREM ContextsBalanced == Spec => []ContextsMatchNesting
  <1>1. IInv => ContextsMatchNesting
    <2> SUFFICES ASSUME IInv, status = "running"
                 PROVE  LET open == Cardinality({i \in DOMAIN agenda : agenda[i].do = "end"})
                        IN Len(scopes) = open + 1 /\ Len(returns) = open
      BY DEF ContextsMatchNesting
    <2> DEFINE Ends == {i \in DOMAIN agenda : agenda[i].do = "end"}
    <2>1. CASE Outside
      <3>1. Ends = {}
        BY <2>1 DEF Outside, Ahead
      <3>2. Cardinality(Ends) = 0
        BY <3>1, FS_EmptySet
      <3> QED
        BY <2>1, <3>2 DEF Outside
    <2>2. CASE Within(blocks[insert].function)
      <3>1. PICK k \in DOMAIN agenda : InsideUntil(k, blocks[insert].function)
        BY <2>2 DEF Within
      <3>2. DOMAIN agenda = 1 .. Len(agenda) /\ Len(agenda) \in Nat
        BY IsSequenceFacts DEF IInv, AgendaTyped
      <3>3. ASSUME NEW i \in DOMAIN agenda, i # k PROVE agenda[i].do # "end"
        <4>1. CASE i \in 1 .. k - 1
          BY <3>1, <4>1 DEF InsideUntil, Pending, Tasks
        <4>2. CASE i \in k + 1 .. Len(agenda)
          BY <3>1, <4>2 DEF InsideUntil, Ahead
        <4> QED
          BY <3>2, <3>3, <4>1, <4>2
      <3>4. Ends = {k}
        BY <3>1, <3>3 DEF InsideUntil
      <3>5. Cardinality(Ends) = 1
        BY <3>4, FS_Singleton
      <3> QED
        BY <2>2, <3>5 DEF Within, ScopeIn
    <2> QED
      BY <2>1, <2>2 DEF IInv, ContextInv
  <1> QED
    BY <1>1, IInvHolds, PTL

\* What a function loads, stores or indexes, it has reached from its own variables.
THEOREM AddressesOwn == Spec => []AddressesLocal
  <1>1. IInv => AddressesLocal
    <2> SUFFICES ASSUME IInv,
                        NEW b \in DOMAIN blocks, NEW k \in DOMAIN blocks[b].code,
                        blocks[b].code[k].op \in {"load", "store", "gep"}
                 PROVE  \E c \in DOMAIN blocks : \E j \in DOMAIN blocks[c].code :
                          /\ blocks[c].function = blocks[b].function
                          /\ blocks[c].code[j].op \in {"alloca", "gep", "load"}
                          /\ blocks[c].code[j].result = blocks[b].code[k].operands[1]
      BY DEF AddressesLocal
    <2>1. MadeIn(blocks, blocks[b].function, blocks[b].code[k].operands[1])
      BY DEF IInv, SoundCode, SoundBlock, Sound
    <2> QED
      BY <2>1 DEF MadeIn
  <1> QED
    BY <1>1, IInvHolds, PTL

=============================================================================
