# TLA+ verification of the Prysma compiler

Prysma (C++20, LLVM) compiles a project of `.p` files in two passes on a thread
pool. This directory holds TLA+ models of its parts, TLC configurations that
check them on small instances and TLAPS proofs for every instance. Paths below
are relative to the repository.

## Inventory

| Component | State | Operations | Hard behaviour | What makes it correct |
|---|---|---|---|---|
| Pipeline: `OrchestratorInclude`, `UnitCompilation`, `main` | set of included paths, vector of units, error flag, mutex, each unit's tree | `compileProject`, `includeFile`, `pass1`, `pass2`, error handlers | tasks that schedule tasks, include cycles, one unit failing among others, exceptions no handler catches | one unit per path, barrier between the passes, truthful exit, termination |
| LLVM thread pool (external) | queue, running tasks | `async`, `wait` | the wait must cover tasks added by tasks | each task runs once |
| Function registries (global, local), `FileRegistry` | name to symbol maps, set of `.ll` files | `registerElement`, `get`, `fill` | references that outlive the lock, symbols replaced | nothing dangles, every unit sees every function |
| Paths, includes, output names | none (pure) | include resolution, output name | several spellings of one file, folders of one name | a file is compiled once; that outputs are distinct fails |
| `StringInterner`, `ShardedStringInterner` | map from text to address, chunk | `intern`, `info` | shared then exclusive lock, unlocked read | one address per text |
| `monotonic_atomic_buffer`, `unsynchronized_chunk_allocator` | atomic offset; chunk, offset | `allocate`, `refill` | compare-exchange, exhaustion | allocations are disjoint and inside |
| Node data storage | tables indexed by node number, a shared mutex | `next`, `construct`, `get`, `reset` | fixed capacity, references that outlive a lock | a node's data is its own |
| Lexer | position, token list, type of the last token | `tokenize` | end of input, two-character operators, signs | no character is lost, layout means nothing |
| Equation builder | chain of operators | collect, split, recurse | unary minus, parentheses, precedence | the tree is the one that was written |
| Statement and expression builders | token index | `parse...`, `build` | nesting, missing delimiters | the tree is the one that was written, unbalanced text is refused |
| Scopes and return contexts | stacks of maps | `push`, `pop`, `get`, ... | exceptions, nesting | a name resolves to its innermost declaration |
| Calls | argument registry | evaluate arguments, clear | calls in argument position | each call gets its own arguments |
| If, while, return | blocks of a function | create blocks, branch | a branch that already ended | every block ends in one terminator |
| Classes and vtables | registry of classes, current class | register, lay out, fill, generate | vtables built again and again, one temporary, keys that dangle | calls use the slot the table has, bodies go into their own functions |
| Pratt parser (Rust) | variables, list of steps | parse, schedule, emit | order of steps, full slots | grouping, operands before operators |
| Build and link, output, run-time library, code generators, dashboard | none or files | I/O | | not modelled, see below |

Interactions: `main` calls `compileProject`, which calls `includeFile` for the
root. `includeFile` queues a pass 1 task in the pool; the registry visitors of
pass 1 call back `includeFile` from the worker and write the global function
registry that all units share. After the pool is idle, `compileProject` queues
one pass 2 task per unit; each copies the global registry into the unit's own
(`fill`), generates code and writes one `.ll` file, whose name pass 1 has put
in `FileRegistry` for the linker. `PROJECT.json` lists the hazards at their
lines.

## Plan

Written, in this order, the behaviour that matters most first:

1. `SourcePaths`, `CompilePipeline`, `Orchestrator` and the proof of the safety
   of the pipeline;
2. `AtomicBuffer`, which implements `Arena`, with its proof, and
   `StringInterning` over it;
3. `CodeGen`: scopes, return contexts, arguments, temporaries and basic blocks,
   then negation, arrays and pointers;
4. `Lexer` with its proof, and `Parser` behind it;
5. `NodeStorage` with its proof, and `ClassLayout`;
6. `PrattSchedule` and, beside it, `PrattMeaning`, with their proof.

Left: arrays without a size, array and pointer parameters and casts in `CodeGen`;
global variables;
arguments and results of methods and assignments through pointers in
`ClassLayout`.

## Modules

`CompilePipeline` is the abstract specification: discover and analyse until
nothing is left, then generate each discovered path once, then link or fail; or
be ended by an exception at any time after the start. It has no threads.

`Orchestrator` is the code. An actor is the main thread or a pool worker; `pc`
is the step it is about to take, `pos` its place in what it walks through (the
builtins, the statements of a file, the vector of units).

| Variable | Code |
|---|---|
| `mutex` | `*_mutex`, shared by `includeFile` and the handlers |
| `included`, `units`, `hasErrors` | `_alreadyIncludedFiles`, `_compilationUnits`, `_hasErrors` |
| `queue`, `job` | the pool's queue and the task each worker runs |
| `tree` | units whose `_tree` is set |
| `globalFns` | `RegistryFunctionGlobal`; a symbol is identified by the registration that made it |
| `todo`, `held` | the key list and the reference inside `fill` |
| `localFns` | `RegistryFunctionLocal`, entries that `fill` adds |
| `registered`, `written` | `FileRegistry`, the `.ll` files written |
| `exit` | how the process ends |

`includeFile` is three actions (`LockInclude`, `TestIncluded`, `InsertInclude`)
because its critical section is what the properties are about; `registerElement`
and `get` are one action each, since each holds its registry's own lock from
start to end. A source file is reduced to the sequence of its functions,
includes and throwing statements, the functions it calls, and the outcomes of
reading it and of generating it against the functions it expects: `ok`, `error`
(a `CompilationError`) or `fatal` (any other exception, which no handler catches
and which ends the process).

A function has a name and a signature, what it takes and returns. `fill()` makes a
unit's `llvm::Function` from whichever registration of the name came last
(`SignatureOf`), so how generation ends (`GenerationOutcomes`) is not the file's
alone: against another signature `getArg` and `CreateCall` leave the function's
arguments, which ends the process or leaves its damage in the `.ll` file, as the
build has it; a function the local registry lacks makes the lookup throw.

`SourcePaths` computes include spellings, the file that a spelling opens, and
output names, as `std::filesystem` does. `Spellings` is `Orchestrator` on a project
of files in directories: what its units are called, which files they are made from
and which they write. `MCOrchestrator` instantiates it with source trees given by
the spellings their files are met under, and checks, as an assumption, that these
are the ones the includes lead to.

`Arena` is what `memory_resource` promises: blocks inside, aligned and apart.
`AtomicBuffer` is `monotonic_atomic_buffer`. `Load`, `Refuse`, `Retry` and `Swap`
are the steps of `do_allocate`: since every access is relaxed, `Load` may see any
value of `offset_` (`past`) that is not older than what the thread has seen, and
`Retry` may happen although the offset has not moved, as `compare_exchange_weak`
allows. Alignments are powers of two, which `allocate` requires; its refusal of
others is left out.

`StringInterning` extends it with the sharded interner. `Construct` is the chunk
allocators' constructors; a call of `intern` is `Call`, `Find` (shared lock),
`Lock` (exclusive lock, second lookup), `Refill` (one buffer allocation after the
other, under the shard's lock only) and `Insert`, `ThrowBadAlloc` or
`WriteToNull`. What holds a lock without calling the buffer is one action. A text
has a length, a shard and the key it is found under, which ends at its first NUL
(`table_.emplace(std::string_view(cptr))`). The interner is not yet called by the
compiler: its threads are those its locks are written for.

`CodeGen` is `GeneralVisitorGenCode` on one unit. The visitors' recursion is an
agenda of tasks, so each action is the piece of a visitor between two visits of
children, with the same locals (`createControlBlocks`'s blocks, the alloca, the
left operand) kept in the task.

| Variable | Code |
|---|---|
| `agenda` | the C++ call stack |
| `temporary`, `scopes`, `returns`, `arguments` | `temporaryValue`, `RegistryVariable`, `ReturnContextCompilation`, `RegistryArgument` |
| `blocks`, `insert`, `serial` | the module being built, the builder's insertion block, names of instructions |
| `status` | running, done, or given up: `error` (`CompilationError`), `fatal` (any other exception), `crash` (a null pointer is used) |

`MCCodeGen` gives source and blocks a meaning: symbolic values, a trace of calls
and conditions, and a sequence of choices for what conditions yield. Blocks are
executed up to their first terminator, as LLVM reads the text it is given. In the
source a pointer's value is a place, a variable or an element, and an assignment
to a pointer changes that place, as `prysma_code_tests/test_pointer` expects; in
the blocks it is an address that `alloca` and `gep` compute and `load` and `store`
use. A symbol of `scopes` is an address and a type (`value`, `array`, `pointer`),
from which each use decides how to reach the data.

`Lexer` is `tokenize` as the automaton it is: one action per turn of one of its
loops (`mode`), with `cursor` the pointer, `mark` the start of the text in
progress and `lastTy` the type that decides about a sign. `LexerLayout` composes
two lexers: what the first makes of a text is written again with one blank between
its tokens (`Respaced`; a string stays together), and the second reads that.

`Parser` goes from tokens to a tree. The parsers of instructions differ in what
they consume in which order, so they are a table (`ParserIf`, `ParserWhile`, ...)
that one operator, `Consume`, reads, exceptions included; `EquationEnd`,
`removeWrappingParentheses`, `findOperator` and `BuildEquation` are the equation
builder, `BuildExpression` what the first token of an operand selects. An action
is one turn of `BuilderTreeInstruction::build`. `MCParser` makes programs as
trees, writes them down with the parentheses they need, and compares what comes
back.

`NodeStorage` is the data of one unit's tree. A call of `construct` is `NewNode`
or `CopyMember` (the number, an atomic addition), `LockAlone`, `Refused` or
`Emplace`, and `EndConstruct`; a call of `get` is `Get` and `ReturnReference`,
after which the thread holds a reference without the mutex until
`DropReference`. A class member is copied out of such a reference into the same
table. Its threads are the worker of the unit and those that generate functions
of other units whose arguments are arrays of this one.

`ClassLayout` follows classes through both passes: `RegisterClass`,
`RegisterAttribute`, `RegisterMethod` and `Layout` in pass 1, `FillMethod` (with
`buildVTable`) in `fill()`, then bodies, `new`, calls and accesses. Recursion is
an agenda, as in `CodeGen`.

| Variable | Code |
|---|---|
| `classes` | `RegistryClass`: methods, attributes, `memberIndices`, slots, the vtable |
| `cur` | `_currentClassName` |
| `temporary`, `vars` | the temporary value and the variables with their declared and pointed types; `object` adds what the value is at run time |
| `bodies`, `emitted` | which function a body went into, and the instructions about objects |

The keys of `memberIndices` are `StringRef`s to strings that no longer exist.
Reading them is undefined, so a lookup may find any entry or none and an
insertion may overwrite one.

`PrattSchedule` is the Rust library: `Context`, `lex`, `Parser::expr` and
`collect_steps`, each recursive call a frame of an explicit stack (`frames`; `min`
and `val` are the locals of `expr`, `root` the argument and then the result of
`collect_steps`), the sort by rank and `emit_ir`. The error of a missing variable
ends all calls at once (`Missing`), as `?` does. Arithmetic is symbolic: a result is the operation with its operands,
so equality means computed in the same way. `PrattMeaning` says without a parser
what an equation means: the trees of `Expr` up to a height, the text each is
written with when no parenthesis is put that precedence does not need, and the
value a tree has with the variables given. `GroupedAsWritten` and `RootRight`
compare the library with that.

## Runs

| Run | Result | What it shows |
|---|---|---|
| `projects` | passes | the safety properties, termination and the refinement of `CompilePipeline`, from six roots |
| `output_names` | violated | two files of one name in folders of one name get one `.ll` file |
| `buffer` | passes | the lock-free buffer implements `Arena` and refuses only what does not fit |
| `interning` | passes | one address per text, texts apart, every call of `intern` ends |
| `codegen` | passes | generated blocks do what the source says; contexts of one function do not reach the next |
| `nested_arguments` | violated | a nested call drops the arguments of the call around it |
| `lexer` | passes | nothing is lost, nothing read past the end, and blanks between tokens mean nothing |
| `parser` | passes | trees come back as written, unbalanced text is refused, chains of operators keep their value |
| `storage` | passes | references outlive the mutex, nodes keep their data, up to full tables |
| `classes` | passes | virtual calls find their method, bodies go into the function of what declares them |
| `pratt` | passes | the Rust parser groups as written, refuses what is no equation, and lists steps in order until they are sorted |
| `step_order` | violated | the list of steps puts products before the sums they need |

A violated property is a disagreement between the code and what its
documentation or a comment says; `PROJECT.json` quotes both.

The roots of `projects` are: `cycle` (three files that include each other and
the root), `errors` (a syntax error, a visitor's error behind an include that
was already scheduled, errors of pass 2), `faults` (a missing file, an exception
of another type), `lost` (a function that an error in another file hides), `same`
(a function two files declare with different signatures, and a builtin declared
again) and `m` (files in two directories, and the root included back from one).
`output_names` compiles a tree of three files, two of them called `c` in folders
called `x`.

Bounds: two workers are enough for each race, since each of the properties
relates at most two threads at a time; main is a third. A file has at most four
declarations, over four names, two signatures and one builtin; three files are the
least for a cycle beside the root, two for a dispute. A path is bound by `PathMax`
components, as the system's `PATH_MAX` does: large enough for these trees, whose
includes descend, never to meet it.

The buffer of `buffer` has six bytes for blocks of one and three, with alignments
one and two: every order of two threads up to exhaustion. `interning` has chunks
of four bytes and a buffer of seven chunks, of which four are taken at
construction, so that the second refill already fails; its texts fill a chunk
exactly, alone or together, exceed one, contain a NUL, or belong to the other
shard. Two interning threads with two calls each are the least for a race and a
lookup of what it left. `codegen` enumerates functions of two statements and a
return, over 15 simple statements and 42 ifs and loops, each in a unit with a
second function that declares the same names, and functions with an array of two
elements and a pointer to the parameter, over 15 statements that read, write and
alias them and 22 that misuse a name or a missing value, or call a function the
unit's registry does not have (`LocalFunctions`); runs follow up to three
conditions, enough to repeat a loop with an if in its body. Programs where a call
is an argument but not the first are left to `nested_arguments`, which shows why.

`lexer` reads every text of up to four characters over the fourteen that
interact (letters of a keyword, a digit, the point, quote, backslash, slash, star,
signs, blanks), which is as far as `tokenize` looks back and ahead, and longer
texts that combine strings, comments and operators. `parser` writes expressions
of depth two under every parent, every statement over them, functions and
classes; damaged programs lack or double one parenthesis or brace; chains have
five operands, one negative, over six operators, so that every operator meets
every other on both sides; damaged chains have a sign too many before an operand
or lack one. `storage` has two threads and two kinds of nodes with three and two
slots for four numbers, so that each table overflows alone. `classes` has two
classes, one whose builder is sorted before its methods and one after, since
`std::map` decides the slots; bodies use objects in every way the code
distinguishes, right or wrong. `pratt` and `step_order` have trees of two or
three operators, none higher than `Height`, all sequences of four lexemes, and two slots, so that a third
variable is one too many.

The runs of `lexer`, `parser`, `classes`, `pratt` and `step_order` allow
deadlock, since their programs end; so does `storage`, where the bound on numbers
ends it.

Fairness is stated where liveness is checked, in `Orchestrator`, `CompilePipeline`
and `StringInterning`: `WF_vars` of the main thread's step and of each worker's. The operating
system schedules every runnable thread, and no strong fairness is assumed for the
mutex: each critical section is finite, the number of includes is finite, so weak
fairness suffices. `Ended` is the stuttering of a process that has exited, so
deadlock stays checked. `StringInterning` adds `SF_vars` of each thread's
successful exchange: `compare_exchange_weak` may fail spuriously, but not for
ever. `OneAddressPerText` is about texts without a NUL, since the table's key ends
there.

Restrictions of the properties, each the shape of something the code does:

- `RoundTrip` writes no bracket inside an index or among elements and no comma
  among elements: an index ends at the first closing bracket, and `a[b[0]+1]`
  loses its `+1`; elements are split at every comma. `aff o.x = e` gives a node
  that assigns `o`.
- `UnbalancedRefused` leaves out `new` in brackets, which asks for no closing
  parenthesis.
- `ValueKept` leaves out chains that multiply and then divide, or take a
  remainder after either: each operator has a level of its own, so `a * b / c` is
  `a * (b / c)`.
- `VerdictRight` asks about the tokens up to where the Rust parser stopped: it
  ignores what follows. A variable beyond the 32nd is dropped without a word, and
  `emit_ir` goes on over tokens that could not be read.
- `DispatchRight` is about objects whose class is known. A call leaves the
  pointed type of whatever was the temporary before it, so the class of its
  result is a guess. A method called by its name alone is given no `this`.
- `BodiesInPlace` leaves out units with a reported error: an error in pass 1
  leaves its class the current one, and pass 2 takes functions for its methods.

## Disagreements met and not among the runs

Those that are runs are `nested_arguments`, `step_order` and `output_names`. The
models contain these too:

- pass 2 starts although pass 1 has reported errors, which
  `src/docs/en/robustness.md:130` says cancel it;
- an exception other than `CompilationError` ends the process
  (`robustness.md:127` and `161` promise a clean end);
- a cycle of includes through `..` makes ever longer paths, since paths are
  compared as spelled (`robustness.md:112`); a relative root that is included back
  is compiled twice for the same reason, so the roots of the runs are absolute;
- a character of no class becomes a token `INVALID` (`lexer.cpp:464`), where
  `robustness.md:278` to `280` say that it is ignored and removed. `NothingLost`
  states what the code does;
- a string without its closing quote ends with the text, without a word
  (`lexer.cpp:290` to `316`), where `robustness.md:233` to `255` say that a lexical
  error is reported. `NothingLost` and `LayoutFree` hold of such
  texts as of others;
- how a unit is generated against a function that two files declare differently
  depends on the order of threads (`registry_generic.h:52`); no document speaks of
  it, and `DeathDeserved` says that nothing else does;
- after the buffer is exhausted a text is copied to a null chunk
  (`unsynchronized_chunk_allocator.hpp:86`): the action `WriteToNull`;
- variables are allocated in the block the builder is in, although the comment at
  `llvm_backend.cpp:102` says the entry block.

## Proofs

`PipelineProofs` proves, for every set of workers, paths, names and files
that meet `ActorAssumption`, `ProjectAssumption` and `SymbolAssumption`:
`TypeOK`, `IncludeExclusion`, `OneUnitPerPath`, `PassesSeparate` and
`NoDanglingSymbol` are invariants of `Spec`.

None but the first is inductive alone. `IInv` adds:

- `WorkerControl` and `MainControl`: a program counter determines the pass of
  the task and whether `fill` holds a reference;
- `TaskControl`: queued and running tasks name existing units and are all of the
  pass that main's program counter says; this is the barrier, and main can move
  to pass 2 only when there are none;
- `RegistryControl`: nothing has been copied before pass 2. With `TaskControl` it
  gives `NoDanglingSymbol`: `registerElement` runs in pass 1 only, when there is
  no reference or key to leave dangling;
- `InsertIsNew`: what `includeFile` has tested still holds when it inserts,
  because of `IncludeExclusion`; this gives `OneUnitPerPath`.

The rest of the module builds on it, in four parts, each with invariants of its own,
proved from those before it:

- pass 1: `TasksDistinct`. `TInv` adds that main spawns pass 2 in the order
  of the units (`SpawnedInOrder`), so what it queues next was never queued. The
  invariant `PInv` is about pass 1: the
  statements before a worker's place have been visited, their functions
  registered and their includes included (`Reached`); a unit whose pass 1 is no
  longer pending has its output registered, its functions in the global registry
  and, unless an error is recorded, all its includes made units
  (`AnalysisAccounted`).
- pass 2 and the end: `LocalRegistryComplete`, `ExitTruthful` and `DeathDeserved`.
  `CInv` says what `fill()` has copied at each of its steps (`FillProgress`), that
  the registries of units that are not in pass 2 yet are empty (`Untouched`, which
  needs `TasksDistinct`), and that a unit whose pass 2 is over has written its
  file, unless an error is recorded or it has no tree (`GenerationAccounted`).
  main leaves when no task is pending, and then both accounts hold of every unit.
  `DeathDeserved` does not take it for granted that generation ends as the file
  says. Its proof follows a unit that dies back to what it was generated against:
  every global symbol comes from a declaration that a visitor has met in an
  included file, or from the builtins, so a name the unit lacks is one no file
  declares, and an entry with another signature is a second declaration, which
  disputes the first. What remains is decided by the sources, on every schedule.
- the refinement: the safety part of that of `CompilePipeline`. A
  step that ends a task is `Analyse` or `Generate` of its path, an insertion is
  `Start` or `Discover`, main's steps are `Advance` and `Finish`, an exception is
  `Terminate`, and every other step stutters.
- the files behind the paths: `FileCompiledOnce`, for a project whose root is absolute
  and whose paths leave no directory (`Descends`), with units that meet what their
  files say (`Spelled`); `projects` evaluates both hypotheses for its trees.
  Then every path marked as included is spelled without dots (`PlainPaths`), such a
  spelling is the place of the file it opens (`FileAtPlain`), and `OneUnitPerPath` does
  the rest. Without `Descends` it fails: an include through `..` gives one file two
  spellings.

`InterningProofs` begins with the buffer. It proves, for any threads, capacity, sizes above zero and
alignments: `BufferTypeOK`, which bounds the offset by the capacity, the
refinement `ImplementsArena` and `RefusalJustified`. The invariant adds that no
thread's copy of the offset is ahead of the offset (`OffsetNewest`) and that
blocks lie below it and apart (`BlocksBelow`): an exchange succeeds only on the
present offset, so the new block lies above all others. `RefusalJustified` rests
on the monotonicity of `AlignUp`: if a request does not fit behind an old offset
it does not fit behind the present one.

Of the interner it proves, for any threads, shards, texts and chunk sizes that meet
`InterningAssumption` and `TextAssumption`, and for a buffer of any capacity:
`OneAddressPerText` and `TextsApart`. Its invariant `NInv` extends that of the
buffer. `Chunks` says who owns each chunk: one that is free is in one place of one
list and unused, one that is active belongs to one shard and its texts lie below
its offset, and entries of the tables lie inside their chunks and apart. A new
chunk starts where no other does, because the blocks of the buffer are disjoint
and none is empty. `WriterAlone` says that the thread in `allocate_bytes` holds
the shard's lock since a lookup that failed, so its text is still unknown, and
that two chunks are free or about to be, so `Advance` never meets an empty list:
this is where a refill of at least two chunks and a threshold of at least one are
needed. The null chunks of an exhausted buffer are exempt throughout: nothing is
ever entered in one, since the write ends the process.

`LexerProofs` proves, for every text over every alphabet and keyword table that
meets `LexerAssumption`: `LexerTypeOK` (nothing is read behind the NUL),
`TokensInOrder`, `SignsBinary` and `NothingLost`. The first rests on the NUL being in none of
the classes of characters that let the pointer advance, by two where it looks
ahead. `TokensInOrder` needs `Started` (what is in progress begins behind all
tokens), `SignsBinary` needs `SignStart` (a number in progress that has a sign
was begun in a unary context), `WordStart` (a word has none), and `LastDecides`,
which ties `lastTy` to the last token across blanks and comments. `NothingLost`
is about the finished text, so its invariant `AInv` says the same of every state
up to `Settled`, where the text begins that no token decides yet (`mark` while a
token is in progress, else the pointer); `CommentText` keeps what a comment in
progress owes: it starts behind every token and has not ended before the pointer.

`LayoutFree` is about both lexers of `LexerLayout`, for texts that meet
`LayoutAssumption` too: no keyword has the type of a quote, and no letter or digit
is an operator. Its proof has three parts.

- What a token is: `LInv` gives each token its shape (`Shaped`). A token outside
  strings is a word, a number, an operator, a quote or a character of no class, and
  a number has a sign only behind a type of `UnaryContext`; one behind an odd number
  of quotes is the content of a string, its closing quote, or the backslash that
  ends the text (`IsTorn`). No shape mentions the character behind the token, except
  that of the backslash: that is why a token can be moved. How a string is read is
  a set of places, each leading to the next by one character or two
  (`StringText`), since a backslash hides what follows it.
- Where the tokens are in the text that is written again: `LaidOut` places them one
  blank apart (`Laid`), from what `FlattenSeq` puts where, and their shapes move
  with them.
- That the second lexer reads those: `Follows` says which token it is in and what
  it still has to see. A word, number or operator ends at the blank or the NUL and
  not before (`LaidEdge`), a sign begins a number as in the first text because the
  same type lies before it, and a string ends where a quote, the NUL or the last
  backslash stands (`StringEnding`).

`NodeStorageProofs` proves, for any threads, kinds, capacities and data:
`TablesGuarded`, `ReferencesValid` and `NodesKeepData`. The invariant `SInv` adds
that a program counter says who holds the mutex, that every number given out is
below `current` and belongs to one slot, under construction or constructed. So a
write never meets a slot that a reference shows, although the reference is
guarded by nothing.

`CodeGenProofs` proves, for every unit whose trees have the fields the parser
gives them (`ProgramAssumption`): `CodeGenTypeOK`, `ContextsMatchNesting` and
`AddressesLocal`. `SoundCode` says that every block ever made stays in its
function and that a block which is the target of a branch exists; `StateTyped`
and `AgendaTyped` give each task the locals its visitor holds at that point.
`ContextInv` is the heart: the agenda is cut into stretches by the tasks that end
a function, and scopes, return contexts and arguments have one entry for each
stretch; the names in a scope stand for instructions of the function that
stretch belongs to. It is inductive because a visitor puts what it pushes and
the task that pops it onto the stack together, and a step looks at the topmost
scope only.

`ClassLayoutProofs` proves, for every unit of functions and classes that hold
attributes and functions (`UnitAssumption`; `NameAssumption` says that the order
of `std::map` lists every name): `BodiesInPlace` and `DispatchRight`. Neither
holds without knowing which phase the unit is in, and the agenda tells
(`Phases`): while it is declared and filled nothing is generated; once it is
generated no `fill` is left. `MethodsFilled` then carries through `fill()`: a method without
a function is still on the agenda, one with a function has its own, and, unless
it is the builder, the slot that holds it, although `buildVTable` numbers the
slots anew after every method. `ObjectsKnown` follows an object from `new`: the
pointer to the vtable is set before the builder runs, so before a variable takes
the object over. `Placed` says where the current class comes from: the tasks up
to the next `leave` are those of members of the current class, and those behind
it are of the unit.

`PrattProofs` proves, for every equation, every list of variables and any number of
slots: `VerdictRight`, `GroupedAsWritten`, `RootRight`, `IRExecutable` and that the
slots of a `Context` are never overrun and hold a name once. `VerdictRight` speaks of the end; its invariant
`ParseInv` says of every place of the parser that what is read alternates and
closes no more than it opened, that the parser expects an operator exactly behind
an operand, and that as many parentheses are open as calls wait for one
(`ReadOK`). That a parser which stops inside a parenthesis stops rightly needs
`CallsOK`: a call made for a parenthesis runs with `min_bp` 0, also after the calls
it makes have returned, so it stops at no operator. `StepsInv` gives
`IRExecutable`: the left operands that calls of `collect_steps` hold, and the value
that one returns, are numbers or results of steps listed already.

`GroupedAsWritten` is about one tree of any height and its text at a time.
`Goals` gives each call, running or waiting, a goal: the tree it is to build and
the position behind it. What a call reads first is an operand of its goal
(`FirstAtom`: a number, a name, a minus with what it negates, or what a
parenthesis holds), and from there a `Chain` leads to the goal, each link an
operation that has the one before as its left operand, binds more strongly than
`min_bp` and is followed by nothing that binds more strongly than its right
operand may. A waiting call is described by the chain it will go on with once it
is given its operand. So the loop goes on exactly until its goal is built, and
`expr` neither refuses the text nor groups it otherwise.

`RootRight` needs three things. `BuildInv` bounds the height of what is built by
the tokens read, so that the equation is one of the trees whose value the
recursive function of `ValueIn` defines. `VarsInv` says what the slots hold after
each variable that is read: the last number given for a name, if a slot was free
when the name came first. `RootInv` follows `collect_steps` from the whole
equation to the part that is collected (`Descends`): each waiting call holds its
part, or the value of its left operand, and wherever a part has no value the
whole has none, so an error for a missing variable is right. That the sorted list
still has the last step is `Sorted`, about `FlattenSeq`.

`SequenceFacts` has what these proofs need to know of sequences: concatenation,
`Tail`, `SubSeq`, `InsertAt`, and of `FlattenSeq` how long it is and where its
parts are in it. The recursion of `FlattenSeq` is unfolded by `LeastNumber` (a set
of naturals that is not empty has a least element, so a smallest counterexample is
taken to a smaller one), since the theorems on induction take an operator, which
the provers cannot supply.

The assumptions of `Orchestrator` say that main is not a worker and no mutex
holder is `Free`, and give the types of the constants. They ask nothing of the
source files. `MeaningAssumption` of `PrattMeaning` asks that no number and no name is
spelled like an operator or a parenthesis, which is what the characters `lex` tells
apart make sure of, and that the trees asked about have a height.

Model-checked only: `Termination`, the liveness of `CompilePipeline` and
`CallsEnd` of `StringInterning`, since liveness under fairness and `ENABLED` are
beyond the prover;
`MeaningPreserved` of code generation and the properties of `Parser`, which compare
trees or runs computed by recursive operators.

## Not modelled

The GraphViz output, the `.ll` text, `llc` and `clang` (called through
`system()`, whose failures are printed and change nothing), the run-time
library's wrappers of `printf` and `malloc`, the Python generator of the AST
classes (its output is not in the repository) and the dashboard. Failures of
`new` and of writing files are left out, as are `info()`, which prints, and
destructors. `CodeGen` has no numeric types and widths, so casts are absent, and
with them what an integer literal of 64 bits stored through a pointer to 32
overwrites. Its pointers are made by `ref`; `new` of a simple type, arrays and
pointers as parameters, global variables and functions declared in functions are
not in it, and objects are in `ClassLayout`. Nor are arrays declared without a
size: their symbol is registered with a type that LLVM sees as a pointer though
the alloca is an array, since `TypeArray::generateLLVMType` never returns the
null that the case for them in the declaration waits for. In `ClassLayout`, arguments and results of
methods, assignments and the initial values of array members are left out;
inheritance is, because no program can express it: the parser never sets a
parent. The mapping of types to LLVM's is pure and left out. Lines and columns of
tokens, and positions in error messages, are left out of `Lexer` and `Parser`.
