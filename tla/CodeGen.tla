------------------------------ MODULE CodeGen ------------------------------
(***************************************************************************)
(* GeneralVisitorGenCode on the functions of one unit: the visitors of     *)
(* expressions, declarations, assignments, calls, if, while and return,    *)
(* and the state they share in ContextGenCode.  The C++ call stack is the  *)
(* agenda: the tasks that remain, each with the locals it needs.  A        *)
(* variable is a value, an array whose size is declared, or a pointer;     *)
(* numeric types and widths are left out, and casts with them.  Parameters *)
(* are values, objects are in ClassLayout, and functions are declared at   *)
(* the top level.                                                          *)
(***************************************************************************)
EXTENDS Naturals, Sequences, SequencesExt

CONSTANTS
  Programs,        \* the units, each a sequence of functions
  Nodes,           \* what their bodies are made of: statements and expressions
  VoidFunctions,   \* names of the functions that return nothing
  LocalFunctions,  \* RegistryFunctionLocal: the functions a call may name
  NoValue,         \* a temporary whose address is nullptr
  NoNode           \* the nullptr that stands for a missing node

\* The trees the parser makes: what a node has below it are nodes again, and a
\* function stands at the top level only.
WellFormed(node) ==
  /\ node.kind # "function"
  /\ node.kind = "operation" => {node.left, node.right} \subseteq Nodes
  /\ node.kind = "negation" => node.operand \in Nodes
  /\ node.kind \in {"read", "assignelement"} => node.index \in Nodes
  /\ node.kind = "initialisation" => node.elements \in Seq(Nodes)
  /\ node.kind = "call" => node.arguments \in Seq(Nodes)
  /\ node.kind \in {"declare", "assign", "assignelement"} => node.expression \in Nodes
  /\ node.kind \in {"if", "while"} => node.condition \in Nodes
  /\ node.kind = "if" => node.then \in Seq(Nodes) /\ node.else \in Seq(Nodes)
  /\ node.kind = "while" => node.body \in Seq(Nodes)
  /\ node.kind = "return" => node.returned \in Nodes \cup {NoNode}

IsFunction(node) ==
  /\ node.kind = "function"
  /\ node.parameters \in Seq(ToSet(node.parameters))
  /\ node.body \in Seq(Nodes)

ASSUME ProgramAssumption ==
  /\ \A node \in Nodes : WellFormed(node)
  /\ \A program \in Programs :
       program \in Seq(ToSet(program)) /\ \A i \in DOMAIN program : IsFunction(program[i])

\* Pass 1 has registered every function a unit declares.
ASSUME RegisteredAssumption ==
  \A program \in Programs : \A i \in DOMAIN program : program[i].name \in LocalFunctions

VARIABLES
  agenda,      \* what remains to be done, the next task first
  temporary,   \* ContextGenCode's temporary value
  scopes,      \* RegistryVariable: name -> symbol, innermost last
  returns,     \* ReturnContextCompilation: does the function return nothing?
  arguments,   \* RegistryArgument
  blocks,      \* the basic blocks made so far: their function and their code
  insert,      \* the block at which the IRBuilder inserts
  serial,      \* instructions made so far, which names the next
  status       \* "running", "done", or how generation was given up

context == <<temporary, scopes, returns, arguments>>
ir == <<blocks, insert, serial>>
vars == <<agenda, context, ir, status>>

Visit(node) == [do |-> "visit", node |-> node]
VisitAll(nodes) == [i \in DOMAIN nodes |-> Visit(nodes[i])]

Init ==
  /\ \E program \in Programs : agenda = VisitAll(program)
  /\ temporary = NoValue
  /\ scopes = <<[name \in {} |-> 0]>>
  /\ returns = <<>>
  /\ arguments = <<>>
  /\ blocks = <<>>
  /\ insert = 0
  /\ serial = 0
  /\ status = "running"

---------------------------------------------------------------------------
\* Tasks.

Task == Head(agenda)
Doing(what) == status = "running" /\ agenda # <<>> /\ Task.do = what
Visiting(kind) == Doing("visit") /\ Task.node.kind = kind

\* The present task is replaced by others.
Continue(tasks) == agenda' = tasks \o Tail(agenda) /\ UNCHANGED status

\* Exceptions: CompilationError is an "error", which is reported; any other is
\* "fatal", since no handler catches it; "crash" is a use of a null pointer.
GiveUp(how) ==
  /\ status' = how
  /\ UNCHANGED <<agenda, context, ir>>

---------------------------------------------------------------------------
\* Instructions.

Constant(c) == <<"constant", c>>
Parameter(i) == <<"parameter", i>>
Register(i) == <<"register", i>>
FunctionValue(name) == <<"function", name>>

\* What the next instruction is called and results in.
Result == Register(serial + 1)
Instruction(op, operands) == [op |-> op, operands |-> operands, result |-> Result]

Branch(block) == Instruction("br", <<block>>)
CondBranch(value, yes, no) == Instruction("condbr", <<value, yes, no>>)

Terminators == {"br", "condbr", "ret", "retvoid"}
Terminated(block) == block.code # <<>> /\ Last(block.code).op \in Terminators

Appended(instruction) == [blocks EXCEPT ![insert].code = Append(@, instruction)]

Emit(instruction) ==
  /\ blocks' = Appended(instruction)
  /\ serial' = serial + 1
  /\ UNCHANGED insert

\* BasicBlock::Create, n times, in the function of the present block.
NewBlocks(n) == [i \in 1 .. n |-> [function |-> blocks[insert].function, code |-> <<>>]]

\* A terminator and new blocks; the builder goes on in another block.
EmitAndMove(instruction, n, next) ==
  /\ blocks' = Appended(instruction) \o NewBlocks(n)
  /\ serial' = serial + 1
  /\ insert' = next

---------------------------------------------------------------------------
\* Expressions.

Declared(name) == \E i \in DOMAIN scopes : name \in DOMAIN scopes[i]

\* What a name stands for: an address and the type of what it holds.
Symbol(address, type) == [address |-> address, type |-> type]

\* The symbol of a name in the innermost scope that knows it.
SymbolOf(name) ==
  scopes[Max({i \in DOMAIN scopes : name \in DOMAIN scopes[i]})][name]
AddressOf(name) == SymbolOf(name).address
TypeOf(name) == SymbolOf(name).type

VisitLiteral ==
  /\ Visiting("literal")
  /\ temporary' = Constant(Task.node.value)
  /\ Continue(<<>>)
  /\ UNCHANGED <<scopes, returns, arguments, ir>>

VisitVariable ==
  /\ Visiting("variable")
  /\ IF Declared(Task.node.name)
     THEN /\ Emit(Instruction("load", <<AddressOf(Task.node.name)>>))
          /\ temporary' = Result
          /\ Continue(<<>>)
          /\ UNCHANGED <<scopes, returns, arguments>>
     ELSE GiveUp("fatal")

VisitOperation ==
  /\ Visiting("operation")
  /\ Continue(<<Visit(Task.node.left), [do |-> "right", node |-> Task.node]>>)
  /\ UNCHANGED <<context, ir>>

VisitRight ==
  /\ Doing("right")
  /\ Continue(<<Visit(Task.node.right), [do |-> "operate", left |-> temporary]>>)
  /\ UNCHANGED <<context, ir>>

Operate ==
  /\ Doing("operate")
  /\ IF NoValue \in {Task.left, temporary}
     THEN GiveUp("crash")
     ELSE /\ Emit(Instruction("operation", <<Task.left, temporary>>))
          /\ temporary' = Result
          /\ Continue(<<>>)
          /\ UNCHANGED <<scopes, returns, arguments>>

VisitNegation ==
  /\ Visiting("negation")
  /\ Continue(<<Visit(Task.node.operand), [do |-> "negate"]>>)
  /\ UNCHANGED <<context, ir>>

Negate ==
  /\ Doing("negate")
  /\ IF temporary = NoValue
     THEN GiveUp("crash")
     ELSE /\ Emit(Instruction("not", <<temporary>>))
          /\ temporary' = Result
          /\ Continue(<<>>)
          /\ UNCHANGED <<scopes, returns, arguments>>

---------------------------------------------------------------------------
\* Pointers and elements of arrays.

\* The end of a handler that has computed an address: it loads from there, or
\* stores there and resets the temporary value.
LoadFrom(address) == [do |-> "load", address |-> address]
StoreTo(address, value) == [do |-> "store", address |-> address, value |-> value]

Load ==
  /\ Doing("load")
  /\ Emit(Instruction("load", <<Task.address>>))
  /\ temporary' = Result
  /\ Continue(<<>>)
  /\ UNCHANGED <<scopes, returns, arguments>>

Store ==
  /\ Doing("store")
  /\ Emit(Instruction("store", <<Task.address, Task.value>>))
  /\ temporary' = NoValue
  /\ Continue(<<>>)
  /\ UNCHANGED <<scopes, returns, arguments>>

\* The element of an array at an index.
Element(array, index) == Instruction("gep", <<array, index>>)

\* ref: the address itself, without an instruction.  It asks the registry, which
\* throws a CompilationError; the other visitors ask VariableAddressor.
VisitRef ==
  /\ Visiting("ref")
  /\ IF Declared(Task.node.name)
     THEN /\ temporary' = AddressOf(Task.node.name)
          /\ Continue(<<>>)
          /\ UNCHANGED <<scopes, returns, arguments, ir>>
     ELSE GiveUp("error")

\* unref: the pointer is loaded, and then what it points to.
VisitUnref ==
  LET name == Task.node.name
  IN /\ Visiting("unref")
     /\ IF Declared(name) /\ TypeOf(name) = "pointer"
        THEN /\ Emit(Instruction("load", <<AddressOf(name)>>))
             /\ Continue(<<LoadFrom(Result)>>)
             /\ UNCHANGED context
        ELSE GiveUp("fatal")

\* The array is looked up before its index is evaluated.
VisitRead ==
  /\ Visiting("read")
  /\ IF Declared(Task.node.name)
     THEN /\ Continue(<<Visit(Task.node.index),
                        [do |-> "read", array |-> SymbolOf(Task.node.name)]>>)
          /\ UNCHANGED <<context, ir>>
     ELSE GiveUp("fatal")

\* The type of the elements of anything but an array is nullptr.
EndRead ==
  /\ Doing("read")
  /\ IF temporary = NoValue \/ Task.array.type # "array"
     THEN GiveUp("crash")
     ELSE /\ Emit(Element(Task.array.address, temporary))
          /\ Continue(<<LoadFrom(Result)>>)
          /\ UNCHANGED context

\* A list of values has no value of its own; a declaration never visits it.
VisitInitialisation ==
  /\ Visiting("initialisation")
  /\ temporary' = NoValue
  /\ Continue(<<>>)
  /\ UNCHANGED <<scopes, returns, arguments, ir>>

---------------------------------------------------------------------------
\* Calls.

\* The loop over the arguments, from the i-th on, and the call behind it.
ArgumentTasks(node, i) ==
  IF i <= Len(node.arguments)
  THEN <<Visit(node.arguments[i]), [do |-> "add", node |-> node, index |-> i]>>
  ELSE <<[do |-> "call", node |-> node]>>

VisitCall ==
  /\ Visiting("call")
  /\ Task.node.name # "print"
  /\ arguments' = <<>>
  /\ IF Task.node.name \in LocalFunctions
     THEN Continue(ArgumentTasks(Task.node, 1))
     ELSE status' = "fatal" /\ UNCHANGED agenda
  /\ UNCHANGED <<temporary, scopes, returns, ir>>

AddArgument ==
  /\ Doing("add")
  /\ IF temporary = NoValue
     THEN GiveUp("fatal")
     ELSE /\ arguments' = Append(arguments, temporary)
          /\ Continue(ArgumentTasks(Task.node, Task.index + 1))
          /\ UNCHANGED <<temporary, scopes, returns, ir>>

\* Mutant: the arguments of the call stay in the registry.
EmitCallUncleared ==
  /\ Doing("call")
  /\ Emit(Instruction("call", <<Task.node.name, arguments>>))
  /\ temporary' = IF Task.node.name \in VoidFunctions THEN NoValue ELSE Result
  /\ Continue(<<>>)
  /\ UNCHANGED <<scopes, returns, arguments>>

EmitCall ==
  /\ Doing("call")
  /\ Emit(Instruction("call", <<Task.node.name, arguments>>))
  /\ arguments' = <<>>
  /\ temporary' = IF Task.node.name \in VoidFunctions THEN NoValue ELSE Result
  /\ Continue(<<>>)
  /\ UNCHANGED <<scopes, returns>>

\* The built-in print, of its first argument if it has one.
VisitPrint ==
  /\ Visiting("call")
  /\ Task.node.name = "print"
  /\ Continue(IF Task.node.arguments = <<>> THEN <<>>
              ELSE <<Visit(Task.node.arguments[1]), [do |-> "print"]>>)
  /\ UNCHANGED <<context, ir>>

EmitPrint ==
  /\ Doing("print")
  /\ IF temporary = NoValue
     THEN GiveUp("fatal")
     ELSE /\ Emit(Instruction("call", <<"print", <<temporary>>>>))
          /\ temporary' = NoValue
          /\ Continue(<<>>)
          /\ UNCHANGED <<scopes, returns, arguments>>

---------------------------------------------------------------------------
\* Declarations and assignments.

\* An alloca goes behind the last one of its block, or to its front.
WithAlloca(code) ==
  LET last == Max({0} \cup {i \in DOMAIN code : code[i].op = "alloca"})
  IN InsertAt(code, last + 1, Instruction("alloca", <<>>))

Allocate ==
  /\ blocks' = [blocks EXCEPT ![insert].code = WithAlloca(@)]
  /\ serial' = serial + 1
  /\ UNCHANGED insert

\* A name is registered in the innermost scope, once.
Bind(name, symbol) ==
  IF name \in DOMAIN Last(scopes)
  THEN status' = "error" /\ UNCHANGED <<agenda, scopes>>
  ELSE /\ scopes' = [scopes EXCEPT ![Len(scopes)] =
            [n \in DOMAIN @ \cup {name} |-> IF n = name THEN symbol ELSE @[n]]]
       /\ Continue(<<>>)

VisitDeclaration ==
  LET node == Task.node
  IN /\ Visiting("declare")
     /\ node.expression.kind # "initialisation"
     /\ Allocate
     /\ Continue(<<Visit(node.expression),
                   [do |-> "declare", name |-> node.name, symbol |-> Symbol(Result, node.type)]>>)
     /\ UNCHANGED context

\* Nothing is stored or registered for an expression without a value.
EndDeclaration ==
  /\ Doing("declare")
  /\ IF temporary = NoValue
     THEN Continue(<<>>) /\ UNCHANGED <<scopes, ir>>
     ELSE /\ Emit(Instruction("store", <<Task.symbol.address, temporary>>))
          /\ Bind(Task.name, Task.symbol)
  /\ UNCHANGED <<temporary, returns, arguments>>

\* The elements of an array are evaluated and stored one by one, from the i-th on.
VisitArrayDeclaration ==
  LET node == Task.node
  IN /\ Visiting("declare")
     /\ node.expression.kind = "initialisation"
     /\ IF node.type = "array"
        THEN /\ Allocate
             /\ Continue(<<[do |-> "element", node |-> node, array |-> Result, index |-> 1]>>)
             /\ UNCHANGED context
        ELSE GiveUp("fatal")

VisitElement ==
  LET elements == Task.node.expression.elements
      i == Task.index
  IN /\ Doing("element")
     /\ i <= Len(elements)
     /\ Emit(Element(Task.array, Constant(i - 1)))
     /\ Continue(<<Visit(elements[i]), [do |-> "fill", address |-> Result],
                   [Task EXCEPT !.index = i + 1]>>)
     /\ UNCHANGED context

FillElement ==
  /\ Doing("fill")
  /\ IF temporary = NoValue
     THEN GiveUp("crash")
     ELSE /\ Emit(Instruction("store", <<Task.address, temporary>>))
          /\ Continue(<<>>)
          /\ UNCHANGED context

EndArrayDeclaration ==
  /\ Doing("element")
  /\ Task.index > Len(Task.node.expression.elements)
  /\ Bind(Task.node.name, Symbol(Task.array, "array"))
  /\ UNCHANGED <<temporary, returns, arguments, ir>>

VisitAssignment ==
  /\ Visiting("assign")
  /\ Continue(<<Visit(Task.node.expression), [do |-> "assign", name |-> Task.node.name]>>)
  /\ UNCHANGED <<context, ir>>

\* What is assigned to a pointer is stored where it points.
EndAssignment ==
  /\ Doing("assign")
  /\ CASE ~Declared(Task.name) -> GiveUp("fatal")
       [] Declared(Task.name) /\ temporary = NoValue -> GiveUp("crash")
       [] OTHER ->
            LET place == SymbolOf(Task.name)
            IN /\ UNCHANGED context
               /\ IF place.type = "pointer"
                  THEN /\ Emit(Instruction("load", <<place.address>>))
                       /\ Continue(<<StoreTo(Result, temporary)>>)
                  ELSE Continue(<<StoreTo(place.address, temporary)>>) /\ UNCHANGED ir

\* The index is evaluated before the value, and the array is looked up last.
VisitElementAssignment ==
  /\ Visiting("assignelement")
  /\ Continue(<<Visit(Task.node.index), [do |-> "indexed", node |-> Task.node]>>)
  /\ UNCHANGED <<context, ir>>

VisitElementValue ==
  LET node == Task.node
  IN /\ Doing("indexed")
     /\ Continue(<<Visit(node.expression),
                   [do |-> "assignelement", name |-> node.name, index |-> temporary]>>)
     /\ UNCHANGED <<context, ir>>

EndElementAssignment ==
  /\ Doing("assignelement")
  /\ CASE ~Declared(Task.name) -> GiveUp("fatal")
       [] /\ Declared(Task.name)
          /\ NoValue \in {Task.index, temporary} \/ TypeOf(Task.name) # "array" -> GiveUp("crash")
       [] OTHER ->
            /\ Emit(Element(AddressOf(Task.name), Task.index))
            /\ Continue(<<StoreTo(Result, temporary)>>)
            /\ UNCHANGED context

---------------------------------------------------------------------------
\* Control flow.

VisitIf ==
  /\ Visiting("if")
  /\ Continue(<<Visit(Task.node.condition), [do |-> "branch", node |-> Task.node]>>)
  /\ UNCHANGED <<context, ir>>

\* The three blocks of an if: then, else, endif.
BranchOnCondition ==
  LET first == Len(blocks) + 1
  IN /\ Doing("branch")
     /\ IF temporary = NoValue
        THEN GiveUp("crash")
        ELSE /\ EmitAndMove(CondBranch(temporary, first, first + 1), 3, first)
             /\ Continue(VisitAll(Task.node.then) \o
                  <<[do |-> "else", node |-> Task.node, else |-> first + 1, end |-> first + 2]>>)
             /\ UNCHANGED context

BeginElse ==
  /\ Doing("else")
  /\ EmitAndMove(Branch(Task.end), 0, Task.else)
  /\ Continue(VisitAll(Task.node.else) \o <<[do |-> "endif", end |-> Task.end]>>)
  /\ UNCHANGED context

EndIf ==
  /\ Doing("endif")
  /\ EmitAndMove(Branch(Task.end), 0, Task.end)
  /\ temporary' = NoValue
  /\ Continue(<<>>)
  /\ UNCHANGED <<scopes, returns, arguments>>

\* Mutant: the end block is not made.
VisitWhileWithoutEnd ==
  LET first == Len(blocks) + 1
  IN /\ Visiting("while")
     /\ EmitAndMove(Branch(first), 2, first)
     /\ Continue(<<Visit(Task.node.condition),
                   [do |-> "loop", node |-> Task.node, condition |-> first]>>)
     /\ UNCHANGED context

\* The three blocks of a while: condition, body, end.
VisitWhile ==
  LET first == Len(blocks) + 1
  IN /\ Visiting("while")
     /\ EmitAndMove(Branch(first), 3, first)
     /\ Continue(<<Visit(Task.node.condition),
                   [do |-> "loop", node |-> Task.node, condition |-> first]>>)
     /\ UNCHANGED context

EnterLoop ==
  LET body == Task.condition + 1
      end == Task.condition + 2
  IN /\ Doing("loop")
     /\ IF temporary = NoValue
        THEN GiveUp("crash")
        ELSE /\ EmitAndMove(CondBranch(temporary, body, end), 0, body)
             /\ Continue(VisitAll(Task.node.body) \o
                  <<[do |-> "repeat", condition |-> Task.condition, end |-> end]>>)
             /\ UNCHANGED context

Repeat ==
  /\ Doing("repeat")
  /\ EmitAndMove(Branch(Task.condition), 0, Task.end)
  /\ Continue(<<>>)
  /\ UNCHANGED context

VisitReturn ==
  /\ Visiting("return")
  /\ IF Task.node.returned = NoNode
     THEN GiveUp("crash")
     ELSE /\ Continue(<<Visit(Task.node.returned), [do |-> "return"]>>)
          /\ UNCHANGED <<context, ir>>

\* A value cannot be cast to void.
EndReturn ==
  /\ Doing("return")
  /\ IF temporary = NoValue \/ Last(returns) = "void"
     THEN GiveUp("crash")
     ELSE /\ Emit(Instruction("ret", <<temporary>>))
          /\ Continue(<<>>)
          /\ UNCHANGED context

---------------------------------------------------------------------------
\* Functions.

ReturnType(name) == IF name \in VoidFunctions THEN "void" ELSE "value"

\* Entry: each parameter is stored in an alloca of its own.
ParameterCode(n) ==
  [j \in 1 .. 2 * n |->
     IF j % 2 = 1
     THEN [op |-> "alloca", operands |-> <<>>, result |-> Register(serial + j)]
     ELSE [op |-> "store", operands |-> <<Register(serial + j - 1), Parameter(j \div 2)>>,
           result |-> Register(serial + j)]]

DeclareFunction ==
  LET f == Task.node
      n == Len(f.parameters)
  IN /\ Visiting("function")
     /\ returns' = Append(returns, ReturnType(f.name))
     /\ blocks' = Append(blocks, [function |-> f.name, code |-> ParameterCode(n)])
     /\ insert' = Len(blocks) + 1
     /\ serial' = serial + 2 * n
     /\ scopes' = Append(scopes,
          [name \in ToSet(f.parameters) |->
             LET i == SelectInSeq(f.parameters, LAMBDA p : p = name)
             IN Symbol(Register(serial + 2 * i - 1), "value")])
     /\ IF IsInjective(f.parameters)
        THEN Continue(VisitAll(f.body) \o <<[do |-> "end", name |-> f.name]>>)
        ELSE status' = "error" /\ UNCHANGED agenda
     /\ UNCHANGED <<temporary, arguments>>

\* Mutant: the scope of the function stays.
EndFunctionInScope ==
  /\ Doing("end")
  /\ IF Last(returns) = "void" /\ ~Terminated(blocks[insert])
     THEN Emit(Instruction("retvoid", <<>>))
     ELSE UNCHANGED ir
  /\ returns' = Front(returns)
  /\ temporary' = FunctionValue(Task.name)
  /\ Continue(<<>>)
  /\ UNCHANGED <<arguments, scopes>>

\* A void function returns at its end; both stacks are popped.
EndFunction ==
  /\ Doing("end")
  /\ IF Last(returns) = "void" /\ ~Terminated(blocks[insert])
     THEN Emit(Instruction("retvoid", <<>>))
     ELSE UNCHANGED ir
  /\ scopes' = IF Len(scopes) > 1 THEN Front(scopes) ELSE scopes
  /\ returns' = Front(returns)
  /\ temporary' = FunctionValue(Task.name)
  /\ Continue(<<>>)
  /\ UNCHANGED arguments

EndUnit ==
  /\ status = "running"
  /\ agenda = <<>>
  /\ status' = "done"
  /\ UNCHANGED <<agenda, context, ir>>

\* Generation is over.
Stopped == status # "running" /\ UNCHANGED vars

---------------------------------------------------------------------------
Expression ==
  \/ VisitLiteral \/ VisitVariable \/ VisitOperation \/ VisitRight \/ Operate
  \/ VisitNegation \/ Negate
Place ==
  VisitRef \/ VisitUnref \/ VisitRead \/ EndRead \/ Load \/ Store \/ VisitInitialisation
Call == VisitCall \/ AddArgument \/ EmitCall \/ VisitPrint \/ EmitPrint
Variable ==
  \/ VisitDeclaration \/ EndDeclaration \/ VisitAssignment \/ EndAssignment
  \/ VisitArrayDeclaration \/ VisitElement \/ FillElement \/ EndArrayDeclaration
  \/ VisitElementAssignment \/ VisitElementValue \/ EndElementAssignment
If == VisitIf \/ BranchOnCondition \/ BeginElse \/ EndIf
While == VisitWhile \/ EnterLoop \/ Repeat
Return == VisitReturn \/ EndReturn
Function == DeclareFunction \/ EndFunction \/ EndUnit

Next ==
  Expression \/ Place \/ Call \/ Variable \/ If \/ While \/ Return \/ Function \/ Stopped

Spec == Init /\ [][Next]_vars

---------------------------------------------------------------------------
Stages == {"running", "done", "error", "fatal", "crash"}
Operations == Terminators \cup {"load", "store", "alloca", "gep", "operation", "not", "call"}

CodeGenTypeOK ==
  /\ \A i \in DOMAIN agenda : agenda[i].do \in
       {"visit", "right", "operate", "negate", "add", "call", "print", "load", "store",
        "read", "declare", "element", "fill", "assign", "indexed", "assignelement",
        "branch", "else", "endif", "loop", "repeat", "return", "end"}
  /\ scopes # <<>>
  /\ returns \in Seq({"void", "value"})
  /\ insert \in 0 .. Len(blocks)
  /\ serial \in Nat
  /\ status \in Stages
  /\ \A b \in DOMAIN blocks : \A k \in DOMAIN blocks[b].code :
       /\ blocks[b].code[k].op \in Operations
       /\ blocks[b].code[k].result \in {Register(i) : i \in 1 .. serial}

\* Between the declaration of a function and its end, and only there, a scope and
\* a return type are pushed, whatever its body contains.
ContextsMatchNesting ==
  LET open == Cardinality({i \in DOMAIN agenda : agenda[i].do = "end"})
  IN status = "running" => Len(scopes) = open + 1 /\ Len(returns) = open

\* What a function loads, stores or indexes is reached from a variable of its own,
\* itself, by an index or through a pointer: names of one function are not
\* known in the next.
AddressesLocal ==
  \A b \in DOMAIN blocks : \A k \in DOMAIN blocks[b].code :
    LET instruction == blocks[b].code[k]
    IN instruction.op \in {"load", "store", "gep"} =>
         \E c \in DOMAIN blocks : \E j \in DOMAIN blocks[c].code :
           /\ blocks[c].function = blocks[b].function
           /\ blocks[c].code[j].op \in {"alloca", "gep", "load"}
           /\ blocks[c].code[j].result = instruction.operands[1]

---------------------------------------------------------------------------
\* robustness.md 5 ("each function call creates an isolated local context"): a
\* call is made with the arguments its node has, whatever calls are among them.
ArgumentsIsolated ==
  Doing("call") => Len(arguments) = Len(Task.node.arguments)

=============================================================================
