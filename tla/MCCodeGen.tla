----------------------------- MODULE MCCodeGen -----------------------------
(***************************************************************************)
(* CodeGen on small programs, with a meaning for programs and one for the  *)
(* blocks made from them.  Values are symbolic; what a condition yields is *)
(* chosen, so a run is the run of a function for a sequence of choices.    *)
(***************************************************************************)
EXTENDS CodeGen

\* What has been observed of a run: the calls and conditions in order, the
\* choices still to come, and how it ended.
Start(choices) == [memory |-> <<>>, trace |-> <<>>, choices |-> choices, end |-> "no"]
Undefined == <<"undefined", 0>>
Value(memory, place) == IF place \in DOMAIN memory THEN memory[place] ELSE Undefined
Set(memory, place, value) == (place :> value) @@ memory
Observe(st, event) == [st EXCEPT !.trace = Append(@, event)]
Event(st) == <<"event", Len(st.trace)>>

---------------------------------------------------------------------------
\* The meaning of the source.

\* Places: variables and elements of arrays.  A pointer's value is a place.
Named(name) == <<"variable", name>>
ElementOf(array, index) == <<"element", array, index>>

\* What an assignment to a name changes: what it points to, if it is a pointer.
Target(memory, name) ==
  LET value == Value(memory, Named(name))
  IN IF value[1] = "variable" THEN value ELSE Named(name)

RECURSIVE Eval(_, _), EvalAll(_, _)
Eval(e, st) ==
  CASE e.kind = "literal" -> [value |-> Constant(e.value), st |-> st]
    [] e.kind = "variable" -> [value |-> Value(st.memory, Named(e.name)), st |-> st]
    [] e.kind = "ref" -> [value |-> Named(e.name), st |-> st]
    [] e.kind = "unref" ->
         [value |-> Value(st.memory, Value(st.memory, Named(e.name))), st |-> st]
    [] e.kind = "read" ->
         LET index == Eval(e.index, st)
         IN [value |-> Value(index.st.memory, ElementOf(e.name, index.value)), st |-> index.st]
    [] e.kind = "negation" ->
         LET operand == Eval(e.operand, st)
         IN [value |-> <<"not", operand.value>>, st |-> operand.st]
    [] e.kind = "operation" ->
         LET both == EvalAll(<<e.left, e.right>>, st)
         IN [value |-> <<"operation", both.values>>, st |-> both.st]
    [] e.kind = "call" ->
         LET all == EvalAll(e.arguments, st)
             after == CASE e.name = "print" /\ e.arguments = <<>> -> st
                        [] e.name \notin LocalFunctions \cup {"print"} -> Observe(st, <<"no meaning", <<>>>>)
                        [] OTHER -> Observe(all.st, <<e.name, all.values>>)
         IN [value |-> IF e.name \in VoidFunctions THEN Undefined ELSE Event(after),
             st |-> after]
EvalAll(es, st) ==
  IF es = <<>> THEN [values |-> <<>>, st |-> st]
  ELSE LET first == Eval(Head(es), st)
           rest == EvalAll(Tail(es), first.st)
       IN [values |-> <<first.value>> \o rest.values, st |-> rest.st]

RECURSIVE RunAll(_, _), RunOne(_, _)
Decide(st, value, ifTrue, ifFalse) ==
  LET asked == Observe(st, <<"condition", value>>)
  IN IF st.choices = <<>> THEN [asked EXCEPT !.end = "open"]
     ELSE RunAll(IF Head(st.choices) THEN ifTrue ELSE ifFalse,
                 [asked EXCEPT !.choices = Tail(@)])
RunOne(s, st) ==
  CASE s.kind = "declare" /\ s.type = "array" ->
         LET all == EvalAll(s.expression.elements, st)
             places == {ElementOf(s.name, Constant(i - 1)) : i \in DOMAIN all.values}
         IN [all.st EXCEPT !.memory =
               [place \in places |-> all.values[place[3][2] + 1]] @@ @]
    [] s.kind = "declare" /\ s.type # "array" ->
         LET result == Eval(s.expression, st)
         IN IF result.value = Undefined THEN result.st
            ELSE [result.st EXCEPT !.memory = Set(@, Named(s.name), result.value)]
    [] s.kind = "assign" ->
         LET result == Eval(s.expression, st)
         IN [result.st EXCEPT !.memory = Set(@, Target(@, s.name), result.value)]
    [] s.kind = "assignelement" ->
         LET index == Eval(s.index, st)
             result == Eval(s.expression, index.st)
         IN [result.st EXCEPT !.memory = Set(@, ElementOf(s.name, index.value), result.value)]
    [] s.kind = "return" ->
         LET result == Eval(s.returned, st)
         IN [result.st EXCEPT !.end = <<"return", result.value>>]
    [] s.kind = "if" ->
         LET result == Eval(s.condition, st)
         IN Decide(result.st, result.value, s.then, s.else)
    [] s.kind = "while" ->
         LET result == Eval(s.condition, st)
         IN Decide(result.st, result.value, Append(s.body, s), <<>>)
    [] OTHER -> Eval(s, st).st
RunAll(ss, st) ==
  IF ss = <<>> \/ st.end # "no" THEN st ELSE RunAll(Tail(ss), RunOne(Head(ss), st))

RunSource(f, choices) ==
  LET entry == [Start(choices) EXCEPT !.memory =
                  [place \in {Named(name) : name \in ToSet(f.parameters)} |->
                     Parameter(SelectInSeq(f.parameters, LAMBDA p : p = place[2]))]]
      st == RunAll(f.body, entry)
  IN IF st.end = "no"
     THEN [st EXCEPT !.end = IF f.name \in VoidFunctions THEN "void" ELSE "off"]
     ELSE st

---------------------------------------------------------------------------
\* The meaning of the blocks.  Registers and variables share the memory.

Operand(st, v) == IF v[1] = "register" THEN Value(st.memory, v) ELSE v
Stored(st, address) == Value(st.memory, <<"at", address>>)

RECURSIVE RunCode(_, _, _)
RunCode(b, k, st) ==
  LET i == blocks[b].code[k]
      a == i.operands
      Onward(after) == RunCode(b, k + 1, after)
      With(place, value) == [st EXCEPT !.memory = Set(@, place, value)]
  IN IF k > Len(blocks[b].code) THEN [st EXCEPT !.end = "off"]
     ELSE CASE i.op = "alloca" -> Onward(With(i.result, i.result))
            [] i.op = "load" -> Onward(With(i.result, Stored(st, Operand(st, a[1]))))
            [] i.op = "store" ->
                 Onward(With(<<"at", Operand(st, a[1])>>, Operand(st, a[2])))
            [] i.op = "gep" ->
                 Onward(With(i.result, <<"element", Operand(st, a[1]), Operand(st, a[2])>>))
            [] i.op = "not" -> Onward(With(i.result, <<"not", Operand(st, a[1])>>))
            [] i.op = "operation" ->
                 Onward(With(i.result, <<"operation", <<Operand(st, a[1]), Operand(st, a[2])>>>>))
            [] i.op = "call" ->
                 LET after == Observe(st, <<a[1], [n \in DOMAIN a[2] |-> Operand(st, a[2][n])]>>)
                 IN Onward([after EXCEPT !.memory = Set(@, i.result, Event(after))])
            [] i.op = "br" -> RunCode(a[1], 1, st)
            [] i.op = "condbr" ->
                 LET asked == Observe(st, <<"condition", Operand(st, a[1])>>)
                 IN IF st.choices = <<>> THEN [asked EXCEPT !.end = "open"]
                    ELSE RunCode(IF Head(st.choices) THEN a[2] ELSE a[3], 1,
                                 [asked EXCEPT !.choices = Tail(@)])
            [] i.op = "ret" -> [st EXCEPT !.end = <<"return", Operand(st, a[1])>>]
            [] i.op = "retvoid" -> [st EXCEPT !.end = "void"]

RunBlocks(f, choices) ==
  RunCode(CHOOSE b \in DOMAIN blocks :
            /\ blocks[b].function = f.name
            /\ ~\E c \in 1 .. b - 1 : blocks[c].function = f.name,
          1, Start(choices))

---------------------------------------------------------------------------
\* Functions.

Literal == [kind |-> "literal", value |-> 1]
Var(x) == [kind |-> "variable", name |-> x]
Op(l, r) == [kind |-> "operation", left |-> l, right |-> r]
CallOf(f, args) == [kind |-> "call", name |-> f, arguments |-> args]
Not(e) == [kind |-> "negation", operand |-> e]
Ref(x) == [kind |-> "ref", name |-> x]
Unref(x) == [kind |-> "unref", name |-> x]
Read(x, i) == [kind |-> "read", name |-> x, index |-> i]
Values(es) == [kind |-> "initialisation", elements |-> es]
DeclareAs(type, x, e) == [kind |-> "declare", type |-> type, name |-> x, expression |-> e]
Declare(x, e) == DeclareAs("value", x, e)
AssignElement(x, i, e) == [kind |-> "assignelement", name |-> x, index |-> i, expression |-> e]
Assign(x, e) == [kind |-> "assign", name |-> x, expression |-> e]
ReturnOf(e) == [kind |-> "return", returned |-> e]
IfElse(c, t, e) == [kind |-> "if", condition |-> c, then |-> t, else |-> e]
WhileDo(c, b) == [kind |-> "while", condition |-> c, body |-> b]
Fn(f, params, body) ==
  [kind |-> "function", name |-> f, parameters |-> params, body |-> body]

X == Var("x")
Y == Var("y")
Inner == CallOf("g", <<X>>)

Expressions ==
  {X, Op(X, Literal), CallOf("g", <<Inner>>), CallOf("h", <<Inner, Literal>>),
   Op(Inner, CallOf("g", <<Literal>>)), CallOf("v", <<>>), CallOf("g", <<CallOf("v", <<>>)>>)}
Simple ==
  {Declare("y", e) : e \in Expressions}
  \cup {Assign("x", Op(X, Literal)), Assign("y", X), ReturnOf(Y), ReturnOf(Inner),
        ReturnOf(NoNode), CallOf("print", <<Inner>>), CallOf("print", <<>>), CallOf("v", <<>>)}
Bodies ==
  {<<>>, <<ReturnOf(X)>>, <<Declare("y", Inner)>>, <<Assign("x", Literal), CallOf("print", <<X>>)>>}
Compound ==
  {IfElse(c, t, e) : c \in {X, Inner}, t, e \in Bodies}
  \cup {WhileDo(c, b) : c \in {Op(X, Literal), CallOf("v", <<>>)}, b \in Bodies}
  \cup {WhileDo(X, <<IfElse(X, <<ReturnOf(X)>>, <<>>), Assign("x", Inner)>>),
        IfElse(X, <<WhileDo(X, <<CallOf("print", <<X>>)>>)>>, <<Declare("y", X)>>)}

Body2 == {<<a, b, ReturnOf(X)>> : a, b \in Simple \cup Compound}
Second == Fn("k", <<"y">>, <<Declare("x", Y), ReturnOf(X)>>)
Procedure == {Fn("v", <<>>, b) : b \in {<<>>, <<CallOf("print", <<Literal>>)>>,
               <<ReturnOf(Literal)>>, <<WhileDo(Literal, <<>>)>>, <<ReturnOf(Y)>>}}

\* With an array and a pointer: two statements, and what is read afterwards.  Some
\* of them use a name as what it is not, one that is not declared, or no value.
Array == DeclareAs("array", "a", Values(<<X, CallOf("g", <<Literal>>)>>))
Pointer == DeclareAs("pointer", "p", Ref("x"))
Places ==
  {Read("a", Literal), Read("a", CallOf("g", <<Read("a", Literal)>>)), Unref("p"), Not(X),
   Not(Op(Unref("p"), Read("a", Literal)))}
PlaceSteps ==
  {Declare("y", e) : e \in Places}
  \cup {Assign("p", e) : e \in {Literal, Op(Unref("p"), X)}}
  \cup {AssignElement("a", i, e) : i \in {Literal, Inner}, e \in {X, Inner, Unref("p")}}
  \cup {IfElse(Not(X), <<Assign("p", Inner)>>, <<AssignElement("a", X, Literal)>>),
        WhileDo(Unref("p"), <<Assign("p", Read("a", X)), Declare("z", Unref("p"))>>)}
Nothing == CallOf("v", <<>>)
Misuses ==
  {CallOf("missing", <<>>), CallOf("g", <<CallOf("missing", <<X>>)>>)}
  \cup {CallOf("g", <<e>>) : e \in {Ref("z"), Unref("z"), Unref("x"), Read("z", X), Read("x", X),
     Read("p", X), Read("a", Nothing), Not(Nothing), Op(X, Nothing), Values(<<X>>)}}
  \cup {DeclareAs("value", "z", Values(<<X>>)), DeclareAs("array", "a", Values(<<X>>)),
        DeclareAs("array", "z", Values(<<Nothing>>)),
        AssignElement("z", X, X), AssignElement("x", X, X),
        AssignElement("a", X, Nothing), AssignElement("a", Nothing, X),
        Assign("x", Nothing), IfElse(Nothing, <<>>, <<>>), CallOf("print", <<Nothing>>)}
Ends == {Op(X, Read("a", Literal)), Op(Unref("p"), Read("a", X))}
PlaceBodies ==
  {<<Array, Pointer, s, t, ReturnOf(e)>> : s, t \in PlaceSteps, e \in Ends}
  \cup {<<Array, Pointer, s>> : s \in Misuses}

\* A function of two statements and a return, and one that declares the same names;
\* then functions that return nothing, that use names of others, or that
\* declare a parameter twice.
Units ==
  {<<Fn("f", <<"x">>, b), Second>> : b \in Body2}
  \cup {<<Fn("f", <<"x">>, b)>> : b \in PlaceBodies}
  \cup {<<Second, p>> : p \in Procedure}
  \cup {<<Fn("f", <<"x", "x">>, <<ReturnOf(X)>>)>>}

\* A call that is not the first argument of another.
NestedUnits == {<<Fn("f", <<"x">>, <<ReturnOf(CallOf("h", <<X, Inner>>))>>)>>}

\* The nodes of the bodies: four levels below their statements.
Children(node) ==
  CASE node.kind = "operation" -> {node.left, node.right}
    [] node.kind = "negation" -> {node.operand}
    [] node.kind = "read" -> {node.index}
    [] node.kind = "initialisation" -> ToSet(node.elements)
    [] node.kind = "call" -> ToSet(node.arguments)
    [] node.kind \in {"declare", "assign"} -> {node.expression}
    [] node.kind = "assignelement" -> {node.index, node.expression}
    [] node.kind = "if" -> {node.condition} \cup ToSet(node.then) \cup ToSet(node.else)
    [] node.kind = "while" -> {node.condition} \cup ToSet(node.body)
    [] node.kind = "return" -> {node.returned} \ {NoNode}
    [] OTHER -> {}
Below(nodes) == nodes \cup UNION {Children(node) : node \in nodes}
Statements(units) ==
  UNION {UNION {ToSet(program[i].body) : i \in DOMAIN program} : program \in units}
Inside(statements) ==
  {node \in Below(Below(Below(Below(statements)))) : node.kind # "function"}
AllNodes == Inside(Statements(Units))
UnitNodes == AllNodes  \* TLC evaluates AllNodes once, and what a cfg names at every use
NestedNodes == Inside(Statements(NestedUnits))

Courses == UNION {[1 .. n -> BOOLEAN] : n \in 0 .. 3}

VARIABLE unit   \* the unit that is generated, for the meaning of its source

MCInit == Init /\ unit = [i \in DOMAIN agenda |-> agenda[i].node]
MCNext == Next /\ UNCHANGED unit
MCSpec == MCInit /\ [][MCNext]_<<vars, unit>>

\* Generated code does what the source says: for each function and each course of
\* its conditions the same calls with the same arguments, in the same order,
\* and the same end; no path runs off the end of a block.
MeaningPreserved ==
  status = "done" =>
    \A i \in DOMAIN unit : \A choices \in Courses :
      LET source == RunSource(unit[i], choices)
          code == RunBlocks(unit[i], choices)
      IN source.trace = code.trace /\ source.end = code.end

=============================================================================
