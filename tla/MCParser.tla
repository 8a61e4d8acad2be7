----------------------------- MODULE MCParser -----------------------------
(***************************************************************************)
(* Programs are made as trees and written with the parentheses they need,  *)
(* or made as chains of operators without any; a written program may have  *)
(* a parenthesis or brace dropped or doubled, a chain a sign too many or an *)
(* operand too few.                                                        *)
(***************************************************************************)
EXTENDS Parser

CONSTANT Chained   \* how many operands a chain has

MCNames == {"a", "b"}
MCLiterals == {"1", "2", "3", "5", "7", "-3"}
MCBaseTypes == {"int32", "string"}

Lit(x) == <<"literal", x>>
Id(x) == <<"name", x>>
Int32 == <<"type", "int32">>
Children(kids) == <<"children">> \o kids

Binary == {"||", "<", "-", "*"}
Is(kinds, e) == e[1] \in kinds

\* Expressions over the given ones.  No bracket in an index or among elements,
\* and no comma among elements: the code ends an index at the first closing
\* bracket, and splits elements at every comma.
RECURSIVE Holds(_, _)
Holds(kinds, e) == e[1] \in kinds \/ (e[1] \notin {"literal", "name", "type", "characters", "attribute", "ref", "unref"}
                                       /\ \E k \in 2 .. Len(e) : Holds(kinds, e[k]))
Bracketed == {"read", "elements"}
TwoArguments(e) == e[1] \in {"call", "new"} /\ Len(Last(e)) > 2
Expressions(S, few) ==
  LET plain == {e \in S : ~Holds(Bracketed, e)}
  IN {<<op, x, y>> : op \in Binary, x \in S, y \in few} \cup {<<op, x, y>> : op \in Binary, x \in few, y \in S}
     \cup {<<"!", x>> : x \in S}
     \cup {<<"read", Id("a"), x>> : x \in plain} \cup {<<"read", <<"name", "a", "b">>, x>> : x \in plain}
     \cup {<<"call", Id("a"), Children(<< >>)>>}
     \cup {<<"call", Id("a"), Children(<<x>>)>> : x \in S}
     \cup {<<"call", Id("a"), Id("b"), Children(<<x, y>>)>> : x \in few, y \in S}
     \cup {<<"new", <<"type", "b">>, x, y>> : x \in S, y \in few}
     \cup {<<"elements", x, y>> : x \in plain \cap few, y \in {e \in plain : ~Holds({"call", "new"}, e)}}
Atoms == {Lit("1"), Lit("a")}
Leaves == Atoms \cup {<<"attribute", Id("a"), Id("b")>>, <<"ref", Id("a")>>, <<"characters", "a">>}
Small == Leaves \cup Expressions(Atoms, {Lit("1")})
Large == Small \cup Expressions(Small, {Lit("a"), <<"-", Lit("1"), Lit("a")>>})

Statements(e) == {
  <<"return", e>>, <<"return">>, <<"dec", Int32, Id("a"), e>>,
  <<"dec", <<"array of", Int32, e>>, Id("a"), Lit("1")>>, <<"aff", Id("a"), e>>,
  <<"aff", Id("a"), e, Lit("1")>>, <<"call", Id("a"), Children(<<e, Lit("1")>>)>>,
  <<"call", Id("a"), Id("b"), Children(<<e>>)>>, <<"delete", Id("a")>>, <<"unref", Id("a")>>,
  <<"if", e, Children(<<<<"aff", Id("a"), e>>>>)>>,
  <<"if", e, Children(<< >>), Children(<<<<"return", e>>>>)>>,
  <<"while", e, Children(<<<<"delete", Id("b")>>, <<"return">>>>)>>}
Function(name, body) ==
  <<"fn", Int32, Id(name), Children(<<<<"arg", <<"array of", <<"type", "b">>>>, Id("a")>>,
                                      <<"arg", Int32, Id("b")>>>>), Children(body)>>
Member(kind, visibility, node) == <<kind, <<node[1], <<"visibility", visibility>>>> \o Tail(node)>>
Class(e) ==
  <<"class", Id("b"), Member("member", "private", <<"dec", Int32, Id("a"), e>>),
    Member("builder", "public", Function("b", <<<<"aff", Id("a"), e>>>>)),
    Member("member", "public", Function("a", <<<<"return", e>>>>))>>

Bodies == {Function("a", <<<<"aff", Id("b"), e>>>>) : e \in Large}
Files == {<<<<"include", Id("a")>>, Function("a", <<s>>), Function("b", <<s, s>>)>> :
            s \in UNION {Statements(e) : e \in Leaves}}
         \cup {<<Function("a", <<s>>)>> : s \in UNION {Statements(e) : e \in Small}}
         \cup {<<Class(e)>> : e \in Small} \cup {<<Class(e), Function("a", << >>)>> : e \in Atoms}

---------------------------------------------------------------------------
(* Writing a tree *)

RECURSIVE Write(_), WriteAll(_, _)
WriteAll(trees, separator) ==
  IF trees = << >> THEN << >>
  ELSE Write(Head(trees)) \o (IF Len(trees) = 1 THEN << >> ELSE separator) \o WriteAll(Tail(trees), separator)
Paren(ts) == <<"(">> \o ts \o <<")">>
Brace(ts) == <<"{">> \o ts \o <<"}">>
Operand(e) == IF e[1] \in Binary \cup {"!"} THEN Paren(Write(e)) ELSE Write(e)
List(node, separator) == WriteAll(Tail(node), separator)
Call(node) ==
  <<"call", node[2][2]>> \o (IF Len(node) = 4 THEN <<".", node[3][2]>> ELSE << >>)
  \o Paren(List(Last(node), <<",">>))
EndStatement(s) == IF s[1] \in {"call", "unref"} THEN Write(s) \o (IF s[1] = "call" THEN <<";">> ELSE << >>) ELSE Write(s)
Block(node) == Brace(FlattenSeq([k \in 1 .. Len(node) - 1 |-> EndStatement(node[k + 1])]))
Plain(member) == <<member[2][1]>> \o SubSeq(member[2], 3, Len(member[2]))

Write(n) ==
  CASE n[1] \in Binary -> Operand(n[2]) \o <<n[1]>> \o Operand(n[3])
    [] n[1] = "literal" -> <<n[2]>>
    [] n[1] = "name" -> IF Len(n) = 3 THEN <<n[2], ".", n[3]>> ELSE <<n[2]>>
    [] n[1] = "type" -> <<n[2]>>
    [] n[1] = "array of" -> Write(n[2]) \o <<"[">> \o (IF Len(n) = 3 THEN Write(n[3]) ELSE << >>) \o <<"]">>
    [] n[1] = "!" -> <<"!">> \o Operand(n[2])
    [] n[1] = "read" -> Write(n[2]) \o <<"[">> \o Write(n[3]) \o <<"]">>
    [] n[1] = "attribute" -> Write(n[2]) \o <<".">> \o Write(n[3])
    [] n[1] \in {"ref", "unref"} -> <<n[1], n[2][2]>>
    [] n[1] = "characters" -> <<"QUOTE", n[2], "QUOTE">>
    [] n[1] = "call" -> Call(n)
    [] n[1] = "new" -> <<"new", n[2][2]>> \o Paren(WriteAll(SubSeq(n, 3, Len(n)), <<",">>))
    [] n[1] = "elements" -> <<"[">> \o List(n, <<",">>) \o <<"]">>
    [] n[1] = "return" -> <<"return">> \o List(n, << >>) \o <<";">>
    [] n[1] = "dec" -> <<"dec">> \o Write(n[2]) \o Write(n[3]) \o <<"=">> \o Write(n[4]) \o <<";">>
    [] n[1] = "aff" ->
         <<"aff">> \o Write(n[2]) \o (IF Len(n) = 4 THEN <<"[">> \o Write(n[3]) \o <<"]">> ELSE << >>)
         \o <<"=">> \o Write(Last(n)) \o <<";">>
    [] n[1] = "delete" -> <<"delete", n[2][2], ";">>
    [] n[1] = "include" -> <<"include", "QUOTE", n[2][2], "QUOTE", ";">>
    [] n[1] = "arg" -> <<"arg">> \o Write(n[2]) \o Write(n[3])
    [] n[1] = "if" -> <<"if">> \o Paren(Write(n[2])) \o Block(n[3])
                      \o (IF Len(n) = 4 THEN <<"else">> \o Block(n[4]) ELSE << >>)
    [] n[1] = "while" -> <<"while">> \o Paren(Write(n[2])) \o Block(n[3])
    [] n[1] = "fn" -> <<"fn">> \o Write(n[2]) \o Write(n[3]) \o Paren(List(n[4], <<",">>)) \o Block(n[5])
    [] n[1] = "class" ->
         <<"class", n[2][2]>> \o Brace(FlattenSeq([k \in 1 .. Len(n) - 2 |->
           <<n[k + 2][2][2][2], ":">> \o Write(Plain(n[k + 2]))]))

---------------------------------------------------------------------------
VARIABLES
  written,  \* the trees the tokens were written from, or the chain
  form      \* "whole", "damaged" or "chain"

Damageable(ts) == {i \in 1 .. Len(ts) : ts[i] \in {"(", ")", "{", "}"}}
Damages(ts) == {RemoveAt(ts, i) : i \in Damageable(ts)} \cup {InsertAt(ts, i, ts[i]) : i \in Damageable(ts)}

ChainOperators == {"+", "-", "*", "/", "%", "<"}
ChainOperands == <<"7", "2", "5", "-3", "2">>
Chains == {FlattenSeq([k \in 1 .. Chained |->
             IF k = 1 THEN <<ChainOperands[1]>> ELSE <<ops[k - 1], ChainOperands[k]>>]) :
             ops \in {o \in [1 .. Chained - 1 -> ChainOperators] :
                        \A j, k \in 1 .. Chained - 1 : o[j] = "<" /\ o[k] = "<" => j = k}}

\* A sign before one operand, or one operand missing.
SpoiledChains(chain) ==
  LET operands == {i \in 1 .. Len(chain) : i % 2 = 1}
  IN {InsertAt(chain, i, sign) : i \in operands, sign \in {"+", "-"}}
     \cup {RemoveAt(chain, i) : i \in operands}
ReturnChain(chain) == <<"return">> \o chain \o <<";">>

Begin(trees, ts, how) ==
  /\ written = trees /\ form = how
  /\ Start(ts \o <<"EOF">>)

Init ==
  \/ \E body \in Bodies : Begin(<<body>>, Write(body), "whole")
  \/ \E file \in Files :
       \/ Begin(file, WriteAll(file, << >>), "whole")
       \/ \E ts \in Damages(WriteAll(file, << >>)) : Begin(file, ts, "damaged")
  \/ \E chain \in Chains :
       \/ Begin(chain, ReturnChain(chain), "chain")
       \/ \E spoiled \in SpoiledChains(chain) : Begin(chain, ReturnChain(spoiled), "damaged")

Spec == Init /\ [][Next /\ UNCHANGED <<written, form>>]_<<vars, written, form>>

---------------------------------------------------------------------------
\* A program written from a tree is parsed to that tree: no operand, element,
\* argument, statement, member or visibility is lost, moved or regrouped.
RoundTrip == form = "whole" /\ status # "building" => status = "built" /\ children = written

\* A bracket ends the equation in it and `new` asks for no closing parenthesis.
NewInBrackets == \E i \in 1 .. Len(tokens) : tokens[i] = "new" /\ Open("[", "]", tokens, 1, i) > 0

\* A parenthesis or a brace without a partner, an operator without an operand, or
\* a sign that the lexer has not made part of a number never goes unnoticed,
\* however the search for operators takes it and however far behind it the build
\* goes on before something is missing; but for one exception.
UnbalancedRefused == form = "damaged" => status # "built" \/ NewInBrackets

Number == "1" :> 1 @@ "2" :> 2 @@ "3" :> 3 @@ "5" :> 5 @@ "7" :> 7 @@ "-3" :> -3
\* Division towards zero.
Absolute(n) == IF n < 0 THEN -n ELSE n
Quotient(x, y) ==
  LET q == Absolute(x) \div Absolute(y) IN IF (x < 0) = (y < 0) THEN q ELSE -q
\* A value is a sequence of one number, or none when it is undefined.
Apply(op, x, y) ==
  CASE x = << >> \/ y = << >> -> << >>
    [] op = "+" -> <<x[1] + y[1]>>
    [] op = "-" -> <<x[1] - y[1]>>
    [] op = "*" -> <<x[1] * y[1]>>
    [] op = "<" -> <<IF x[1] < y[1] THEN 1 ELSE 0>>
    [] op = "/" -> IF y[1] = 0 THEN << >> ELSE <<Quotient(x[1], y[1])>>
    [] op = "%" -> IF y[1] = 0 THEN << >> ELSE <<x[1] - y[1] * Quotient(x[1], y[1])>>

RECURSIVE Value(_), FromLeft(_, _)
Value(e) == IF e[1] = "literal" THEN <<Number[e[2]]>> ELSE Apply(e[1], Value(e[2]), Value(e[3]))

\* The usual rules: the last operator of the loosest kind is done last.
Loosest(chain) ==
  LET At(ops) == {k \in 1 .. Len(chain) : chain[k] \in ops}
  IN Max(IF At({"<"}) # {} THEN At({"<"}) ELSE IF At({"+", "-"}) # {} THEN At({"+", "-"}) ELSE At({"*", "/", "%"}))
FromLeft(chain, n) ==
  IF n = 1 THEN <<Number[chain[1]]>>
  ELSE LET k == Loosest(chain)
       IN Apply(chain[k], FromLeft(SubSeq(chain, 1, k - 1), k - 1),
                          FromLeft(SubSeq(chain, k + 1, n), n - k))

\* A division behind a multiplication, or a remainder behind either: there the
\* levels of the chain of responsibility give another value.
Regrouped(chain) ==
  \E j, k \in 1 .. Len(chain) :
    /\ j < k /\ <<chain[j], chain[k]>> \in {<<"*", "/">>, <<"*", "%">>, <<"/", "%">>}
    /\ \A i \in j .. k : chain[i] \notin {"+", "-", "<"}

\* Every operator has a level of its own and + is looser than -, yet an
\* equation without parentheses has the value the usual rules give it.
ValueKept ==
  form = "chain" /\ status # "building" =>
    status = "built" /\ (~Regrouped(written) => Value(children[1][2]) = FromLeft(written, Len(written)))

=============================================================================
