------------------------------- MODULE Parser -------------------------------
(***************************************************************************)
(* From tokens to a syntax tree.  The parsers of instructions differ in    *)
(* what they consume in which order: that is a table, and one operator     *)
(* reads it.  Equations are collected up to a stopper, split at the        *)
(* loosest operator, and what holds no operator is built by its first      *)
(* token, from the start: what it does not take is dropped.                *)
(* A token is its type, or a name, literal or type that stands for itself. *)
(***************************************************************************)
EXTENDS Integers, Sequences, SequencesExt, FiniteSetsExt

CONSTANTS Names, Literals, BaseTypes

VARIABLES
  tokens,
  index,
  children,  \* the instructions built so far
  status     \* "building", "built", or the error that ended the build:
             \* "compilation", "runtime", or "crash" for a read behind the end

vars == <<tokens, index, children, status>>

TypeOf(token) ==
  CASE token \in Names -> "IDENTIFIER"
    [] token \in Literals -> "LITERAL"
    [] token \in BaseTypes -> "TYPE"
    [] OTHER -> token

TypeAt(ts, at) == IF at \in 1 .. Len(ts) THEN TypeOf(ts[at]) ELSE "none"

\* What a parser leaves: where it stopped, the nodes it made, its exception.
Ok(at, kids) == [at |-> at, kids |-> kids, err |-> "none"]
Throw(err) == [at |-> 0, kids |-> << >>, err |-> err]
Then(result, Go(_)) == IF result.err # "none" THEN result ELSE Go(result)
\* The nodes of `result` become one node.
Wrap(kind, result) == Then(result, LAMBDA r : Ok(r.at, <<<<kind>> \o r.kids>>))

---------------------------------------------------------------------------
(* Where an equation ends, and where it is split *)

Count(type, ts, from, to) == Cardinality({i \in from .. to : ts[i] = type})
Open(opening, closing, ts, from, to) == Count(opening, ts, from, to) - Count(closing, ts, from, to)

\* BuilderTreeEquation::build(tokens, index): the first token that ends the
\* equation, or the one behind the last.
EquationEnd(ts, at) ==
  Min({Len(ts) + 1} \cup
      {i \in at .. Len(ts) :
         LET parens == Open("(", ")", ts, at, i - 1)
             brackets == Open("[", "]", ts, at, i - 1)
         IN \/ ts[i] = ")" /\ parens = 0
            \/ ts[i] = "]" /\ brackets = 0
            \/ ts[i] \in {";", "}", ","} /\ parens = 0 /\ brackets = 0})

\* Mutant: any parentheses at both ends are taken for a pair.
isWrappingUnmatched(eq) == Len(eq) >= 2 /\ eq[1] = "(" /\ Last(eq) = ")"
isWrapping(eq) ==
  /\ Len(eq) >= 2 /\ eq[1] = "(" /\ Last(eq) = ")"
  /\ \A i \in 1 .. Len(eq) : Open("(", ")", eq, 1, i) = 0 <=> i = Len(eq)

RECURSIVE removeWrappingParentheses(_)
removeWrappingParentheses(eq) ==
  IF eq # << >> /\ Last(eq) = "EOF" THEN removeWrappingParentheses(Front(eq))
  ELSE IF isWrapping(eq) THEN removeWrappingParentheses(Front(Tail(eq)))
  ELSE eq

\* Mutant: additions bind tighter than subtractions.
OperatorsSwapped == <<"||", "&&", "==", "!=", "<", ">", "<=", ">=", "-", "+", "*", "/", "%">>
\* From the loosest; each has a level of its own.
Operators == <<"||", "&&", "==", "!=", "<", ">", "<=", ">=", "+", "-", "*", "/", "%">>

isUnarySign(eq, i) == i = 1 \/ eq[i - 1] \in ToSet(Operators) \cup {"("}

\* 0 if there is none.  The code also looks for the operator just before the
\* one it found, but behind an operator a sign is unary.
findLastAtLevelZero(eq, op) ==
  Max({0} \cup {i \in 1 .. Len(eq) :
        /\ eq[i] = op
        /\ Open("(", ")", eq, i, Len(eq)) = 0
        /\ Open("[", "]", eq, i, Len(eq)) = 0
        /\ ~isUnarySign(eq, i)})

findOperator(eq) ==
  LET Place(k) == findLastAtLevelZero(eq, Operators[k])
      found == {k \in 1 .. Len(Operators) : Place(k) # 0}
  IN IF found = {} THEN 0 ELSE Place(Min(found))

---------------------------------------------------------------------------
(* What each parser of an instruction consumes *)

T(type) == <<"token", type>>
Name == <<"name">>
Type == <<"type">>
Equation == <<"equation">>
\* Instructions or equations up to a token, commas skipped.
Body == <<"children", "instruction", "}">>
Parameters == <<"children", "instruction", ")">>
Arguments == <<"children", "equation", ")">>
\* Consumed if this token is next, or only if it is not.
If(type, items) == <<"if", type, items>>
Unless(type, items) == <<"unless", type, items>>

ParserIf == <<T("if"), T("("), Equation, T(")"), T("{"), Body, T("}"),
              If("else", <<T("else"), T("{"), Body, T("}")>>)>>
ParserWhile == <<T("while"), T("("), Equation, T(")"), T("{"), Body, T("}")>>
ParserDelete == <<T("delete"), Name, T(";")>>
ParserArgFunction == <<T("arg"), Type, Name>>
ParserDeclarationFunction ==
  <<T("fn"), Type, Name, T("("), Parameters, T(")"), T("{"), Body, T("}")>>
ParserReturn == <<T("return"), Unless(";", <<Equation>>), T(";")>>
ParserInclude == <<T("include"), T("QUOTE"), Name, T("QUOTE"), T(";")>>
ParserDeclarationVariable == <<T("dec"), Type, Name, T("="), Equation, T(";")>>
\* The name of an attribute is consumed, but the node gets that of the object.
ParserAssignmentVariable ==
  <<T("aff"), Name, If(".", <<T("."), T("IDENTIFIER")>>),
    If("[", <<T("["), Equation, T("]")>>), T("="), Equation, T(";")>>
ParserRefVariable == <<T("ref"), Name>>
ParserUnRefVariable == <<T("unref"), Name>>
\* callAsInstruction holds always: an equation hands on a list of its own.
CallEnd == If(";", <<T(";")>>)
ParserCallFunction == <<T("call"), Name, T("("), Arguments, T(")"), CallEnd>>
ParserCallObject == <<T("call"), Name, T("."), Name, T("("), Arguments, T(")"), CallEnd>>

ParserCallCentral(ts, at) ==
  IF TypeAt(ts, at + 1) = "IDENTIFIER" /\ TypeAt(ts, at + 2) = "."
    THEN ParserCallObject ELSE ParserCallFunction

\* RegistryInstruction, but for classes.
registerInstructions(ts, at) ==
  CASE ts[at] = "if" -> ParserIf
    [] ts[at] = "while" -> ParserWhile
    [] ts[at] = "delete" -> ParserDelete
    [] ts[at] = "arg" -> ParserArgFunction
    [] ts[at] = "fn" -> ParserDeclarationFunction
    [] ts[at] = "return" -> ParserReturn
    [] ts[at] = "include" -> ParserInclude
    [] ts[at] = "dec" -> ParserDeclarationVariable
    [] ts[at] = "aff" -> ParserAssignmentVariable
    [] ts[at] = "ref" -> ParserRefVariable
    [] ts[at] = "unref" -> ParserUnRefVariable
    [] ts[at] = "call" -> ParserCallCentral(ts, at)

Instructions == {"if", "while", "delete", "arg", "fn", "return", "include", "dec", "aff",
                 "ref", "unref", "call", "class"}

\* Mutant: consume goes on when the token is not the expected one.
consumeAny(ts, at, type) == Ok(IF TypeAt(ts, at) = type THEN at + 1 ELSE at, << >>)
consume(ts, at, type) == IF TypeAt(ts, at) = type THEN Ok(at + 1, << >>) ELSE Throw("compilation")
consumeName(ts, at) == Then(consume(ts, at, "IDENTIFIER"), LAMBDA r : Ok(r.at, <<<<"name", ts[at]>>>>))

---------------------------------------------------------------------------
(* The builders call one another *)

RECURSIVE BuildEquation(_), BuildAll(_), Instruction(_, _), Consume(_, _, _),
          consumeChildBody(_, _, _, _), NewArguments(_, _), ClassBody(_, _, _, _)

EquationAt(ts, at) ==
  LET end == EquationEnd(ts, at)
  IN Then(BuildEquation(SubSeq(ts, at, end - 1)), LAMBDA r : Ok(end, r.kids))

\* TypeParser.  An equation that took all tokens leaves none to report at.
TypeParser(ts, at) ==
  LET type == <<"type", ts[at]>>
      size == IF TypeAt(ts, at + 2) = "]" THEN Ok(at + 2, << >>) ELSE EquationAt(ts, at + 2)
  IN IF TypeAt(ts, at) \notin {"TYPE", "IDENTIFIER"} THEN Throw("compilation")
     ELSE IF TypeAt(ts, at + 1) # "[" THEN Ok(at + 1, <<type>>)
     ELSE Then(size, LAMBDA r :
            CASE r.at > Len(ts) -> Throw("crash")
              [] ts[r.at] = "]" -> Ok(r.at + 1, <<<<"array of", type>> \o r.kids>>)
              [] OTHER -> Throw("compilation"))

Build(builder, ts, at) ==
  IF builder = "equation" THEN EquationAt(ts, at) ELSE Instruction(ts, at)

consumeChildBody(builder, end, ts, at) ==
  IF TypeAt(ts, at) \in {end, "none"} THEN Ok(at, << >>)
  ELSE IF ts[at] = "," THEN consumeChildBody(builder, end, ts, at + 1)
  ELSE Then(Build(builder, ts, at), LAMBDA first :
         Then(consumeChildBody(builder, end, ts, first.at), LAMBDA rest :
           Ok(rest.at, first.kids \o rest.kids)))

ConsumeItem(item, ts, at) ==
  CASE item[1] = "token" -> consume(ts, at, item[2])
    [] item[1] = "name" -> consumeName(ts, at)
    [] item[1] = "type" -> TypeParser(ts, at)
    [] item[1] = "equation" -> EquationAt(ts, at)
    [] item[1] = "children" -> Wrap("children", consumeChildBody(item[2], item[3], ts, at))
    [] item[1] = "if" -> IF TypeAt(ts, at) = item[2] THEN Consume(item[3], ts, at) ELSE Ok(at, << >>)
    [] item[1] = "unless" ->
         IF TypeAt(ts, at) \in {item[2], "none"} THEN Ok(at, << >>) ELSE Consume(item[3], ts, at)

Consume(items, ts, at) ==
  IF items = << >> THEN Ok(at, << >>)
  ELSE Then(ConsumeItem(Head(items), ts, at), LAMBDA first :
         Then(Consume(Tail(items), ts, first.at), LAMBDA rest :
           Ok(rest.at, first.kids \o rest.kids)))

---------------------------------------------------------------------------
(* Expressions *)

\* Up to the first closing bracket, one element between commas; a comma ends
\* an element wherever it is, and none is needed behind the last.
ExpressionArrayInitialization(eq) ==
  LET end == Min({Len(eq) + 1} \cup {i \in 2 .. Len(eq) : eq[i] = "]"})
      cuts == SetToSortSeq({1, end} \cup {i \in 2 .. end - 1 : eq[i] = ","}, <)
      parts == [k \in 1 .. Len(cuts) - 1 |-> SubSeq(eq, cuts[k] + 1, cuts[k + 1] - 1)]
      elements == IF parts # << >> /\ Last(parts) = << >> THEN Front(parts) ELSE parts
  IN Wrap("elements", BuildAll(elements))

NewArguments(eq, at) ==
  IF TypeAt(eq, at) \in {")", "none"} THEN Ok(at, << >>)
  ELSE Then(EquationAt(eq, at), LAMBDA first :
         Then(NewArguments(eq, IF TypeAt(eq, first.at) = "," THEN first.at + 1 ELSE first.at),
              LAMBDA rest : Ok(rest.at, first.kids \o rest.kids)))

ExpressionNew(eq) ==
  CASE TypeAt(eq, 2) = "IDENTIFIER" ->
         Then(IF TypeAt(eq, 3) = "(" THEN NewArguments(eq, 4) ELSE Ok(3, << >>), LAMBDA r :
           Ok(r.at, <<<<"new", <<"type", eq[2]>>>> \o r.kids>>))
    [] TypeAt(eq, 2) = "TYPE" -> Ok(3, <<<<"new", <<"type", eq[2]>>>>>>)
    [] OTHER -> Throw("compilation")

\* The characters of a string become literals, with a zero behind them.
ExpressionString(eq) ==
  IF TypeAt(eq, 2) = "IDENTIFIER" /\ TypeAt(eq, 3) = "QUOTE"
    THEN Ok(4, <<<<"characters", eq[2]>>>>) ELSE Throw("runtime")

\* An index begins at the first opening bracket and ends at the first closing one.
ExpressionIdentifiant(eq) ==
  LET opening == Min({Len(eq) + 1} \cup {i \in 1 .. Len(eq) : eq[i] = "["})
      closing == Min({Len(eq) + 1} \cup {i \in opening .. Len(eq) : eq[i] = "]"})
      object == IF opening = 4 /\ eq[2] = "." THEN <<"name", eq[1], eq[3]>> ELSE <<"name", eq[1]>>
  IN CASE opening <= Len(eq) ->
            Then(BuildEquation(SubSeq(eq, opening + 1, closing - 1)), LAMBDA r :
              Ok(r.at, <<<<"read", object>> \o r.kids>>))
       [] opening > Len(eq) /\ Len(eq) = 3 /\ eq[2] = "." ->
            Ok(0, <<<<"attribute", <<"name", eq[1]>>, <<"name", eq[3]>>>>>>)
       [] OTHER -> Ok(0, <<<<"literal", eq[1]>>>>)

\* `!` takes all that follows it.
ExpressionNegation(eq) ==
  IF Len(eq) < 2 THEN Throw("runtime") ELSE Wrap("!", BuildEquation(Tail(eq)))

ExpressionRef(eq) ==
  IF TypeAt(eq, 2) = "IDENTIFIER" THEN Ok(0, <<<<eq[1], <<"name", eq[2]>>>>>>) ELSE Throw("runtime")

\* registerExpressions.  The parser of calls is that of the instruction.
BuildExpression(eq) ==
  CASE TypeAt(eq, 1) = "LITERAL" -> Ok(0, <<<<"literal", eq[1]>>>>)
    [] TypeAt(eq, 1) = "IDENTIFIER" -> ExpressionIdentifiant(eq)
    [] TypeAt(eq, 1) \in {"ref", "unref"} -> ExpressionRef(eq)
    [] TypeAt(eq, 1) = "!" -> ExpressionNegation(eq)
    [] TypeAt(eq, 1) = "QUOTE" -> ExpressionString(eq)
    [] TypeAt(eq, 1) = "[" -> ExpressionArrayInitialization(eq)
    [] TypeAt(eq, 1) = "call" -> Wrap("call", Consume(ParserCallCentral(eq, 1), eq, 1))
    [] TypeAt(eq, 1) = "new" -> ExpressionNew(eq)
    [] OTHER -> Throw("compilation")

BuildEquation(ts) ==
  LET eq == removeWrappingParentheses(ts)
      k == findOperator(eq)
  IN IF eq = << >> THEN Throw("compilation")
     ELSE IF k = 0 THEN BuildExpression(eq)
     ELSE Wrap(eq[k], BuildAll(<<SubSeq(eq, 1, k - 1), SubSeq(eq, k + 1, Len(eq))>>))

BuildAll(equations) ==
  IF equations = << >> THEN Ok(0, << >>)
  ELSE Then(BuildEquation(Head(equations)), LAMBDA first :
         Then(BuildAll(Tail(equations)), LAMBDA rest : Ok(0, first.kids \o rest.kids)))

---------------------------------------------------------------------------
(* Classes, instructions and the file *)

\* classifyClassNode constructs a member anew with the visibility in force; a
\* function with the name of the class is a builder.
classifyClassNode(node, visibility, name) ==
  LET member == <<node[1], <<"visibility", visibility>>>> \o Tail(node)
  IN CASE node[1] = "dec" -> <<<<"member", member>>>>
       [] node[1] = "fn" -> IF node[3] = name THEN <<<<"builder", member>>>> ELSE <<<<"member", member>>>>
       [] OTHER -> << >>

ClassBody(ts, at, visibility, name) ==
  IF TypeAt(ts, at) \in {"}", "none"} THEN Ok(at, << >>)
  ELSE IF ts[at] \in {"public", "private", "protected"}
    THEN Then(consume(ts, at + 1, ":"), LAMBDA r : ClassBody(ts, r.at, ts[at], name))
  ELSE Then(Instruction(ts, at), LAMBDA first :
         LET node == classifyClassNode(first.kids[1], visibility, name)
         IN IF node = << >> THEN Throw("compilation")
            ELSE Then(ClassBody(ts, first.at, visibility, name), LAMBDA rest :
                   Ok(rest.at, node \o rest.kids)))

ParserClass(ts, at) ==
  Then(Consume(<<T("class"), Name, T("{")>>, ts, at), LAMBDA head :
    Then(ClassBody(ts, head.at, "private", head.kids[1]), LAMBDA body :
      Then(consume(ts, body.at, "}"), LAMBDA end : Ok(end.at, head.kids \o body.kids))))

Instruction(ts, at) ==
  IF ts[at] \notin Instructions THEN Throw("compilation")
  ELSE Wrap(ts[at], IF ts[at] = "class" THEN ParserClass(ts, at)
                    ELSE Consume(registerInstructions(ts, at), ts, at))

\* BuilderTreeInstruction::build is called with the tokens of a file.
Start(ts) == tokens = ts /\ index = 1 /\ children = << >> /\ status = "building"

\* One turn of its loop.
BuildInstruction ==
  /\ status = "building"
  /\ TypeAt(tokens, index) \notin {"EOF", "none"}
  /\ LET r == Instruction(tokens, index) IN
       IF r.err = "none"
         THEN index' = r.at /\ children' = children \o r.kids /\ UNCHANGED <<tokens, status>>
         ELSE status' = r.err /\ UNCHANGED <<tokens, index, children>>

EndBuild ==
  /\ status = "building"
  /\ TypeAt(tokens, index) \in {"EOF", "none"}
  /\ status' = "built"
  /\ UNCHANGED <<tokens, index, children>>

Next == BuildInstruction \/ EndBuild

=============================================================================
