--------------------------- MODULE PrattSchedule ---------------------------
(***************************************************************************)
(* The Rust library that solves an equation and lists its steps.  The      *)
(* recursive Parser::expr and collect_steps are machines with a stack: a   *)
(* frame holds what a call does after the call it makes.  Numbers are free *)
(* terms: the result of an operation is the operation itself with the      *)
(* values it had.                                                          *)
(***************************************************************************)
EXTENDS Integers, Sequences, FiniteSets, SequencesExt

CONSTANTS
  Numbers, Names,   \* lexemes of numbers and variables; any other is unknown
  Slots,            \* how many variables a Context holds, 32 in the code
  Equations,        \* what is asked, each a sequence of lexemes
  VarLists          \* the variables given, each a sequence of <<name, value>>

ASSUME PrattAssumption ==
  /\ Slots \in Nat /\ Numbers \cap Names = {}
  /\ \A eq \in Equations : Len(eq) \in Nat
  /\ \A list \in VarLists : Len(list) \in Nat

VARIABLES
  api,      \* "emit_ir", or "schedule", which the other entry points call
  given,    \* the variables the caller gives
  ctx,      \* Context: the variables, in the order they were inserted
  tokens,
  pos,      \* where parse_vars is in given, then where Parser is in tokens
  frames,   \* the calls of expr, or of collect_steps, that wait for the one that runs
  min,      \* min_bp of expr
  val,      \* lhs of expr, in the end the whole equation
  mode,     \* "vars", "lexed", "operand" and "loop" of expr, "collect" of collect_steps
            \* and "collected" when it returns, "done", or "refused" by lex or expr,
            \* or "failed" for want of a variable
  steps,    \* the steps made so far, and what the caller is given
  root      \* the part of val that is collected, then its value

vars == <<api, given, ctx, tokens, pos, frames, min, val, mode, steps, root>>

None == << >>
Op == {"+", "-", "*", "/", "^"}

Lex(lexeme) ==
  CASE lexeme \in Numbers -> <<"num", lexeme>>
    [] lexeme \in Names -> <<"var", lexeme>>
    [] lexeme \in Op \cup {"(", ")"} -> <<lexeme>>
    [] OTHER -> <<"error", lexeme>>

Peek == IF pos <= Len(tokens) THEN tokens[pos][1] ELSE "end"

Init ==
  /\ api \in {"schedule", "emit_ir"}
  /\ given \in IF api = "schedule" THEN VarLists ELSE {<< >>}
  /\ ctx = << >>
  /\ \E eq \in Equations : tokens = [i \in 1 .. Len(eq) |-> Lex(eq[i])]
  /\ pos = 1 /\ frames = << >> /\ min = 0 /\ val = None
  /\ mode = "vars"
  /\ steps = << >> /\ root = None

---------------------------------------------------------------------------
(* Context and parse_vars *)

SlotOf(c, name) == {i \in 1 .. Len(c) : c[i][1] = name}

\* Mutant: a name given again takes a slot of its own.
InsertAgain(c, name, value) == IF Len(c) < Slots THEN Append(c, <<name, value>>) ELSE c

\* Context::insert: a variable beyond the last slot is dropped.
Insert(c, name, value) ==
  IF SlotOf(c, name) # {}
    THEN [i \in 1 .. Len(c) |-> IF i \in SlotOf(c, name) THEN <<name, value>> ELSE c[i]]
    ELSE IF Len(c) < Slots THEN Append(c, <<name, value>>) ELSE c

\* A value that is no number is skipped.
ParseVar ==
  /\ mode = "vars" /\ pos <= Len(given)
  /\ ctx' = IF given[pos][2] \in Numbers THEN Insert(ctx, given[pos][1], <<"num", given[pos][2]>>)
                                         ELSE ctx
  /\ pos' = pos + 1
  /\ UNCHANGED <<api, given, tokens, frames, min, val, mode, steps, root>>

VarsParsed ==
  /\ mode = "vars" /\ pos > Len(given)
  /\ pos' = 1
  /\ mode' = "lexed"
  /\ UNCHANGED <<api, given, ctx, tokens, frames, min, val, steps, root>>

\* emit_ir does not look for tokens lex could not read.
StartExpr ==
  /\ mode = "lexed"
  /\ mode' = IF api = "schedule" /\ \E i \in 1 .. Len(tokens) : tokens[i][1] = "error"
               THEN "refused" ELSE "operand"
  /\ UNCHANGED <<api, given, ctx, tokens, pos, frames, min, val, steps, root>>

---------------------------------------------------------------------------
(* Parser::expr *)

lbp(t) == CASE t \in {"+", "-"} -> 1 [] t \in {"*", "/"} -> 2 [] t = "^" -> 3 [] OTHER -> 0

\* Mutant: a power binds to the left like the other operators.
rbpLeft(op) == lbp(op)
\* A power takes another power as its right operand.
rbp(op) == IF op = "^" THEN lbp(op) - 1 ELSE lbp(op)

Calling(frame, bp) ==
  /\ frames' = Append(frames, frame)
  /\ min' = bp
  /\ mode' = "operand"
  /\ pos' = pos + 1
  /\ UNCHANGED <<api, given, ctx, tokens, val, steps, root>>

Frame(kind, lhs) == [kind |-> kind, lhs |-> lhs, min |-> min]

EatOperand ==
  /\ mode = "operand" /\ Peek \in {"num", "var"}
  /\ val' = tokens[pos]
  /\ pos' = pos + 1
  /\ mode' = "loop"
  /\ UNCHANGED <<api, given, ctx, tokens, frames, min, steps, root>>

EatParen == mode = "operand" /\ Peek = "(" /\ Calling(Frame("(", None), 0)
EatMinus == mode = "operand" /\ Peek = "-" /\ Calling(Frame("neg", None), 10)

Unexpected ==
  /\ mode = "operand" /\ Peek \notin {"num", "var", "(", "-"}
  /\ mode' = "refused"
  /\ UNCHANGED <<api, given, ctx, tokens, pos, frames, min, val, steps, root>>

EatOperator == mode = "loop" /\ lbp(Peek) > min /\ Calling(Frame(Peek, val), rbp(Peek))

\* The call that runs returns val to the one that waits for it.
ReturnTo(frame, result, eaten) ==
  /\ val' = result
  /\ min' = frame.min
  /\ pos' = pos + eaten
  /\ frames' = Front(frames)
  /\ mode' = "loop"
  /\ UNCHANGED <<api, given, ctx, tokens, steps, root>>

\* Mutant: any token closes the parenthesis.
CloseUnchecked ==
  /\ Peek # "end"
  /\ mode = "loop" /\ lbp(Peek) <= min /\ frames # << >> /\ Last(frames).kind = "("
  /\ ReturnTo(Last(frames), val, 1)

Close ==
  /\ mode = "loop" /\ lbp(Peek) <= min /\ frames # << >> /\ Last(frames).kind = "("
  /\ IF Peek = ")"
       THEN ReturnTo(Last(frames), val, 1)
       ELSE mode' = "refused" /\ UNCHANGED <<api, given, ctx, tokens, pos, frames, min, val, steps, root>>

Return ==
  /\ mode = "loop" /\ lbp(Peek) <= min /\ frames # << >>
  /\ LET f == Last(frames) IN
       \/ f.kind = "neg" /\ ReturnTo(f, <<"*", <<"num", "-1">>, val>>, 0)
       \/ f.kind \in Op /\ ReturnTo(f, <<f.kind, f.lhs, val>>, 0)

\* expr(0) returns to schedule_with_ctx or emit_ir, which do not ask whether
\* tokens are left.
Accept ==
  /\ mode = "loop" /\ lbp(Peek) <= min /\ frames = << >>
  /\ mode' = "collect" /\ root' = val
  /\ UNCHANGED <<api, given, ctx, tokens, pos, frames, min, val, steps>>

---------------------------------------------------------------------------
(* collect_steps and the order of the steps *)

priority(op) == CASE op = "^" -> 1 [] op \in {"*", "/"} -> 2 [] OTHER -> 3

Step(op, l, r) == [priority |-> priority(op), op |-> op, lhs |-> l, rhs |-> r, result |-> <<op, l, r>>]

\* The call that runs hands root to the caller, or to the next call.
Collecting(newFrames, part, newMode) ==
  /\ frames' = newFrames /\ root' = part /\ mode' = newMode
  /\ UNCHANGED <<api, given, ctx, tokens, pos, min, val>>

CollectNum ==
  /\ mode = "collect" /\ root[1] = "num"
  /\ Collecting(frames, root, "collected") /\ UNCHANGED steps

CollectVariable ==
  /\ mode = "collect" /\ root[1] = "var"
  /\ \E i \in SlotOf(ctx, root[2]) : Collecting(frames, ctx[i][2], "collected")
  /\ UNCHANGED steps

\* A missing variable ends all calls.  emit_ir ignores the error and lists the
\* steps made so far; the other entry points return the error alone.
Missing ==
  /\ mode = "collect" /\ root[1] = "var" /\ SlotOf(ctx, root[2]) = {}
  /\ Collecting(<< >>, None, IF api = "emit_ir" THEN "done" ELSE "failed")
  /\ steps' = IF api = "emit_ir" THEN steps ELSE << >>

CollectLeft ==
  /\ mode = "collect" /\ root[1] \in Op
  /\ Collecting(Append(frames, Frame("left", root)), root[2], "collect") /\ UNCHANGED steps

CollectRight ==
  /\ mode = "collected" /\ frames # << >> /\ Last(frames).kind = "left"
  /\ LET e == Last(frames).lhs
     IN Collecting(Append(Front(frames), Frame(e[1], root)), e[3], "collect")
  /\ UNCHANGED steps

AddStep ==
  /\ mode = "collected" /\ frames # << >> /\ Last(frames).kind \in Op
  /\ LET step == Step(Last(frames).kind, Last(frames).lhs, root) IN
       /\ steps' = Append(steps, step)
       /\ Collecting(Front(frames), step.result, "collected")

\* The passes of schedule_with_ctx over the steps, one for each priority.
OfPriority(s, p) ==
  FlattenSeq([i \in DOMAIN s |-> IF s[i].priority = p THEN <<s[i]>> ELSE << >>])
ByPriority(s) == FlattenSeq([p \in 1 .. 3 |-> OfPriority(s, p)])

Schedule ==
  /\ mode = "collected" /\ frames = << >> /\ api = "schedule"
  /\ steps' = ByPriority(steps)
  /\ mode' = "done"
  /\ UNCHANGED <<api, given, ctx, tokens, pos, frames, min, val, root>>

\* Mutant: emit_ir sorts the steps the way schedule_with_ctx does.
EmitSorted ==
  /\ mode = "collected" /\ frames = << >> /\ api = "emit_ir"
  /\ steps' = ByPriority(steps)
  /\ mode' = "done"
  /\ UNCHANGED <<api, given, ctx, tokens, pos, frames, min, val, root>>

EmitIR ==
  /\ mode = "collected" /\ frames = << >> /\ api = "emit_ir"
  /\ mode' = "done"
  /\ UNCHANGED <<api, given, ctx, tokens, pos, frames, min, val, steps, root>>

Next ==
  \/ ParseVar \/ VarsParsed \/ StartExpr
  \/ EatOperand \/ EatParen \/ EatMinus \/ Unexpected
  \/ EatOperator \/ Close \/ Return \/ Accept
  \/ CollectNum \/ CollectVariable \/ Missing
  \/ CollectLeft \/ CollectRight \/ AddStep
  \/ Schedule \/ EmitIR

Spec == Init /\ [][Next]_vars

---------------------------------------------------------------------------
\* What a grammar allows of the first n tokens, said without a parser:
\* parentheses match, and operands and operators alternate; a minus may stand
\* where an operand begins.
OfKind(kind, n) == {i \in 1 .. n : tokens[i][1] = kind}
Depth(n) == Cardinality(OfKind("(", n)) - Cardinality(OfKind(")", n))
EndsOperand(i) == i > 0 /\ tokens[i][1] \in {"num", "var", ")"}
Alternates(i) ==
  IF EndsOperand(i - 1) THEN tokens[i][1] \in Op \cup {")"}
                        ELSE tokens[i][1] \in {"num", "var", "(", "-"}
WellFormed(n) ==
  /\ EndsOperand(n) /\ Depth(n) = 0
  /\ \A i \in 1 .. n : Depth(i) >= 0 /\ Alternates(i)

\* An equation the parser accepts is one up to where it stopped, and one it
\* refuses is none: no parenthesis is closed by something else, no operator
\* is left without an operand, and no right equation is turned down.
VerdictRight ==
  /\ mode \in {"collect", "collected", "done", "failed"} => WellFormed(pos - 1)
  /\ mode = "refused" => ~WellFormed(Len(tokens))

IsComputed(v, s, k) == v[1] \notin Op \/ \E j \in 1 .. k : s[j].result = v

\* Every operand of a step is a number or the result of a step before it.
InOrder(s) ==
  \A k \in 1 .. Len(s) : IsComputed(s[k].lhs, s, k - 1) /\ IsComputed(s[k].rhs, s, k - 1)

\* collect_steps lists the steps in an order in which they can be carried out,
\* also when it stops at a variable, and emit_ir keeps that order.
IRExecutable == api = "emit_ir" \/ mode # "done" => InOrder(steps)

\* So does the list of the other entry points.
StepsExecutable == api = "schedule" => InOrder(steps)

=============================================================================
