---------------------------- MODULE PrattMeaning ----------------------------
(***************************************************************************)
(* What an equation means, said without a parser: the trees of type Expr,  *)
(* the text each is written with, and the value it has with the variables  *)
(* that are given.                                                         *)
(***************************************************************************)
EXTENDS PrattSchedule

CONSTANTS
  Height,   \* of the trees that are written
  Trees     \* those asked about

Leaf == ({"num"} \X Numbers) \cup ({"var"} \X Names)
\* What a minus before an operand multiplies it with.
MinusOne == <<"num", "-1">>

\* The trees whose height is at most h.
Tree[h \in Nat] ==
  LET Part == IF h = 0 THEN {} ELSE Tree[h - 1]
  IN Leaf \cup ({"*"} \X {MinusOne} \X Part) \cup (Op \X Part \X Part)

ASSUME MeaningAssumption ==
  /\ Height \in Nat /\ Trees \subseteq Tree[Height]
  /\ (Numbers \cup Names) \cap (Op \cup {"(", ")"}) = {}

---------------------------------------------------------------------------
(* How a tree is written: with no more parentheses than precedence needs *)

IsNegation(e) == e[1] = "*" /\ e[2] = MinusOne

Level(e) ==
  CASE e[1] \in {"num", "var"} \/ IsNegation(e) -> 4
    [] e[1] = "^" -> 3
    [] e[1] = "/" \/ (e[1] = "*" /\ ~IsNegation(e)) -> 2
    [] OTHER -> 1

\* What an operand needs to be written without parentheses: a power takes
\* powers to its right, the other operations take their like to their left.
LeftLevel(e) == IF e[1] = "^" THEN 4 ELSE Level(e)
RightLevel(e) == IF e[1] = "^" THEN 3 ELSE Level(e) + 1

Within(part, text, level) ==
  IF Level(part) < level THEN <<"(">> \o text \o <<")">> ELSE text

written[e \in Tree[Height]] ==
  CASE e[1] \in {"num", "var"} -> <<e[2]>>
    [] IsNegation(e) -> <<"-">> \o Within(e[3], written[e[3]], 4)
    [] OTHER -> Within(e[2], written[e[2]], LeftLevel(e)) \o <<e[1]>>
                \o Within(e[3], written[e[3]], RightLevel(e))

WrittenAs == [e \in Trees |-> written[e]]
Text == [i \in 1 .. Len(tokens) |-> tokens[i][Len(tokens[i])]]

\* An equation is grouped the way it was meant when it was written.
GroupedAsWritten ==
  mode \in {"collect", "refused"} =>
    LET text == Text
    IN \A e \in Trees : WrittenAs[e] = text => val = e /\ mode = "collect"

---------------------------------------------------------------------------
(* What it is worth *)

\* Of the first n variables given, those whose value is a number.
Good(n) == {i \in 1 .. n : given[i][2] \in Numbers}
Known(n) == {given[i][1] : i \in Good(n)}

\* A name stands for the last number given for it, if the Context still had a
\* slot when the name first came.
Meant(name, n) ==
  LET mine == {i \in Good(n) : given[i][1] = name}
  IN IF mine = {} \/ Cardinality(Known(Min(mine) - 1)) >= Slots
       THEN None ELSE <<"num", given[Max(mine)][2]>>

Combined(op, l, r) == IF l = None \/ r = None THEN None ELSE <<op, l, r>>

\* The value of a tree of height h, or None for want of a variable.
ValueIn(e, h) ==
  LET value[t \in Tree[h] \cup {MinusOne}] ==
        CASE t[1] = "num" -> t
          [] t[1] = "var" -> Meant(t[2], Len(given))
          [] OTHER -> Combined(t[1], value[t[2]], value[t[3]])
  IN value[e]

\* The result is the equation with each variable replaced, and its last
\* operation is among the steps; there is none only for want of a variable.
RootRight ==
  LET meant == ValueIn(val, Len(tokens)) IN
    /\ mode = "done" =>
         /\ root = meant
         /\ api = "schedule" => meant # None
         /\ root # None /\ root[1] \in Op => \E k \in 1 .. Len(steps) : steps[k].result = root
    /\ mode = "failed" => meant = None

=============================================================================
