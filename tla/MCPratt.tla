------------------------------ MODULE MCPratt ------------------------------
(***************************************************************************)
(* Equations written from trees of up to three operations, and all short   *)
(* sequences of lexemes, right or wrong.                                   *)
(***************************************************************************)
EXTENDS PrattMeaning

CONSTANT Length   \* of the sequences of lexemes

MCNumbers == {"1", "2", "3"}
MCNames == {"x", "y"}
MCVarLists == {<<<<"x", "1">>, <<"x", "2">>, <<"y", "bad">>>>,
               <<<<"y", "1">>, <<"z", "3">>, <<"x", "3">>>>,
               << >>}

Few == {<<"num", "1">>, <<"var", "x">>, <<"var", "y">>}
Neg(e) == <<"*", MinusOne, e>>
Over(ops, L, R) == {<<op, l, r>> : op \in ops, l \in L, r \in R}
OneOp == Over(Op, {<<"num", "1">>}, Few) \cup {Neg(e) : e \in Few}
TwoOps == Over(Op, OneOp, Few) \cup Over(Op, Few, OneOp) \cup {Neg(e) : e \in OneOp}
SomeOp == Over(Op, {<<"num", "1">>}, {<<"var", "x">>}) \cup {Neg(<<"var", "x">>)}
MCTrees == Few \cup OneOp \cup TwoOps \cup Over(Op, SomeOp, SomeOp)

Loose == SeqOf({"1", "x", "+", "-", "^", "(", ")", "@"}, Length)
MCEquations == {WrittenAs[e] : e \in Trees} \cup Loose

=============================================================================
