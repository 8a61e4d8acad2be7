------------------------------ MODULE MCLexer ------------------------------
(***************************************************************************)
(* All short texts over the characters that interact, and a few long ones. *)
(***************************************************************************)
EXTENDS LexerLayout

MCLetters == {"i", "f", "t", "r", "u", "e", "x"}
MCDigits == {"1"}
MCKeywords == <<"i", "f">> :> "IF" @@ <<"t", "r", "u", "e">> :> "TRUE"

MCCharacters ==
  MCLetters \cup MCDigits \cup Blanks \cup Operators \cup {"\"", "\\", "?", NUL}

Significant == {"i", "f", "1", ".", "\"", "\\", "/", "*", "-", "=", ")", " ", "\n", "?"}
CONSTANT Length   \* of the short texts
Long == {
  <<"t", "r", "u", "e", "-", "1">>,
  <<"i", "f", "(", "x", "-", "1", "<", "=", "-", "1", ".", "1", ")">>,
  <<"x", "=", "\"", "/", "/", "\\", "\"", "*", "/", "\"", "/", "*", "\"", "*", "/", "+", "1">>,
  <<"x", "&", "&", "!", "x", "|", "|", "x", "%", "-", "1", ">", "&", "|", ":", ":", ":">>,
  <<"\"", "i", "f", "\n", "1", "NUL", "i">>}
MCSources == SeqOf(Significant, Length) \cup Long

=============================================================================
