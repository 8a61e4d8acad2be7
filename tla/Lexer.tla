------------------------------- MODULE Lexer -------------------------------
(***************************************************************************)
(* Lexer::tokenize as the automaton it is: one action per turn of one of   *)
(* its loops.  The pointer `cursor` reads a text that ends in NUL and is   *)
(* checked against nothing else.  A token keeps the place of its text; the *)
(* text of a boolean literal is 1 or 0, by its spelling.  Words become     *)
(* keywords by a table, of which an instance gives a part.                 *)
(***************************************************************************)
EXTENDS Integers, Sequences

CONSTANTS
  Characters,        \* of texts
  Letters, Digits,   \* those of words and numbers
  Sources,           \* texts, each a sequence of characters
  Keywords           \* spelling -> token type

NUL == "NUL"

ASSUME LexerAssumption ==
  /\ \A s \in Sources : s \in Seq(Characters)
  /\ Letters \cap Digits = {} /\ NUL \in Characters
  /\ (Letters \cup Digits) \cap
       {NUL, " ", "\n", ".", "\"", "\\", "/", "*", "+", "-", "=", "!", "<", ">", "&", "|", ":"} = {}

VARIABLES
  source,   \* sourceCode.data(), closed by NUL
  cursor,   \* the character to read
  mark,     \* where the word, number or string in progress starts
  mode,     \* the loop tokenize is in
  lastTy,   \* the type that decides whether a sign is unary
  tokens    \* what tokenize returns

vars == <<source, cursor, mark, mode, lastTy, tokens>>

Blanks == {" ", "\n"}
Singles == {".", "*", "%", "(", ")", "{", "}", "[", "]", ";", ","}
Doubles == {<<"=", "=">>, <<"!", "=">>, <<"<", "=">>, <<">", "=">>,
            <<"&", "&">>, <<"|", "|">>, <<":", ":">>}
Signs == {"+", "-"}
Operators == Singles \cup Signs \cup {"/"} \cup {pair[1] : pair \in Doubles}

\* The types after which a sign begins a number.
UnaryContext == {"=", "(", ",", "[", "+", "-", "*", "/", "%", "==", "!=", "<", ">",
                 "<=", ">=", "&&", "||", "EOF", "{", ";", ":"}

Char == source[cursor]
Ahead == source[cursor + 1]

\* The type of the operator spelled by one or two characters.
OperatorType(pair) ==
  CASE pair = <<"=", "=">> -> "=="
    [] pair = <<"!", "=">> -> "!="
    [] pair = <<"<", "=">> -> "<="
    [] pair = <<">", "=">> -> ">="
    [] pair = <<"&", "&">> -> "&&"
    [] pair = <<"|", "|">> -> "||"
    [] OTHER -> ":"

TokenType ==
  {"LIT_INT", "LIT_FLOAT", "LIT_BOOL", "IDENTIFIER", "QUOTE", "INVALID", "EOF"} \cup
  Operators \cup {OperatorType(pair) : pair \in Doubles} \cup
  {Keywords[word] : word \in DOMAIN Keywords}

resolveKeyword(word) ==
  IF word \in DOMAIN Keywords THEN Keywords[word] ELSE "IDENTIFIER"

Token(type, from, to) == [type |-> type, from |-> from, to |-> to]

Init ==
  /\ \E text \in Sources : source = text \o <<NUL>>
  /\ cursor = 1
  /\ mark = 1
  /\ mode = "next"
  /\ lastTy = "EOF"
  /\ tokens = << >>

Advance(n) == cursor' = cursor + n /\ UNCHANGED <<source, mark, mode, lastTy, tokens>>

\* The loop `m` starts at this character, which is part of its text.
Enter(m, n) ==
  /\ mode' = m
  /\ mark' = cursor
  /\ cursor' = cursor + n
  /\ UNCHANGED <<source, lastTy, tokens>>

\* PUSH_TOKEN of the text from `from` up to `to`, which lexing leaves.
Push(type, from, to) ==
  /\ tokens' = Append(tokens, Token(type, from, to))
  /\ lastTy' = type
  /\ cursor' = to
  /\ mode' = "next"
  /\ UNCHANGED <<source, mark>>

\* Mutant: a blank counts as the token before.
SkipBlankForgetting ==
  /\ mode = "next"
  /\ Char \in Blanks
  /\ cursor' = cursor + 1
  /\ lastTy' = "INVALID"
  /\ UNCHANGED <<source, mark, mode, tokens>>
SkipBlank == mode = "next" /\ Char \in Blanks /\ Advance(1)

StartWord == mode = "next" /\ Char \in Letters /\ Enter("word", 1)
WordChar == mode = "word" /\ Char \in Letters \cup Digits /\ Advance(1)
EndWord ==
  /\ mode = "word"
  /\ Char \notin Letters \cup Digits
  /\ LET type == resolveKeyword(SubSeq(source, mark, cursor - 1)) IN
       Push(IF type \in {"TRUE", "FALSE"} THEN "LIT_BOOL" ELSE type, mark, cursor)

StartNumber == mode = "next" /\ Char \in Digits /\ Enter("number", 1)
\* Mutant: a sign before a digit always begins a number.
StartSignedAnywhere ==
  mode = "next" /\ Char \in Signs /\ Ahead \in Digits /\ Enter("number", 1)
StartSigned ==
  /\ mode = "next"
  /\ Char \in Signs
  /\ lastTy \in UnaryContext
  /\ Ahead \in Digits
  /\ Enter("number", 1)
NumberChar == mode \in {"number", "fraction"} /\ Char \in Digits /\ Advance(1)
StartFraction ==
  /\ mode = "number"
  /\ Char = "."
  /\ Ahead \in Digits
  /\ cursor' = cursor + 1
  /\ mode' = "fraction"
  /\ UNCHANGED <<source, mark, lastTy, tokens>>
EndNumber ==
  \/ /\ mode = "number"
     /\ Char \notin Digits
     /\ ~(Char = "." /\ Ahead \in Digits)
     /\ Push("LIT_INT", mark, cursor)
  \/ /\ mode = "fraction"
     /\ Char \notin Digits
     /\ Push("LIT_FLOAT", mark, cursor)

OpenString ==
  /\ mode = "next"
  /\ Char = "\""
  /\ tokens' = Append(tokens, Token("QUOTE", cursor, cursor + 1))
  /\ mode' = "string"
  /\ mark' = cursor + 1
  /\ cursor' = cursor + 1
  /\ UNCHANGED <<source, lastTy>>
StringChar == mode = "string" /\ Char \notin {"\"", "\\", NUL} /\ Advance(1)
\* Mutant: a backslash skips two characters whatever follows it.
EscapeAnything == mode = "string" /\ Char = "\\" /\ Advance(2)
Escape == mode = "string" /\ Char = "\\" /\ Ahead # NUL /\ Advance(2)

\* Mutant: the content of a string is pushed with its closing quote.
CloseStringInside ==
  /\ mode = "string"
  /\ Char = "\""
  /\ tokens' = Append(Append(tokens, Token("IDENTIFIER", mark, cursor + 1)),
                      Token("QUOTE", cursor, cursor + 1))
  /\ cursor' = cursor + 1
  /\ lastTy' = "QUOTE"
  /\ mode' = "next"
  /\ UNCHANGED <<source, mark>>

\* The content is a token when it is not empty; the quote is one when there is one.
CloseString ==
  /\ mode = "string"
  /\ Char \in {"\"", NUL} \/ (Char = "\\" /\ Ahead = NUL)
  /\ LET content == IF cursor > mark THEN <<Token("IDENTIFIER", mark, cursor)>> ELSE << >>
         quote == IF Char = "\"" THEN <<Token("QUOTE", cursor, cursor + 1)>> ELSE << >>
     IN /\ tokens' = tokens \o content \o quote
        /\ cursor' = cursor + Len(quote)
  /\ lastTy' = "QUOTE"
  /\ mode' = "next"
  /\ UNCHANGED <<source, mark>>

StartComment ==
  /\ mode = "next"
  /\ Char = "/"
  /\ \/ Ahead = "/" /\ Enter("line", 2)
     \/ Ahead = "*" /\ Enter("block", 2)
\* Mutant: a comment of one line goes on behind a newline.
CommentCharAcrossLines ==
  \/ mode = "line" /\ Char # NUL /\ Advance(1)
  \/ mode = "block" /\ Char # NUL /\ ~(Char = "*" /\ Ahead = "/") /\ Advance(1)
CommentChar ==
  \/ mode = "line" /\ Char \notin {"\n", NUL} /\ Advance(1)
  \/ mode = "block" /\ Char # NUL /\ ~(Char = "*" /\ Ahead = "/") /\ Advance(1)
EndComment ==
  /\ \/ mode = "line" /\ Char \in {"\n", NUL} /\ cursor' = cursor
     \/ mode = "block" /\ Char = NUL /\ cursor' = cursor
     \/ mode = "block" /\ Char = "*" /\ Ahead = "/" /\ cursor' = cursor + 2
  /\ mode' = "next"
  /\ UNCHANGED <<source, mark, lastTy, tokens>>

\* Maximal munch: two characters when they spell an operator, one otherwise.
Operator ==
  /\ mode = "next"
  /\ Char \in Operators
  /\ ~(Char = "/" /\ Ahead \in {"/", "*"})
  /\ ~(Char \in Signs /\ lastTy \in UnaryContext /\ Ahead \in Digits)
  /\ IF <<Char, Ahead>> \in Doubles
       THEN Push(OperatorType(<<Char, Ahead>>), cursor, cursor + 2)
       ELSE Push(Char, cursor, cursor + 1)

Invalid ==
  /\ mode = "next"
  /\ Char \notin Blanks \cup Letters \cup Digits \cup Operators \cup {"\"", NUL}
  /\ Push("INVALID", cursor, cursor + 1)

Finish ==
  /\ mode = "next"
  /\ Char = NUL
  /\ tokens' = Append(tokens, Token("EOF", cursor, cursor))
  /\ mode' = "done"
  /\ UNCHANGED <<source, cursor, mark, lastTy>>

Next ==
  \/ SkipBlank \/ StartWord \/ WordChar \/ EndWord
  \/ StartNumber \/ StartSigned \/ NumberChar \/ StartFraction \/ EndNumber
  \/ OpenString \/ StringChar \/ Escape \/ CloseString
  \/ StartComment \/ CommentChar \/ EndComment
  \/ Operator \/ Invalid \/ Finish

Spec == Init /\ [][Next]_vars

---------------------------------------------------------------------------
Modes == {"next", "word", "number", "fraction", "string", "line", "block", "done"}

\* Types, and the one check that keeps the reads inside the text: whatever
\* the loop, the pointer stops at the NUL.
LexerTypeOK ==
  /\ source \in Seq(Characters)
  /\ source # << >> /\ source[Len(source)] = NUL
  /\ cursor \in 1 .. Len(source)
  /\ mark \in 1 .. Len(source)
  /\ mode \in Modes
  /\ lastTy \in TokenType
  /\ tokens \in Seq([type : TokenType, from : 1 .. Len(source), to : 1 .. Len(source)])

\* Tokens are read from left to right and never overlap, whatever strings,
\* escapes and comments lie between them.
TokensInOrder ==
  /\ \A k \in 1 .. Len(tokens) : tokens[k].from <= tokens[k].to /\ tokens[k].to <= cursor
  /\ \A j, k \in 1 .. Len(tokens) : j < k => tokens[j].to <= tokens[k].from

OperandEnds == {"IDENTIFIER", "LIT_INT", "LIT_FLOAT", "LIT_BOOL", ")", "]", "QUOTE"}
Signed(t) == t.type \in {"LIT_INT", "LIT_FLOAT"} /\ source[t.from] \in Signs

\* a-1 is a subtraction: a number takes its sign along only where no operand
\* has just ended.
SignsBinary ==
  \A k \in 2 .. Len(tokens) : Signed(tokens[k]) => tokens[k - 1].type \notin OperandEnds

InToken(p) == \E k \in 1 .. Len(tokens) : p \in tokens[k].from .. tokens[k].to - 1

\* Position p is in a comment that starts outside every token.
InComment(p) ==
  \E k \in 1 .. p :
    /\ source[k] = "/"
    /\ ~InToken(k)
    /\ \/ source[k + 1] = "/" /\ \A q \in k .. p : source[q] # "\n"
       \/ /\ source[k + 1] = "*"
          /\ \A q \in k + 2 .. p - 2 : ~(source[q] = "*" /\ source[q + 1] = "/")

\* No character is lost: what is in no token is blank or comment, up to the
\* first NUL, where lexing ends.  That is the code: a character no loop knows is
\* kept, as an INVALID token, and a string without its closing quote ends with
\* the text.  robustness.md says otherwise of both (278-280: such characters are
\* ignored and removed; 236: an unclosed string is a lexical error).
NothingLost ==
  mode = "done" =>
    /\ source[cursor] = NUL
    /\ \A p \in 1 .. cursor - 1 : InToken(p) \/ source[p] \in Blanks \/ InComment(p)

=============================================================================
