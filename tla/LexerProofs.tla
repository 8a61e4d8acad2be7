---------------------------- MODULE LexerProofs ----------------------------
(***************************************************************************)
(* The lexer stays inside its text, its tokens lie apart and in order, no  *)
(* operator is taken for the sign of a number, no character is lost, and   *)
(* layout means nothing: for every alphabet, every table of keywords and   *)
(* every text.                                                             *)
(***************************************************************************)
EXTENDS LexerLayout, SequenceFacts

Reading == {"word", "number", "fraction", "string"}

\* What a token in progress may take: nothing that an earlier token holds.
Started ==
  mode \in Reading =>
    /\ mark <= cursor
    /\ \A k \in 1 .. Len(tokens) : tokens[k].to <= mark

WordStart == mode = "word" => source[mark] \in Letters

\* A number in progress that begins with a sign was begun in a unary context.
SignStart ==
  mode \in {"number", "fraction"} /\ source[mark] \in Signs => lastTy \in UnaryContext

\* lastTy is the type of the last token, except behind a string.
LastDecides ==
  mode \notin {"string", "done"} /\ tokens # << >> =>
    lastTy = "QUOTE" \/ lastTy = tokens[Len(tokens)].type

IInv ==
  /\ LexerTypeOK /\ TokensInOrder /\ SignsBinary
  /\ Started /\ WordStart /\ SignStart /\ LastDecides

\* No class but CC_OTHER holds the character that ends a text.
LEMMA NulApart ==
  NUL \notin Letters \cup Digits \cup Operators \cup Signs \cup Blanks \cup {"\"", "\\", "/", "*"}
<1>1. NUL \notin Letters \cup Digits
  BY LexerAssumption
<1>2. NUL \notin Singles \cup Signs \cup Blanks \cup {"\"", "\\", "/", "*"}
  BY DEF NUL, Singles, Signs, Blanks
<1>3. \A pair \in Doubles : pair[1] # NUL
  BY DEF NUL, Doubles
<1> QED
  BY <1>1, <1>2, <1>3 DEF Operators

\* A sign is no character of a word or number.
LEMMA DigitsApart == Signs \cap (Letters \cup Digits) = {}
BY LexerAssumption DEF Signs

\* The character under the cursor, when it is not the last, leaves room for one more.
LEMMA RoomAhead ==
  ASSUME LexerTypeOK
  PROVE  /\ Char \in Characters
         /\ Char # NUL => cursor + 1 \in 1 .. Len(source) /\ Ahead \in Characters
         /\ Char # NUL /\ Ahead # NUL => cursor + 2 \in 1 .. Len(source)
BY DEF LexerTypeOK, Char, Ahead

Tokens == [type : TokenType, from : 1 .. Len(source), to : 1 .. Len(source)]

\* The fields of the tokens pushed.
LEMMA TokenTypes ==
  ASSUME LexerTypeOK
  PROVE  /\ Len(tokens) \in Nat /\ Len(source) \in Nat /\ tokens \in Seq(Tokens)
         /\ cursor \in Nat /\ mark \in Nat
         /\ \A k \in 1 .. Len(tokens) :
              tokens[k] \in Tokens /\ tokens[k].from \in Nat /\ tokens[k].to \in Nat
<1>1. Len(tokens) \in Nat /\ Len(source) \in Nat /\ tokens \in Seq(Tokens)
  BY DEF LexerTypeOK, Tokens
<1>2. ASSUME NEW k \in 1 .. Len(tokens) PROVE tokens[k] \in Tokens
  BY <1>1
<1> QED
  BY <1>1, <1>2 DEF LexerTypeOK, Tokens

\* A step within a loop changes only the cursor.
LEMMA AdvanceKeeps ==
  ASSUME IInv, NEW n \in {1, 2}, cursor + n \in 1 .. Len(source), Advance(n)
  PROVE  IInv'
<1>1. LexerTypeOK'
  BY DEF IInv, LexerTypeOK, Advance, Modes
<1>2. TokensInOrder' /\ Started'
  BY TokenTypes DEF IInv, TokensInOrder, Started, Advance
<1>3. SignsBinary' /\ WordStart' /\ SignStart' /\ LastDecides'
  BY DEF IInv, SignsBinary, Signed, WordStart, SignStart, LastDecides, Advance
<1> QED
  BY <1>1, <1>2, <1>3 DEF IInv

\* A loop that starts at the cursor starts behind every token.
LEMMA EnterKeeps ==
  ASSUME IInv, mode = "next", NEW n \in {1, 2}, cursor + n \in 1 .. Len(source),
         NEW m \in {"word", "number", "line", "block"}, Enter(m, n),
         m = "word" => Char \in Letters,
         m = "number" /\ Char \in Signs => lastTy \in UnaryContext
  PROVE  IInv'
<1>1. LexerTypeOK'
  BY DEF IInv, LexerTypeOK, Enter, Modes
<1>2. TokensInOrder' /\ Started'
  BY TokenTypes DEF IInv, TokensInOrder, Started, Enter
<1>3. SignsBinary'
  BY DEF IInv, SignsBinary, Signed, Enter
<1>4. WordStart' /\ SignStart' /\ LastDecides'
  BY DEF IInv, WordStart, SignStart, LastDecides, Enter, Char
<1> QED
  BY <1>1, <1>2, <1>3, <1>4 DEF IInv

\* What Append leaves in its place and what it adds.
LEMMA Appended ==
  ASSUME NEW S, NEW seq \in Seq(S), NEW e \in S
  PROVE  /\ Append(seq, e) \in Seq(S)
         /\ Len(Append(seq, e)) = Len(seq) + 1
         /\ \A k \in 1 .. Len(seq) : Append(seq, e)[k] = seq[k]
         /\ Append(seq, e)[Len(seq) + 1] = e
OBVIOUS

\* TokensInOrder and SignsBinary of any sequence of tokens, read up to c.
InOrder(ts, c) ==
  /\ \A k \in 1 .. Len(ts) : ts[k].from <= ts[k].to /\ ts[k].to <= c
  /\ \A j, k \in 1 .. Len(ts) : j < k => ts[j].to <= ts[k].from

Binary(ts) == \A k \in 2 .. Len(ts) : Signed(ts[k]) => ts[k - 1].type \notin OperandEnds

\* A token added behind all others keeps the order.
LEMMA AppendInOrder ==
  ASSUME Len(source) \in Nat, NEW ts \in Seq(Tokens), NEW c \in Nat, InOrder(ts, c),
         NEW t \in Tokens, NEW d \in Nat, c <= d, t.from <= t.to, t.to <= d,
         \A k \in 1 .. Len(ts) : ts[k].to <= t.from
  PROVE  InOrder(Append(ts, t), d)
<1> DEFINE us == Append(ts, t)
<1>1. /\ Len(us) = Len(ts) + 1 /\ Len(ts) \in Nat
      /\ \A k \in 1 .. Len(ts) : us[k] = ts[k] /\ ts[k] \in Tokens
      /\ us[Len(ts) + 1] = t
  BY Appended
<1>2. ASSUME NEW k \in 1 .. Len(us)
      PROVE  us[k].from <= us[k].to /\ us[k].to <= d
  <2>1. CASE k \in 1 .. Len(ts)
    BY <1>1, <2>1 DEF InOrder, Tokens
  <2>2. CASE k = Len(ts) + 1
    BY <1>1, <2>2
  <2> QED
    BY <1>1, <2>1, <2>2
<1>3. ASSUME NEW j \in 1 .. Len(us), NEW k \in 1 .. Len(us), j < k
      PROVE  us[j].to <= us[k].from
  <2>1. j \in 1 .. Len(ts)
    BY <1>1, <1>3
  <2>2. CASE k \in 1 .. Len(ts)
    BY <1>1, <1>3, <2>1, <2>2 DEF InOrder
  <2>3. CASE k = Len(ts) + 1
    BY <1>1, <2>1, <2>3
  <2> QED
    BY <1>1, <2>2, <2>3
<1> QED
  BY <1>2, <1>3 DEF InOrder

\* A token without a sign, or behind the end of no operand, keeps signs binary.
LEMMA AppendBinary ==
  ASSUME NEW ts \in Seq(Tokens), Binary(ts), NEW t \in Tokens,
         Signed(t) /\ ts # << >> => ts[Len(ts)].type \notin OperandEnds
  PROVE  Binary(Append(ts, t))
<1> DEFINE us == Append(ts, t)
<1>1. /\ Len(us) = Len(ts) + 1 /\ Len(ts) \in Nat
      /\ \A k \in 1 .. Len(ts) : us[k] = ts[k]
      /\ us[Len(ts) + 1] = t
  BY Appended
<1>2. ASSUME NEW k \in 2 .. Len(us), Signed(us[k])
      PROVE  us[k - 1].type \notin OperandEnds
  <2>1. CASE k \in 2 .. Len(ts)
    <3>1. us[k] = ts[k] /\ us[k - 1] = ts[k - 1]
      BY <1>1, <2>1
    <3> QED
      BY <1>2, <2>1, <3>1 DEF Binary
  <2>2. CASE k = Len(ts) + 1
    <3>1. us[k] = t /\ us[k - 1] = ts[Len(ts)] /\ ts # << >>
      BY <1>1, <2>2
    <3> QED
      BY <1>2, <3>1
  <2> QED
    BY <1>1, <2>1, <2>2
<1> QED
  BY <1>2 DEF Binary

\* A step that leaves the text alone and whose tokens are in order and binary.
LEMMA TokensKeep ==
  ASSUME source' = source, InOrder(tokens', cursor'), Binary(tokens')
  PROVE  TokensInOrder' /\ SignsBinary'
BY DEF InOrder, TokensInOrder, Binary, SignsBinary, Signed

\* Pushing a token behind the others keeps them in order.
LEMMA PushKeeps ==
  ASSUME IInv, NEW type \in TokenType,
         NEW from \in 1 .. Len(source), NEW to \in from .. Len(source), cursor <= to,
         \A k \in 1 .. Len(tokens) : tokens[k].to <= from,
         type \in {"LIT_INT", "LIT_FLOAT"} /\ source[from] \in Signs => lastTy \in UnaryContext,
         mode \notin {"string", "done"},
         Push(type, from, to)
  PROVE  IInv'
<1> DEFINE new == Token(type, from, to)
<1>1. /\ tokens \in Seq(Tokens) /\ cursor \in Nat /\ Len(source) \in Nat
      /\ InOrder(tokens, cursor) /\ Binary(tokens)
  BY TokenTypes DEF IInv, InOrder, TokensInOrder, Binary, SignsBinary
<1>2. new \in Tokens /\ new.from = from /\ new.to = to /\ new.type = type
  BY <1>1 DEF Tokens, Token
<1>3. source' = source /\ cursor' = to /\ tokens' = Append(tokens, new)
  BY DEF Push
<1>4. InOrder(tokens', cursor')
  BY <1>1, <1>2, <1>3, AppendInOrder
<1>5. Binary(tokens')
  <2>1. ASSUME Signed(new), tokens # << >>
        PROVE  tokens[Len(tokens)].type \notin OperandEnds
    <3>1. lastTy \in UnaryContext
      BY <1>2, <2>1 DEF Signed
    <3>2. tokens[Len(tokens)].type \in UnaryContext
      BY <2>1, <3>1 DEF IInv, LastDecides, UnaryContext
    <3> QED
      BY <3>2 DEF UnaryContext, OperandEnds
  <2> QED
    BY <1>1, <1>2, <1>3, <2>1, AppendBinary
<1>6. TokensInOrder' /\ SignsBinary'
  BY <1>3, <1>4, <1>5, TokensKeep
<1>7. LexerTypeOK'
  BY <1>1, <1>2, <1>3, Appended DEF IInv, LexerTypeOK, Push, Modes, Tokens
<1>8. LastDecides'
  BY <1>1, <1>2, <1>3, Appended DEF LastDecides, Push
<1>9. Started' /\ WordStart' /\ SignStart'
  BY DEF Started, WordStart, SignStart, Push, Reading
<1> QED
  BY <1>6, <1>7, <1>8, <1>9 DEF IInv

\* Concatenation of what may be one token.
LEMMA OneOrNone ==
  ASSUME NEW S, NEW seq \in Seq(S), NEW e \in S
  PROVE  seq \o <<e>> = Append(seq, e) /\ seq \o << >> = seq
BY AppendIsConcat, ConcatEmptySeq

\* The invariant holds before the first step.
LEMMA Starts == Init => IInv
<1> SUFFICES ASSUME Init PROVE IInv
  OBVIOUS
<1>1. PICK text \in Sources : source = text \o <<NUL>>
  BY DEF Init
<1>2. text \in Seq(Characters) /\ NUL \in Characters
  BY <1>1, LexerAssumption
<1>3. source = Append(text, NUL)
  BY <1>1, <1>2, OneOrNone
<1>4. source \in Seq(Characters) /\ source # << >> /\ Len(source) \in Nat \ {0} /\ source[Len(source)] = NUL
  BY <1>2, <1>3, Appended
<1>5. tokens = << >> /\ Len(tokens) = 0 /\ mode = "next" /\ cursor = 1 /\ mark = 1 /\ lastTy = "EOF"
  BY DEF Init
<1>6. LexerTypeOK
  BY <1>4, <1>5, EmptySeq DEF LexerTypeOK, Modes, TokenType
<1>7. TokensInOrder /\ SignsBinary /\ LastDecides
  BY <1>5 DEF TokensInOrder, SignsBinary, LastDecides
<1> QED
  BY <1>5, <1>6, <1>7 DEF IInv, Started, WordStart, SignStart, Reading

\* Every step of tokenize keeps it.
LEMMA Steps == IInv /\ [Next]_vars => IInv'
<1> SUFFICES ASSUME IInv, [Next]_vars PROVE IInv'
  OBVIOUS
<1>0. /\ Len(tokens) \in Nat /\ Len(source) \in Nat /\ cursor \in Nat /\ mark \in Nat
      /\ cursor \in 1 .. Len(source) /\ mark \in 1 .. Len(source)
      /\ \A k \in 1 .. Len(tokens) : tokens[k].to \in Nat /\ tokens[k].to <= cursor
  BY TokenTypes DEF IInv, LexerTypeOK, TokensInOrder
<1>a. Char # NUL => cursor + 1 \in 1 .. Len(source)
  BY RoomAhead DEF IInv
<1>b. Char # NUL /\ Ahead # NUL => cursor + 2 \in 1 .. Len(source)
  BY RoomAhead DEF IInv
<1>c. /\ Char \in Letters \cup Digits \cup Operators \cup Signs \cup Blanks => Char # NUL
      /\ Ahead \in Digits => Ahead # NUL
  BY NulApart
<1>1. CASE SkipBlank
  BY <1>0, <1>a, <1>c, <1>1, AdvanceKeeps DEF SkipBlank
<1>2. CASE StartWord
  BY <1>0, <1>a, <1>c, <1>2, EnterKeeps, DigitsApart DEF StartWord
<1>3. CASE WordChar
  BY <1>0, <1>a, <1>c, <1>3, AdvanceKeeps DEF WordChar
<1>4. CASE EndWord
  <2>1. PICK type \in TokenType : Push(type, mark, cursor)
    BY <1>4 DEF EndWord, resolveKeyword, TokenType
  <2>2. /\ mode = "word" /\ cursor \in mark .. Len(source) /\ source[mark] \notin Signs
        /\ \A k \in 1 .. Len(tokens) : tokens[k].to <= mark
    BY <1>0, <1>4, DigitsApart DEF EndWord, IInv, Started, WordStart, Reading
  <2> QED
    BY <1>0, <2>1, <2>2, PushKeeps
<1>5. CASE StartNumber
  BY <1>0, <1>a, <1>c, <1>5, EnterKeeps, DigitsApart DEF StartNumber
<1>6. CASE StartSigned
  BY <1>0, <1>a, <1>c, <1>6, EnterKeeps DEF StartSigned
<1>7. CASE NumberChar
  BY <1>0, <1>a, <1>c, <1>7, AdvanceKeeps DEF NumberChar
<1>8. CASE StartFraction
  <2>1. Char # NUL
    BY <1>8 DEF StartFraction, NUL
  <2>2. LexerTypeOK'
    BY <1>0, <1>a, <1>8, <2>1 DEF StartFraction, IInv, LexerTypeOK, Modes
  <2>3. TokensInOrder' /\ Started'
    BY <1>8, TokenTypes DEF StartFraction, IInv, TokensInOrder, Started, Reading
  <2>4. SignsBinary' /\ WordStart' /\ SignStart' /\ LastDecides'
    BY <1>8 DEF StartFraction, IInv, SignsBinary, Signed, WordStart, SignStart, LastDecides
  <2> QED
    BY <2>2, <2>3, <2>4 DEF IInv
<1>9. CASE EndNumber
  <2>1. PICK type \in {"LIT_INT", "LIT_FLOAT"} : Push(type, mark, cursor)
    BY <1>9 DEF EndNumber
  <2>2. /\ mode \in {"number", "fraction"} /\ cursor \in mark .. Len(source)
        /\ source[mark] \in Signs => lastTy \in UnaryContext
        /\ \A k \in 1 .. Len(tokens) : tokens[k].to <= mark
    BY <1>0, <1>9 DEF EndNumber, IInv, Started, SignStart, Reading
  <2>3. type \in TokenType
    BY DEF TokenType
  <2> QED
    BY <1>0, <2>1, <2>2, <2>3, PushKeeps
<1>10. CASE OpenString
  <2> DEFINE quote == Token("QUOTE", cursor, cursor + 1)
  <2>1. /\ Char # NUL /\ source' = source /\ cursor' = cursor + 1 /\ mark' = cursor + 1
        /\ tokens' = Append(tokens, quote) /\ mode' = "string" /\ lastTy' = lastTy
    BY <1>10 DEF OpenString, NUL
  <2>2. /\ tokens \in Seq(Tokens) /\ quote \in Tokens /\ ~Signed(quote)
        /\ InOrder(tokens, cursor) /\ Binary(tokens) /\ quote.from = cursor /\ quote.to = cursor + 1
    BY <1>0, <1>a, <2>1, TokenTypes
       DEF IInv, InOrder, TokensInOrder, Binary, SignsBinary, Signed, Token, Tokens, TokenType
  <2>3. InOrder(tokens', cursor') /\ Binary(tokens') /\ tokens' \in Seq(Tokens)
    <3> HIDE DEF quote
    <3>1. Append(tokens, quote) \in Seq(Tokens)
      BY <2>2
    <3>2. \A k \in 1 .. Len(tokens) : tokens[k].to <= quote.from
      BY <2>2 DEF InOrder
    <3>3. InOrder(Append(tokens, quote), cursor + 1)
      BY <1>0, <2>2, <3>2, AppendInOrder
    <3>4. Binary(Append(tokens, quote))
      BY <2>2, AppendBinary
    <3> QED
      BY <2>1, <3>1, <3>3, <3>4
  <2>4. TokensInOrder' /\ SignsBinary'
    BY <2>1, <2>3, TokensKeep
  <2>5. LexerTypeOK'
    BY <1>0, <1>a, <2>1, <2>3 DEF IInv, LexerTypeOK, Modes, Tokens
  <2>6. Started'
    BY <2>1, <2>3 DEF Started, InOrder
  <2>7. WordStart' /\ SignStart' /\ LastDecides'
    BY <2>1 DEF WordStart, SignStart, LastDecides
  <2> QED
    BY <2>4, <2>5, <2>6, <2>7 DEF IInv
<1>11. CASE StringChar
  BY <1>0, <1>a, <1>11, AdvanceKeeps DEF StringChar
<1>12. CASE Escape
  BY <1>0, <1>b, <1>12, AdvanceKeeps DEF Escape, NUL
<1>13. CASE CloseString
  <2> DEFINE content == Token("IDENTIFIER", mark, cursor)
             quote == Token("QUOTE", cursor, cursor + 1)
             inside == IF cursor > mark THEN Append(tokens, content) ELSE tokens
  <2>1. /\ mode = "string" /\ mark <= cursor
        /\ \A k \in 1 .. Len(tokens) : tokens[k].to <= mark
    BY <1>13 DEF CloseString, IInv, Started, Reading
  <2>2. /\ tokens \in Seq(Tokens) /\ InOrder(tokens, cursor) /\ Binary(tokens)
        /\ content \in Tokens /\ ~Signed(content) /\ content.from = mark /\ content.to = cursor
    BY <1>0, TokenTypes
       DEF IInv, InOrder, TokensInOrder, Binary, SignsBinary, Signed, Token, Tokens, TokenType
  <2>3. inside \in Seq(Tokens) /\ InOrder(inside, cursor) /\ Binary(inside)
    <3> HIDE DEF content
    <3>1. Append(tokens, content) \in Seq(Tokens)
      BY <2>2
    <3>2. InOrder(Append(tokens, content), cursor)
      BY <1>0, <2>1, <2>2, AppendInOrder
    <3>3. Binary(Append(tokens, content))
      BY <2>2, AppendBinary
    <3> QED
      BY <2>2, <3>1, <3>2, <3>3 DEF inside
  <2>a. tokens \o (IF cursor > mark THEN <<content>> ELSE << >>) = inside
    BY <2>2, OneOrNone
  <2> HIDE DEF content, quote, inside
  <2>4. source' = source /\ mark' = mark /\ lastTy' = "QUOTE" /\ mode' = "next"
    BY <1>13 DEF CloseString
  <2>5. cursor' \in cursor .. Len(source) /\ InOrder(tokens', cursor') /\ Binary(tokens')
        /\ tokens' \in Seq(Tokens)
    <3>1. CASE Char = "\""
      <4>1. Char # NUL /\ cursor' = cursor + Len(<<quote>>) /\ tokens' = inside \o <<quote>>
        BY <1>13, <2>a, <3>1 DEF CloseString, NUL, content, quote
      <4>2. cursor' = cursor + 1
        BY <4>1
      <4>3. /\ quote \in Tokens /\ ~Signed(quote) /\ quote.from = cursor /\ quote.to = cursor + 1
            /\ \A k \in 1 .. Len(inside) : inside[k].to <= quote.from
        BY <1>0, <1>a, <2>3, <4>1 DEF Signed, Token, Tokens, TokenType, InOrder, quote
      <4>4. tokens' = Append(inside, quote)
        BY <2>3, <4>1, <4>3, OneOrNone
      <4>5. cursor' \in cursor .. Len(source) /\ cursor' \in Nat
        BY <1>0, <1>a, <4>1, <4>2
      <4>6. InOrder(tokens', cursor')
        BY <1>0, <2>3, <4>2, <4>3, <4>4, <4>5, AppendInOrder
      <4>7. Binary(tokens') /\ tokens' \in Seq(Tokens)
        BY <2>3, <4>3, <4>4, AppendBinary, Appended
      <4> QED
        BY <4>5, <4>6, <4>7
    <3>2. CASE Char # "\""
      <4>1. cursor' = cursor + Len(<< >>) /\ tokens' = inside \o << >>
        BY <1>13, <2>a, <3>2 DEF CloseString, content
      <4>2. cursor' = cursor /\ tokens' = inside
        BY <1>0, <2>3, <4>1, ConcatEmptySeq
      <4> QED
        BY <1>0, <2>3, <4>2
    <3> QED
      BY <3>1, <3>2
  <2>6. TokensInOrder' /\ SignsBinary'
    BY <2>4, <2>5, TokensKeep
  <2>7. LexerTypeOK'
    <3>1. "QUOTE" \in TokenType /\ "next" \in Modes
      BY DEF TokenType, Modes
    <3> QED
      BY <1>0, <2>4, <2>5, <3>1 DEF IInv, LexerTypeOK, Tokens
  <2>8. Started' /\ WordStart' /\ SignStart' /\ LastDecides'
    BY <2>4 DEF Started, Reading, WordStart, SignStart, LastDecides
  <2> QED
    BY <2>6, <2>7, <2>8 DEF IInv
<1>14. CASE StartComment
  BY <1>0, <1>b, <1>14, EnterKeeps DEF StartComment, NUL
<1>15. CASE CommentChar
  BY <1>0, <1>a, <1>15, AdvanceKeeps DEF CommentChar
<1>16. CASE EndComment
  <2>1. cursor' \in cursor .. Len(source) /\ mode' = "next" /\ mode \in {"line", "block"}
    BY <1>0, <1>b, <1>16 DEF EndComment, NUL
  <2>2. LexerTypeOK'
    BY <1>16, <2>1 DEF EndComment, IInv, LexerTypeOK, Modes
  <2>3. TokensInOrder' /\ Started'
    BY <1>16, <2>1, TokenTypes DEF EndComment, IInv, TokensInOrder, Started, Reading
  <2>4. SignsBinary' /\ WordStart' /\ SignStart' /\ LastDecides'
    BY <1>16, <2>1 DEF EndComment, IInv, SignsBinary, Signed, WordStart, SignStart, LastDecides
  <2> QED
    BY <2>2, <2>3, <2>4 DEF IInv
<1>17. CASE Operator
  <2>1. Char # NUL /\ mode = "next"
    BY <1>c, <1>17 DEF Operator
  <2>2. CASE <<Char, Ahead>> \in Doubles
    <3>1. Ahead # NUL
      BY <2>2 DEF Doubles, NUL
    <3>2. OperatorType(<<Char, Ahead>>) \in TokenType \ {"LIT_INT", "LIT_FLOAT"}
      BY <2>2 DEF OperatorType, TokenType
    <3>3. Push(OperatorType(<<Char, Ahead>>), cursor, cursor + 2)
      BY <1>17, <2>2 DEF Operator
    <3>4. cursor + 2 \in cursor .. Len(source)
      BY <1>0, <1>b, <2>1, <3>1
    <3> QED
      BY <1>0, <2>1, <3>1, <3>2, <3>3, <3>4, PushKeeps
  <2>3. CASE <<Char, Ahead>> \notin Doubles
    <3>1. Char \in TokenType /\ Char \notin {"LIT_INT", "LIT_FLOAT"}
      <4>1. Char \in Operators
        BY <1>17 DEF Operator
      <4>2. \A pair \in Doubles : pair[1] \notin {"LIT_INT", "LIT_FLOAT"}
        BY DEF Doubles
      <4>3. Operators \cap {"LIT_INT", "LIT_FLOAT"} = {}
        BY <4>2 DEF Operators, Singles, Signs
      <4> QED
        BY <4>1, <4>3 DEF TokenType
    <3>2. Push(Char, cursor, cursor + 1)
      BY <1>17, <2>3 DEF Operator
    <3>3. cursor + 1 \in cursor .. Len(source)
      BY <1>0, <1>a, <2>1
    <3> QED
      BY <1>0, <2>1, <3>1, <3>2, <3>3, PushKeeps
  <2> QED
    BY <2>2, <2>3
<1>18. CASE Invalid
  <2>0. Char # NUL
    BY <1>18 DEF Invalid
  <2>1. Push("INVALID", cursor, cursor + 1) /\ mode = "next"
    BY <1>18 DEF Invalid
  <2>2. "INVALID" \in TokenType
    BY DEF TokenType
  <2>3. cursor + 1 \in cursor .. Len(source)
    BY <1>0, <1>a, <2>0
  <2> QED
    BY <1>0, <2>1, <2>2, <2>3, PushKeeps
<1>19. CASE Finish
  <2> DEFINE end == Token("EOF", cursor, cursor)
  <2>1. /\ source' = source /\ cursor' = cursor /\ mark' = mark /\ lastTy' = lastTy
        /\ tokens' = Append(tokens, end) /\ mode' = "done"
    BY <1>19 DEF Finish
  <2>2. /\ tokens \in Seq(Tokens) /\ end \in Tokens /\ ~Signed(end)
        /\ InOrder(tokens, cursor) /\ Binary(tokens) /\ end.from = cursor /\ end.to = cursor
    BY <1>0, TokenTypes
       DEF IInv, InOrder, TokensInOrder, Binary, SignsBinary, Signed, Token, Tokens, TokenType
  <2>3. InOrder(tokens', cursor') /\ Binary(tokens') /\ tokens' \in Seq(Tokens)
    <3> HIDE DEF end
    <3>1. Append(tokens, end) \in Seq(Tokens)
      BY <2>2
    <3>2. \A k \in 1 .. Len(tokens) : tokens[k].to <= end.from
      BY <2>2 DEF InOrder
    <3>3. InOrder(Append(tokens, end), cursor)
      BY <1>0, <2>2, <3>2, AppendInOrder
    <3>4. Binary(Append(tokens, end))
      BY <2>2, AppendBinary
    <3> QED
      BY <2>1, <3>1, <3>3, <3>4
  <2>4. TokensInOrder' /\ SignsBinary'
    BY <2>1, <2>3, TokensKeep
  <2>5. LexerTypeOK'
    BY <2>1, <2>3 DEF IInv, LexerTypeOK, Modes, Tokens
  <2>6. Started' /\ WordStart' /\ SignStart' /\ LastDecides'
    BY <2>1 DEF Started, Reading, WordStart, SignStart, LastDecides
  <2> QED
    BY <2>4, <2>5, <2>6 DEF IInv
<1>20. CASE UNCHANGED vars
  BY <1>20 DEF vars, IInv, LexerTypeOK, TokensInOrder, SignsBinary, Signed, Started, WordStart,
               SignStart, LastDecides
<1> QED
  BY <1>1, <1>2, <1>3, <1>4, <1>5, <1>6, <1>7, <1>8, <1>9, <1>10, <1>11, <1>12, <1>13, <1>14,
     <1>15, <1>16, <1>17, <1>18, <1>19, <1>20 DEF Next

THEOREM Invariance == Spec => []IInv
BY Starts, Steps, PTL DEF Spec

\* Every read of Lexer::tokenize is inside the text and its closing NUL, and
\* every token has a type of the enumeration and a place in the text.
THEOREM ReadsInside == Spec => []LexerTypeOK
BY Invariance, PTL DEF IInv

\* The tokens that tokenize pushes lie behind each other, whatever the loops
\* of words, numbers, strings and comments have skipped between them.
THEOREM TokensOrdered == Spec => []TokensInOrder
BY Invariance, PTL DEF IInv

\* A literal never takes along the sign of the operator in front of it.
THEOREM OperatorsKept == Spec => []SignsBinary
BY Invariance, PTL DEF IInv

---------------------------------------------------------------------------
(* Nothing is lost *)

\* Where the text begins of which it is not decided yet what it is.
Settled == IF mode \in {"next", "done"} THEN cursor ELSE mark

Accounted(p) == InToken(p) \/ source[p] \in Blanks \/ InComment(p)

\* A comment in progress begins behind all tokens, and has not ended yet.
CommentText ==
  mode \in {"line", "block"} =>
    /\ mark + 2 <= cursor /\ source[mark] = "/"
    /\ \A k \in 1 .. Len(tokens) : tokens[k].to <= mark
    /\ mode = "line" =>
         source[mark + 1] = "/" /\ \A q \in mark .. cursor - 1 : source[q] # "\n"
    /\ mode = "block" =>
         /\ source[mark + 1] = "*"
         /\ \A q \in mark + 2 .. cursor - 1 : ~(source[q] = "*" /\ source[q + 1] = "/")

AInv ==
  /\ \A p \in 1 .. Settled - 1 : Accounted(p)
  /\ CommentText
  /\ mode = "done" => source[cursor] = NUL

\* What is accounted for remains so when tokens are added behind it.
LEMMA Covered ==
  ASSUME IInv, AInv, source' = source, Len(tokens') \in Nat, Len(tokens) <= Len(tokens'),
         \A k \in 1 .. Len(tokens) : tokens'[k] = tokens[k],
         \A k \in Len(tokens) + 1 .. Len(tokens') : tokens'[k].from \in Nat /\ Settled <= tokens'[k].from,
         Settled' \in Nat,
         \A p \in Settled .. Settled' - 1 : InToken(p)'
  PROVE  \A p \in 1 .. Settled' - 1 : Accounted(p)'
<1>0. Len(tokens) \in Nat /\ Settled \in Nat
  BY TokenTypes DEF IInv, Settled
<1>1. ASSUME NEW p \in 1 .. Settled - 1 PROVE Accounted(p)'
  <2>1. Accounted(p)
    BY DEF AInv
  <2>2. CASE InToken(p)
    <3>1. PICK k \in 1 .. Len(tokens) : p \in tokens[k].from .. tokens[k].to - 1
      BY <2>2 DEF InToken
    <3>2. k \in 1 .. Len(tokens') /\ tokens'[k] = tokens[k]
      BY <1>0
    <3> QED
      BY <3>1, <3>2 DEF Accounted, InToken
  <2>3. CASE source[p] \in Blanks
    BY <2>3 DEF Accounted
  <2>4. CASE InComment(p)
    <3>1. PICK k \in 1 .. p :
            /\ source[k] = "/" /\ ~InToken(k)
            /\ \/ source[k + 1] = "/" /\ \A q \in k .. p : source[q] # "\n"
               \/ /\ source[k + 1] = "*"
                  /\ \A q \in k + 2 .. p - 2 : ~(source[q] = "*" /\ source[q + 1] = "/")
      BY <2>4 DEF InComment
    <3>2. ASSUME NEW j \in 1 .. Len(tokens') PROVE k \notin tokens'[j].from .. tokens'[j].to - 1
      <4>1. CASE j \in 1 .. Len(tokens)
        BY <3>1, <4>1 DEF InToken
      <4>2. CASE j \notin 1 .. Len(tokens)
        <5>1. j \in Len(tokens) + 1 .. Len(tokens')
          BY <1>0, <4>2
        <5>2. tokens'[j].from \in Nat /\ Settled <= tokens'[j].from
          BY <5>1
        <5> QED
          BY <1>0, <5>2
      <4> QED
        BY <4>1, <4>2
    <3>3. ~InToken(k)'
      BY <3>2 DEF InToken
    <3> QED
      BY <3>1, <3>3 DEF Accounted, InComment
  <2> QED
    BY <2>1, <2>2, <2>3, <2>4 DEF Accounted
<1>2. PICK n \in Nat : n = Settled'
  OBVIOUS
<1>3. PICK m \in Nat : m = Settled
  BY <1>0
<1>4. ASSUME NEW p \in 1 .. n - 1 PROVE Accounted(p)'
  <2>1. p \in 1 .. m - 1 \/ p \in m .. n - 1
    OBVIOUS
  <2>2. CASE p \in 1 .. m - 1
    BY <1>1, <1>3, <2>2
  <2>3. CASE p \in m .. n - 1
    <3>1. InToken(p)'
      BY <1>2, <1>3, <2>3
    <3> QED
      BY <3>1 DEF Accounted
  <2> QED
    BY <2>1, <2>2, <2>3
<1> QED
  BY <1>2, <1>4

\* A token of all that was not accounted for.
LEMMA OneMore ==
  ASSUME IInv, AInv, source' = source, NEW t \in Tokens, tokens' = Append(tokens, t),
         t.from = Settled, t.to = Settled'
  PROVE  \A p \in 1 .. Settled' - 1 : Accounted(p)'
<1>1. /\ tokens \in Seq(Tokens) /\ Len(tokens) \in Nat /\ t.from \in Nat /\ t.to \in Nat
  BY TokenTypes DEF IInv, Tokens
<1>2. /\ Len(tokens') = Len(tokens) + 1 /\ tokens'[Len(tokens) + 1] = t
      /\ \A k \in 1 .. Len(tokens) : tokens'[k] = tokens[k]
  BY <1>1, Appended
<1>3. \A k \in Len(tokens) + 1 .. Len(tokens') : tokens'[k].from \in Nat /\ Settled <= tokens'[k].from
  BY <1>1, <1>2
<1>4. ASSUME NEW p \in Settled .. Settled' - 1 PROVE InToken(p)'
  <2>1. Len(tokens) + 1 \in 1 .. Len(tokens')
    BY <1>1, <1>2
  <2>2. p \in tokens'[Len(tokens) + 1].from .. tokens'[Len(tokens) + 1].to - 1
    BY <1>2
  <2> QED
    BY <2>1, <2>2 DEF InToken
<1>5. Len(tokens') \in Nat /\ Len(tokens) <= Len(tokens') /\ Settled' \in Nat
  BY <1>1, <1>2
<1> QED
  BY <1>2, <1>3, <1>4, <1>5, Covered

\* A token pushed accounts for the characters of its text.
LEMMA PushAccounts ==
  ASSUME IInv, AInv, NEW type \in TokenType, NEW to \in 1 .. Len(source),
         Settled \in 1 .. Len(source), Push(type, Settled, to)
  PROVE  AInv'
<1>1. PICK t : t = Token(type, Settled, to)
  OBVIOUS
<1>2. t \in Tokens /\ t.from = Settled /\ t.to = to
  BY <1>1 DEF Tokens, Token
<1>3. /\ source' = source /\ tokens' = Append(tokens, t) /\ cursor' = to /\ mode' = "next"
      /\ Settled' = to
  BY <1>1 DEF Push, Settled
<1>4. \A p \in 1 .. Settled' - 1 : Accounted(p)'
  BY <1>2, <1>3, OneMore
<1> QED
  BY <1>3, <1>4 DEF AInv, CommentText

\* A step that makes no token and settles nothing, but blanks and comments.
LEMMA NoToken ==
  ASSUME IInv, AInv, source' = source, tokens' = tokens, Settled' \in Nat,
         \A p \in Settled .. Settled' - 1 : Accounted(p)
  PROVE  \A p \in 1 .. Settled' - 1 : Accounted(p)'
<1>1. Settled \in Nat
  BY TokenTypes DEF IInv, Settled
<1>2. PICK n \in Nat : n = Settled'
  OBVIOUS
<1>3. ASSUME NEW p \in 1 .. n - 1 PROVE Accounted(p)'
  <2>1. p \in 1 .. Settled - 1 \/ p \in Settled .. n - 1
    BY <1>1
  <2>2. Accounted(p)
    BY <1>2, <2>1 DEF AInv
  <2> QED
    BY <2>2 DEF Accounted, InToken, InComment
<1> QED
  BY <1>2, <1>3

\* A comment that ends accounts for its characters.
LEMMA CommentAccounts ==
  ASSUME IInv, AInv, mode \in {"line", "block"}, NEW p \in mark .. cursor - 1
  PROVE  InComment(p)
<1>1. cursor \in Nat /\ mark \in Nat /\ mark \in 1 .. Len(source)
  BY TokenTypes DEF IInv, LexerTypeOK
<1>2. mark \in 1 .. p /\ source[mark] = "/"
  BY <1>1 DEF AInv, CommentText
<1>3. ~InToken(mark)
  BY <1>1, TokenTypes DEF AInv, CommentText, InToken, IInv
<1>4. CASE mode = "line"
  BY <1>1, <1>2, <1>3, <1>4 DEF AInv, CommentText, InComment
<1>5. CASE mode = "block"
  BY <1>1, <1>2, <1>3, <1>5 DEF AInv, CommentText, InComment
<1> QED
  BY <1>4, <1>5

\* Every step accounts for the characters it leaves behind.
LEMMA Accounts == IInv /\ IInv' /\ AInv /\ [Next]_vars => AInv'
<1> SUFFICES ASSUME IInv, IInv', AInv, [Next]_vars PROVE AInv'
  OBVIOUS
<1>0. /\ Len(tokens) \in Nat /\ Len(source) \in Nat /\ cursor \in Nat /\ mark \in Nat
      /\ cursor \in 1 .. Len(source) /\ mark \in 1 .. Len(source)
      /\ cursor' \in Nat /\ mark' \in Nat /\ Settled' \in Nat
      /\ \A k \in 1 .. Len(tokens) : tokens[k].to \in Nat /\ tokens[k].to <= cursor
  BY TokenTypes DEF IInv, LexerTypeOK, TokensInOrder, Settled
<1>1. ASSUME SkipBlank PROVE AInv'
  <2>1. /\ source' = source /\ tokens' = tokens /\ mode = "next" /\ mode' = "next"
        /\ cursor' = cursor + 1 /\ Char \in Blanks
    BY <1>1 DEF SkipBlank, Advance
  <2>2. \A p \in Settled .. Settled' - 1 : Accounted(p)
    BY <1>0, <2>1 DEF Settled, Accounted, Char
  <2>3. \A p \in 1 .. Settled' - 1 : Accounted(p)'
    BY <1>0, <2>1, <2>2, NoToken
  <2> QED
    BY <2>1, <2>3 DEF AInv, CommentText
<1>2. ASSUME StartWord \/ StartNumber \/ StartSigned PROVE AInv'
  <2>1. /\ source' = source /\ tokens' = tokens /\ mode = "next" /\ mode' \in {"word", "number"}
        /\ mark' = cursor
    BY <1>2 DEF StartWord, StartNumber, StartSigned, Enter
  <2>2. Settled' = Settled
    BY <2>1 DEF Settled
  <2>3. \A p \in 1 .. Settled' - 1 : Accounted(p)'
    BY <1>0, <2>1, <2>2, NoToken
  <2> QED
    BY <2>1, <2>3 DEF AInv, CommentText
<1>3. ASSUME WordChar \/ NumberChar \/ StartFraction \/ StringChar \/ Escape PROVE AInv'
  <2>1. /\ source' = source /\ tokens' = tokens /\ mark' = mark
        /\ mode \in Reading /\ mode' \in Reading
    BY <1>3 DEF WordChar, NumberChar, StartFraction, StringChar, Escape, Advance, Reading
  <2>2. Settled' = Settled
    BY <2>1 DEF Settled, Reading
  <2>3. \A p \in 1 .. Settled' - 1 : Accounted(p)'
    BY <1>0, <2>1, <2>2, NoToken
  <2> QED
    BY <2>1, <2>3 DEF AInv, CommentText, Reading
<1>4. ASSUME EndWord PROVE AInv'
  <2>1. PICK type \in TokenType : Push(type, mark, cursor)
    BY <1>4 DEF EndWord, resolveKeyword, TokenType
  <2>2. Settled = mark
    BY <1>4 DEF EndWord, Settled
  <2> QED
    BY <1>0, <2>1, <2>2, PushAccounts
<1>5. ASSUME EndNumber PROVE AInv'
  <2>1. PICK type \in {"LIT_INT", "LIT_FLOAT"} : Push(type, mark, cursor)
    BY <1>5 DEF EndNumber
  <2>2. Settled = mark /\ type \in TokenType
    BY <1>5 DEF EndNumber, Settled, TokenType
  <2> QED
    BY <1>0, <2>1, <2>2, PushAccounts
<1>6. ASSUME Operator PROVE AInv'
  <2>1. mode = "next" /\ Settled = cursor
    BY <1>6 DEF Operator, Settled
  <2>2. PICK type, to : type \in TokenType /\ Push(type, cursor, to)
    <3>1. CASE <<Char, Ahead>> \in Doubles
      <4>1. OperatorType(<<Char, Ahead>>) \in TokenType
        BY <3>1 DEF TokenType
      <4> QED
        BY <1>6, <3>1, <4>1 DEF Operator
    <3>2. CASE <<Char, Ahead>> \notin Doubles
      <4>1. Char \in TokenType
        BY <1>6 DEF Operator, TokenType
      <4> QED
        BY <1>6, <3>2, <4>1 DEF Operator
    <3> QED
      BY <3>1, <3>2
  <2>3. to \in 1 .. Len(source)
    BY <2>2 DEF IInv, LexerTypeOK, Push
  <2> QED
    BY <1>0, <2>1, <2>2, <2>3, PushAccounts
<1>7. ASSUME Invalid PROVE AInv'
  <2>1. Push("INVALID", cursor, cursor + 1) /\ Settled = cursor
    BY <1>7 DEF Invalid, Settled
  <2>2. cursor + 1 \in 1 .. Len(source) /\ "INVALID" \in TokenType
    BY <2>1 DEF IInv, LexerTypeOK, Push, TokenType
  <2> QED
    BY <1>0, <2>1, <2>2, PushAccounts
<1>8. ASSUME OpenString PROVE AInv'
  <2>1. PICK t : t = Token("QUOTE", cursor, cursor + 1)
    OBVIOUS
  <2>2. /\ source' = source /\ tokens' = Append(tokens, t) /\ mode = "next" /\ mode' = "string"
        /\ cursor' = cursor + 1 /\ mark' = cursor + 1
    BY <1>8, <2>1 DEF OpenString
  <2>3. t.from = cursor /\ t.to = cursor + 1 /\ t \in Tokens
    <3>1. cursor + 1 \in 1 .. Len(source) /\ "QUOTE" \in TokenType
      BY <2>2 DEF IInv, LexerTypeOK, TokenType
    <3> QED
      BY <1>0, <2>1, <3>1 DEF Token, Tokens
  <2>4. Settled = cursor /\ Settled' = cursor + 1
    BY <2>2 DEF Settled
  <2>5. \A p \in 1 .. Settled' - 1 : Accounted(p)'
    BY <2>2, <2>3, <2>4, OneMore
  <2> QED
    BY <2>2, <2>5 DEF AInv, CommentText
<1>9. ASSUME CloseString PROVE AInv'
  <2> DEFINE content == Token("IDENTIFIER", mark, cursor)
             quote == Token("QUOTE", cursor, cursor + 1)
             inside == IF cursor > mark THEN Append(tokens, content) ELSE tokens
  <2>1. /\ mode = "string" /\ mode' = "next" /\ source' = source /\ mark <= cursor
        /\ Settled = mark /\ Settled' = cursor'
    BY <1>9 DEF CloseString, IInv, Started, Reading, Settled
  <2>2. content \in Tokens /\ content.from = mark /\ content.to = cursor
    BY <1>0 DEF Token, Tokens, TokenType
  <2>3. tokens \in Seq(Tokens)
    BY TokenTypes DEF IInv
  <2>4. tokens \o (IF cursor > mark THEN <<content>> ELSE << >>) = inside
    BY <2>2, <2>3, OneOrNone
  <2>5. quote.from = cursor /\ quote.to = cursor + 1
    BY DEF Token
  <2>6. \/ Char = "\"" /\ cursor' = cursor + Len(<<quote>>) /\ tokens' = inside \o <<quote>>
        \/ Char # "\"" /\ cursor' = cursor + Len(<< >>) /\ tokens' = inside \o << >>
    <3>1. CASE Char = "\""
      BY <1>9, <2>4, <3>1 DEF CloseString
    <3>2. CASE Char # "\""
      BY <1>9, <2>4, <3>2 DEF CloseString
    <3> QED
      BY <3>1, <3>2
  <2> HIDE DEF content, quote
  <2>7. /\ inside \in Seq(Tokens) /\ Len(inside) \in Nat /\ Len(tokens) <= Len(inside)
        /\ \A k \in 1 .. Len(tokens) : inside[k] = tokens[k]
        /\ \A k \in Len(tokens) + 1 .. Len(inside) : inside[k].from = mark
        /\ \A p \in mark .. cursor - 1 :
             \E k \in 1 .. Len(inside) : p \in inside[k].from .. inside[k].to - 1
    <3>1. CASE cursor > mark
      <4>1. inside = Append(tokens, content)
        BY <3>1
      <4>2. /\ inside \in Seq(Tokens) /\ Len(inside) = Len(tokens) + 1
            /\ \A k \in 1 .. Len(tokens) : inside[k] = tokens[k]
            /\ inside[Len(tokens) + 1] = content
        BY <4>1, <2>2, <2>3, Appended
      <4>3. Len(tokens) + 1 \in 1 .. Len(inside)
        BY <4>2, <1>0
      <4> HIDE DEF inside
      <4> QED
        BY <1>0, <2>2, <4>2, <4>3
    <3>2. CASE ~ cursor > mark
      <4>1. inside = tokens /\ mark = cursor
        BY <1>0, <2>1, <3>2
      <4> QED
        BY <1>0, <2>3, <4>1
    <3> QED
      BY <3>1, <3>2
  <2> HIDE DEF inside
  <2>8. CASE Char = "\"" /\ cursor' = cursor + Len(<<quote>>) /\ tokens' = inside \o <<quote>>
    <3>1. cursor' = cursor + 1
      BY <2>8
    <3>2. quote \in Tokens
      <4>1. cursor + 1 \in 1 .. Len(source) /\ "QUOTE" \in TokenType
        BY <2>1, <3>1 DEF IInv, LexerTypeOK, TokenType
      <4> QED
        BY <1>0, <4>1 DEF quote, Token, Tokens
    <3>3. tokens' = Append(inside, quote)
      BY <2>7, <2>8, <3>2, OneOrNone
    <3>4. /\ Len(tokens') = Len(inside) + 1 /\ tokens'[Len(inside) + 1] = quote
          /\ \A k \in 1 .. Len(inside) : tokens'[k] = inside[k]
      BY <2>7, <3>2, <3>3, Appended
    <3>5. ASSUME NEW k \in Len(tokens) + 1 .. Len(tokens')
          PROVE  tokens'[k].from \in Nat /\ Settled <= tokens'[k].from
      <4>1. CASE k \in Len(tokens) + 1 .. Len(inside)
        BY <1>0, <2>1, <2>7, <3>4, <4>1
      <4>2. CASE k = Len(inside) + 1
        BY <1>0, <2>1, <2>5, <3>4, <4>2
      <4>3. k \in Len(tokens) + 1 .. Len(inside) \/ k = Len(inside) + 1
        <5>1. PICK n \in Nat, m \in Nat : n = Len(tokens) /\ m = Len(inside)
          BY <1>0, <2>7
        <5>2. k \in n + 1 .. m + 1
          BY <3>4, <5>1
        <5>3. k \in n + 1 .. m \/ k = m + 1
          BY <5>2
        <5> QED
          BY <5>1, <5>3
      <4> QED
        BY <4>1, <4>2, <4>3
    <3>6. ASSUME NEW p \in Settled .. Settled' - 1 PROVE InToken(p)'
      <4>1. CASE p \in mark .. cursor - 1
        <5>1. PICK k \in 1 .. Len(inside) : p \in inside[k].from .. inside[k].to - 1
          BY <2>7, <4>1
        <5>2. k \in 1 .. Len(tokens') /\ tokens'[k] = inside[k]
          BY <2>7, <3>4
        <5> QED
          BY <5>1, <5>2 DEF InToken
      <4>2. CASE p = cursor
        <5>1. Len(inside) + 1 \in 1 .. Len(tokens')
          BY <2>7, <3>4
        <5>2. p \in tokens'[Len(inside) + 1].from .. tokens'[Len(inside) + 1].to - 1
          BY <1>0, <2>5, <3>4, <4>2
        <5> QED
          BY <5>1, <5>2 DEF InToken
      <4> QED
        BY <1>0, <2>1, <3>1, <4>1, <4>2
    <3>7. /\ Len(tokens') \in Nat /\ Len(tokens) <= Len(tokens')
          /\ \A k \in 1 .. Len(tokens) : tokens'[k] = tokens[k]
      BY <1>0, <2>7, <3>4
    <3>8. \A p \in 1 .. Settled' - 1 : Accounted(p)'
      BY <1>0, <2>1, <3>5, <3>6, <3>7, Covered
    <3> QED
      BY <2>1, <3>8 DEF AInv, CommentText
  <2>9. CASE Char # "\"" /\ cursor' = cursor + Len(<< >>) /\ tokens' = inside \o << >>
    <3>1. cursor' = cursor /\ tokens' = inside
      <4>1. inside \o << >> = inside
        BY <2>7, ConcatEmptySeq
      <4>2. Len(<< >>) = 0
        BY EmptySeq
      <4>3. PICK z \in Nat : z = Len(<< >>)
        BY <4>2
      <4>4. cursor' = cursor + z /\ z = 0
        BY <2>9, <4>2, <4>3
      <4>5. cursor' = cursor
        BY <1>0, <4>4
      <4> QED
        BY <2>9, <4>1, <4>5
    <3>2. \A p \in Settled .. Settled' - 1 : InToken(p)'
      BY <2>1, <2>7, <3>1 DEF InToken
    <3>3. \A p \in 1 .. Settled' - 1 : Accounted(p)'
      BY <1>0, <2>1, <2>7, <3>1, <3>2, Covered
    <3> QED
      BY <2>1, <3>3 DEF AInv, CommentText
  <2> QED
    BY <2>6, <2>8, <2>9
<1>10. ASSUME StartComment PROVE AInv'
  <2>1. /\ source' = source /\ tokens' = tokens /\ mode = "next" /\ mode' \in {"line", "block"}
        /\ mark' = cursor /\ cursor' = cursor + 2 /\ source[cursor] = "/"
        /\ mode' = "line" => source[cursor + 1] = "/"
        /\ mode' = "block" => source[cursor + 1] = "*"
    BY <1>10 DEF StartComment, Enter, Char, Ahead
  <2>2. Settled' = Settled
    BY <2>1 DEF Settled
  <2>3. \A p \in 1 .. Settled' - 1 : Accounted(p)'
    BY <1>0, <2>1, <2>2, NoToken
  <2>4. CommentText'
    BY <1>0, <2>1 DEF CommentText
  <2> QED
    BY <2>1, <2>3, <2>4 DEF AInv
<1>11. ASSUME CommentChar PROVE AInv'
  <2>1. /\ source' = source /\ tokens' = tokens /\ mode \in {"line", "block"} /\ mode' = mode
        /\ mark' = mark /\ cursor' = cursor + 1
        /\ mode = "line" => source[cursor] # "\n"
        /\ mode = "block" => ~(source[cursor] = "*" /\ source[cursor + 1] = "/")
    BY <1>11 DEF CommentChar, Advance, Char, Ahead
  <2>2. Settled' = Settled
    BY <2>1 DEF Settled
  <2>3. \A p \in 1 .. Settled' - 1 : Accounted(p)'
    BY <1>0, <2>1, <2>2, NoToken
  <2>4. CommentText'
    BY <1>0, <2>1 DEF AInv, CommentText
  <2> QED
    BY <2>1, <2>3, <2>4 DEF AInv
<1>12. ASSUME EndComment PROVE AInv'
  <2>1. /\ source' = source /\ tokens' = tokens /\ mode \in {"line", "block"} /\ mode' = "next"
        /\ \/ cursor' = cursor
           \/ mode = "block" /\ cursor' = cursor + 2
    BY <1>12 DEF EndComment
  <2>2. Settled = mark /\ Settled' = cursor'
    BY <2>1 DEF Settled
  <2>3. ASSUME NEW p \in Settled .. Settled' - 1 PROVE Accounted(p)
    <3>1. CASE p \in mark .. cursor - 1
      BY <2>1, <3>1, CommentAccounts DEF Accounted
    <3>2. CASE p \notin mark .. cursor - 1
      <4>1. mode = "block" /\ p \in cursor .. cursor + 1
        <5>1. PICK n \in Nat : n = cursor'
          BY <1>0
        <5>2. p \in mark .. n - 1 /\ (n = cursor \/ (mode = "block" /\ n = cursor + 2))
          BY <2>1, <2>2, <5>1
        <5> QED
          BY <1>0, <3>2, <5>2
      <4>2. mark \in 1 .. p /\ source[mark] = "/" /\ source[mark + 1] = "*"
        BY <1>0, <4>1 DEF AInv, CommentText
      <4>3. ~InToken(mark)
        BY <1>0, <2>1, TokenTypes DEF AInv, CommentText, InToken, IInv
      <4>4. \A q \in mark + 2 .. p - 2 : ~(source[q] = "*" /\ source[q + 1] = "/")
        <5>1. \A q \in mark + 2 .. cursor - 1 : ~(source[q] = "*" /\ source[q + 1] = "/")
          BY <4>1 DEF AInv, CommentText
        <5>2. mark + 2 .. p - 2 \subseteq mark + 2 .. cursor - 1
          BY <1>0, <4>1
        <5> QED
          BY <5>1, <5>2
      <4> QED
        BY <4>2, <4>3, <4>4 DEF Accounted, InComment
    <3> QED
      BY <3>1, <3>2
  <2>4. \A p \in 1 .. Settled' - 1 : Accounted(p)'
    BY <1>0, <2>1, <2>3, NoToken
  <2> QED
    BY <2>1, <2>4 DEF AInv, CommentText
<1>13. ASSUME Finish PROVE AInv'
  <2>1. PICK t : t = Token("EOF", cursor, cursor)
    OBVIOUS
  <2>2. /\ source' = source /\ tokens' = Append(tokens, t) /\ mode = "next" /\ mode' = "done"
        /\ cursor' = cursor /\ source[cursor] = NUL
    BY <1>13, <2>1 DEF Finish, Char
  <2>3. t.from = cursor /\ t.to = cursor /\ t \in Tokens
    BY <1>0, <2>1 DEF Token, Tokens, TokenType
  <2>4. Settled = cursor /\ Settled' = cursor
    BY <2>2 DEF Settled
  <2>5. \A p \in 1 .. Settled' - 1 : Accounted(p)'
    BY <2>2, <2>3, <2>4, OneMore
  <2> QED
    BY <2>2, <2>5 DEF AInv, CommentText
<1>14. ASSUME UNCHANGED vars PROVE AInv'
  BY <1>14 DEF vars, AInv, CommentText, Settled, Accounted, InToken, InComment
<1> QED
  BY <1>1, <1>2, <1>3, <1>4, <1>5, <1>6, <1>7, <1>8, <1>9, <1>10, <1>11, <1>12, <1>13, <1>14 DEF Next

\* What lies before the character to read is always accounted for.
LEMMA AllAccounted == Spec => []AInv
<1>1. Init => AInv
  <2> SUFFICES ASSUME Init PROVE AInv
    OBVIOUS
  <2>1. cursor = 1 /\ mode = "next" /\ Settled = 1
    BY DEF Init, Settled
  <2>2. \A p \in 1 .. Settled - 1 : FALSE
    BY <2>1
  <2> QED
    BY <2>1, <2>2 DEF AInv, CommentText
<1>2. IInv /\ IInv' /\ AInv /\ [Next]_vars => AInv'
  BY Accounts
<1> QED
  BY <1>1, <1>2, Invariance, PTL DEF Spec

\* When tokenize returns it has read up to the first NUL, and each character
\* before that is in a token, a blank, or in a comment that begins outside
\* every token: none is dropped where one loop hands over to the next, and those
\* no loop knows are in INVALID tokens.
THEOREM EverythingRead == Spec => []NothingLost
<1>1. AInv => NothingLost
  BY DEF AInv, NothingLost, Settled, Accounted
<1> QED
  BY <1>1, AllAccounted, PTL

---------------------------------------------------------------------------
(* Layout means nothing *)

\* The quotes before a token open and close strings: each turns what follows.
LEMMA GluedSteps ==
  ASSUME NEW ts, NEW k \in Nat \ {0}
  PROVE  /\ ~Glued(ts, 1)
         /\ ts[k].type = "QUOTE" => (Glued(ts, k + 1) <=> ~Glued(ts, k))
         /\ ts[k].type # "QUOTE" => (Glued(ts, k + 1) <=> Glued(ts, k))
<1> DEFINE Q == Quotes(ts, k - 1)
           n == Cardinality(Q)
<1>1. IsFiniteSet(Q) /\ n \in Nat
  <2>1. Q \subseteq 1 .. k - 1 /\ IsFiniteSet(1 .. k - 1)
    BY FS_Interval DEF Quotes
  <2> HIDE DEF Q
  <2> QED
    BY <2>1, FS_Subset, FS_CardinalityType
<1>2. ~Glued(ts, 1)
  <2>1. Quotes(ts, 0) = {}
    BY DEF Quotes
  <2> QED
    BY <2>1, FS_EmptySet DEF Glued
<1>3. ASSUME ts[k].type = "QUOTE" PROVE Glued(ts, k + 1) <=> ~Glued(ts, k)
  <2>1. Quotes(ts, k) = Q \cup {k} /\ k \notin Q
    BY <1>3 DEF Quotes
  <2>2. Cardinality(Quotes(ts, k)) = n + 1
    <3> HIDE DEF Q
    <3> QED
      BY <1>1, <2>1, FS_AddElement
  <2>3. (n + 1) % 2 = 1 <=> n % 2 # 1
    <3> HIDE DEF n
    <3> QED
      BY <1>1
  <2> QED
    BY <2>2, <2>3 DEF Glued
<1>4. ASSUME ts[k].type # "QUOTE" PROVE Glued(ts, k + 1) <=> Glued(ts, k)
  <2>1. Quotes(ts, k) = Q
    BY <1>4 DEF Quotes
  <2> QED
    BY <2>1 DEF Glued
<1> QED
  BY <1>2, <1>3, <1>4

\* It is decided by the types of the tokens before.
LEMMA GluedSame ==
  ASSUME NEW ts, NEW us, NEW k \in Nat \ {0}, \A j \in 1 .. k - 1 : us[j].type = ts[j].type
  PROVE  Glued(us, k) <=> Glued(ts, k)
<1>1. Quotes(us, k - 1) = Quotes(ts, k - 1)
  BY DEF Quotes
<1> QED
  BY <1>1 DEF Glued

\* The type that decides on a sign before the k-th token.
TypeBefore(ts, k) == IF k = 1 THEN "EOF" ELSE ts[k - 1].type

WordType(word) ==
  IF resolveKeyword(word) \in {"TRUE", "FALSE"} THEN "LIT_BOOL" ELSE resolveKeyword(word)

\* The text s from a up to b, and what it is.
WordText(s, a, b) ==
  a < b /\ s[a] \in Letters /\ \A p \in a + 1 .. b - 1 : s[p] \in Letters \cup Digits

\* Digits from d, behind a sign that belongs to them, and from e on a fraction.
DigitsFrom(s, a, d, before) ==
  /\ d = a \/ (d = a + 1 /\ s[a] \in Signs /\ before \in UnaryContext)
  /\ s[d] \in Digits
IntText(s, a, d, b, before) == DigitsFrom(s, a, d, before) /\ \A p \in d .. b - 1 : s[p] \in Digits
FloatText(s, a, d, e, b, before) ==
  /\ DigitsFrom(s, a, d, before) /\ s[e] = "." /\ s[e + 1] \in Digits
  /\ \A p \in d .. b - 1 : p = e \/ s[p] \in Digits

OperatorText(s, a, b, type) ==
  \/ b = a + 2 /\ <<s[a], s[a + 1]>> \in Doubles /\ type = OperatorType(<<s[a], s[a + 1]>>)
  \/ b = a + 1 /\ s[a] \in Operators /\ type = s[a]

Unknown(c) == c \notin Blanks \cup Letters \cup Digits \cup Operators \cup {"\"", NUL}

\* T holds the places from which a string is read on, up to b.
ReadOn(s, T, b) ==
  \A q \in T : q # b =>
    IF s[q] = "\\" THEN s[q + 1] # NUL /\ q + 2 \in T ELSE s[q] \notin {"\"", NUL} /\ q + 1 \in T
StringText(s, a, b) == \E T \in SUBSET (a .. b) : a \in T /\ b \in T /\ ReadOn(s, T, b)

IsWord(s, t) == WordText(s, t.from, t.to) /\ t.type = WordType(SubSeq(s, t.from, t.to - 1))
IsInt(s, t, before) ==
  /\ t.type = "LIT_INT"
  /\ \E d \in t.from .. t.to - 1 : IntText(s, t.from, d, t.to, before)
IsFloat(s, t, before) ==
  /\ t.type = "LIT_FLOAT"
  /\ \E d \in t.from .. t.to - 1 : \E e \in d + 1 .. t.to - 2 :
       FloatText(s, t.from, d, e, t.to, before)
IsOperator(s, t) == OperatorText(s, t.from, t.to, t.type)
IsInvalid(s, t) == t.type = "INVALID" /\ t.to = t.from + 1 /\ Unknown(s[t.from])
IsQuote(s, t) == t.type = "QUOTE" /\ t.to = t.from + 1 /\ s[t.from] = "\""
IsContent(s, t) == t.type = "IDENTIFIER" /\ t.from < t.to /\ StringText(s, t.from, t.to)
\* The backslash that ends the text in a string is left to the loop outside.
IsTorn(s, t) == t.type = "INVALID" /\ t.to = t.from + 1 /\ s[t.from] = "\\" /\ s[t.to] = NUL

\* What the k-th token can be, behind the tokens before it.
Shaped(s, ts, k) ==
  IF Glued(ts, k)
    THEN /\ k > 1 /\ ts[k].from = ts[k - 1].to
         /\ \/ IsContent(s, ts[k]) /\ ts[k - 1].type = "QUOTE"
            \/ IsQuote(s, ts[k])
            \/ IsTorn(s, ts[k])
    ELSE \/ IsWord(s, ts[k]) \/ IsOperator(s, ts[k])
         \/ IsInt(s, ts[k], TypeBefore(ts, k)) \/ IsFloat(s, ts[k], TypeBefore(ts, k))
         \/ IsInvalid(s, ts[k]) \/ IsQuote(s, ts[k])

\* A string is open: a quote has not been closed.
Open == Glued(tokens, Len(tokens) + 1)

\* All tokens but the one that ends the text.
Written == IF mode = "done" THEN Len(tokens) - 1 ELSE Len(tokens)

\* Where the tokens pushed so far leave the lexer.
Between ==
  /\ mode \in {"word", "number", "fraction", "line", "block"} => ~Open
  /\ mode \notin {"string", "done"} /\ ~Open => lastTy = TypeBefore(tokens, Len(tokens) + 1)
  /\ mode = "next" /\ Open =>
       /\ tokens # << >> /\ tokens[Len(tokens)].to = cursor
       /\ Char = NUL \/ (Char = "\\" /\ Ahead = NUL)
  /\ mode = "done" =>
       /\ tokens # << >>
       /\ tokens[Len(tokens)] = Token("EOF", cursor, cursor) /\ Char = NUL
       /\ Open => Len(tokens) > 1 /\ tokens[Len(tokens) - 1].to = cursor

\* The text of the token in progress.
InProgress ==
  /\ mode = "word" => WordText(source, mark, cursor)
  /\ mode = "number" => \E d \in mark .. cursor : IntText(source, mark, d, cursor, lastTy)
  /\ mode = "number" => mark < cursor
  /\ mode = "fraction" =>
       \E d \in mark .. cursor - 1 : \E e \in d + 1 .. cursor - 1 :
         FloatText(source, mark, d, e, cursor, lastTy)
  /\ mode = "string" =>
       /\ Open /\ tokens # << >> /\ StringText(source, mark, cursor)
       /\ tokens[Len(tokens)].type = "QUOTE" /\ tokens[Len(tokens)].to = mark

LInv ==
  /\ \A k \in 1 .. Written : Shaped(source, tokens, k)
  /\ Between
  /\ InProgress

\* No character is of two classes.
LEMMA ClassesApart ==
  /\ Letters \cap Digits = {} /\ Signs \subseteq Operators /\ "/" \in Operators /\ "." \in Operators
  /\ (Letters \cup Digits) \cap (Operators \cup Blanks \cup {"\"", "\\", NUL}) = {}
  /\ Operators \cap (Blanks \cup {"\"", "\\", NUL}) = {}
  /\ Blanks \cap {"\"", "\\", NUL} = {}
  /\ "\"" # "\\" /\ "\"" # NUL /\ "\\" # NUL /\ "." \notin Signs
<1>1. {pair[1] : pair \in Doubles} = {"=", "!", "<", ">", "&", "|", ":"}
  BY DEF Doubles
<1>2. (Letters \cup Digits) \cap Operators = {}
  BY <1>1, LexerAssumption, LayoutAssumption DEF Operators, Signs
<1>3. Operators \cap (Blanks \cup {"\"", "\\", NUL}) = {}
  BY <1>1 DEF Operators, Signs, Singles, Blanks, NUL
<1>4. (Letters \cup Digits) \cap (Blanks \cup {"\"", "\\", NUL}) = {}
  BY LexerAssumption DEF Blanks, NUL
<1>5. Blanks \cap {"\"", "\\", NUL} = {} /\ "\"" # "\\" /\ "\"" # NUL /\ "\\" # NUL /\ "." \notin Signs
  BY DEF Blanks, NUL, Signs
<1>6. Signs \subseteq Operators /\ "/" \in Operators /\ "." \in Operators
  BY DEF Operators, Singles
<1> QED
  BY <1>2, <1>3, <1>4, <1>5, <1>6, LexerAssumption

\* The tokens us are the tokens ts and t.
Extended(us, ts, t) ==
  /\ IsSequence(us) /\ Len(ts) \in Nat /\ Len(us) = Len(ts) + 1 /\ us # << >>
  /\ us[Len(ts) + 1] = t /\ us[Len(us)] = t
  /\ \A k \in 1 .. Len(ts) : us[k] = ts[k]
  /\ \A k \in 1 .. Len(us) :
       (Glued(us, k) <=> Glued(ts, k)) /\ TypeBefore(us, k) = TypeBefore(ts, k)
  /\ t.type = "QUOTE" => (Glued(us, Len(us) + 1) <=> ~Glued(ts, Len(us)))
  /\ t.type # "QUOTE" => (Glued(us, Len(us) + 1) <=> Glued(ts, Len(us)))
  /\ TypeBefore(us, Len(us) + 1) = t.type

\* What a token pushed is to those before it.
LEMMA AppendGlued ==
  ASSUME NEW ts, IsSequence(ts), NEW t, NEW us, us = Append(ts, t)
  PROVE  Extended(us, ts, t)
<1>1. /\ IsSequence(us) /\ Len(ts) \in Nat /\ Len(us) = Len(ts) + 1
      /\ us[Len(ts) + 1] = t /\ us[Len(us)] = t
      /\ \A k \in 1 .. Len(ts) : us[k] = ts[k]
  BY AppendFacts, IsSequenceFacts
<1>2. us # << >>
  BY <1>1, EmptySeq
<1>3. ASSUME NEW k \in 1 .. Len(us)
      PROVE  (Glued(us, k) <=> Glued(ts, k)) /\ TypeBefore(us, k) = TypeBefore(ts, k)
  <2>1. k \in Nat \ {0} /\ \A j \in 1 .. k - 1 : j \in 1 .. Len(ts)
    BY <1>1
  <2>2. \A j \in 1 .. k - 1 : us[j].type = ts[j].type
    BY <1>1, <2>1
  <2>3. Glued(us, k) <=> Glued(ts, k)
    BY <2>1, <2>2, GluedSame
  <2>4. k # 1 => k - 1 \in 1 .. k - 1
    BY <2>1
  <2> QED
    BY <2>2, <2>3, <2>4 DEF TypeBefore
<1>4. Len(us) \in Nat \ {0} /\ Len(us) \in 1 .. Len(us) /\ Len(us) + 1 # 1 /\ Len(us) + 1 - 1 = Len(us)
  BY <1>1
<1>5. Glued(us, Len(us)) <=> Glued(ts, Len(us))
  BY <1>3, <1>4
<1>6. /\ t.type = "QUOTE" => (Glued(us, Len(us) + 1) <=> ~Glued(us, Len(us)))
      /\ t.type # "QUOTE" => (Glued(us, Len(us) + 1) <=> Glued(us, Len(us)))
  <2>1. Len(us) \in Nat \ {0}
    BY <1>4
  <2>2. /\ us[Len(us)].type = "QUOTE" => (Glued(us, Len(us) + 1) <=> ~Glued(us, Len(us)))
        /\ us[Len(us)].type # "QUOTE" => (Glued(us, Len(us) + 1) <=> Glued(us, Len(us)))
    BY <2>1, GluedSteps, Zenon
  <2> QED
    BY <1>1, <2>2
<1>7. TypeBefore(us, Len(us) + 1) = t.type
  BY <1>1, <1>4 DEF TypeBefore
<1> QED
  BY <1>1, <1>2, <1>3, <1>5, <1>6, <1>7 DEF Extended

\* A token more changes no shape before it.
LEMMA StillShaped ==
  ASSUME NEW s, NEW ts, NEW t, NEW us, Extended(us, ts, t),
         \A k \in 1 .. Len(ts) : Shaped(s, ts, k)
  PROVE  \A k \in 1 .. Len(ts) : Shaped(s, us, k)
<1>1. /\ Len(ts) \in Nat /\ Len(us) = Len(ts) + 1
      /\ \A k \in 1 .. Len(ts) : us[k] = ts[k]
      /\ \A k \in 1 .. Len(us) :
              (Glued(us, k) <=> Glued(ts, k)) /\ TypeBefore(us, k) = TypeBefore(ts, k)
  BY DEF Extended
<1>2. ASSUME NEW k \in 1 .. Len(ts) PROVE Shaped(s, us, k)
  <2>1. Shaped(s, ts, k) /\ us[k] = ts[k] /\ k \in 1 .. Len(us)
    BY <1>1
  <2>2. (Glued(us, k) <=> Glued(ts, k)) /\ TypeBefore(us, k) = TypeBefore(ts, k)
    BY <1>1, <2>1
  <2>3. k > 1 => us[k - 1] = ts[k - 1]
    BY <1>1
  <2> QED
    BY <2>1, <2>2, <2>3 DEF Shaped
<1> QED
  BY <1>2

\* A token of its own shape leaves all tokens shaped.
LEMMA OneMoreShaped ==
  ASSUME NEW s, NEW ts, NEW t, NEW us, Extended(us, ts, t),
         \A k \in 1 .. Len(ts) : Shaped(s, ts, k), Shaped(s, us, Len(ts) + 1)
  PROVE  \A k \in 1 .. Len(us) : Shaped(s, us, k)
<1>1. \A k \in 1 .. Len(ts) : Shaped(s, us, k)
  BY StillShaped
<1>2. \A k \in 1 .. Len(us) : k \in 1 .. Len(ts) \/ k = Len(ts) + 1
  BY DEF Extended
<1> QED
  BY <1>1, <1>2

\* A token in an open string is pushed where the token before it ended.
LEMMA GluedOn ==
  ASSUME NEW s, NEW ts, NEW t, NEW us, Extended(us, ts, t),
         \A k \in 1 .. Len(ts) : Shaped(s, ts, k),
         Glued(ts, Len(ts) + 1), ts # << >>, ts[Len(ts)].to = t.from,
         \/ IsContent(s, t) /\ ts[Len(ts)].type = "QUOTE"
         \/ IsQuote(s, t)
         \/ IsTorn(s, t)
  PROVE  /\ \A k \in 1 .. Len(us) : Shaped(s, us, k)
         /\ Glued(us, Len(us) + 1) <=> t.type # "QUOTE"
         /\ TypeBefore(us, Len(us) + 1) = t.type
<1>0. Len(ts) \in Nat \ {0}
  BY EmptySeq DEF Extended
<1>1. /\ Len(us) = Len(ts) + 1 /\ Len(ts) \in Nat /\ us[Len(ts) + 1] = t
      /\ Len(ts) + 1 \in 1 .. Len(us) /\ Len(ts) \in 1 .. Len(ts)
  BY <1>0 DEF Extended
<1>2. Glued(us, Len(ts) + 1) /\ us[Len(ts) + 1 - 1] = ts[Len(ts)] /\ Len(ts) + 1 > 1
  BY <1>1 DEF Extended
<1>3. Shaped(s, us, Len(ts) + 1)
  BY <1>1, <1>2 DEF Shaped
<1>4. \A k \in 1 .. Len(us) : Shaped(s, us, k)
  BY <1>3, OneMoreShaped
<1>5. /\ t.type = "QUOTE" => (Glued(us, Len(us) + 1) <=> ~Glued(ts, Len(us)))
      /\ t.type # "QUOTE" => (Glued(us, Len(us) + 1) <=> Glued(ts, Len(us)))
      /\ TypeBefore(us, Len(us) + 1) = t.type
  BY DEF Extended
<1> QED
  BY <1>1, <1>4, <1>5

\* A token outside strings, pushed when none is open.
LEMMA PushShapes ==
  ASSUME IInv, LInv, mode \notin {"string", "done"}, ~Open,
         NEW type, NEW from, NEW to, type # "QUOTE", Push(type, from, to),
         \/ IsWord(source, Token(type, from, to)) \/ IsOperator(source, Token(type, from, to))
         \/ IsInt(source, Token(type, from, to), lastTy)
         \/ IsFloat(source, Token(type, from, to), lastTy)
         \/ IsInvalid(source, Token(type, from, to))
  PROVE  LInv'
<1>1. PICK t : t = Token(type, from, to)
  OBVIOUS
<1>2. PICK ts, us : ts = tokens /\ us = tokens'
  OBVIOUS
<1>3. /\ us = Append(ts, t) /\ source' = source /\ mode' = "next" /\ lastTy' = type
  BY <1>1, <1>2 DEF Push
<1>4. t.type = type
  BY <1>1 DEF Token
<1>5. IsSequence(ts)
  BY <1>2, IsSequenceOf DEF IInv, LexerTypeOK
<1>5a. Extended(us, ts, t)
  BY <1>3, <1>5, AppendGlued
<1>6. \A k \in 1 .. Len(ts) : Shaped(source, ts, k)
  BY <1>2 DEF LInv, Written
<1>7. ~Glued(ts, Len(ts) + 1) /\ TypeBefore(ts, Len(ts) + 1) = lastTy
  BY <1>2 DEF Open, LInv, Between
<1>8. /\ Len(ts) \in Nat /\ Len(us) = Len(ts) + 1 /\ us[Len(ts) + 1] = t
      /\ Len(ts) + 1 \in 1 .. Len(us)
      /\ (Glued(us, Len(ts) + 1) <=> Glued(ts, Len(ts) + 1))
      /\ TypeBefore(us, Len(ts) + 1) = TypeBefore(ts, Len(ts) + 1)
      /\ (Glued(us, Len(us) + 1) <=> Glued(ts, Len(us)))
      /\ TypeBefore(us, Len(us) + 1) = type
  <2>1. /\ Len(ts) \in Nat /\ Len(us) = Len(ts) + 1 /\ us[Len(ts) + 1] = t
        /\ \A k \in 1 .. Len(us) :
              (Glued(us, k) <=> Glued(ts, k)) /\ TypeBefore(us, k) = TypeBefore(ts, k)
        /\ t.type # "QUOTE" => (Glued(us, Len(us) + 1) <=> Glued(ts, Len(us)))
        /\ TypeBefore(us, Len(us) + 1) = t.type
    BY <1>5a DEF Extended
  <2>2. Len(ts) + 1 \in 1 .. Len(us)
    BY <2>1
  <2> QED
    BY <1>4, <2>1, <2>2
<1>9. Shaped(source, us, Len(ts) + 1)
  BY <1>1, <1>7, <1>8 DEF Shaped
<1>10. \A k \in 1 .. Len(us) : Shaped(source, us, k)
  BY <1>5a, <1>6, <1>9, OneMoreShaped
<1>11. (\A k \in 1 .. Written : Shaped(source, tokens, k))'
  BY <1>2, <1>3, <1>10 DEF Written
<1>12. ~Open' /\ lastTy' = TypeBefore(tokens, Len(tokens) + 1)'
  BY <1>2, <1>3, <1>7, <1>8 DEF Open
<1> QED
  BY <1>3, <1>11, <1>12 DEF LInv, Between, InProgress

\* A step that pushes nothing.
LEMMA QuietShapes ==
  ASSUME LInv, mode # "done", mode' # "done", source' = source, tokens' = tokens
  PROVE  /\ (\A k \in 1 .. Written : Shaped(source, tokens, k))'
         /\ Open' <=> Open
         /\ TypeBefore(tokens, Len(tokens) + 1)' = TypeBefore(tokens, Len(tokens) + 1)
BY DEF LInv, Written, Open

\* A step within a loop or at its ends that pushes nothing: Between holds.
LEMMA QuietBetween ==
  ASSUME LInv, mode \notin {"string", "done"}, mode' \notin {"string", "done"},
         source' = source, tokens' = tokens, lastTy' = lastTy, ~Open
  PROVE  (\A k \in 1 .. Written : Shaped(source, tokens, k))' /\ Between' /\ ~Open'
<1>1. /\ (\A k \in 1 .. Written : Shaped(source, tokens, k))'
      /\ Open' <=> Open
      /\ TypeBefore(tokens, Len(tokens) + 1)' = TypeBefore(tokens, Len(tokens) + 1)
  BY QuietShapes
<1> QED
  BY <1>1 DEF LInv, Between

\* Every step of the lexer keeps the shapes of its tokens and of the text in progress.
LEMMA Shapes == IInv /\ LInv /\ [Next]_vars => LInv'
<1> SUFFICES ASSUME IInv, LInv, [Next]_vars PROVE LInv'
  OBVIOUS
<1>0. /\ Len(tokens) \in Nat /\ Len(source) \in Nat /\ cursor \in Nat \ {0} /\ mark \in Nat \ {0}
      /\ IsSequence(tokens)
  BY TokenTypes, IsSequenceOf DEF IInv, LexerTypeOK
<1>a. mode = "next" /\ Char \notin {"\\", NUL} => ~Open
  BY DEF LInv, Between
<1>b. mode \in {"word", "number", "fraction", "line", "block"} => ~Open
  BY DEF LInv, Between
<1>c. mode \notin {"string", "done"} /\ ~Open => lastTy = TypeBefore(tokens, Len(tokens) + 1)
  BY DEF LInv, Between
<1>1. ASSUME SkipBlank PROVE LInv'
  <2>1. /\ mode = "next" /\ mode' = "next" /\ source' = source /\ tokens' = tokens /\ lastTy' = lastTy
        /\ Char \in Blanks
    BY <1>1 DEF SkipBlank, Advance
  <2>2. ~Open
    BY <1>a, <2>1, ClassesApart
  <2> QED
    BY <2>1, <2>2, QuietBetween DEF LInv, InProgress
<1>2. ASSUME StartWord PROVE LInv'
  <2>1. /\ mode = "next" /\ mode' = "word" /\ source' = source /\ tokens' = tokens
        /\ lastTy' = lastTy /\ Char \in Letters /\ mark' = cursor /\ cursor' = cursor + 1
    BY <1>2 DEF StartWord, Enter
  <2>2. ~Open
    BY <1>a, <2>1, ClassesApart
  <2>3. InProgress'
    BY <1>0, <2>1 DEF InProgress, WordText, Char
  <2> QED
    BY <2>1, <2>2, <2>3, QuietBetween DEF LInv
<1>3. ASSUME WordChar PROVE LInv'
  <2>1. /\ mode = "word" /\ mode' = "word" /\ source' = source /\ tokens' = tokens
        /\ lastTy' = lastTy /\ Char \in Letters \cup Digits /\ mark' = mark /\ cursor' = cursor + 1
    BY <1>3 DEF WordChar, Advance
  <2>2. WordText(source, mark, cursor + 1)
    BY <1>0, <2>1 DEF LInv, InProgress, WordText, Char
  <2>3. InProgress'
    BY <2>1, <2>2 DEF InProgress
  <2> QED
    BY <1>b, <2>1, <2>3, QuietBetween DEF LInv
<1>4. ASSUME EndWord PROVE LInv'
  <2>1. PICK type : type = WordType(SubSeq(source, mark, cursor - 1))
    OBVIOUS
  <2>2. /\ mode = "word" /\ Push(type, mark, cursor)
    BY <1>4, <2>1 DEF EndWord, WordType
  <2>3. type # "QUOTE"
    <3>1. \A word : resolveKeyword(word) # "QUOTE"
      BY LayoutAssumption DEF resolveKeyword
    <3> QED
      BY <2>1, <3>1 DEF WordType
  <2>4. WordText(source, mark, cursor)
    BY <2>2 DEF LInv, InProgress
  <2>5. IsWord(source, Token(type, mark, cursor))
    BY <2>1, <2>4 DEF IsWord, Token
  <2> QED
    BY <1>b, <2>2, <2>3, <2>5, PushShapes
<1>5. ASSUME StartNumber \/ StartSigned PROVE LInv'
  <2>1. /\ mode = "next" /\ mode' = "number" /\ source' = source /\ tokens' = tokens
        /\ lastTy' = lastTy /\ mark' = cursor /\ cursor' = cursor + 1
        /\ Char \in Digits \/ (Char \in Signs /\ lastTy \in UnaryContext /\ Ahead \in Digits)
    BY <1>5 DEF StartNumber, StartSigned, Enter
  <2>2. ~Open
    BY <1>a, <2>1, ClassesApart
  <2>3. \E d \in cursor .. cursor + 1 : IntText(source, cursor, d, cursor + 1, lastTy)
    <3>1. CASE Char \in Digits
      <4>1. IntText(source, cursor, cursor, cursor + 1, lastTy)
        BY <1>0, <3>1 DEF IntText, DigitsFrom, Char
      <4> QED
        BY <1>0, <4>1
    <3>2. CASE Char \in Signs /\ lastTy \in UnaryContext /\ Ahead \in Digits
      <4>1. IntText(source, cursor, cursor + 1, cursor + 1, lastTy)
        BY <1>0, <3>2 DEF IntText, DigitsFrom, Char, Ahead
      <4> QED
        BY <1>0, <4>1
    <3> QED
      BY <2>1, <3>1, <3>2
  <2>4. InProgress'
    BY <1>0, <2>1, <2>3 DEF InProgress
  <2> QED
    BY <2>1, <2>2, <2>4, QuietBetween DEF LInv
<1>6. ASSUME NumberChar PROVE LInv'
  <2>1. /\ mode \in {"number", "fraction"} /\ mode' = mode /\ source' = source /\ tokens' = tokens
        /\ lastTy' = lastTy /\ mark' = mark /\ cursor' = cursor + 1 /\ source[cursor] \in Digits
    BY <1>6 DEF NumberChar, Advance, Char
  <2>2. ASSUME mode = "number"
        PROVE  mark < cursor /\ \E d \in mark .. cursor + 1 : IntText(source, mark, d, cursor + 1, lastTy)
    <3>1. PICK d \in mark .. cursor : IntText(source, mark, d, cursor, lastTy) /\ mark < cursor
      BY <2>2 DEF LInv, InProgress
    <3>2. IntText(source, mark, d, cursor + 1, lastTy)
      BY <1>0, <2>1, <3>1 DEF IntText
    <3> QED
      BY <1>0, <3>1, <3>2
  <2>3. ASSUME mode = "fraction"
        PROVE  \E d \in mark .. cursor : \E e \in d + 1 .. cursor :
                 FloatText(source, mark, d, e, cursor + 1, lastTy)
    <3>1. PICK d \in mark .. cursor - 1 : \E e \in d + 1 .. cursor - 1 :
                 FloatText(source, mark, d, e, cursor, lastTy)
      BY <2>3 DEF LInv, InProgress
    <3>2. PICK e \in d + 1 .. cursor - 1 : FloatText(source, mark, d, e, cursor, lastTy)
      BY <3>1
    <3>3. FloatText(source, mark, d, e, cursor + 1, lastTy)
      BY <1>0, <2>1, <3>2 DEF FloatText
    <3>4. d \in mark .. cursor /\ e \in d + 1 .. cursor
      BY <1>0
    <3> QED
      BY <3>3, <3>4
  <2>4. InProgress'
    <3>1. cursor + 1 - 1 = cursor /\ mark < cursor => mark < cursor + 1
      BY <1>0
    <3> QED
      BY <1>0, <2>1, <2>2, <2>3 DEF InProgress
  <2> QED
    BY <1>b, <2>1, <2>4, QuietBetween DEF LInv
<1>7. ASSUME StartFraction PROVE LInv'
  <2>1. /\ mode = "number" /\ mode' = "fraction" /\ source' = source /\ tokens' = tokens
        /\ lastTy' = lastTy /\ mark' = mark /\ cursor' = cursor + 1
        /\ source[cursor] = "." /\ source[cursor + 1] \in Digits
    BY <1>7 DEF StartFraction, Char, Ahead
  <2>2. PICK d \in mark .. cursor : IntText(source, mark, d, cursor, lastTy)
    BY <2>1 DEF LInv, InProgress
  <2>3. d # cursor
    BY <2>1, <2>2, ClassesApart DEF IntText, DigitsFrom
  <2>4. FloatText(source, mark, d, cursor, cursor + 1, lastTy)
    BY <1>0, <2>1, <2>2 DEF IntText, FloatText
  <2>5. d \in mark .. cursor + 1 - 1 /\ cursor \in d + 1 .. cursor + 1 - 1
    BY <1>0, <2>3
  <2>6. InProgress'
    BY <2>1, <2>4, <2>5 DEF InProgress
  <2> QED
    BY <1>b, <2>1, <2>6, QuietBetween DEF LInv
<1>8. ASSUME EndNumber PROVE LInv'
  <2>1. CASE mode = "number" /\ Char \notin Digits /\ Push("LIT_INT", mark, cursor)
    <3>1. PICK d \in mark .. cursor : IntText(source, mark, d, cursor, lastTy)
      BY <2>1 DEF LInv, InProgress
    <3>2. d \in mark .. cursor - 1
      BY <1>0, <2>1, <3>1 DEF IntText, DigitsFrom, Char
    <3>3. IsInt(source, Token("LIT_INT", mark, cursor), lastTy)
      BY <3>1, <3>2 DEF IsInt, Token
    <3> QED
      BY <1>b, <2>1, <3>3, PushShapes
  <2>2. CASE mode = "fraction" /\ Char \notin Digits /\ Push("LIT_FLOAT", mark, cursor)
    <3>1. PICK d \in mark .. cursor - 1 : \E e \in d + 1 .. cursor - 1 :
                 FloatText(source, mark, d, e, cursor, lastTy)
      BY <2>2 DEF LInv, InProgress
    <3>2. PICK e \in d + 1 .. cursor - 1 : FloatText(source, mark, d, e, cursor, lastTy)
      BY <3>1
    <3>3. e \in d + 1 .. cursor - 2
      BY <1>0, <2>2, <3>2 DEF FloatText, Char
    <3>4. IsFloat(source, Token("LIT_FLOAT", mark, cursor), lastTy)
      BY <3>2, <3>3 DEF IsFloat, Token
    <3> QED
      BY <1>b, <2>2, <3>4, PushShapes
  <2> QED
    BY <1>8, <2>1, <2>2 DEF EndNumber
<1>9. ASSUME StartComment PROVE LInv'
  <2>1. /\ mode = "next" /\ mode' \in {"line", "block"} /\ source' = source /\ tokens' = tokens
        /\ lastTy' = lastTy /\ Char = "/"
    BY <1>9 DEF StartComment, Enter
  <2>2. ~Open
    BY <1>a, <2>1, ClassesApart
  <2> QED
    BY <2>1, <2>2, QuietBetween DEF LInv, InProgress
<1>10. ASSUME CommentChar PROVE LInv'
  <2>1. /\ mode \in {"line", "block"} /\ mode' = mode /\ source' = source /\ tokens' = tokens
        /\ lastTy' = lastTy
    BY <1>10 DEF CommentChar, Advance
  <2> QED
    BY <1>b, <2>1, QuietBetween DEF LInv, InProgress
<1>11. ASSUME EndComment PROVE LInv'
  <2>1. /\ mode \in {"line", "block"} /\ mode' = "next" /\ source' = source /\ tokens' = tokens
        /\ lastTy' = lastTy
    BY <1>11 DEF EndComment
  <2> QED
    BY <1>b, <2>1, QuietBetween DEF LInv, InProgress
<1>12. ASSUME Operator PROVE LInv'
  <2>1. mode = "next" /\ Char \in Operators
    BY <1>12 DEF Operator
  <2>2. ~Open
    BY <1>a, <2>1, ClassesApart
  <2>3. CASE <<Char, Ahead>> \in Doubles
    <3>1. Push(OperatorType(<<Char, Ahead>>), cursor, cursor + 2)
      BY <1>12, <2>3 DEF Operator
    <3>2. OperatorType(<<Char, Ahead>>) # "QUOTE"
      BY DEF OperatorType
    <3>3. IsOperator(source, Token(OperatorType(<<Char, Ahead>>), cursor, cursor + 2))
      BY <2>3 DEF IsOperator, OperatorText, Token, Char, Ahead
    <3> QED
      BY <2>1, <2>2, <3>1, <3>2, <3>3, PushShapes
  <2>4. CASE <<Char, Ahead>> \notin Doubles
    <3>1. Push(Char, cursor, cursor + 1)
      BY <1>12, <2>4 DEF Operator
    <3>2. Char # "QUOTE"
      <4>1. \A pair \in Doubles : pair[1] # "QUOTE"
        BY DEF Doubles
      <4> QED
        BY <2>1, <4>1 DEF Operators, Singles, Signs
    <3>3. IsOperator(source, Token(Char, cursor, cursor + 1))
      BY <2>1 DEF IsOperator, OperatorText, Token, Char
    <3> QED
      BY <2>1, <2>2, <3>1, <3>2, <3>3, PushShapes
  <2> QED
    BY <2>3, <2>4
<1>13. ASSUME Invalid PROVE LInv'
  <2>1. mode = "next" /\ Push("INVALID", cursor, cursor + 1) /\ Unknown(Char)
    BY <1>13 DEF Invalid, Unknown
  <2>2. PICK t : t = Token("INVALID", cursor, cursor + 1)
    OBVIOUS
  <2>3. CASE ~Open
    <3>1. IsInvalid(source, Token("INVALID", cursor, cursor + 1))
      BY <2>1 DEF IsInvalid, Token, Char
    <3> QED
      BY <2>1, <2>3, <3>1, PushShapes
  <2>4. CASE Open
    <3>1. /\ tokens # << >> /\ tokens[Len(tokens)].to = cursor /\ Char = "\\" /\ Ahead = NUL
          /\ Glued(tokens, Len(tokens) + 1)
      BY <2>1, <2>4 DEF LInv, Between, Open, Unknown
    <3>2. IsTorn(source, t) /\ t.from = cursor /\ t.to = cursor + 1 /\ t.type = "INVALID"
      BY <2>2, <3>1 DEF IsTorn, Token, Char, Ahead
    <3>3. PICK us : us = tokens'
      OBVIOUS
    <3>4. us = Append(tokens, t) /\ source' = source /\ cursor' = cursor + 1 /\ mode' = "next"
      BY <2>1, <2>2, <3>3 DEF Push
    <3>5. Extended(us, tokens, t)
      BY <1>0, <3>4, AppendGlued
    <3>6. \A k \in 1 .. Len(tokens) : Shaped(source, tokens, k)
      BY <2>1 DEF LInv, Written
    <3>7. (\A k \in 1 .. Len(us) : Shaped(source, us, k)) /\ Glued(us, Len(us) + 1)
      BY <3>1, <3>2, <3>5, <3>6, GluedOn
    <3>8. us # << >> /\ us[Len(us)] = t
      BY <3>5 DEF Extended
    <3>9. (\A k \in 1 .. Written : Shaped(source, tokens, k))'
      BY <3>3, <3>4, <3>7 DEF Written
    <3>10. Open' /\ (tokens # << >>)' /\ tokens'[Len(tokens')].to = cursor' /\ Char' = NUL
      BY <3>1, <3>2, <3>3, <3>4, <3>7, <3>8 DEF Open, Char, Ahead
    <3> QED
      BY <3>4, <3>9, <3>10 DEF LInv, Between, InProgress
  <2> QED
    BY <2>3, <2>4
<1>14. ASSUME OpenString PROVE LInv'
  <2>1. PICK t, us : t = Token("QUOTE", cursor, cursor + 1) /\ us = tokens'
    OBVIOUS
  <2>2. /\ mode = "next" /\ Char = "\"" /\ us = Append(tokens, t) /\ source' = source
        /\ mode' = "string" /\ mark' = cursor + 1 /\ cursor' = cursor + 1
    BY <1>14, <2>1 DEF OpenString
  <2>3. ~Open
    BY <1>a, <2>2, ClassesApart
  <2>4. IsQuote(source, t) /\ t.type = "QUOTE" /\ t.to = cursor + 1
    BY <2>1, <2>2 DEF IsQuote, Token, Char
  <2>5. Extended(us, tokens, t)
    BY <1>0, <2>2, AppendGlued
  <2>6. /\ Len(us) = Len(tokens) + 1 /\ us[Len(us)] = t /\ us # << >>
        /\ ~Glued(us, Len(us)) /\ Glued(us, Len(us) + 1)
    <3>1. Len(us) = Len(tokens) + 1 /\ Len(us) \in 1 .. Len(us)
      BY <1>0, <2>5 DEF Extended
    <3> QED
      BY <2>3, <2>4, <2>5, <3>1 DEF Extended, Open
  <2>7. Shaped(source, us, Len(us))
    BY <2>4, <2>6 DEF Shaped
  <2>8. \A k \in 1 .. Len(us) : Shaped(source, us, k)
    <3>1. \A k \in 1 .. Len(tokens) : Shaped(source, tokens, k)
      BY <2>2 DEF LInv, Written
    <3> QED
      BY <2>5, <2>6, <2>7, <3>1, OneMoreShaped
  <2>9. StringText(source, cursor + 1, cursor + 1)
    <3>1. {cursor + 1} \in SUBSET (cursor + 1 .. cursor + 1)
      BY <1>0
    <3>2. ReadOn(source, {cursor + 1}, cursor + 1)
      BY DEF ReadOn
    <3> QED
      BY <3>1, <3>2 DEF StringText
  <2>10. (\A k \in 1 .. Written : Shaped(source, tokens, k))'
    BY <2>1, <2>2, <2>8 DEF Written
  <2>11. InProgress'
    BY <2>1, <2>2, <2>4, <2>6, <2>9 DEF InProgress, Open
  <2> QED
    BY <2>2, <2>10, <2>11 DEF LInv, Between
<1>15. ASSUME StringChar \/ Escape PROVE LInv'
  <2>1. /\ mode = "string" /\ mode' = "string" /\ source' = source /\ tokens' = tokens /\ mark' = mark
    BY <1>15 DEF StringChar, Escape, Advance
  <2>2. PICK n \in {1, 2} :
          /\ cursor' = cursor + n
          /\ IF source[cursor] = "\\" THEN source[cursor + 1] # NUL /\ n = 2
                                       ELSE source[cursor] \notin {"\"", NUL} /\ n = 1
    BY <1>15 DEF StringChar, Escape, Advance, Char, Ahead
  <2>3. PICK T \in SUBSET (mark .. cursor) : mark \in T /\ cursor \in T /\ ReadOn(source, T, cursor)
    BY <2>1 DEF LInv, InProgress, StringText
  <2>4. ReadOn(source, T \cup {cursor + n}, cursor + n)
    BY <1>0, <2>2, <2>3 DEF ReadOn
  <2>5. T \cup {cursor + n} \in SUBSET (mark .. cursor + n)
    <3>1. mark <= cursor /\ T \subseteq mark .. cursor
      BY <1>0, <2>3
    <3>2. mark .. cursor \subseteq mark .. cursor + n /\ cursor + n \in mark .. cursor + n
      <4>1. PICK c \in Nat, m \in Nat : c = cursor /\ m = mark
        BY <1>0
      <4>2. m <= c
        BY <3>1, <4>1
      <4>3. m .. c \subseteq m .. c + n /\ c + n \in m .. c + n
        BY <4>2
      <4> QED
        BY <4>1, <4>3
    <3> QED
      BY <3>1, <3>2
  <2>6. StringText(source, mark, cursor + n)
    BY <2>3, <2>4, <2>5 DEF StringText
  <2>7. (\A k \in 1 .. Written : Shaped(source, tokens, k))' /\ (Open' <=> Open)
    BY <2>1, QuietShapes
  <2>8. InProgress'
    BY <2>1, <2>2, <2>6, <2>7 DEF LInv, InProgress
  <2> QED
    BY <2>1, <2>7, <2>8 DEF LInv, Between
<1>16. ASSUME CloseString PROVE LInv'
  <2> DEFINE content == Token("IDENTIFIER", mark, cursor)
             quote == Token("QUOTE", cursor, cursor + 1)
             inside == IF cursor > mark THEN Append(tokens, content) ELSE tokens
  <2>1. /\ mode = "string" /\ mode' = "next" /\ source' = source /\ lastTy' = "QUOTE" /\ mark <= cursor
        /\ Char \in {"\"", NUL} \/ (Char = "\\" /\ Ahead = NUL)
    BY <1>16 DEF CloseString, IInv, Started, Reading
  <2>2. /\ tokens # << >> /\ StringText(source, mark, cursor) /\ Glued(tokens, Len(tokens) + 1)
        /\ tokens[Len(tokens)].type = "QUOTE" /\ tokens[Len(tokens)].to = mark
        /\ \A k \in 1 .. Len(tokens) : Shaped(source, tokens, k)
    BY <2>1 DEF LInv, InProgress, Open, Written
  <2>3. tokens \o (IF cursor > mark THEN <<content>> ELSE << >>) = inside
    <3>1. tokens \in Seq(Tokens) /\ content \in Tokens
      BY TokenTypes DEF IInv, LexerTypeOK, Token, Tokens, TokenType
    <3> HIDE DEF content
    <3> QED
      BY <3>1, OneOrNone
  <2>4. \/ Char = "\"" /\ cursor' = cursor + Len(<<quote>>) /\ tokens' = inside \o <<quote>>
        \/ Char # "\"" /\ cursor' = cursor + Len(<< >>) /\ tokens' = inside \o << >>
    <3>1. CASE Char = "\""
      BY <1>16, <2>3, <3>1 DEF CloseString
    <3>2. CASE Char # "\""
      BY <1>16, <2>3, <3>2 DEF CloseString
    <3> QED
      BY <3>1, <3>2
  <2>5. /\ content.type = "IDENTIFIER" /\ content.from = mark /\ content.to = cursor
        /\ quote.type = "QUOTE" /\ quote.from = cursor /\ quote.to = cursor + 1
    BY DEF Token
  <2> HIDE DEF content, quote
  <2>6. /\ IsSequence(inside) /\ inside # << >> /\ inside[Len(inside)].to = cursor
        /\ Glued(inside, Len(inside) + 1)
        /\ \A k \in 1 .. Len(inside) : Shaped(source, inside, k)
    <3>1. CASE cursor > mark
      <4>1. inside = Append(tokens, content)
        BY <3>1
      <4> HIDE DEF inside
      <4>2. Extended(inside, tokens, content)
        BY <1>0, <4>1, AppendGlued
      <4>3. IsContent(source, content)
        BY <1>0, <2>2, <2>5, <3>1 DEF IsContent
      <4>4. /\ \A k \in 1 .. Len(inside) : Shaped(source, inside, k)
            /\ Glued(inside, Len(inside) + 1)
        BY <2>2, <2>5, <4>2, <4>3, GluedOn
      <4> QED
        BY <2>5, <4>2, <4>4 DEF Extended
    <3>2. CASE ~ cursor > mark
      <4>0. inside = tokens
        BY <3>2
      <4>1. mark = cursor
        <5>1. cursor \in Nat /\ mark \in Nat /\ mark <= cursor /\ ~ mark < cursor
          BY <1>0, <2>1, <3>2
        <5> QED
          BY <5>1
      <4> HIDE DEF inside
      <4> QED
        BY <1>0, <2>2, <4>0, <4>1
    <3> QED
      BY <3>1, <3>2
  <2> HIDE DEF inside
  <2>7. CASE Char = "\"" /\ cursor' = cursor + Len(<<quote>>) /\ tokens' = inside \o <<quote>>
    <3>1. PICK us : us = tokens'
      OBVIOUS
    <3>2. us = Append(inside, quote)
      <4>1. inside \in Seq(ToSet(inside) \cup {quote}) /\ quote \in ToSet(inside) \cup {quote}
        <5>1. inside \in [1 .. Len(inside) -> ToSet(inside)] /\ Len(inside) \in Nat
          BY <2>6, LenProperties DEF IsSequence
        <5>2. inside \in [1 .. Len(inside) -> ToSet(inside) \cup {quote}]
          BY <5>1
        <5> QED
          BY <5>1, <5>2, SeqDef
      <4> QED
        BY <2>7, <3>1, <4>1, OneOrNone
    <3>3. Extended(us, inside, quote)
      BY <2>6, <3>2, AppendGlued
    <3>4. IsQuote(source, quote)
      BY <2>5, <2>7 DEF IsQuote, Char
    <3>5. /\ \A k \in 1 .. Len(us) : Shaped(source, us, k)
          /\ ~Glued(us, Len(us) + 1) /\ TypeBefore(us, Len(us) + 1) = "QUOTE"
      BY <2>5, <2>6, <3>3, <3>4, GluedOn
    <3> QED
      BY <2>1, <3>1, <3>5 DEF LInv, Between, InProgress, Open, Written
  <2>8. CASE Char # "\"" /\ cursor' = cursor + Len(<< >>) /\ tokens' = inside \o << >>
    <3>1. cursor' = cursor /\ tokens' = inside
      <4>1. inside \o << >> = inside
        BY <2>6, ConcatEmptySeq DEF IsSequence
      <4>2. Len(<< >>) = 0
        BY EmptySeq
      <4>3. PICK z \in Nat : z = Len(<< >>)
        BY <4>2
      <4>4. cursor' = cursor + z /\ z = 0
        BY <2>8, <4>2, <4>3
      <4>5. cursor' = cursor
        BY <1>0, <4>4
      <4> QED
        BY <2>8, <4>1, <4>5
    <3> QED
      BY <2>1, <2>6, <2>8, <3>1 DEF LInv, Between, InProgress, Open, Written, Char, Ahead
  <2> QED
    BY <2>4, <2>7, <2>8
<1>17. ASSUME Finish PROVE LInv'
  <2>1. PICK t, us : t = Token("EOF", cursor, cursor) /\ us = tokens'
    OBVIOUS
  <2>2. /\ mode = "next" /\ source[cursor] = NUL /\ us = Append(tokens, t) /\ source' = source
        /\ mode' = "done" /\ cursor' = cursor
    BY <1>17, <2>1 DEF Finish, Char
  <2>3. Extended(us, tokens, t)
    BY <1>0, <2>2, AppendGlued
  <2>4. \A k \in 1 .. Len(tokens) : Shaped(source, us, k)
    <3>1. \A k \in 1 .. Len(tokens) : Shaped(source, tokens, k)
      BY <2>2 DEF LInv, Written
    <3> QED
      BY <2>3, <3>1, StillShaped
  <2>5. /\ Len(us) = Len(tokens) + 1 /\ us[Len(us)] = t /\ us # << >> /\ Len(us) - 1 = Len(tokens)
    BY <1>0, <2>3 DEF Extended
  <2>6. Glued(us, Len(us) + 1) => Open
    <3>1. t.type # "QUOTE"
      BY <2>1 DEF Token
    <3> QED
      BY <2>3, <2>5, <3>1 DEF Extended, Open
  <2>7. Open => Len(us) > 1 /\ us[Len(us) - 1].to = cursor
    <3>1. Open => tokens # << >> /\ tokens[Len(tokens)].to = cursor
      BY <2>2 DEF LInv, Between
    <3>2. tokens # << >> => Len(tokens) \in 1 .. Len(tokens)
      BY <1>0, EmptySeq
    <3> QED
      BY <1>0, <2>3, <2>5, <3>1, <3>2 DEF Extended
  <2>8. (\A k \in 1 .. Written : Shaped(source, tokens, k))'
    BY <2>1, <2>2, <2>4, <2>5 DEF Written
  <2>9. Between'
    BY <2>1, <2>2, <2>5, <2>6, <2>7 DEF Between, Open, Char
  <2> QED
    BY <2>2, <2>8, <2>9 DEF LInv, InProgress
<1>20. ASSUME UNCHANGED vars PROVE LInv'
  BY <1>20 DEF vars, LInv, Written, Between, InProgress, Open, Char, Ahead
<1> QED
  BY <1>1, <1>2, <1>3, <1>4, <1>5, <1>6, <1>7, <1>8, <1>9, <1>10, <1>11, <1>12, <1>13, <1>14, <1>15,
     <1>16, <1>17, <1>20 DEF Next

\* Before the first step no token has a shape to keep.
LEMMA LInitial == Init => LInv
<1> SUFFICES ASSUME Init PROVE LInv
  OBVIOUS
<1>1. tokens = << >> /\ Len(tokens) = 0 /\ mode = "next" /\ lastTy = "EOF"
  BY EmptySeq DEF Init
<1>2. ~Open /\ TypeBefore(tokens, Len(tokens) + 1) = "EOF" /\ \A k \in 1 .. Written : FALSE
  <2>1. ~Glued(tokens, 1)
    BY GluedSteps
  <2> QED
    BY <1>1, <2>1 DEF Open, TypeBefore, Written
<1> QED
  BY <1>1, <1>2 DEF LInv, Between, InProgress

\* The text of t in r, moved by n, is the text of u in s.
Moved(s, u, r, t, n) ==
  /\ n \in Int /\ t.from \in Int /\ t.to \in Int /\ u.type = t.type
  /\ u.from = t.from + n /\ u.to = t.to + n
  /\ \A p \in t.from .. t.to - 1 : s[p + n] = r[p]

\* A text that is moved can be moved back.
LEMMA MovedBack ==
  ASSUME NEW s, NEW u, NEW r, NEW t, NEW n, Moved(s, u, r, t, n)
  PROVE  /\ u.from \in Int /\ u.to \in Int
         /\ \A p \in u.from .. u.to - 1 : p - n \in t.from .. t.to - 1 /\ s[p] = r[p - n]
<1>1. u.from \in Int /\ u.to \in Int
  BY DEF Moved
<1>2. ASSUME NEW p \in u.from .. u.to - 1
      PROVE  p - n \in t.from .. t.to - 1 /\ s[p] = r[p - n]
  <2>1. PICK q : q = p - n
    OBVIOUS
  <2>2. q \in t.from .. t.to - 1 /\ q + n = p
    BY <2>1, <1>1 DEF Moved
  <2>3. s[q + n] = r[q]
    BY <2>2 DEF Moved
  <2> QED
    BY <2>1, <2>2, <2>3
<1> QED
  BY <1>1, <1>2

Inside(t, s) == IsSequence(s) /\ 1 <= t.from /\ t.from <= t.to /\ t.to <= Len(s)

SameText(s, u, r, t) == SubSeq(s, u.from, u.to - 1) = SubSeq(r, t.from, t.to - 1)

\* A text that is moved reads the same.
LEMMA MovedSubSeq ==
  ASSUME NEW s, NEW u, NEW r, NEW t, NEW n, Moved(s, u, r, t, n), Inside(u, s), Inside(t, r)
  PROVE  SameText(s, u, r, t)
<1> DEFINE x == SubSeq(s, u.from, u.to - 1)
           y == SubSeq(r, t.from, t.to - 1)
<1>0. /\ Len(s) \in Nat /\ Len(r) \in Nat /\ t.from \in Nat /\ t.to \in Nat
      /\ u.from \in Nat /\ u.to \in Nat /\ n \in Int /\ u.from = t.from + n /\ u.to = t.to + n
  BY IsSequenceFacts, MovedBack DEF Moved, Inside
<1>a. 1 <= t.from /\ t.from <= t.to /\ t.to <= Len(r) /\ 1 <= u.from /\ u.to <= Len(s)
      /\ IsSequence(s) /\ IsSequence(r)
  BY DEF Inside
<1>1. PICK w \in Nat : w = t.to - t.from
  BY <1>0, <1>a
<1>2. /\ IsSequence(x) /\ Len(x) = w /\ \A i \in 1 .. w : x[i] = s[u.from + i - 1]
  <2>1. u.from \in 1 .. Len(s) + 1 /\ u.to - 1 \in 0 .. Len(s)
    BY <1>0, <1>a
  <2>2. /\ IsSequence(x) /\ Len(x) = (IF u.from <= u.to - 1 THEN u.to - 1 - u.from + 1 ELSE 0)
        /\ \A i \in 1 .. u.to - 1 - u.from + 1 : x[i] = s[u.from + i - 1]
    BY <1>a, <2>1, SubSeqFacts
  <2>3. u.to - 1 - u.from + 1 = w /\ (~ u.from <= u.to - 1 => w = 0)
    <3>1. PICK a \in Nat, b \in Nat : a = u.from /\ b = u.to /\ w = b - a
      BY <1>0, <1>1
    <3> QED
      BY <3>1
  <2> QED
    BY <2>2, <2>3
<1>3. /\ IsSequence(y) /\ Len(y) = w /\ \A i \in 1 .. w : y[i] = r[t.from + i - 1]
  <2>1. t.from \in 1 .. Len(r) + 1 /\ t.to - 1 \in 0 .. Len(r)
    BY <1>0, <1>a
  <2>2. /\ IsSequence(y) /\ Len(y) = (IF t.from <= t.to - 1 THEN t.to - 1 - t.from + 1 ELSE 0)
        /\ \A i \in 1 .. t.to - 1 - t.from + 1 : y[i] = r[t.from + i - 1]
    BY <1>a, <2>1, SubSeqFacts
  <2>3. t.to - 1 - t.from + 1 = w /\ (~ t.from <= t.to - 1 => w = 0)
    BY <1>0, <1>1
  <2> QED
    BY <2>2, <2>3
<1>4. ASSUME NEW i \in 1 .. w PROVE x[i] = y[i]
  <2>1. PICK p : p = t.from + i - 1
    OBVIOUS
  <2>2. p \in t.from .. t.to - 1 /\ p + n = u.from + i - 1
    <3>1. PICK a \in Nat, b \in Nat : a = t.from /\ b = t.to
      BY <1>0
    <3>2. p = a + i - 1 /\ w = b - a /\ u.from = a + n
      BY <1>0, <1>1, <2>1, <3>1
    <3>3. p \in a .. b - 1 /\ p + n = a + n + i - 1
      BY <1>0, <3>2
    <3> QED
      BY <3>1, <3>2, <3>3
  <2>3. s[p + n] = r[p]
    BY <2>2 DEF Moved
  <2> HIDE DEF x, y
  <2> QED
    BY <1>2, <1>3, <2>1, <2>2, <2>3
<1> HIDE DEF x, y
<1>5. x = [i \in 1 .. w |-> x[i]] /\ y = [i \in 1 .. w |-> y[i]]
  BY <1>2, <1>3 DEF IsSequence
<1>6. x = y
  BY <1>4, <1>5
<1> QED
  BY <1>6 DEF x, y, SameText

\* A token keeps its shape where its text is moved to.
LEMMA MovedShapes ==
  ASSUME NEW s, NEW u, NEW r, NEW t, NEW n, Moved(s, u, r, t, n), NEW before
  PROVE  /\ IsWord(r, t) /\ SameText(s, u, r, t) => IsWord(s, u)
         /\ IsOperator(r, t) => IsOperator(s, u)
         /\ IsInt(r, t, before) => IsInt(s, u, before)
         /\ IsFloat(r, t, before) => IsFloat(s, u, before)
         /\ IsInvalid(r, t) => IsInvalid(s, u)
         /\ IsQuote(r, t) => IsQuote(s, u)
         /\ IsContent(r, t) => IsContent(s, u)
         /\ IsTorn(r, t) /\ s[u.to] = NUL => IsTorn(s, u)
<1>0. /\ n \in Int /\ t.from \in Int /\ t.to \in Int /\ u.from \in Int /\ u.to \in Int /\ u.type = t.type
      /\ u.from = t.from + n /\ u.to = t.to + n
      /\ \A p \in t.from .. t.to - 1 : s[p + n] = r[p]
      /\ \A p \in u.from .. u.to - 1 : p - n \in t.from .. t.to - 1 /\ s[p] = r[p - n]
  BY MovedBack DEF Moved
<1>f. t.from < t.to => s[u.from] = r[t.from]
  <2>1. t.from < t.to => t.from \in t.from .. t.to - 1
    BY <1>0
  <2> QED
    BY <1>0, <2>1
<1>1. ASSUME IsWord(r, t), SameText(s, u, r, t) PROVE IsWord(s, u)
  <2>1. WordText(r, t.from, t.to) /\ u.type = WordType(SubSeq(s, u.from, u.to - 1))
    BY <1>0, <1>1 DEF IsWord, SameText
  <2>2. u.from < u.to /\ s[u.from] \in Letters
    BY <1>0, <1>f, <2>1 DEF WordText
  <2>3. ASSUME NEW p \in u.from + 1 .. u.to - 1 PROVE s[p] \in Letters \cup Digits
    <3>1. PICK q : q = p - n
      OBVIOUS
    <3>2. q \in t.from + 1 .. t.to - 1 /\ p \in u.from .. u.to - 1
      BY <1>0, <3>1
    <3>3. r[q] \in Letters \cup Digits
      BY <2>1, <3>2 DEF WordText
    <3> QED
      BY <1>0, <3>1, <3>2, <3>3
  <2> QED
    BY <2>1, <2>2, <2>3 DEF IsWord, WordText
<1>2. ASSUME IsOperator(r, t) PROVE IsOperator(s, u)
  <2>1. CASE t.to = t.from + 1
    <3>1. u.to = u.from + 1 /\ s[u.from] = r[t.from]
      BY <1>0, <1>f, <2>1
    <3>2. r[t.from] \in Operators /\ t.type = r[t.from]
      BY <1>0, <1>2, <2>1 DEF IsOperator, OperatorText
    <3> QED
      BY <1>0, <3>1, <3>2 DEF IsOperator, OperatorText
  <2>2. CASE t.to = t.from + 2
    <3>1. t.from + 1 \in t.from .. t.to - 1 /\ t.from + 1 + n = u.from + 1
      BY <1>0, <2>2
    <3>2. u.to = u.from + 2 /\ s[u.from] = r[t.from] /\ s[u.from + 1] = r[t.from + 1]
      BY <1>0, <1>f, <2>2, <3>1
    <3>3. <<r[t.from], r[t.from + 1]>> \in Doubles /\ t.type = OperatorType(<<r[t.from], r[t.from + 1]>>)
      BY <1>0, <1>2, <2>2 DEF IsOperator, OperatorText
    <3> QED
      BY <1>0, <3>2, <3>3 DEF IsOperator, OperatorText
  <2> QED
    BY <1>2, <2>1, <2>2 DEF IsOperator, OperatorText
<1>d. ASSUME NEW d \in t.from .. t.to - 1, DigitsFrom(r, t.from, d, before)
      PROVE  DigitsFrom(s, u.from, d + n, before) /\ d + n \in u.from .. u.to - 1
  <2>1. s[d + n] = r[d] /\ t.from < t.to /\ d + n \in u.from .. u.to - 1
    BY <1>0
  <2> QED
    BY <1>0, <1>f, <1>d, <2>1 DEF DigitsFrom
<1>3. ASSUME IsInt(r, t, before) PROVE IsInt(s, u, before)
  <2>1. PICK d \in t.from .. t.to - 1 : IntText(r, t.from, d, t.to, before)
    BY <1>3 DEF IsInt
  <2>2. DigitsFrom(s, u.from, d + n, before) /\ d + n \in u.from .. u.to - 1
    BY <1>d, <2>1 DEF IntText
  <2>3. ASSUME NEW p \in d + n .. u.to - 1 PROVE s[p] \in Digits
    <3>1. p - n \in d .. t.to - 1 /\ p \in u.from .. u.to - 1
      BY <1>0
    <3>2. r[p - n] \in Digits
      BY <2>1, <3>1 DEF IntText
    <3> QED
      BY <1>0, <3>1, <3>2
  <2> QED
    BY <1>0, <1>3, <2>2, <2>3 DEF IsInt, IntText
<1>4. ASSUME IsFloat(r, t, before) PROVE IsFloat(s, u, before)
  <2>1. PICK d \in t.from .. t.to - 1 : \E e \in d + 1 .. t.to - 2 :
          FloatText(r, t.from, d, e, t.to, before)
    BY <1>4 DEF IsFloat
  <2>2. PICK e \in d + 1 .. t.to - 2 : FloatText(r, t.from, d, e, t.to, before)
    BY <2>1
  <2>3. DigitsFrom(s, u.from, d + n, before) /\ d + n \in u.from .. u.to - 1
    BY <1>d, <2>2 DEF FloatText
  <2>4. ASSUME NEW p \in d + n .. u.to - 1 PROVE p = e + n \/ s[p] \in Digits
    <3>1. p - n \in d .. t.to - 1 /\ p \in u.from .. u.to - 1
      BY <1>0
    <3>2. p - n = e \/ r[p - n] \in Digits
      BY <2>2, <3>1 DEF FloatText
    <3> QED
      BY <1>0, <3>1, <3>2
  <2>5. e + n \in d + n + 1 .. u.to - 2 /\ s[e + n] = "." /\ s[e + n + 1] \in Digits
    <3>1. e \in t.from .. t.to - 1 /\ e + 1 \in t.from .. t.to - 1 /\ e + 1 + n = e + n + 1
      BY <1>0
    <3>2. s[e + n] = r[e] /\ s[e + 1 + n] = r[e + 1]
      BY <1>0, <3>1
    <3>3. e + n \in d + n + 1 .. u.to - 2
      BY <1>0
    <3> QED
      BY <2>2, <3>1, <3>2, <3>3 DEF FloatText
  <2>6. FloatText(s, u.from, d + n, e + n, u.to, before)
    BY <2>3, <2>4, <2>5 DEF FloatText
  <2> QED
    BY <1>0, <1>4, <2>3, <2>5, <2>6 DEF IsFloat
<1>5. (IsInvalid(r, t) => IsInvalid(s, u)) /\ (IsQuote(r, t) => IsQuote(s, u))
  <2>1. t.to = t.from + 1 => u.to = u.from + 1 /\ s[u.from] = r[t.from]
    BY <1>0, <1>f
  <2> QED
    BY <1>0, <2>1 DEF IsInvalid, IsQuote
<1>6. ASSUME IsContent(r, t) PROVE IsContent(s, u)
  <2>1. PICK T \in SUBSET (t.from .. t.to) : t.from \in T /\ t.to \in T /\ ReadOn(r, T, t.to)
    BY <1>6 DEF IsContent, StringText
  <2> DEFINE U == {q + n : q \in T}
  <2>2. U \in SUBSET (u.from .. u.to) /\ u.from \in U /\ u.to \in U
    BY <1>0, <2>1
  <2>3. ASSUME NEW q \in U, q # u.to
        PROVE  IF s[q] = "\\" THEN s[q + 1] # NUL /\ q + 2 \in U
                              ELSE s[q] \notin {"\"", NUL} /\ q + 1 \in U
    <3>1. PICK p \in T : q = p + n
      OBVIOUS
    <3>2. p \in t.from .. t.to - 1 /\ p # t.to
      BY <1>0, <2>3, <3>1
    <3>3. s[q] = r[p]
      BY <1>0, <3>1, <3>2
    <3>4. IF r[p] = "\\" THEN r[p + 1] # NUL /\ p + 2 \in T
                         ELSE r[p] \notin {"\"", NUL} /\ p + 1 \in T
      BY <2>1, <3>2 DEF ReadOn
    <3>5. CASE r[p] = "\\"
      <4>1. p + 2 \in T /\ p + 1 \in t.from .. t.to - 1 /\ r[p + 1] # NUL
        BY <1>0, <3>2, <3>4, <3>5
      <4>2. s[p + 1 + n] = r[p + 1] /\ p + 1 + n = q + 1 /\ p + 2 + n = q + 2
        BY <1>0, <3>1, <3>2, <4>1
      <4>3. p + 2 + n \in U
        BY <4>1
      <4> QED
        BY <3>3, <3>5, <4>1, <4>2, <4>3
    <3>6. CASE r[p] # "\\"
      <4>1. p + 1 \in T /\ r[p] \notin {"\"", NUL}
        BY <3>4, <3>6
      <4>2. p + 1 + n \in U
        BY <4>1
      <4>3. p + 1 + n = q + 1
        BY <1>0, <3>1, <3>2
      <4> HIDE DEF U
      <4> QED
        BY <3>3, <3>6, <4>1, <4>2, <4>3
    <3> QED
      BY <3>5, <3>6
  <2> HIDE DEF U
  <2>4. ReadOn(s, U, u.to)
    BY <2>3 DEF ReadOn
  <2>5. StringText(s, u.from, u.to)
    BY <2>2, <2>4 DEF StringText
  <2> QED
    BY <1>0, <1>6, <2>5 DEF IsContent
<1>7. IsTorn(r, t) /\ s[u.to] = NUL => IsTorn(s, u)
  BY <1>0, <1>f DEF IsTorn
<1> QED
  BY <1>1, <1>2, <1>3, <1>4, <1>5, <1>6, <1>7

\* Where the token before the k-th ends.
Before(g, k) == IF k = 1 THEN 1 ELSE g[k - 1].to

\* The tokens g of s are those of the first text, one blank apart.
Laid(g, s) ==
  /\ IsSequence(g) /\ Len(g) = Len(tokens) /\ Len(g) \in Nat \ {0}
  /\ \A k \in 1 .. Len(g) :
       /\ g[k].from \in Nat \ {0} /\ g[k].to \in Nat \ {0} /\ g[k].from <= g[k].to
       /\ g[k] = Token(tokens[k].type, g[k].from, g[k].to)
  /\ \A k \in 1 .. Len(g) - 1 :
       /\ Shaped(s, g, k)
       /\ IF Glued(g, k) THEN g[k].from = Before(g, k)
                         ELSE g[k].from = Before(g, k) + 1 /\ s[Before(g, k)] = " "
  /\ g[Len(g)] = Token("EOF", Before(g, Len(g)), Before(g, Len(g)))
  /\ s[Before(g, Len(g))] = NUL
  /\ Read(g, s) = Read(tokens, source)

Gap(k) == IF Glued(tokens, k) THEN 0 ELSE 1

\* The text of a token and the blank in front of it.
LEMMA SpacedFacts ==
  ASSUME IInv, NEW k \in 1 .. Len(tokens)
  PROVE  /\ IsSequence(Spaced(k)) /\ Len(Spaced(k)) = Gap(k) + (tokens[k].to - tokens[k].from)
         /\ ~Glued(tokens, k) => Spaced(k)[1] = " "
         /\ \A i \in 1 .. tokens[k].to - tokens[k].from :
              Spaced(k)[Gap(k) + i] = source[tokens[k].from + i - 1]
<1>1. PICK a, b : a = tokens[k].from /\ b = tokens[k].to
  OBVIOUS
<1>2. PICK x : x = TextOf(tokens[k])
  OBVIOUS
<1>3. /\ a \in Nat \ {0} /\ b \in Nat /\ a <= b /\ b <= Len(source) /\ Len(source) \in Nat /\ IsSequence(source)
  <2>1. a \in 1 .. Len(source) /\ b \in 1 .. Len(source) /\ Len(source) \in Nat
    BY <1>1, TokenTypes DEF IInv, Tokens
  <2>2. a <= b
    BY <1>1 DEF IInv, TokensInOrder
  <2>3. IsSequence(source)
    BY IsSequenceOf DEF IInv, LexerTypeOK
  <2> QED
    BY <2>1, <2>2, <2>3
<1>4. /\ IsSequence(x) /\ Len(x) = b - a /\ \A i \in 1 .. b - a : x[i] = source[a + i - 1]
  <2>1. a \in 1 .. Len(source) + 1 /\ b - 1 \in 0 .. Len(source)
    BY <1>3
  <2>2. x = SubSeq(source, a, b - 1)
    BY <1>1, <1>2 DEF TextOf
  <2>3. /\ IsSequence(x) /\ Len(x) = (IF a <= b - 1 THEN b - 1 - a + 1 ELSE 0)
        /\ \A i \in 1 .. b - 1 - a + 1 : x[i] = source[a + i - 1]
    BY <1>3, <2>1, <2>2, SubSeqFacts
  <2>4. b - 1 - a + 1 = b - a /\ (~ a <= b - 1 => b - a = 0)
    BY <1>3
  <2> QED
    BY <2>3, <2>4
<1>5. PICK y : y = (IF Glued(tokens, k) THEN << >> ELSE <<" ">>)
  OBVIOUS
<1>6. /\ IsSequence(y) /\ Len(y) = Gap(k) /\ Gap(k) \in {0, 1}
      /\ ~Glued(tokens, k) => y[1] = " " /\ Len(y) = 1
  <2>1. CASE Glued(tokens, k)
    <3>1. y = << >> /\ Gap(k) = 0
      BY <1>5, <2>1 DEF Gap
    <3> QED
      BY <2>1, <3>1, EmptySeq DEF IsSequence
  <2>2. CASE ~Glued(tokens, k)
    <3>1. y = <<" ">> /\ Gap(k) = 1
      BY <1>5, <2>2 DEF Gap
    <3>2. <<" ">> \in Seq({" "}) /\ Len(<<" ">>) = 1 /\ <<" ">>[1] = " "
      OBVIOUS
    <3>3. IsSequence(<<" ">>)
      BY <3>2, IsSequenceOf
    <3> QED
      BY <3>1, <3>2, <3>3
  <2> QED
    BY <2>1, <2>2
<1>7. Spaced(k) = y \o x
  BY <1>2, <1>5 DEF Spaced
<1>8. /\ IsSequence(y \o x) /\ Len(y \o x) = Len(y) + Len(x)
      /\ \A i \in 1 .. Len(y) : (y \o x)[i] = y[i]
      /\ \A i \in 1 .. Len(x) : (y \o x)[Len(y) + i] = x[i]
  <2>1. IsSequence(x) /\ IsSequence(y)
    BY <1>4, <1>6
  <2> QED
    BY <2>1, ConcatFacts
<1>9. ASSUME ~Glued(tokens, k) PROVE 1 \in 1 .. Len(y)
  <2>1. 1 = Len(y)
    BY <1>6, <1>9
  <2>2. 1 \in 1 .. 1
    OBVIOUS
  <2> QED
    BY <2>1, <2>2, Zenon
<1> QED
  BY <1>1, <1>4, <1>6, <1>7, <1>8, <1>9

\* Behind a backslash at the end of the text comes no other token.
LEMMA TornLast ==
  ASSUME NEW s, NEW ts, NEW n \in Nat, \A k \in 1 .. n : Shaped(s, ts, k),
         NEW k \in 1 .. n, Glued(ts, k), IsTorn(s, ts[k])
  PROVE  k = n
<1> SUFFICES ASSUME k # n PROVE FALSE
  OBVIOUS
<1>1. PICK j \in 1 .. n : j = k + 1
  OBVIOUS
<1>2. ts[k].type = "INVALID" /\ s[ts[k].to] = NUL
  BY DEF IsTorn
<1>3. Glued(ts, j)
  <2>1. k \in Nat \ {0}
    OBVIOUS
  <2> QED
    BY <1>1, <1>2, <2>1, GluedSteps
<1>4. Shaped(s, ts, j) /\ ts[j - 1] = ts[k]
  BY <1>1
<1>5. s[ts[j].from] = NUL
  BY <1>2, <1>3, <1>4 DEF Shaped
<1>6. \/ ts[j - 1].type = "QUOTE"
      \/ s[ts[j].from] = "\""
      \/ s[ts[j].from] = "\\"
  BY <1>3, <1>4 DEF Shaped, IsQuote, IsTorn
<1> QED
  BY <1>2, <1>4, <1>5, <1>6, ClassesApart

\* A token before the last has a text.
LEMMA ShapedText ==
  ASSUME NEW s, NEW ts, NEW k, Shaped(s, ts, k), ts[k].from \in Int, ts[k].to \in Int
  PROVE  ts[k].from < ts[k].to
<1>1. PICK t : t = ts[k]
  OBVIOUS
<1>2. PICK a \in Int, b \in Int : a = t.from /\ b = t.to
  BY <1>1
<1>3. CASE IsContent(s, t) \/ IsQuote(s, t) \/ IsTorn(s, t) \/ IsInvalid(s, t)
  <2>1. a < b \/ b = a + 1
    BY <1>2, <1>3 DEF IsContent, IsQuote, IsTorn, IsInvalid
  <2> QED
    BY <1>1, <1>2, <2>1
<1>4. CASE IsWord(s, t)
  BY <1>2, <1>4, <1>1 DEF IsWord, WordText
<1>5. CASE IsOperator(s, t)
  BY <1>2, <1>5, <1>1 DEF IsOperator, OperatorText
<1>6. CASE IsInt(s, t, TypeBefore(ts, k))
  <2>1. PICK d \in a .. b - 1 : TRUE
    BY <1>2, <1>6 DEF IsInt
  <2> QED
    BY <1>1, <1>2
<1>7. CASE IsFloat(s, t, TypeBefore(ts, k))
  <2>1. PICK d \in a .. b - 1 : TRUE
    BY <1>2, <1>7 DEF IsFloat
  <2> QED
    BY <1>1, <1>2
<1> QED
  BY <1>1, <1>3, <1>4, <1>5, <1>6, <1>7 DEF Shaped

\* The tokens of the text that is written again, and where they are in it.
LEMMA LaidOut ==
  ASSUME IInv, LInv, mode = "done", NEW s, s = Respaced \o <<NUL>>
  PROVE  \E g : Laid(g, s)
<1>0. /\ Len(tokens) \in Nat \ {0} /\ Len(source) \in Nat /\ IsSequence(tokens) /\ IsSequence(source)
      /\ \A k \in 1 .. Len(tokens) :
           /\ tokens[k].from \in Nat \ {0} /\ tokens[k].to \in Nat \ {0}
           /\ tokens[k].from <= tokens[k].to /\ tokens[k].to <= Len(source)
  <2>1. Len(tokens) \in Nat \ {0} /\ IsSequence(tokens) /\ IsSequence(source) /\ Len(source) \in Nat
    BY EmptySeq, IsSequenceOf, TokenTypes DEF LInv, Between, IInv, LexerTypeOK
  <2>2. ASSUME NEW k \in 1 .. Len(tokens)
        PROVE  /\ tokens[k].from \in 1 .. Len(source) /\ tokens[k].to \in 1 .. Len(source)
               /\ tokens[k].from <= tokens[k].to
    BY TokenTypes DEF IInv, TokensInOrder, Tokens
  <2> QED
    BY <2>1, <2>2
<1>1. PICK n \in Nat : n = Len(tokens) - 1
  <2>1. Len(tokens) - 1 \in Nat
    BY <1>0
  <2> QED
    BY <2>1
<1>2. PICK ss : ss = [k \in 1 .. n |-> Spaced(k)]
  OBVIOUS
<1>3. /\ IsSequence(ss) /\ Len(ss) = n /\ DOMAIN ss = 1 .. n /\ FlattenSeq(ss) = Respaced
      /\ \A k \in 1 .. n : ss[k] = Spaced(k) /\ IsSequence(ss[k])
  <2>1. ss = [k \in 1 .. n |-> ss[k]] /\ DOMAIN ss = 1 .. n /\ \A k \in 1 .. n : ss[k] = Spaced(k)
    BY <1>2
  <2>2. IsSequence(ss) /\ Len(ss) = n
    BY <2>1, IsSequenceFunction
  <2>3. ASSUME NEW k \in 1 .. n PROVE IsSequence(Spaced(k))
    <3>1. k \in 1 .. Len(tokens)
      BY <1>0, <1>1
    <3> QED
      BY <3>1, SpacedFacts
  <2> QED
    BY <1>1, <1>2, <2>1, <2>2, <2>3 DEF Respaced
<1>4. PICK text : text = Respaced
  OBVIOUS
<1>5. IsSequence(text)
  BY <1>3, <1>4, FlattenPlaces
<1>6. PICK at \in [0 .. n -> Nat] :
        /\ at[0] = 0 /\ at[n] = Len(text)
        /\ \A k \in 1 .. n : at[k] = at[k - 1] + Len(ss[k])
        /\ \A k \in 1 .. n : \A i \in 1 .. Len(ss[k]) :
             at[k - 1] + i <= Len(text) /\ text[at[k - 1] + i] = ss[k][i]
  <2>1. PICK at \in [0 .. Len(ss) -> Nat] :
          /\ at[0] = 0
          /\ at[Len(ss)] = Len(FlattenSeq(ss))
          /\ \A k \in 1 .. Len(ss) : at[k] = at[k - 1] + Len(ss[k])
          /\ \A k \in 1 .. Len(ss) : \A i \in 1 .. Len(ss[k]) :
               /\ at[k - 1] + i <= Len(FlattenSeq(ss))
               /\ FlattenSeq(ss)[at[k - 1] + i] = ss[k][i]
    <3>1. IsSequence(ss) /\ \A k \in DOMAIN ss : IsSequence(ss[k])
      BY <1>3
    <3> QED
      BY <3>1, FlattenPlaces, Zenon
  <2>2. at \in [0 .. n -> Nat]
    BY <1>3
  <2> QED
    BY <1>3, <1>4, <2>1, <2>2
<1>7. /\ IsSequence(s) /\ Len(s) = at[n] + 1 /\ s[at[n] + 1] = NUL
      /\ \A i \in 1 .. at[n] : s[i] = text[i]
  <2>1. IsSequence(<<NUL>>) /\ Len(<<NUL>>) = 1 /\ <<NUL>>[1] = NUL
    <3>1. <<NUL>> \in Seq({NUL}) /\ Len(<<NUL>>) = 1 /\ <<NUL>>[1] = NUL
      OBVIOUS
    <3> QED
      BY <3>1, IsSequenceOf
  <2>2. PICK e : e = <<NUL>>
    OBVIOUS
  <2>3. /\ IsSequence(text \o e) /\ Len(text \o e) = Len(text) + Len(e)
        /\ \A i \in 1 .. Len(text) : (text \o e)[i] = text[i]
        /\ \A i \in 1 .. Len(e) : (text \o e)[Len(text) + i] = e[i]
    BY <1>5, <2>1, <2>2, ConcatFacts
  <2> QED
    BY <1>4, <1>6, <2>1, <2>2, <2>3
<1> DEFINE Place(k) ==
             IF k = n + 1 THEN Token(tokens[k].type, at[n] + 1, at[n] + 1)
                          ELSE Token(tokens[k].type, at[k - 1] + Gap(k) + 1, at[k] + 1)
<1>8. PICK g : g = [k \in 1 .. n + 1 |-> Place(k)]
  OBVIOUS
<1>9. /\ IsSequence(g) /\ Len(g) = n + 1
      /\ \A k \in 1 .. n : g[k] = Token(tokens[k].type, at[k - 1] + Gap(k) + 1, at[k] + 1)
      /\ g[n + 1] = Token(tokens[n + 1].type, at[n] + 1, at[n] + 1)
  <2>1. g = [k \in 1 .. n + 1 |-> g[k]]
    BY <1>8
  <2>2. IsSequence(g) /\ Len(g) = n + 1
    BY <2>1, IsSequenceFunction
  <2>3. \A k \in 1 .. n : k \in 1 .. n + 1 /\ k # n + 1
    OBVIOUS
  <2> QED
    BY <1>8, <2>2, <2>3
<1> HIDE DEF Place
<1>10. ASSUME NEW k \in 1 .. n
       PROVE  /\ at[k - 1] \in Nat /\ at[k] \in Nat /\ Gap(k) \in {0, 1} /\ at[k] <= at[n]
              /\ at[k] = at[k - 1] + Gap(k) + (tokens[k].to - tokens[k].from)
              /\ g[k].type = tokens[k].type
              /\ g[k].from = at[k - 1] + Gap(k) + 1 /\ g[k].to = at[k] + 1
              /\ ~Glued(tokens, k) => s[at[k - 1] + 1] = " "
              /\ \A i \in 1 .. tokens[k].to - tokens[k].from :
                   s[at[k - 1] + Gap(k) + i] = source[tokens[k].from + i - 1]
  <2>0. /\ at[k - 1] \in Nat /\ at[k] \in Nat /\ at[n] \in Nat
    BY <1>6
  <2>1. k \in 1 .. Len(tokens) /\ k \in 1 .. Len(tokens) - 1
    BY <1>0, <1>1
  <2>2. /\ Len(ss[k]) = Gap(k) + (tokens[k].to - tokens[k].from)
        /\ ~Glued(tokens, k) => ss[k][1] = " "
        /\ \A i \in 1 .. tokens[k].to - tokens[k].from :
             ss[k][Gap(k) + i] = source[tokens[k].from + i - 1]
    BY <1>3, <2>1, SpacedFacts
  <2>3. Gap(k) \in {0, 1} /\ (~Glued(tokens, k) => Gap(k) = 1)
    BY DEF Gap
  <2>4. PICK a \in Nat, b \in Nat : a = tokens[k].from /\ b = tokens[k].to
    BY <1>0, <2>1
  <2>5. a < b
    <3>1. Shaped(source, tokens, k)
      BY <2>1 DEF LInv, Written
    <3> QED
      BY <2>4, <3>1, ShapedText
  <2>6. PICK w \in Nat \ {0} : w = Gap(k) + (b - a)
    BY <2>3, <2>5
  <2>7. Len(ss[k]) = w
    BY <2>2, <2>4, <2>6
  <2>8. ASSUME NEW i \in 1 .. w
        PROVE  at[k - 1] + i <= at[n] /\ s[at[k - 1] + i] = ss[k][i]
    <3>1. at[k - 1] + i <= Len(text) /\ text[at[k - 1] + i] = ss[k][i]
      BY <1>6, <2>7
    <3>2. at[k - 1] + i \in 1 .. at[n]
      BY <1>6, <2>0, <3>1
    <3> QED
      BY <1>7, <3>1, <3>2
  <2>9. at[k] = at[k - 1] + w
    BY <1>6, <2>7
  <2>10. at[k] <= at[n]
    BY <2>8, <2>9
  <2>11. ~Glued(tokens, k) => s[at[k - 1] + 1] = " "
    <3>1. 1 \in 1 .. w
      OBVIOUS
    <3> QED
      BY <2>2, <2>8, <3>1
  <2>12. ASSUME NEW i \in 1 .. b - a
         PROVE  s[at[k - 1] + Gap(k) + i] = source[a + i - 1]
    <3>1. PICK j : j = Gap(k) + i
      OBVIOUS
    <3>2. j \in 1 .. w /\ at[k - 1] + j = at[k - 1] + Gap(k) + i
      <4>1. PICK e \in {0, 1}, c \in Nat : e = Gap(k) /\ c = at[k - 1]
        BY <2>0, <2>3
      <4>2. j = e + i /\ w = e + (b - a)
        BY <2>6, <3>1, <4>1
      <4>3. j \in 1 .. w /\ c + j = c + e + i
        BY <2>5, <4>2
      <4> QED
        BY <4>1, <4>3
    <3>3. s[at[k - 1] + j] = ss[k][j]
      BY <2>8, <3>2
    <3>4. ss[k][j] = source[a + i - 1]
      BY <2>2, <2>4, <3>1
    <3> QED
      BY <3>2, <3>3, <3>4
  <2>13. g[k].type = tokens[k].type /\ g[k].from = at[k - 1] + Gap(k) + 1 /\ g[k].to = at[k] + 1
    <3>1. g[k] = Token(tokens[k].type, at[k - 1] + Gap(k) + 1, at[k] + 1)
      BY <1>9
    <3> QED
      BY <3>1 DEF Token
  <2>14. at[k] = at[k - 1] + Gap(k) + (b - a)
    BY <2>0, <2>3, <2>6, <2>9
  <2> QED
    BY <2>0, <2>3, <2>4, <2>10, <2>11, <2>12, <2>13, <2>14
<1>11. g[n + 1].from = at[n] + 1 /\ g[n + 1].to = at[n] + 1 /\ g[n + 1].type = tokens[n + 1].type
  BY <1>9 DEF Token
<1>12. ASSUME NEW k \in 1 .. n + 1 PROVE g[k].type = tokens[k].type
  <2>1. CASE k \in 1 .. n
    BY <1>10, <2>1
  <2>2. CASE k = n + 1
    BY <1>11, <2>2
  <2> QED
    BY <2>1, <2>2
<1>13. ASSUME NEW k \in 1 .. n + 1 PROVE Before(g, k) = at[k - 1] + 1
  <2>1. CASE k = 1
    BY <1>6, <2>1 DEF Before
  <2>2. CASE k # 1
    <3>1. k - 1 \in 1 .. n
      BY <2>2
    <3>2. g[k - 1].to = at[k - 1] + 1
      BY <1>10, <3>1
    <3> QED
      BY <2>2, <3>2 DEF Before
  <2> QED
    BY <2>1, <2>2
<1>14. ASSUME NEW k \in 1 .. n + 1
       PROVE  (Glued(g, k) <=> Glued(tokens, k)) /\ TypeBefore(g, k) = TypeBefore(tokens, k)
  <2>1. k \in Nat \ {0} /\ \A j \in 1 .. k - 1 : g[j].type = tokens[j].type
    BY <1>12
  <2>2. Glued(g, k) <=> Glued(tokens, k)
    BY <2>1, GluedSame
  <2>3. k # 1 => k - 1 \in 1 .. k - 1
    BY <2>1
  <2> QED
    BY <2>1, <2>2, <2>3 DEF TypeBefore
<1>15. ASSUME NEW k \in 1 .. n + 1
       PROVE  /\ g[k].from \in Nat \ {0} /\ g[k].to \in Nat \ {0} /\ g[k].from <= g[k].to
              /\ g[k] = Token(tokens[k].type, g[k].from, g[k].to)
              /\ g[k].to <= Len(s)
              /\ Moved(s, g[k], source, tokens[k], g[k].from - tokens[k].from)
  <2>0. k \in 1 .. Len(tokens) /\ at[n] \in Nat
    BY <1>0, <1>1, <1>6
  <2>1. PICK a \in Nat \ {0}, b \in Nat : a = tokens[k].from /\ b = tokens[k].to /\ a <= b
    BY <1>0, <2>0
  <2>a. PICK t, u : t = tokens[k] /\ u = g[k]
    OBVIOUS
  <2>b. t.from = a /\ t.to = b
    BY <2>1, <2>a
  <2> SUFFICES /\ u.from \in Nat \ {0} /\ u.to \in Nat \ {0} /\ u.from <= u.to
               /\ u = Token(t.type, u.from, u.to)
               /\ u.to <= Len(s)
               /\ Moved(s, u, source, t, u.from - t.from)
    BY <2>a
  <2>2. CASE k \in 1 .. n
    <3>1. PICK c \in Nat, d \in Nat, e \in {0, 1}, m \in Nat :
            c = at[k - 1] /\ d = at[k] /\ e = Gap(k) /\ m = at[n]
      BY <1>10, <2>0, <2>2
    <3>2. u = Token(t.type, c + e + 1, d + 1)
      BY <1>9, <2>2, <2>a, <3>1
    <3>3. d = c + e + (b - a) /\ d <= m /\ Len(s) = m + 1
      BY <1>7, <1>10, <2>1, <2>2, <3>1
    <3>4. \A i \in 1 .. b - a : s[c + e + i] = source[a + i - 1]
      BY <1>10, <2>1, <2>2, <3>1
    <3>5. u.type = t.type /\ u.from = c + e + 1 /\ u.to = d + 1
      BY <3>2 DEF Token
    <3>6. PICK f \in Int : f = c + e + 1 - a
      OBVIOUS
    <3>7. ASSUME NEW p \in a .. b - 1 PROVE s[p + f] = source[p]
      <4>1. PICK i \in 1 .. b - a : i = p - a + 1
        OBVIOUS
      <4>2. c + e + i = p + f /\ a + i - 1 = p
        BY <3>6, <4>1
      <4>3. s[c + e + i] = source[a + i - 1]
        BY <3>4
      <4> QED
        BY <4>2, <4>3
    <3>8. u.from = a + f /\ u.to = b + f /\ u.from - a = f
      BY <3>3, <3>5, <3>6
    <3>9. Moved(s, u, source, t, f)
      <4>1. t.from \in Int /\ t.to \in Int /\ f \in Int
        BY <2>b
      <4>2. u.type = t.type /\ u.from = t.from + f /\ u.to = t.to + f
        BY <2>b, <3>5, <3>8
      <4>3. \A p \in t.from .. t.to - 1 : s[p + f] = source[p]
        BY <2>b, <3>7
      <4> QED
        BY <4>1, <4>2, <4>3 DEF Moved
    <3>10. u = Token(t.type, u.from, u.to)
      BY <3>2, <3>5
    <3>11. u.from \in Nat \ {0} /\ u.to \in Nat \ {0} /\ u.from <= u.to /\ u.to <= Len(s)
      <4>1. c + e + 1 \in Nat \ {0} /\ d + 1 \in Nat \ {0} /\ d + 1 <= m + 1
        BY <3>3
      <4>2. c + e + 1 <= d + 1
        <5>1. b - a \in Nat
          BY <2>1
        <5>2. PICK w \in Nat : w = b - a
          BY <5>1
        <5>3. d = c + e + w
          BY <3>3, <5>2
        <5> QED
          BY <5>3
      <4>3. Len(s) = m + 1
        BY <3>3
      <4> QED
        BY <3>5, <4>1, <4>2, <4>3
    <3> QED
      BY <2>b, <3>8, <3>9, <3>10, <3>11
  <2>3. CASE k = n + 1
    <3>0. PICK m \in Nat : m = at[n]
      BY <2>0
    <3>1. a = b
      <4>1. tokens[Len(tokens)] = Token("EOF", cursor, cursor)
        BY DEF LInv, Between
      <4>2. k = Len(tokens)
        BY <1>0, <1>1, <2>3
      <4> QED
        BY <2>1, <4>1, <4>2 DEF Token
    <3>2. u = Token(t.type, m + 1, m + 1)
      BY <1>9, <2>3, <2>a, <3>0
    <3>3. u.type = t.type /\ u.from = m + 1 /\ u.to = m + 1 /\ Len(s) = m + 1
      BY <1>7, <3>0, <3>2 DEF Token
    <3>4. \A p \in a .. b - 1 : FALSE
      BY <3>1
    <3>5. PICK f \in Int : f = m + 1 - a
      OBVIOUS
    <3>6. u.from = a + f /\ u.to = b + f /\ u.from - a = f
      BY <3>1, <3>3, <3>5
    <3>7. Moved(s, u, source, t, f)
      BY <2>b, <3>3, <3>4, <3>6 DEF Moved
    <3>8. u = Token(t.type, u.from, u.to)
      BY <3>2, <3>3
    <3>9. u.from \in Nat \ {0} /\ u.to \in Nat \ {0} /\ u.from <= u.to /\ u.to <= Len(s)
      BY <3>3
    <3> QED
      BY <2>b, <3>6, <3>7, <3>8, <3>9
  <2> QED
    BY <2>2, <2>3
<1>16. ASSUME NEW k \in 1 .. n + 1
       PROVE  SameText(s, g[k], source, tokens[k])
  <2>1. k \in 1 .. Len(tokens)
    BY <1>0, <1>1
  <2>2. /\ 1 <= tokens[k].from /\ tokens[k].from <= tokens[k].to /\ tokens[k].to <= Len(source)
        /\ 1 <= g[k].from /\ g[k].from <= g[k].to /\ g[k].to <= Len(s)
    BY <1>0, <1>15, <2>1
  <2>3. PICK u, t, f : u = g[k] /\ t = tokens[k] /\ f = g[k].from - tokens[k].from
    OBVIOUS
  <2>4. Moved(s, u, source, t, f)
    BY <1>15, <2>3
  <2>5. Inside(u, s) /\ Inside(t, source)
    BY <1>0, <1>7, <2>2, <2>3 DEF Inside
  <2>6. SameText(s, u, source, t)
    BY <2>4, <2>5, MovedSubSeq
  <2> QED
    BY <2>3, <2>6
<1>17. ASSUME NEW k \in 1 .. n PROVE Shaped(s, g, k)
  <2>0. /\ k \in 1 .. n + 1 /\ k \in 1 .. Len(tokens) - 1 /\ Len(tokens) - 1 = n
    BY <1>0, <1>1
  <2>1. Shaped(source, tokens, k)
    BY <2>0 DEF LInv, Written
  <2>2. (Glued(g, k) <=> Glued(tokens, k)) /\ TypeBefore(g, k) = TypeBefore(tokens, k)
    BY <1>14, <2>0
  <2>3. PICK m : m = g[k].from - tokens[k].from
    OBVIOUS
  <2>4. Moved(s, g[k], source, tokens[k], m)
    BY <1>15, <2>0, <2>3
  <2>5. SameText(s, g[k], source, tokens[k])
    BY <1>16, <2>0
  <2>6. /\ IsWord(source, tokens[k]) => IsWord(s, g[k])
        /\ IsOperator(source, tokens[k]) => IsOperator(s, g[k])
        /\ IsInt(source, tokens[k], TypeBefore(tokens, k)) => IsInt(s, g[k], TypeBefore(tokens, k))
        /\ IsFloat(source, tokens[k], TypeBefore(tokens, k)) => IsFloat(s, g[k], TypeBefore(tokens, k))
        /\ IsInvalid(source, tokens[k]) => IsInvalid(s, g[k])
        /\ IsQuote(source, tokens[k]) => IsQuote(s, g[k])
        /\ IsContent(source, tokens[k]) => IsContent(s, g[k])
        /\ IsTorn(source, tokens[k]) /\ s[g[k].to] = NUL => IsTorn(s, g[k])
    BY <2>4, <2>5, MovedShapes
  <2>7. CASE ~Glued(tokens, k)
    BY <2>1, <2>2, <2>6, <2>7 DEF Shaped
  <2>8. CASE Glued(tokens, k)
    <3>1. k > 1 /\ k - 1 \in 1 .. n
      BY <2>0, <2>1, <2>8 DEF Shaped
    <3>2. g[k].from = g[k - 1].to /\ g[k - 1].type = tokens[k - 1].type
      <4>1. g[k].from = at[k - 1] + 1
        <5>1. Gap(k) = 0
          BY <2>8 DEF Gap
        <5>2. PICK c \in Nat : c = at[k - 1]
          BY <1>10
        <5>3. g[k].from = c + Gap(k) + 1
          BY <1>10, <5>2
        <5> QED
          BY <5>1, <5>2, <5>3
      <4> QED
        BY <1>10, <3>1, <4>1
    <3>3. IsTorn(source, tokens[k]) => IsTorn(s, g[k])
      <4>1. IsTorn(source, tokens[k]) => k = n
        <5>1. \A j \in 1 .. n : Shaped(source, tokens, j)
          BY <2>0 DEF LInv, Written
        <5> QED
          BY <2>8, <5>1, TornLast
      <4>2. k = n => s[g[k].to] = NUL
        BY <1>7, <1>10
      <4> QED
        BY <2>6, <4>1, <4>2
    <3> QED
      BY <2>1, <2>2, <2>6, <2>8, <3>1, <3>2, <3>3 DEF Shaped
  <2> QED
    BY <2>7, <2>8
<1>18. ASSUME NEW k \in 1 .. n
       PROVE  IF Glued(g, k) THEN g[k].from = Before(g, k)
                             ELSE g[k].from = Before(g, k) + 1 /\ s[Before(g, k)] = " "
  <2>1. k \in 1 .. n + 1
    OBVIOUS
  <2>2. Before(g, k) = at[k - 1] + 1 /\ (Glued(g, k) <=> Glued(tokens, k)) /\ at[k - 1] \in Nat
    BY <1>10, <1>13, <1>14, <2>1
  <2>3. CASE Glued(tokens, k)
    <3>1. Gap(k) = 0
      BY <2>3 DEF Gap
    <3>2. PICK c \in Nat : c = at[k - 1]
      BY <1>10
    <3>3. g[k].from = c + Gap(k) + 1
      BY <1>10, <3>2
    <3>4. g[k].from = Before(g, k)
      BY <2>2, <3>1, <3>2, <3>3
    <3> QED
      BY <2>2, <2>3, <3>4
  <2>4. CASE ~Glued(tokens, k)
    BY <1>10, <2>2, <2>4 DEF Gap
  <2> QED
    BY <2>3, <2>4
<1>19. g[n + 1] = Token("EOF", Before(g, n + 1), Before(g, n + 1)) /\ s[Before(g, n + 1)] = NUL
  <2>1. Before(g, n + 1) = at[n] + 1
    BY <1>13
  <2>2. tokens[n + 1].type = "EOF"
    <3>1. tokens[Len(tokens)] = Token("EOF", cursor, cursor) /\ n + 1 = Len(tokens)
      BY <1>0, <1>1 DEF LInv, Between
    <3> QED
      BY <3>1 DEF Token
  <2> QED
    BY <1>7, <1>9, <2>1, <2>2
<1>20. Len(tokens) = n + 1
  BY <1>0, <1>1
<1>21. Read(g, s) = Read(tokens, source)
  <2>1. \A k \in 1 .. n + 1 :
          <<g[k].type, SubSeq(s, g[k].from, g[k].to - 1)>>
            = <<tokens[k].type, SubSeq(source, tokens[k].from, tokens[k].to - 1)>>
    BY <1>12, <1>16 DEF SameText
  <2>2. Read(g, s) = [k \in 1 .. n + 1 |-> <<g[k].type, SubSeq(s, g[k].from, g[k].to - 1)>>]
    BY <1>9 DEF Read
  <2>3. Read(tokens, source) =
          [k \in 1 .. n + 1 |-> <<tokens[k].type, SubSeq(source, tokens[k].from, tokens[k].to - 1)>>]
    BY <1>20 DEF Read
  <2> QED
    BY <2>1, <2>2, <2>3, Zenon
<1>22. Len(g) - 1 = n /\ Len(g) \in Nat \ {0}
  BY <1>9
<1>23. Laid(g, s)
  BY <1>9, <1>15, <1>17, <1>18, <1>19, <1>20, <1>21, <1>22 DEF Laid
<1> QED
  BY <1>23

\* Where the string ends before whose content or end the k-th token begins.
StringEnd(g, s, k) == IF k < Len(g) /\ IsContent(s, g[k]) THEN g[k].to ELSE Before(g, k)

\* The second lexer reads the k-th token of g, or what lies before it.
AtNext(g, s, k) ==
  /\ k <= Len(g) /\ cursor2 \in {Before(g, k), g[k].from}
  /\ Glued(g, k) /\ k < Len(g) => IsTorn(s, g[k])
AtText(g, s, k) ==
  k < Len(g) /\ ~Glued(g, k) /\ mark2 = g[k].from /\ cursor2 \in mark2 + 1 .. g[k].to
AtWord(g, s, k) == AtText(g, s, k) /\ IsWord(s, g[k])
AtNumber(g, s, k) ==
  /\ AtText(g, s, k)
  /\ IsInt(s, g[k], TypeBefore(g, k)) \/ IsFloat(s, g[k], TypeBefore(g, k))
  /\ \A p \in mark2 + 1 .. cursor2 - 1 : s[p] \in Digits
AtFraction(g, s, k) ==
  /\ AtText(g, s, k)
  /\ g[k].type = "LIT_FLOAT"
  /\ \A p \in cursor2 .. g[k].to - 1 : s[p] \in Digits
AtString(g, s, k) ==
  /\ k \in 2 .. Len(g) /\ Glued(g, k) /\ g[k - 1].type = "QUOTE" /\ mark2 = g[k - 1].to
  /\ cursor2 \in Nat /\ mark2 <= cursor2 /\ cursor2 <= StringEnd(g, s, k)
  /\ StringText(s, cursor2, StringEnd(g, s, k))

\* It has pushed the tokens before the k-th.
Pushed(g, k) ==
  /\ k \in 1 .. Len(g) + 1 /\ IsSequence(tokens2) /\ Len(tokens2) = k - 1
  /\ \A j \in 1 .. k - 1 : tokens2[j] = g[j]

Follows(g, s, k) ==
  /\ source2 = s /\ Pushed(g, k)
  /\ mode2 \notin {"string", "done"} /\ ~Glued(g, k) => lastTy2 = TypeBefore(g, k)
  /\ \/ mode2 = "next" /\ AtNext(g, s, k)
     \/ mode2 = "word" /\ AtWord(g, s, k)
     \/ mode2 = "number" /\ AtNumber(g, s, k)
     \/ mode2 = "fraction" /\ AtFraction(g, s, k)
     \/ mode2 = "string" /\ AtString(g, s, k)
     \/ mode2 = "done" /\ k = Len(g) + 1

---------------------------------------------------------------------------
\* What the second lexer can do: its loop and the character decide.

\* The second lexer has the alphabet and the tables of the first.
LEMMA AgainNames ==
  /\ Again!Blanks = Blanks /\ Again!Signs = Signs /\ Again!UnaryContext = UnaryContext
  /\ Again!Doubles = Doubles /\ Again!Operators = Operators /\ Again!NUL = NUL
  /\ \A pair : Again!OperatorType(pair) = OperatorType(pair)
  /\ \A word : Again!resolveKeyword(word) = resolveKeyword(word)
  /\ \A type, from, to : Again!Token(type, from, to) = Token(type, from, to)
  /\ Again!Char = source2[cursor2] /\ Again!Ahead = source2[cursor2 + 1]
<1>1. Again!Blanks = Blanks /\ Again!Signs = Signs /\ Again!Doubles = Doubles /\ Again!NUL = NUL
  BY DEF Again!Blanks, Blanks, Again!Signs, Signs, Again!Doubles, Doubles, Again!NUL, NUL
<1>2. Again!UnaryContext = UnaryContext
  BY DEF Again!UnaryContext, UnaryContext
<1>3. Again!Operators = Operators
  BY DEF Again!Operators, Operators, Again!Singles, Singles, Again!Signs, Signs, Again!Doubles, Doubles
<1>4. \A pair : Again!OperatorType(pair) = OperatorType(pair)
  BY DEF Again!OperatorType, OperatorType
<1>5. \A word : Again!resolveKeyword(word) = resolveKeyword(word)
  BY DEF Again!resolveKeyword, resolveKeyword
<1>6. \A type, from, to : Again!Token(type, from, to) = Token(type, from, to)
  BY DEF Again!Token, Token
<1>7. Again!Char = source2[cursor2] /\ Again!Ahead = source2[cursor2 + 1]
  BY DEF Again!Char, Again!Ahead
<1> QED
  BY <1>1, <1>2, <1>3, <1>4, <1>5, <1>6, <1>7

\* The token of type from a up to b is pushed.
Push2(t) ==
  /\ tokens2' = Append(tokens2, t) /\ lastTy2' = t.type /\ cursor2' = t.to
  /\ mode2' = "next" /\ source2' = source2
Advance2(n) == cursor2' = cursor2 + n /\ UNCHANGED <<source2, mark2, mode2, lastTy2, tokens2>>
Enter2(m, n) ==
  mode2' = m /\ mark2' = cursor2 /\ cursor2' = cursor2 + n /\ UNCHANGED <<source2, lastTy2, tokens2>>

\* The parts of its steps.
LEMMA AgainParts ==
  /\ \A n : Again!Advance(n) => Advance2(n)
  /\ \A m, n : Again!Enter(m, n) => Enter2(m, n)
  /\ \A type, from, to : Again!Push(type, from, to) => Push2(Token(type, from, to))
<1>1. \A n : Again!Advance(n) => Advance2(n)
  BY DEF Again!Advance, Advance2
<1>2. \A m, n : Again!Enter(m, n) => Enter2(m, n)
  BY DEF Again!Enter, Enter2
<1>3. ASSUME NEW type, NEW from, NEW to, Again!Push(type, from, to) PROVE Push2(Token(type, from, to))
  <2>1. Token(type, from, to).type = type /\ Token(type, from, to).to = to
    BY DEF Token
  <2> QED
    BY <1>3, <2>1, AgainNames DEF Again!Push, Push2
<1> QED
  BY <1>1, <1>2, <1>3

\* Between tokens, one character and the one behind it decide.
LEMMA ReadsNext ==
  ASSUME Again!Next, mode2 = "next", NEW c, c = source2[cursor2], NEW a, a = source2[cursor2 + 1]
  PROVE  \/ c \in Blanks /\ Advance2(1)
         \/ c \in Letters /\ Enter2("word", 1)
         \/ c \in Digits /\ Enter2("number", 1)
         \/ c \in Signs /\ lastTy2 \in UnaryContext /\ a \in Digits /\ Enter2("number", 1)
         \/ c = "\"" /\ Again!OpenString
         \/ c = "/" /\ a \in {"/", "*"}
         \/ /\ c \in Operators /\ ~(c \in Signs /\ lastTy2 \in UnaryContext /\ a \in Digits)
            /\ IF <<c, a>> \in Doubles
                 THEN Push2(Token(OperatorType(<<c, a>>), cursor2, cursor2 + 2))
                 ELSE Push2(Token(c, cursor2, cursor2 + 1))
         \/ Unknown(c) /\ Push2(Token("INVALID", cursor2, cursor2 + 1))
         \/ c = NUL /\ Again!Finish
<1>1. \/ Again!SkipBlank \/ Again!StartWord \/ Again!StartNumber \/ Again!StartSigned
      \/ Again!OpenString \/ Again!StartComment \/ Again!Operator \/ Again!Invalid \/ Again!Finish
  BY DEF Again!Next, Again!WordChar, Again!EndWord, Again!NumberChar, Again!StartFraction,
         Again!EndNumber, Again!StringChar, Again!Escape, Again!CloseString,
         Again!CommentChar, Again!EndComment
<1>2. CASE Again!SkipBlank
  BY <1>2, AgainNames, AgainParts DEF Again!SkipBlank
<1>3. CASE Again!StartWord
  BY <1>3, AgainNames, AgainParts DEF Again!StartWord
<1>4. CASE Again!StartNumber
  BY <1>4, AgainNames, AgainParts DEF Again!StartNumber
<1>5. CASE Again!StartSigned
  BY <1>5, AgainNames, AgainParts DEF Again!StartSigned
<1>6. CASE Again!OpenString
  BY <1>6, AgainNames DEF Again!OpenString
<1>7. CASE Again!StartComment
  BY <1>7, AgainNames DEF Again!StartComment
<1>8. CASE Again!Operator
  <2>1. /\ c \in Operators /\ ~(c \in Signs /\ lastTy2 \in UnaryContext /\ a \in Digits)
        /\ IF <<c, a>> \in Doubles
             THEN Again!Push(Again!OperatorType(<<c, a>>), cursor2, cursor2 + 2)
             ELSE Again!Push(c, cursor2, cursor2 + 1)
    BY <1>8, AgainNames DEF Again!Operator
  <2>2. IF <<c, a>> \in Doubles
          THEN Push2(Token(OperatorType(<<c, a>>), cursor2, cursor2 + 2))
          ELSE Push2(Token(c, cursor2, cursor2 + 1))
    BY <2>1, AgainNames, AgainParts
  <2> QED
    BY <2>1, <2>2
<1>9. CASE Again!Invalid
  <2>1. Unknown(c)
    BY <1>9, AgainNames DEF Again!Invalid, Unknown
  <2>2. Again!Push("INVALID", cursor2, cursor2 + 1)
    BY <1>9 DEF Again!Invalid
  <2> QED
    BY <2>1, <2>2, AgainParts
<1>10. CASE Again!Finish
  BY <1>10, AgainNames DEF Again!Finish
<1> QED
  BY <1>1, <1>2, <1>3, <1>4, <1>5, <1>6, <1>7, <1>8, <1>9, <1>10

\* In a word.
LEMMA ReadsWord ==
  ASSUME Again!Next, mode2 = "word", NEW c, c = source2[cursor2]
  PROVE  \/ c \in Letters \cup Digits /\ Advance2(1)
         \/ /\ c \notin Letters \cup Digits
            /\ Push2(Token(WordType(SubSeq(source2, mark2, cursor2 - 1)), mark2, cursor2))
<1>1. Again!WordChar \/ Again!EndWord
  BY DEF Again!Next, Again!SkipBlank, Again!StartWord, Again!StartNumber, Again!StartSigned,
         Again!NumberChar, Again!StartFraction, Again!EndNumber, Again!OpenString, Again!StringChar,
         Again!Escape, Again!CloseString, Again!StartComment, Again!CommentChar, Again!EndComment,
         Again!Operator, Again!Invalid, Again!Finish
<1>2. CASE Again!WordChar
  BY <1>2, AgainNames, AgainParts DEF Again!WordChar
<1>3. CASE Again!EndWord
  <2>1. c \notin Letters \cup Digits
    BY <1>3, AgainNames DEF Again!EndWord
  <2>2. PICK r : r = resolveKeyword(SubSeq(source2, mark2, cursor2 - 1))
    OBVIOUS
  <2>3. Again!Push(IF r \in {"TRUE", "FALSE"} THEN "LIT_BOOL" ELSE r, mark2, cursor2)
    BY <1>3, <2>2, AgainNames DEF Again!EndWord
  <2>4. WordType(SubSeq(source2, mark2, cursor2 - 1)) = IF r \in {"TRUE", "FALSE"} THEN "LIT_BOOL" ELSE r
    BY <2>2 DEF WordType
  <2> QED
    BY <2>1, <2>3, <2>4, AgainParts
<1> QED
  BY <1>1, <1>2, <1>3

\* In a number.
LEMMA ReadsNumber ==
  ASSUME Again!Next, mode2 \in {"number", "fraction"},
         NEW c, c = source2[cursor2], NEW a, a = source2[cursor2 + 1]
  PROVE  \/ c \in Digits /\ Advance2(1)
         \/ /\ mode2 = "number" /\ c = "." /\ a \in Digits
            /\ mode2' = "fraction" /\ cursor2' = cursor2 + 1
            /\ UNCHANGED <<source2, mark2, lastTy2, tokens2>>
         \/ /\ mode2 = "number" /\ c \notin Digits /\ ~(c = "." /\ a \in Digits)
            /\ Push2(Token("LIT_INT", mark2, cursor2))
         \/ mode2 = "fraction" /\ c \notin Digits /\ Push2(Token("LIT_FLOAT", mark2, cursor2))
<1>1. Again!NumberChar \/ Again!StartFraction \/ Again!EndNumber
  BY DEF Again!Next, Again!SkipBlank, Again!StartWord, Again!WordChar, Again!EndWord,
         Again!StartNumber, Again!StartSigned,
         Again!OpenString, Again!StringChar,
         Again!Escape, Again!CloseString, Again!StartComment, Again!CommentChar, Again!EndComment,
         Again!Operator, Again!Invalid, Again!Finish
<1>2. CASE Again!NumberChar
  BY <1>2, AgainNames, AgainParts DEF Again!NumberChar
<1>3. CASE Again!StartFraction
  BY <1>3, AgainNames DEF Again!StartFraction
<1>4. CASE Again!EndNumber
  <2>1. \/ /\ mode2 = "number" /\ c \notin Digits /\ ~(c = "." /\ a \in Digits)
           /\ Again!Push("LIT_INT", mark2, cursor2)
        \/ mode2 = "fraction" /\ c \notin Digits /\ Again!Push("LIT_FLOAT", mark2, cursor2)
    BY <1>4, AgainNames DEF Again!EndNumber
  <2> QED
    BY <2>1, AgainParts
<1> QED
  BY <1>1, <1>2, <1>3, <1>4

\* What the loop of strings can do at c before a.
StringStep(c, a) ==
  \/ c \notin {"\"", "\\", NUL} /\ Advance2(1)
  \/ c = "\\" /\ a # NUL /\ Advance2(2)
  \/ /\ c \in {"\"", NUL} \/ (c = "\\" /\ a = NUL)
     /\ LET content == IF cursor2 > mark2 THEN <<Token("IDENTIFIER", mark2, cursor2)>> ELSE << >>
            quote == IF c = "\"" THEN <<Token("QUOTE", cursor2, cursor2 + 1)>> ELSE << >>
        IN /\ tokens2' = tokens2 \o content \o quote
           /\ cursor2' = cursor2 + Len(quote)
     /\ lastTy2' = "QUOTE" /\ mode2' = "next" /\ source2' = source2

\* In a string.
LEMMA ReadsString ==
  ASSUME Again!Next, mode2 = "string", NEW c, c = source2[cursor2], NEW a, a = source2[cursor2 + 1]
  PROVE  StringStep(c, a)
<1>1. Again!StringChar \/ Again!Escape \/ Again!CloseString
  BY DEF Again!Next, Again!SkipBlank, Again!StartWord, Again!WordChar, Again!EndWord,
         Again!StartNumber, Again!StartSigned, Again!NumberChar, Again!StartFraction, Again!EndNumber,
         Again!OpenString, Again!StartComment, Again!CommentChar, Again!EndComment,
         Again!Operator, Again!Invalid, Again!Finish
<1>2. CASE Again!StringChar
  BY <1>2, AgainNames, AgainParts DEF Again!StringChar, StringStep
<1>3. CASE Again!Escape
  BY <1>3, AgainNames, AgainParts DEF Again!Escape, StringStep
<1>4. CASE Again!CloseString
  BY <1>4, AgainNames DEF Again!CloseString, StringStep
<1> QED
  BY <1>1, <1>2, <1>3, <1>4

\* What the classes of characters make of an operator.
LEMMA OperatorsApart ==
  /\ "/" \notin Signs /\ "\\" \notin Operators /\ Unknown("\\")
  /\ \A c, a : <<c, a>> \in Doubles => /\ c \in Operators /\ c \notin Signs /\ c # "/"
                                       /\ a \notin {" ", NUL}
                                       /\ OperatorType(<<c, a>>) # "QUOTE"
  /\ \A c \in Operators : c # "QUOTE"
  /\ {" ", NUL} \cap (Letters \cup Digits \cup {"/", "*", "."}) = {}
<1>1. ASSUME NEW c, NEW a, <<c, a>> \in Doubles
      PROVE  /\ c \in Operators /\ c \notin Signs /\ c # "/" /\ a \notin {" ", NUL}
             /\ OperatorType(<<c, a>>) # "QUOTE"
  <2>1. c \in {"=", "!", "<", ">", "&", "|", ":"} /\ a \in {"=", "&", "|", ":"}
    BY <1>1 DEF Doubles
  <2>2. c \in {pair[1] : pair \in Doubles}
    BY <1>1
  <2>3. OperatorType(<<c, a>>) \in {"==", "!=", "<=", ">=", "&&", "||", ":"}
    BY DEF OperatorType
  <2> QED
    BY <2>1, <2>2, <2>3 DEF Operators, Signs, NUL
<1>2. \A c \in Operators : c # "QUOTE"
  <2>1. {pair[1] : pair \in Doubles} = {"=", "!", "<", ">", "&", "|", ":"}
    BY DEF Doubles
  <2> QED
    BY <2>1 DEF Operators, Signs, Singles
<1>3. "/" \notin Signs
  BY DEF Signs
<1>4. "\\" \notin Operators /\ Unknown("\\")
  BY ClassesApart DEF Unknown
<1>5. {" ", NUL} \cap (Letters \cup Digits \cup {"/", "*", "."}) = {}
  BY LexerAssumption DEF NUL
<1> QED
  BY <1>1, <1>2, <1>3, <1>4, <1>5

\* How many tokens there are.
LEMMA LaidLength ==
  ASSUME NEW g, NEW s, Laid(g, s), NEW k \in 1 .. Len(g)
  PROVE  /\ k \in Nat \ {0} /\ Len(g) \in Nat /\ k <= Len(g)
         /\ k < Len(g) => k + 1 \in 1 .. Len(g) /\ Before(g, k + 1) = g[k].to
<1>1. PICK n \in Nat \ {0} : n = Len(g)
  BY DEF Laid
<1>2. k \in Nat \ {0} /\ k <= n /\ (k < n => k + 1 \in 1 .. n)
  BY <1>1
<1>3. k + 1 # 1 /\ (k + 1) - 1 = k
  BY <1>2
<1> QED
  BY <1>1, <1>2, <1>3 DEF Before

\* Where the k-th token of a text laid out stands.
Stands(g, s, k) ==
  /\ Len(g) \in Nat /\ g[k].from \in Nat \ {0} /\ g[k].to \in Nat \ {0}
  /\ Before(g, k) \in Nat \ {0}
  /\ g[k] = Token(g[k].type, g[k].from, g[k].to)
  /\ k < Len(g) => Shaped(s, g, k) /\ g[k].from < g[k].to
  /\ k < Len(g) /\ Glued(g, k) => g[k].from = Before(g, k)
  /\ k < Len(g) /\ ~Glued(g, k) => g[k].from = Before(g, k) + 1 /\ s[Before(g, k)] = " "
  /\ k = Len(g) => /\ g[k].from = Before(g, k) /\ g[k].to = Before(g, k)
                   /\ g[k].type = "EOF" /\ s[Before(g, k)] = NUL

\* Every token of a text laid out stands where Laid says.
LEMMA LaidAt ==
  ASSUME NEW g, NEW s, Laid(g, s), NEW k \in 1 .. Len(g)
  PROVE  Stands(g, s, k)
<1>0. k \in Nat \ {0} /\ Len(g) \in Nat
  BY LaidLength
<1>1. g[k].from \in Nat \ {0} /\ g[k].to \in Nat \ {0} /\ \E type : g[k] = Token(type, g[k].from, g[k].to)
  BY DEF Laid
<1>2. g[k] = Token(g[k].type, g[k].from, g[k].to)
  BY <1>1 DEF Token
<1>3. Before(g, k) \in Nat \ {0}
  <2>1. CASE k = 1
    BY <2>1 DEF Before
  <2>2. CASE k # 1
    <3>1. k - 1 \in 1 .. Len(g)
      BY <1>0, <2>2
    <3> QED
      BY <2>2, <3>1 DEF Before, Laid
  <2> QED
    BY <2>1, <2>2
<1>4. ASSUME k < Len(g)
      PROVE  /\ Shaped(s, g, k) /\ g[k].from < g[k].to
             /\ Glued(g, k) => g[k].from = Before(g, k)
             /\ ~Glued(g, k) => g[k].from = Before(g, k) + 1 /\ s[Before(g, k)] = " "
  <2>1. k \in 1 .. Len(g) - 1
    BY <1>0, <1>4
  <2>2. /\ Shaped(s, g, k)
        /\ IF Glued(g, k) THEN g[k].from = Before(g, k)
                          ELSE g[k].from = Before(g, k) + 1 /\ s[Before(g, k)] = " "
    BY <2>1 DEF Laid
  <2>3. g[k].from < g[k].to
    <3>1. g[k].from \in Int /\ g[k].to \in Int
      BY <1>1
    <3> QED
      BY <2>2, <3>1, ShapedText
  <2> QED
    BY <2>2, <2>3
<1>5. ASSUME k = Len(g)
      PROVE  /\ g[k].from = Before(g, k) /\ g[k].to = Before(g, k)
             /\ g[k].type = "EOF" /\ s[Before(g, k)] = NUL
  <2>1. g[k] = Token("EOF", Before(g, k), Before(g, k)) /\ s[Before(g, k)] = NUL
    BY <1>5 DEF Laid
  <2> QED
    BY <2>1 DEF Token
<1> QED
  BY <1>0, <1>1, <1>2, <1>3, <1>4, <1>5 DEF Stands

\* A token of no string ends where no character can join it.
LEMMA LaidEdge ==
  ASSUME NEW g, NEW s, Laid(g, s), NEW k \in 1 .. Len(g), k < Len(g),
         ~Glued(g, k), g[k].type # "QUOTE"
  PROVE  s[g[k].to] \in {" ", NUL} /\ ~Glued(g, k + 1)
<1>0. k \in Nat \ {0} /\ Len(g) \in Nat
  BY LaidLength
<1>1. k + 1 \in 1 .. Len(g) /\ Before(g, k + 1) = g[k].to
  BY LaidLength
<1>2. ~Glued(g, k + 1)
  BY <1>0, GluedSteps
<1>3. PICK j \in 1 .. Len(g) : j = k + 1
  BY <1>1
<1>4. (j < Len(g) \/ j = Len(g)) /\ Before(g, j) = g[k].to /\ ~Glued(g, j)
  BY <1>0, <1>1, <1>2, <1>3
<1>5. Stands(g, s, j)
  BY LaidAt
<1>6. s[Before(g, j)] \in {" ", NUL}
  BY <1>4, <1>5 DEF Stands
<1> QED
  BY <1>2, <1>4, <1>6

\* The next token is pushed.
LEMMA PushFollows ==
  ASSUME NEW g, NEW s, Laid(g, s), NEW k \in 1 .. Len(g), k < Len(g), Follows(g, s, k),
         Push2(g[k]), Glued(g, k + 1) /\ k + 1 < Len(g) => IsTorn(s, g[k + 1])
  PROVE  Follows(g, s, k + 1)'
<1>0. /\ k \in Nat \ {0} /\ Len(g) \in Nat /\ k + 1 \in 1 .. Len(g) /\ k + 1 <= Len(g)
      /\ Before(g, k + 1) = g[k].to
  BY LaidLength
<1>1. source2' = s /\ mode2' = "next"
  BY DEF Push2, Follows
<1>2. /\ IsSequence(tokens2') /\ Len(tokens2') = k
      /\ \A j \in 1 .. k : tokens2'[j] = g[j]
  <2>1. IsSequence(tokens2) /\ Len(tokens2) = k - 1 /\ \A j \in 1 .. k - 1 : tokens2[j] = g[j]
    BY DEF Follows, Pushed
  <2>2. tokens2' = Append(tokens2, g[k])
    BY DEF Push2
  <2>3. Extended(tokens2', tokens2, g[k])
    BY <2>1, <2>2, AppendGlued
  <2>4. /\ IsSequence(tokens2') /\ Len(tokens2') = Len(tokens2) + 1
        /\ tokens2'[Len(tokens2) + 1] = g[k]
        /\ \A j \in 1 .. Len(tokens2) : tokens2'[j] = tokens2[j]
    BY <2>3 DEF Extended
  <2>5. Len(tokens2) + 1 = k
    BY <1>0, <2>1
  <2>6. \A j \in 1 .. k : j \in 1 .. k - 1 \/ j = k
    BY <1>0
  <2> QED
    BY <2>1, <2>4, <2>5, <2>6
<1>3. Pushed(g, k + 1)'
  <2>1. (k + 1) - 1 = k /\ k + 1 \in 1 .. Len(g) + 1
    BY <1>0
  <2> QED
    BY <1>2, <2>1 DEF Pushed
<1>4. lastTy2' = TypeBefore(g, k + 1)
  <2>1. k + 1 # 1 /\ (k + 1) - 1 = k
    BY <1>0
  <2> QED
    BY <2>1 DEF TypeBefore, Push2
<1>5. AtNext(g, s, k + 1)'
  <2>1. cursor2' = Before(g, k + 1) /\ k + 1 <= Len(g)
    BY <1>0 DEF Push2
  <2> QED
    BY <2>1 DEF AtNext
<1> QED
  BY <1>1, <1>3, <1>4, <1>5 DEF Follows

\* The next token is read on.
LEMMA QuietFollows ==
  ASSUME NEW g, NEW s, NEW k, Follows(g, s, k), mode2 \notin {"string", "done"},
         UNCHANGED <<source2, lastTy2, tokens2>>,
         \/ mode2' = "next" /\ AtNext(g, s, k)'
         \/ mode2' = "word" /\ AtWord(g, s, k)'
         \/ mode2' = "number" /\ AtNumber(g, s, k)'
         \/ mode2' = "fraction" /\ AtFraction(g, s, k)'
  PROVE  Follows(g, s, k)'
<1>1. Pushed(g, k)'
  BY DEF Follows, Pushed
<1> QED
  BY <1>1 DEF Follows

\* The second lexer is at the first character of the k-th token, which is no
\* part of a string.
Ready(g, s, k) ==
  /\ Laid(g, s) /\ k \in 1 .. Len(g) /\ k < Len(g) /\ Stands(g, s, k)
  /\ Follows(g, s, k) /\ mode2 = "next" /\ ~Glued(g, k) /\ cursor2 = g[k].from
  /\ source2 = s /\ lastTy2 = TypeBefore(g, k)

\* A token is pushed that is no quote.
LEMMA PushPlain ==
  ASSUME NEW g, NEW s, Laid(g, s), NEW k \in 1 .. Len(g), k < Len(g), Follows(g, s, k),
         ~Glued(g, k), g[k].type # "QUOTE", Push2(g[k])
  PROVE  Follows(g, s, k + 1)'
<1>1. ~Glued(g, k + 1)
  BY LaidEdge
<1> QED
  BY <1>1, PushFollows

\* A word is begun.
LEMMA ReadyWord ==
  ASSUME NEW g, NEW s, NEW k, Ready(g, s, k), IsWord(s, g[k]), Again!Next
  PROVE  Follows(g, s, k)'
<1>1. PICK a \in Nat \ {0}, b \in Nat \ {0} : a = g[k].from /\ b = g[k].to /\ a < b
  BY DEF Ready, Stands
<1>2. s[a] \in Letters /\ source2[cursor2] = s[a] /\ cursor2 = a /\ mode2 = "next"
  BY <1>1 DEF IsWord, WordText, Ready
<1>3. Enter2("word", 1)
  BY <1>2, ReadsNext, ClassesApart DEF Unknown
<1>4. AtWord(g, s, k)'
  <2>1. mark2' = a /\ cursor2' = a + 1
    BY <1>2, <1>3 DEF Enter2
  <2>2. cursor2' \in mark2' + 1 .. b
    BY <1>1, <2>1
  <2> QED
    BY <1>1, <2>1, <2>2 DEF AtWord, AtText, Ready
<1> QED
  BY <1>3, <1>4, QuietFollows DEF Ready, Enter2

\* A number is begun, with its sign if it has one.
LEMMA ReadyNumber ==
  ASSUME NEW g, NEW s, NEW k, Ready(g, s, k), Again!Next,
         IsInt(s, g[k], TypeBefore(g, k)) \/ IsFloat(s, g[k], TypeBefore(g, k))
  PROVE  Follows(g, s, k)'
<1>1. PICK a \in Nat \ {0}, b \in Nat \ {0} : a = g[k].from /\ b = g[k].to /\ a < b
  BY DEF Ready, Stands
<1>2. PICK d \in a .. b - 1 : DigitsFrom(s, a, d, TypeBefore(g, k))
  BY <1>1 DEF IsInt, IsFloat, IntText, FloatText
<1>3. PICK c, e : c = source2[cursor2] /\ e = source2[cursor2 + 1]
  OBVIOUS
<1>4. c = s[a] /\ e = s[a + 1] /\ cursor2 = a /\ mode2 = "next" /\ lastTy2 = TypeBefore(g, k)
  BY <1>1, <1>3 DEF Ready
<1>5. c \in Digits \/ (c \in Signs /\ lastTy2 \in UnaryContext /\ e \in Digits)
  BY <1>2, <1>4 DEF DigitsFrom
<1>6. Enter2("number", 1)
  <2>1. CASE c \in Digits
    BY <1>3, <1>4, <2>1, ReadsNext, ClassesApart DEF Unknown
  <2>2. CASE c \in Signs /\ lastTy2 \in UnaryContext /\ e \in Digits
    BY <1>3, <1>4, <2>2, ReadsNext, ClassesApart, OperatorsApart DEF Unknown
  <2> QED
    BY <1>5, <2>1, <2>2
<1>7. AtNumber(g, s, k)'
  <2>1. mark2' = a /\ cursor2' = a + 1
    BY <1>4, <1>6 DEF Enter2
  <2>2. cursor2' \in mark2' + 1 .. b /\ \A p \in mark2' + 1 .. cursor2' - 1 : FALSE
    BY <1>1, <2>1
  <2> QED
    BY <1>1, <2>1, <2>2 DEF AtNumber, AtText, Ready
<1> QED
  BY <1>6, <1>7, QuietFollows DEF Ready, Enter2

\* An operator is read whole: nothing behind it can join it.
LEMMA ReadyOperator ==
  ASSUME NEW g, NEW s, NEW k, Ready(g, s, k), Again!Next, IsOperator(s, g[k])
  PROVE  Follows(g, s, k + 1)'
<1>1. PICK a \in Nat \ {0}, b \in Nat \ {0} : a = g[k].from /\ b = g[k].to /\ a < b
  BY DEF Ready, Stands
<1>2. PICK c, e : c = source2[cursor2] /\ e = source2[cursor2 + 1]
  OBVIOUS
<1>3. c = s[a] /\ e = s[a + 1] /\ cursor2 = a /\ mode2 = "next"
  BY <1>1, <1>2 DEF Ready
<1>4. g[k].type # "QUOTE"
  BY OperatorsApart DEF IsOperator, OperatorText
<1>5. s[b] \in {" ", NUL}
  BY <1>1, <1>4, LaidEdge DEF Ready
<1>6. \/ <<c, e>> \in Doubles /\ b = a + 2 /\ g[k].type = OperatorType(<<c, e>>)
      \/ <<c, e>> \notin Doubles /\ b = a + 1 /\ c \in Operators /\ e \in {" ", NUL} /\ g[k].type = c
  <2>1. OperatorText(s, a, b, g[k].type)
    BY <1>1 DEF IsOperator
  <2>2. CASE b = a + 2
    <3>1. ~ b = a + 1
      BY <1>1, <2>2
    <3> QED
      BY <1>3, <2>1, <2>2, <3>1 DEF OperatorText
  <2>3. CASE b = a + 1
    <3>1. ~ b = a + 2
      BY <1>1, <2>3
    <3>2. c \in Operators /\ g[k].type = c /\ e \in {" ", NUL}
      BY <1>3, <1>5, <2>1, <2>3, <3>1 DEF OperatorText
    <3> QED
      BY <2>3, <3>2, OperatorsApart
  <2> QED
    BY <2>1, <2>2, <2>3 DEF OperatorText
<1>7. c \in Operators /\ ~(c \in Signs /\ e \in Digits) /\ ~(c = "/" /\ e \in {"/", "*"})
  BY <1>6, OperatorsApart
<1>8. IF <<c, e>> \in Doubles
        THEN Push2(Token(OperatorType(<<c, e>>), cursor2, cursor2 + 2))
        ELSE Push2(Token(c, cursor2, cursor2 + 1))
  BY <1>2, <1>3, <1>7, ReadsNext, ClassesApart DEF Unknown
<1>9. Push2(Token(g[k].type, a, b))
  BY <1>3, <1>6, <1>8
<1>10. Push2(g[k])
  BY <1>1, <1>9 DEF Ready, Stands
<1> QED
  BY <1>4, <1>10, PushPlain DEF Ready

\* A character that is none of the language's is a token of its own.
LEMMA ReadyInvalid ==
  ASSUME NEW g, NEW s, NEW k, Ready(g, s, k), Again!Next, IsInvalid(s, g[k])
  PROVE  Follows(g, s, k + 1)'
<1>1. PICK a \in Nat \ {0}, b \in Nat \ {0} : a = g[k].from /\ b = g[k].to /\ a < b
  BY DEF Ready, Stands
<1>2. PICK c : c = source2[cursor2]
  OBVIOUS
<1>3. Unknown(c) /\ cursor2 = a /\ mode2 = "next" /\ b = a + 1 /\ g[k].type = "INVALID"
  BY <1>1, <1>2 DEF Ready, IsInvalid
<1>4. Push2(Token("INVALID", cursor2, cursor2 + 1))
  BY <1>2, <1>3, ReadsNext, ClassesApart DEF Unknown
<1>5. Push2(g[k])
  BY <1>1, <1>3, <1>4 DEF Ready, Stands
<1> QED
  BY <1>3, <1>5, PushPlain DEF Ready

\* A string that has no character is read.
LEMMA StringStarts ==
  ASSUME NEW s, NEW a \in Nat
  PROVE  StringText(s, a, a)
<1>1. {a} \in SUBSET (a .. a) /\ a \in {a} /\ ReadOn(s, {a}, a)
  BY DEF ReadOn
<1> QED
  BY <1>1 DEF StringText

\* A quote opens a string.
LEMMA ReadyQuote ==
  ASSUME NEW g, NEW s, NEW k, Ready(g, s, k), Again!Next, IsQuote(s, g[k])
  PROVE  Follows(g, s, k + 1)'
<1>1. PICK a \in Nat \ {0}, b \in Nat \ {0} : a = g[k].from /\ b = g[k].to /\ a < b
  BY DEF Ready, Stands
<1>2. PICK c : c = source2[cursor2]
  OBVIOUS
<1>3. c = "\"" /\ cursor2 = a /\ mode2 = "next" /\ b = a + 1 /\ g[k].type = "QUOTE"
  BY <1>1, <1>2 DEF Ready, IsQuote
<1>4. Again!OpenString
  BY <1>2, <1>3, ReadsNext, ClassesApart DEF Unknown
<1>5. /\ tokens2' = Append(tokens2, Token("QUOTE", a, b)) /\ mode2' = "string"
      /\ mark2' = b /\ cursor2' = b /\ source2' = source2
  BY <1>3, <1>4, AgainNames DEF Again!OpenString
<1>6. tokens2' = Append(tokens2, g[k])
  BY <1>1, <1>3, <1>5 DEF Ready, Stands
<1>7. PICK j \in 1 .. Len(g) : j = k + 1
  BY LaidLength DEF Ready
<1>8. k \in Nat \ {0} /\ Before(g, j) = b /\ Glued(g, j) /\ j - 1 = k
  <2>1. k \in Nat \ {0} /\ Before(g, j) = b
    BY <1>1, <1>7, LaidLength DEF Ready
  <2>2. Glued(g, j)
    BY <1>3, <1>7, <2>1, GluedSteps DEF Ready
  <2> QED
    BY <1>7, <2>1, <2>2
<1>9. Pushed(g, j)'
  <2>1. IsSequence(tokens2) /\ Len(tokens2) = k - 1 /\ \A i \in 1 .. k - 1 : tokens2[i] = g[i]
    BY DEF Ready, Follows, Pushed
  <2>2. Extended(tokens2', tokens2, g[k])
    BY <1>6, <2>1, AppendGlued
  <2>3. /\ IsSequence(tokens2') /\ Len(tokens2') = Len(tokens2) + 1
        /\ tokens2'[Len(tokens2) + 1] = g[k]
        /\ \A i \in 1 .. Len(tokens2) : tokens2'[i] = tokens2[i]
    BY <2>2 DEF Extended
  <2>4. Len(tokens2) + 1 = k
    BY <1>8, <2>1
  <2>5. \A i \in 1 .. k : i \in 1 .. k - 1 \/ i = k
    BY <1>8
  <2>6. j \in 1 .. Len(g) + 1
    BY LaidLength DEF Ready
  <2> QED
    BY <1>8, <2>1, <2>3, <2>4, <2>5, <2>6 DEF Pushed
<1>10. StringEnd(g, s, j) \in Nat /\ b <= StringEnd(g, s, j) /\ StringText(s, b, StringEnd(g, s, j))
  <2>1. CASE j < Len(g) /\ IsContent(s, g[j])
    <3>1. StringEnd(g, s, j) = g[j].to
      BY <2>1 DEF StringEnd
    <3>2. Stands(g, s, j)
      BY LaidAt DEF Ready
    <3>3. g[j].from = b /\ g[j].to \in Nat /\ b <= g[j].to
      BY <1>8, <2>1, <3>2 DEF Stands
    <3> QED
      BY <2>1, <3>1, <3>3 DEF IsContent
  <2>2. CASE ~(j < Len(g) /\ IsContent(s, g[j]))
    <3>1. StringEnd(g, s, j) = b
      BY <1>8, <2>2 DEF StringEnd
    <3> QED
      BY <3>1, StringStarts
  <2> QED
    BY <2>1, <2>2
<1>11. AtString(g, s, j)'
  <2>1. j \in 2 .. Len(g)
    BY <1>7, <1>8
  <2>2. g[j - 1] = g[k]
    BY <1>8
  <2>3. g[j - 1].type = "QUOTE" /\ g[j - 1].to = b
    BY <1>1, <1>3, <2>2
  <2>4. (cursor2 \in Nat)' /\ mark2' <= cursor2' /\ cursor2' <= StringEnd(g, s, j)
    BY <1>1, <1>5, <1>10
  <2>5. StringText(s, cursor2', StringEnd(g, s, j))
    BY <1>5, <1>10
  <2> QED
    BY <1>5, <1>8, <2>1, <2>3, <2>4, <2>5 DEF AtString
<1> QED
  BY <1>5, <1>7, <1>9, <1>11 DEF Follows, Ready

\* The second lexer follows the tokens of g, which are those of s.
Following(g, s) == \E k \in Nat : Follows(g, s, k)

\* Between tokens the second lexer finds the next token of g.
LEMMA FollowNext ==
  ASSUME NEW g, NEW s, Laid(g, s), NEW k \in Nat, Follows(g, s, k), mode2 = "next", Again!Next
  PROVE  Following(g, s)'
<1>0. k \in 1 .. Len(g) /\ source2 = s /\ AtNext(g, s, k)
  <2>1. AtNext(g, s, k) /\ k \in 1 .. Len(g) + 1 /\ source2 = s
    BY DEF Follows, Pushed
  <2>2. PICK n \in Nat : n = Len(g)
    BY DEF Laid
  <2> QED
    BY <2>1, <2>2 DEF AtNext
<1>1. Stands(g, s, k) /\ k \in Nat \ {0}
  BY <1>0, LaidAt, LaidLength
<1>2. PICK a \in Nat \ {0}, b \in Nat \ {0}, c \in Nat \ {0} :
        a = g[k].from /\ b = g[k].to /\ c = Before(g, k)
  BY <1>1 DEF Stands
<1>3. cursor2 = a \/ cursor2 = c
  BY <1>0, <1>2 DEF AtNext
<1>4. CASE k = Len(g)
  <2>1. a = c /\ b = c /\ s[c] = NUL /\ g[k] = Token("EOF", c, c)
    BY <1>1, <1>2, <1>4 DEF Stands
  <2>2. cursor2 = c /\ source2[cursor2] = NUL
    BY <1>0, <1>3, <2>1
  <2>3. Again!Finish
    BY <2>2, ReadsNext, ClassesApart DEF Unknown
  <2>4. tokens2' = Append(tokens2, g[k]) /\ mode2' = "done" /\ source2' = s
    BY <1>0, <2>1, <2>2, <2>3, AgainNames DEF Again!Finish
  <2>5. Pushed(g, k + 1)'
    <3>1. IsSequence(tokens2) /\ Len(tokens2) = k - 1 /\ \A i \in 1 .. k - 1 : tokens2[i] = g[i]
      BY DEF Follows, Pushed
    <3>2. Extended(tokens2', tokens2, g[k])
      BY <2>4, <3>1, AppendGlued
    <3>3. /\ IsSequence(tokens2') /\ Len(tokens2') = Len(tokens2) + 1
          /\ tokens2'[Len(tokens2) + 1] = g[k]
          /\ \A i \in 1 .. Len(tokens2) : tokens2'[i] = tokens2[i]
      BY <3>2 DEF Extended
    <3>4. Len(tokens2) + 1 = k /\ (k + 1) - 1 = k /\ k + 1 \in 1 .. k + 1
      BY <1>1, <3>1
    <3>5. \A i \in 1 .. k : i \in 1 .. k - 1 \/ i = k
      BY <1>1
    <3> QED
      BY <1>4, <3>1, <3>3, <3>4, <3>5 DEF Pushed
  <2>6. k + 1 \in Nat /\ k + 1 = Len(g) + 1
    BY <1>4
  <2> QED
    BY <2>4, <2>5, <2>6 DEF Following, Follows
<1>5. CASE k # Len(g) /\ Glued(g, k)
  <2>1. k < Len(g) /\ a = c
    BY <1>0, <1>1, <1>2, <1>5, LaidLength DEF Stands
  <2>2. IsTorn(s, g[k])
    BY <1>0, <1>5, <2>1 DEF AtNext
  <2>3. cursor2 = a /\ source2[cursor2] = "\\" /\ b = a + 1 /\ g[k].type = "INVALID"
    BY <1>0, <1>2, <1>3, <2>1, <2>2 DEF IsTorn
  <2>4. Push2(Token("INVALID", cursor2, cursor2 + 1))
    BY <2>3, ReadsNext, ClassesApart, OperatorsApart DEF Unknown
  <2>5. Push2(g[k])
    BY <1>1, <1>2, <2>3, <2>4 DEF Stands
  <2>6. ~(k + 1 < Len(g))
    <3>1. PICK n \in Nat : n = Len(g) - 1
      <4>1. Len(g) \in Nat \ {0}
        BY DEF Laid
      <4> QED
        BY <4>1
    <3>2. \A i \in 1 .. n : Shaped(s, g, i)
      BY <3>1 DEF Laid
    <3>3. Len(g) \in Nat
      BY DEF Laid
    <3>4. k \in 1 .. n
      BY <1>0, <2>1, <3>1, <3>3
    <3>5. k = n
      BY <1>5, <2>2, <3>2, <3>4, TornLast
    <3> QED
      BY <3>1, <3>3, <3>5
  <2>7. Follows(g, s, k + 1)'
    BY <1>0, <2>1, <2>5, <2>6, PushFollows
  <2> QED
    BY <2>7 DEF Following
<1>6. CASE k # Len(g) /\ ~Glued(g, k) /\ cursor2 = c
  <2>0. k < Len(g)
    BY <1>0, <1>6, LaidLength
  <2>1. k < Len(g) /\ a = c + 1 /\ s[c] = " "
    BY <1>1, <1>2, <1>6, <2>0 DEF Stands
  <2>2. source2[cursor2] = " " /\ " " \in Blanks
    BY <1>0, <1>6, <2>1 DEF Blanks
  <2>3. Advance2(1)
    BY <2>2, ReadsNext, ClassesApart DEF Unknown
  <2>4. AtNext(g, s, k)'
    <3>1. cursor2' = a /\ k <= Len(g)
      BY <1>2, <1>6, <2>1, <2>3, LaidLength, <1>0 DEF Advance2
    <3> QED
      BY <1>2, <1>6, <3>1 DEF AtNext
  <2>5. Follows(g, s, k)'
    BY <2>3, <2>4, QuietFollows DEF Advance2
  <2> QED
    BY <2>5 DEF Following
<1>7. CASE k # Len(g) /\ ~Glued(g, k) /\ cursor2 = a
  <2>1. k < Len(g)
    BY <1>0, <1>7, LaidLength
  <2>2. lastTy2 = TypeBefore(g, k)
    BY <1>7 DEF Follows
  <2>3. Ready(g, s, k)
    BY <1>0, <1>1, <1>2, <1>7, <2>1, <2>2 DEF Ready
  <2>4. \/ IsWord(s, g[k]) \/ IsOperator(s, g[k])
        \/ IsInt(s, g[k], TypeBefore(g, k)) \/ IsFloat(s, g[k], TypeBefore(g, k))
        \/ IsInvalid(s, g[k]) \/ IsQuote(s, g[k])
    BY <1>1, <1>7, <2>1 DEF Stands, Shaped
  <2>5. Follows(g, s, k)' \/ Follows(g, s, k + 1)'
    BY <2>3, <2>4, ReadyWord, ReadyOperator, ReadyNumber, ReadyInvalid, ReadyQuote
  <2> QED
    BY <2>5 DEF Following
<1> QED
  BY <1>3, <1>4, <1>5, <1>6, <1>7

\* Where a word or number is read, and what comes behind it.
Amid(g, s, k, a, b) ==
  /\ k \in 1 .. Len(g) /\ k < Len(g) /\ ~Glued(g, k) /\ Stands(g, s, k) /\ source2 = s
  /\ a = g[k].from /\ b = g[k].to /\ mark2 = a /\ cursor2 \in a + 1 .. b
  /\ a \in Nat \ {0} /\ b \in Nat \ {0} /\ a < b
  /\ g[k].type # "QUOTE" => s[b] \in {" ", NUL}

\* A word or number in progress is the k-th token.
LEMMA AtReading ==
  ASSUME NEW g, NEW s, Laid(g, s), NEW k \in Nat, Follows(g, s, k), AtText(g, s, k)
  PROVE  \E a, b : Amid(g, s, k, a, b)
<1>1. PICK a, b : a = g[k].from /\ b = g[k].to
  OBVIOUS
<1>2. k \in 1 .. Len(g) /\ k < Len(g) /\ ~Glued(g, k) /\ source2 = s
  <2>1. k \in 1 .. Len(g) + 1 /\ k < Len(g) /\ ~Glued(g, k) /\ source2 = s
    BY DEF Follows, Pushed, AtText
  <2>2. PICK n \in Nat : n = Len(g)
    BY DEF Laid
  <2> QED
    BY <2>1, <2>2
<1>3. Stands(g, s, k)
  BY <1>2, LaidAt
<1>4. a \in Nat \ {0} /\ b \in Nat \ {0} /\ a < b
  BY <1>1, <1>2, <1>3 DEF Stands
<1>5. g[k].type # "QUOTE" => s[b] \in {" ", NUL}
  BY <1>1, <1>2, LaidEdge
<1> QED
  BY <1>1, <1>2, <1>3, <1>4, <1>5 DEF Amid, AtText

\* In a word it reads on to the end of the token.
LEMMA FollowWord ==
  ASSUME NEW g, NEW s, Laid(g, s), NEW k \in Nat, Follows(g, s, k), mode2 = "word", Again!Next
  PROVE  Following(g, s)'
<1>1. AtText(g, s, k) /\ IsWord(s, g[k])
  BY DEF Follows, AtWord
<1>2. PICK a, b : Amid(g, s, k, a, b)
  BY <1>1, AtReading
<1>3. a \in Nat \ {0} /\ b \in Nat \ {0} /\ a < b /\ cursor2 \in a + 1 .. b /\ mark2 = a
  BY <1>2 DEF Amid
<1>4. /\ \A p \in a + 1 .. b - 1 : s[p] \in Letters \cup Digits
      /\ g[k].type = WordType(SubSeq(s, a, b - 1))
  BY <1>1, <1>2 DEF IsWord, WordText, Amid
<1>5. g[k].type # "QUOTE"
  BY <1>4, LayoutAssumption DEF WordType, resolveKeyword
<1>6. CASE cursor2 < b
  <2>0. cursor2 \in a + 1 .. b - 1
    BY <1>3, <1>6
  <2>1. s[cursor2] \in Letters \cup Digits /\ source2 = s
    BY <1>2, <1>4, <2>0 DEF Amid
  <2>2. Advance2(1)
    BY <2>1, ReadsWord
  <2>3. cursor2' \in a + 1 .. b
    BY <1>3, <1>6, <2>2 DEF Advance2
  <2>4. AtWord(g, s, k)'
    BY <1>1, <1>2, <1>3, <2>2, <2>3 DEF AtWord, AtText, Amid, Advance2
  <2>5. Follows(g, s, k)'
    BY <2>2, <2>4, QuietFollows DEF Advance2
  <2> QED
    BY <2>5 DEF Following
<1>7. CASE cursor2 = b
  <2>1. s[b] \notin Letters \cup Digits /\ source2 = s
    BY <1>2, <1>5, OperatorsApart DEF Amid
  <2>2. Push2(Token(WordType(SubSeq(s, a, b - 1)), a, b))
    BY <1>3, <1>7, <2>1, ReadsWord
  <2>3. Push2(g[k])
    BY <1>2, <1>4, <2>2 DEF Amid, Stands
  <2>4. Follows(g, s, k + 1)'
    BY <1>2, <1>5, <2>3, PushPlain DEF Amid
  <2> QED
    BY <2>4 DEF Following
<1> QED
  BY <1>3, <1>6, <1>7

\* In a number it reads on to the end of the token, or to the point.
LEMMA FollowNumber ==
  ASSUME NEW g, NEW s, Laid(g, s), NEW k \in Nat, Follows(g, s, k), mode2 = "number", Again!Next
  PROVE  Following(g, s)'
<1>1. /\ AtText(g, s, k)
      /\ IsInt(s, g[k], TypeBefore(g, k)) \/ IsFloat(s, g[k], TypeBefore(g, k))
      /\ \A p \in mark2 + 1 .. cursor2 - 1 : s[p] \in Digits
  BY DEF Follows, AtNumber
<1>2. PICK a, b : Amid(g, s, k, a, b)
  BY <1>1, AtReading
<1>3. a \in Nat \ {0} /\ b \in Nat \ {0} /\ a < b /\ cursor2 \in a + 1 .. b /\ mark2 = a
  BY <1>2 DEF Amid
<1>4. PICK c, e : c = source2[cursor2] /\ e = source2[cursor2 + 1]
  OBVIOUS
<1>5. c = s[cursor2] /\ e = s[cursor2 + 1]
  BY <1>2, <1>4 DEF Amid
<1>6. ASSUME c \in Digits, cursor2 < b PROVE Following(g, s)'
  <2>1. Advance2(1)
    BY <1>4, <1>6, ReadsNumber, ClassesApart
  <2>2. cursor2' \in a + 1 .. b /\ mark2' = a
    BY <1>3, <1>6, <2>1 DEF Advance2
  <2>3. \A p \in mark2' + 1 .. cursor2' - 1 : s[p] \in Digits
    <3>1. PICK q \in Nat : q = cursor2
      BY <1>3
    <3>2. cursor2' = q + 1 /\ mark2' = a
      BY <1>3, <2>1, <3>1 DEF Advance2
    <3>3. \A p \in a + 1 .. (q + 1) - 1 : p \in a + 1 .. q - 1 \/ p = q
      BY <1>3, <3>1
    <3>4. \A p \in a + 1 .. (q + 1) - 1 : s[p] \in Digits
      BY <1>1, <1>3, <1>5, <1>6, <3>1, <3>3
    <3> QED
      BY <3>2, <3>4
  <2>4. AtNumber(g, s, k)'
    BY <1>1, <1>2, <2>2, <2>3 DEF AtNumber, AtText, Amid
  <2>5. Follows(g, s, k)'
    BY <2>1, <2>4, QuietFollows DEF Advance2
  <2> QED
    BY <2>5 DEF Following
<1>7. CASE IsInt(s, g[k], TypeBefore(g, k))
  <2>1. PICK d \in a .. b - 1 : IntText(s, a, d, b, TypeBefore(g, k))
    BY <1>2, <1>7 DEF IsInt, Amid
  <2>2. d \in {a, a + 1} /\ \A p \in d .. b - 1 : s[p] \in Digits
    BY <2>1 DEF IntText, DigitsFrom
  <2>3. ASSUME cursor2 < b PROVE c \in Digits
    <3>1. cursor2 \in d .. b - 1
      BY <1>3, <2>2, <2>3
    <3> QED
      BY <1>5, <2>2, <3>1
  <2>4. CASE cursor2 = b
    <3>1. g[k].type = "LIT_INT"
      BY <1>7 DEF IsInt
    <3>2. c \in {" ", NUL}
      BY <1>2, <1>5, <2>4, <3>1 DEF Amid
    <3>3. c \notin Digits /\ c # "."
      BY <3>2, OperatorsApart
    <3>4. Push2(Token("LIT_INT", a, b))
      BY <1>3, <1>4, <2>4, <3>3, ReadsNumber
    <3>5. Push2(g[k])
      BY <1>2, <3>1, <3>4 DEF Amid, Stands
    <3>6. Follows(g, s, k + 1)'
      BY <1>2, <3>1, <3>5, PushPlain DEF Amid
    <3> QED
      BY <3>6 DEF Following
  <2> QED
    BY <1>3, <1>6, <2>3, <2>4
<1>8. CASE IsFloat(s, g[k], TypeBefore(g, k))
  <2>1. PICK d \in a .. b - 1 : \E f \in d + 1 .. b - 2 : FloatText(s, a, d, f, b, TypeBefore(g, k))
    BY <1>2, <1>8 DEF IsFloat, Amid
  <2>2. PICK f \in d + 1 .. b - 2 : FloatText(s, a, d, f, b, TypeBefore(g, k))
    BY <2>1
  <2>3. /\ d \in {a, a + 1} /\ s[f] = "." /\ s[f + 1] \in Digits
        /\ \A p \in d .. b - 1 : p = f \/ s[p] \in Digits
    BY <2>2 DEF FloatText, DigitsFrom
  <2>4. cursor2 <= f
    <3>1. SUFFICES ASSUME f < cursor2 PROVE FALSE
      BY <1>3
    <3>2. f \in mark2 + 1 .. cursor2 - 1
      BY <1>3, <2>3, <3>1
    <3>3. s[f] \in Digits
      BY <1>1, <3>2
    <3> QED
      BY <2>3, <3>3, ClassesApart
  <2>5. CASE cursor2 < f
    <3>1. cursor2 \in d .. b - 1 /\ cursor2 # f /\ cursor2 < b
      BY <1>3, <2>3, <2>5
    <3>2. c \in Digits
      BY <1>5, <2>3, <3>1
    <3> QED
      BY <1>6, <3>1, <3>2
  <2>6. CASE cursor2 = f
    <3>1. c = "." /\ e \in Digits /\ c \notin Digits
      BY <1>5, <2>3, <2>6, ClassesApart
    <3>2. /\ mode2' = "fraction" /\ cursor2' = cursor2 + 1
          /\ UNCHANGED <<source2, mark2, lastTy2, tokens2>>
      BY <1>4, <3>1, ReadsNumber
    <3>3. cursor2' \in a + 1 .. b /\ mark2' = a
      BY <1>3, <2>6, <3>2
    <3>4. \A p \in cursor2' .. b - 1 : s[p] \in Digits
      <4>1. \A p \in cursor2 + 1 .. b - 1 : p \in d .. b - 1 /\ p # f
        BY <1>3, <2>6
      <4> QED
        BY <2>3, <3>2, <4>1
    <3>5. AtFraction(g, s, k)'
      <4>1. g[k].type = "LIT_FLOAT"
        BY <1>8 DEF IsFloat
      <4> QED
        BY <1>2, <3>3, <3>4, <4>1 DEF AtFraction, AtText, Amid
    <3>6. Follows(g, s, k)'
      BY <3>2, <3>5, QuietFollows
    <3> QED
      BY <3>6 DEF Following
  <2> QED
    BY <1>3, <2>4, <2>5, <2>6
<1> QED
  BY <1>1, <1>7, <1>8

\* Behind the point it reads on to the end of the token.
LEMMA FollowFraction ==
  ASSUME NEW g, NEW s, Laid(g, s), NEW k \in Nat, Follows(g, s, k), mode2 = "fraction", Again!Next
  PROVE  Following(g, s)'
<1>1. /\ AtText(g, s, k) /\ g[k].type = "LIT_FLOAT"
      /\ \A p \in cursor2 .. g[k].to - 1 : s[p] \in Digits
  BY DEF Follows, AtFraction
<1>2. PICK a, b : Amid(g, s, k, a, b)
  BY <1>1, AtReading
<1>3. a \in Nat \ {0} /\ b \in Nat \ {0} /\ a < b /\ cursor2 \in a + 1 .. b /\ mark2 = a /\ g[k].to = b
  BY <1>2 DEF Amid
<1>4. PICK c : c = source2[cursor2]
  OBVIOUS
<1>5. c = s[cursor2]
  BY <1>2, <1>4 DEF Amid
<1>6. CASE cursor2 < b
  <2>1. c \in Digits
    <3>1. cursor2 \in cursor2 .. b - 1
      BY <1>3, <1>6
    <3> QED
      BY <1>1, <1>3, <1>5, <3>1
  <2>2. Advance2(1)
    BY <1>4, <2>1, ReadsNumber, ClassesApart
  <2>3. cursor2' \in a + 1 .. b /\ mark2' = a
    BY <1>3, <1>6, <2>2 DEF Advance2
  <2>4. \A p \in cursor2' .. b - 1 : s[p] \in Digits
    <3>1. cursor2' = cursor2 + 1
      BY <2>2 DEF Advance2
    <3>2. \A p \in cursor2 + 1 .. b - 1 : p \in cursor2 .. b - 1
      BY <1>3
    <3> QED
      BY <1>1, <1>3, <3>1, <3>2
  <2>5. AtFraction(g, s, k)'
    BY <1>1, <1>2, <2>3, <2>4 DEF AtFraction, AtText, Amid
  <2>6. Follows(g, s, k)'
    BY <2>2, <2>5, QuietFollows DEF Advance2
  <2> QED
    BY <2>6 DEF Following
<1>7. CASE cursor2 = b
  <2>1. c \notin Digits
    BY <1>1, <1>2, <1>5, <1>7, OperatorsApart DEF Amid
  <2>2. Push2(Token("LIT_FLOAT", a, b))
    BY <1>3, <1>4, <1>7, <2>1, ReadsNumber
  <2>3. Push2(g[k])
    BY <1>1, <1>2, <2>2 DEF Amid, Stands
  <2>4. Follows(g, s, k + 1)'
    BY <1>1, <1>2, <2>3, PushPlain DEF Amid
  <2> QED
    BY <2>4 DEF Following
<1> QED
  BY <1>3, <1>6, <1>7

\* A string that is read from q on is read from the next place on.
LEMMA ReadRest ==
  ASSUME NEW s, NEW q \in Nat, NEW e \in Nat, StringText(s, q, e), q # e
  PROVE  IF s[q] = "\\" THEN s[q + 1] # NUL /\ q + 2 <= e /\ StringText(s, q + 2, e)
                        ELSE s[q] \notin {"\"", NUL} /\ q + 1 <= e /\ StringText(s, q + 1, e)
<1>1. PICK T \in SUBSET (q .. e) : q \in T /\ e \in T /\ ReadOn(s, T, e)
  BY DEF StringText
<1>2. ASSUME NEW r \in T, r > q PROVE StringText(s, r, e)
  <2>1. PICK U : U = T \cap (r .. e)
    OBVIOUS
  <2>2. r \in q .. e
    BY <1>1
  <2>3. U \in SUBSET (r .. e) /\ r \in U /\ e \in U
    BY <1>1, <2>1, <2>2
  <2>4. ReadOn(s, U, e)
    <3>1. SUFFICES ASSUME NEW p \in U, p # e
                   PROVE  IF s[p] = "\\" THEN s[p + 1] # NUL /\ p + 2 \in U
                                         ELSE s[p] \notin {"\"", NUL} /\ p + 1 \in U
      BY DEF ReadOn
    <3>2. IF s[p] = "\\" THEN s[p + 1] # NUL /\ p + 2 \in T
                         ELSE s[p] \notin {"\"", NUL} /\ p + 1 \in T
      BY <1>1, <2>1, <3>1 DEF ReadOn
    <3>3. p \in r .. e /\ p \in Nat
      BY <2>1, <2>2
    <3>4. (p + 2 \in T => p + 2 \in r .. e) /\ (p + 1 \in T => p + 1 \in r .. e)
      <4>1. ASSUME NEW x \in T PROVE x \in q .. e
        BY <1>1
      <4> QED
        BY <2>2, <3>3, <4>1
    <3> QED
      BY <2>1, <3>2, <3>4
  <2> QED
    BY <2>3, <2>4 DEF StringText
<1>3. IF s[q] = "\\" THEN s[q + 1] # NUL /\ q + 2 \in T
                     ELSE s[q] \notin {"\"", NUL} /\ q + 1 \in T
  BY <1>1 DEF ReadOn
<1>4. \A x \in T : x <= e
  BY <1>1
<1>5. CASE s[q] = "\\"
  <2>1. q + 2 \in T /\ q + 2 > q /\ s[q + 1] # NUL
    BY <1>3, <1>5
  <2> QED
    BY <1>2, <1>4, <1>5, <2>1
<1>6. CASE s[q] # "\\"
  <2>1. q + 1 \in T /\ s[q] \notin {"\"", NUL}
    BY <1>3, <1>6, Zenon
  <2>2. q + 1 > q
    OBVIOUS
  <2> QED
    BY <1>2, <1>4, <1>6, <2>1, <2>2
<1> QED
  BY <1>5, <1>6

\* What ends a string: its content, if any, is token k, and token m comes behind.
Ending(g, s, k, m, e) ==
  /\ m \in 1 .. Len(g) /\ Glued(g, m) /\ Before(g, m) = e
  /\ \/ m = k /\ mark2 = e
     \/ /\ m = k + 1 /\ k < Len(g) /\ mark2 < e
        /\ g[k] = Token("IDENTIFIER", mark2, e)
  /\ \/ m = Len(g) /\ s[e] = NUL
     \/ m < Len(g) /\ IsQuote(s, g[m]) /\ g[m] = Token("QUOTE", e, e + 1) /\ s[e] = "\""
     \/ m < Len(g) /\ IsTorn(s, g[m]) /\ s[e] = "\\" /\ s[e + 1] = NUL

\* What comes behind the content of a string.
LEMMA StringEnding ==
  ASSUME NEW g, NEW s, Laid(g, s), NEW k \in 2 .. Len(g), Glued(g, k), mark2 = Before(g, k)
  PROVE  \E m : Ending(g, s, k, m, StringEnd(g, s, k))
<1>1. PICK e : e = StringEnd(g, s, k)
  OBVIOUS
<1>2. Len(g) \in Nat /\ k \in 1 .. Len(g) /\ k \in Nat \ {0}
  <2>1. Len(g) \in Nat
    BY DEF Laid
  <2> QED
    BY <2>1
<1>3. ASSUME NEW m \in 1 .. Len(g), Glued(g, m), Before(g, m) = e,
             m < Len(g) => ~IsContent(s, g[m]) \/ g[m - 1].type # "QUOTE"
      PROVE  \/ m = Len(g) /\ s[e] = NUL
             \/ m < Len(g) /\ IsQuote(s, g[m]) /\ g[m] = Token("QUOTE", e, e + 1) /\ s[e] = "\""
             \/ m < Len(g) /\ IsTorn(s, g[m]) /\ s[e] = "\\" /\ s[e + 1] = NUL
  <2>1. Stands(g, s, m)
    BY LaidAt
  <2>2. CASE m = Len(g)
    BY <1>3, <2>1, <2>2 DEF Stands
  <2>3. CASE m < Len(g)
    <3>1. Shaped(s, g, m) /\ g[m].from = e
      BY <1>3, <2>1, <2>3 DEF Stands
    <3>2. IsQuote(s, g[m]) \/ IsTorn(s, g[m])
      BY <1>3, <2>3, <3>1 DEF Shaped
    <3>3. IsQuote(s, g[m]) => s[e] = "\"" /\ g[m] = Token("QUOTE", e, e + 1)
      BY <2>1, <3>1 DEF IsQuote, Stands
    <3>4. IsTorn(s, g[m]) => s[e] = "\\" /\ s[e + 1] = NUL
      BY <3>1 DEF IsTorn
    <3> QED
      BY <2>3, <3>2, <3>3, <3>4
  <2>4. m < Len(g) \/ m = Len(g)
    BY <1>2
  <2> QED
    BY <2>2, <2>3, <2>4
<1>4. CASE k < Len(g) /\ IsContent(s, g[k])
  <2>1. Stands(g, s, k) /\ e = g[k].to
    BY <1>1, <1>2, <1>4, LaidAt DEF StringEnd
  <2>2. g[k].from = mark2 /\ mark2 < e /\ g[k] = Token("IDENTIFIER", mark2, e)
    BY <1>4, <2>1 DEF Stands, IsContent
  <2>3. PICK m \in 1 .. Len(g) : m = k + 1
    BY <1>2, <1>4
  <2>4. Before(g, m) = e /\ m - 1 = k
    BY <1>2, <1>4, <2>1, <2>3, LaidLength
  <2>5. g[k].type = "IDENTIFIER"
    BY <1>4 DEF IsContent
  <2>6. Glued(g, m)
    BY <1>2, <2>3, <2>5, GluedSteps
  <2>7. \/ m = Len(g) /\ s[e] = NUL
        \/ m < Len(g) /\ IsQuote(s, g[m]) /\ g[m] = Token("QUOTE", e, e + 1) /\ s[e] = "\""
        \/ m < Len(g) /\ IsTorn(s, g[m]) /\ s[e] = "\\" /\ s[e + 1] = NUL
    <3>1. g[m - 1].type # "QUOTE"
      BY <2>4, <2>5
    <3> QED
      BY <1>3, <2>4, <2>6, <3>1
  <2>8. Ending(g, s, k, m, e)
    BY <1>4, <2>2, <2>3, <2>4, <2>6, <2>7 DEF Ending
  <2> QED
    BY <1>1, <2>8
<1>5. CASE ~(k < Len(g) /\ IsContent(s, g[k]))
  <2>1. Before(g, k) = e
    BY <1>1, <1>5 DEF StringEnd
  <2>2. \/ k = Len(g) /\ s[e] = NUL
        \/ k < Len(g) /\ IsQuote(s, g[k]) /\ g[k] = Token("QUOTE", e, e + 1) /\ s[e] = "\""
        \/ k < Len(g) /\ IsTorn(s, g[k]) /\ s[e] = "\\" /\ s[e + 1] = NUL
    BY <1>2, <1>3, <1>5, <2>1
  <2>3. Ending(g, s, k, k, e)
    BY <1>2, <2>1, <2>2 DEF Ending
  <2> QED
    BY <1>1, <2>3
<1> QED
  BY <1>4, <1>5

\* The tokens of a string that ends, behind those before it.
Closed(ts, t, u, x, y) ==
  /\ x = << >> => ts \o x = ts
  /\ x = <<t>> => ts \o x = Append(ts, t)
  /\ IsSequence(ts \o x)
  /\ y = << >> => ts \o x \o y = ts \o x
  /\ y = <<u>> => ts \o x \o y = Append(ts \o x, u)

\* Pushing the content and the quote, each if there is one.
LEMMA Closing ==
  ASSUME NEW ts, IsSequence(ts), NEW t, NEW u, NEW x, NEW y,
         x = << >> \/ x = <<t>>, y = << >> \/ y = <<u>>
  PROVE  Closed(ts, t, u, x, y)
<1>1. ASSUME NEW r, IsSequence(r), NEW v
      PROVE  r \o << >> = r /\ r \o <<v>> = Append(r, v) /\ IsSequence(Append(r, v))
  <2>1. PICK S : S = ToSet(r) \cup {v}
    OBVIOUS
  <2>2. r \in Seq(S) /\ v \in S
    <3>1. r \in [1 .. Len(r) -> S] /\ Len(r) \in Nat
      <4>1. r \in [1 .. Len(r) -> ToSet(r)] /\ Len(r) \in Nat
        BY <1>1, LenProperties DEF IsSequence
      <4> QED
        BY <2>1, <4>1
    <3> QED
      BY <2>1, <3>1
  <2>3. r \o << >> = r /\ r \o <<v>> = Append(r, v)
    BY <2>2
  <2> QED
    BY <1>1, <2>3, AppendFacts
<1>2. IsSequence(ts \o x) /\ (x = << >> => ts \o x = ts) /\ (x = <<t>> => ts \o x = Append(ts, t))
  BY <1>1
<1> QED
  BY <1>1, <1>2 DEF Closed

\* The first n tokens of g have been pushed.
Holds(ts, g, n) == IsSequence(ts) /\ Len(ts) = n /\ \A j \in 1 .. n : ts[j] = g[j]

\* Pushing the next token of g.
LEMMA PushOn ==
  ASSUME NEW g, NEW k \in Nat \ {0}, NEW ts, Holds(ts, g, k - 1), NEW us, us = Append(ts, g[k])
  PROVE  Holds(us, g, k)
<1>0. IsSequence(ts) /\ Len(ts) = k - 1 /\ \A j \in 1 .. k - 1 : ts[j] = g[j]
  BY DEF Holds
<1>1. Extended(us, ts, g[k])
  BY <1>0, AppendGlued
<1>2. /\ IsSequence(us) /\ Len(us) = Len(ts) + 1 /\ us[Len(ts) + 1] = g[k]
      /\ \A j \in 1 .. Len(ts) : us[j] = ts[j]
  BY <1>1 DEF Extended
<1>3. Len(ts) + 1 = k /\ \A j \in 1 .. k : j \in 1 .. k - 1 \/ j = k
  BY <1>0
<1> QED
  BY <1>0, <1>2, <1>3 DEF Holds

\* In a string it reads on to where the first lexer found its end.
LEMMA FollowString ==
  ASSUME NEW g, NEW s, Laid(g, s), NEW k \in Nat, Follows(g, s, k), mode2 = "string", Again!Next
  PROVE  Following(g, s)'
<1>1. /\ k \in 2 .. Len(g) /\ Glued(g, k) /\ g[k - 1].type = "QUOTE" /\ mark2 = g[k - 1].to
      /\ cursor2 \in Nat /\ mark2 <= cursor2 /\ cursor2 <= StringEnd(g, s, k)
      /\ StringText(s, cursor2, StringEnd(g, s, k))
      /\ source2 = s /\ Pushed(g, k)
  BY DEF Follows, AtString
<1>2. PICK e : e = StringEnd(g, s, k)
  OBVIOUS
<1>3. k # 1 /\ mark2 = Before(g, k) /\ k \in 1 .. Len(g)
  <2>1. PICK n \in Nat : n = Len(g)
    BY DEF Laid
  <2> QED
    BY <1>1, <2>1 DEF Before
<1>4. e \in Nat /\ mark2 \in Nat
  <2>1. Stands(g, s, k)
    BY <1>3, LaidAt
  <2> QED
    BY <1>2, <1>3, <2>1 DEF Stands, StringEnd
<1>5. PICK c, a, q : q = cursor2 /\ q \in Nat /\ c = s[q] /\ a = s[q + 1]
  BY <1>1
<1>6. StringStep(c, a)
  <2>1. c = source2[cursor2] /\ a = source2[cursor2 + 1]
    BY <1>1, <1>5
  <2> QED
    BY <2>1, ReadsString
<1>7. CASE q # e
  <2>1. StringText(s, q, e)
    BY <1>1, <1>2, <1>5
  <2>2. IF c = "\\" THEN a # NUL /\ q + 2 <= e /\ StringText(s, q + 2, e)
                    ELSE c \notin {"\"", NUL} /\ q + 1 <= e /\ StringText(s, q + 1, e)
    BY <1>4, <1>5, <1>7, <2>1, ReadRest
  <2>3. PICK r \in Nat : /\ q <= r /\ r <= e /\ StringText(s, r, e) /\ cursor2' = r
                         /\ UNCHANGED <<source2, mark2, mode2, lastTy2, tokens2>>
    <3>1. CASE c = "\\"
      <4>1. a # NUL /\ q + 2 <= e /\ StringText(s, q + 2, e)
        BY <2>2, <3>1
      <4>2. Advance2(2)
        BY <1>6, <3>1, <4>1, ClassesApart DEF StringStep
      <4>3. PICK r \in Nat : r = q + 2 /\ q <= r
        BY <1>5
      <4>4. cursor2' = r /\ UNCHANGED <<source2, mark2, mode2, lastTy2, tokens2>>
        BY <1>5, <4>2, <4>3 DEF Advance2
      <4> QED
        BY <4>1, <4>3, <4>4
    <3>2. CASE c # "\\"
      <4>1. c \notin {"\"", NUL} /\ q + 1 <= e /\ StringText(s, q + 1, e)
        BY <2>2, <3>2, Zenon
      <4>2. Advance2(1)
        BY <1>6, <3>2, <4>1 DEF StringStep
      <4>3. PICK r \in Nat : r = q + 1 /\ q <= r
        BY <1>5
      <4>4. cursor2' = r /\ UNCHANGED <<source2, mark2, mode2, lastTy2, tokens2>>
        BY <1>5, <4>2, <4>3 DEF Advance2
      <4> QED
        BY <4>1, <4>3, <4>4
    <3> QED
      BY <3>1, <3>2
  <2>4. AtString(g, s, k)'
    <3>1. PICK z : z = mark2
      OBVIOUS
    <3>2. mark2' = z /\ z <= r /\ z = g[k - 1].to
      BY <1>1, <1>4, <1>5, <2>3, <3>1
    <3>3. cursor2' = r /\ r <= StringEnd(g, s, k) /\ StringText(s, r, StringEnd(g, s, k))
      BY <1>2, <2>3
    <3> QED
      BY <1>1, <3>2, <3>3 DEF AtString
  <2>5. Pushed(g, k)' /\ source2' = s /\ mode2' = "string"
    BY <1>1, <2>3 DEF Pushed
  <2>6. Follows(g, s, k)'
    BY <2>4, <2>5 DEF Follows
  <2> QED
    BY <2>6 DEF Following
<1>8. CASE q = e
  <2>1. PICK m : Ending(g, s, k, m, e)
    <3>1. k \in 2 .. Len(g) /\ Glued(g, k) /\ mark2 = Before(g, k)
      BY <1>1, <1>3
    <3> QED
      BY <1>2, <3>1, StringEnding
  <2>2. m \in 1 .. Len(g) /\ Glued(g, m) /\ Before(g, m) = e
    BY <2>1 DEF Ending
  <2>3. PICK content : content = (IF e > mark2 THEN <<Token("IDENTIFIER", mark2, e)>> ELSE << >>)
    OBVIOUS
  <2>4. PICK quote : quote = (IF c = "\"" THEN <<Token("QUOTE", e, e + 1)>> ELSE << >>)
    OBVIOUS
  <2>5. c \in {"\"", NUL} \/ (c = "\\" /\ a = NUL)
    BY <1>5, <1>8, <2>1 DEF Ending
  <2>6. /\ tokens2' = tokens2 \o content \o quote /\ cursor2' = e + Len(quote)
        /\ lastTy2' = "QUOTE" /\ mode2' = "next" /\ source2' = s
    <3>1. ~(c \notin {"\"", "\\", NUL}) /\ ~(c = "\\" /\ a # NUL)
      BY <2>5, ClassesApart
    <3> QED
      BY <1>1, <1>5, <1>6, <1>8, <2>3, <2>4, <3>1 DEF StringStep
  <2>7. PICK t, u : t = Token("IDENTIFIER", mark2, e) /\ u = Token("QUOTE", e, e + 1)
    OBVIOUS
  <2>8. Holds(tokens2, g, k - 1)
    BY <1>1 DEF Pushed, Holds
  <2>9. Closed(tokens2, t, u, content, quote)
    <3>1. content = << >> \/ content = <<t>>
      BY <2>3, <2>7
    <3>2. quote = << >> \/ quote = <<u>>
      BY <2>4, <2>7
    <3>3. IsSequence(tokens2)
      BY <2>8 DEF Holds
    <3> QED
      BY <3>1, <3>2, <3>3, Closing
  <2>10. PICK us : us = tokens2 \o content
    OBVIOUS
  <2>11. Holds(us, g, m - 1)
    <3>1. CASE m = k /\ mark2 = e
      <4>1. content = << >>
        <5>1. ~ e > mark2
          BY <1>4, <3>1
        <5> QED
          BY <2>3, <5>1
      <4> QED
        BY <2>8, <2>9, <2>10, <3>1, <4>1 DEF Closed
    <3>2. CASE m = k + 1 /\ mark2 < e /\ g[k] = Token("IDENTIFIER", mark2, e)
      <4>1. content = <<t>> /\ t = g[k]
        <5>1. e > mark2
          BY <1>4, <3>2
        <5> QED
          BY <2>3, <2>7, <3>2, <5>1
      <4>2. us = Append(tokens2, g[k])
        BY <2>9, <2>10, <4>1 DEF Closed
      <4>3. Holds(us, g, k)
        <5>1. k \in Nat \ {0}
          BY <1>3
        <5> QED
          BY <2>8, <4>2, <5>1, PushOn
      <4>4. m - 1 = k
        BY <3>2
      <4> QED
        BY <4>3, <4>4
    <3> QED
      BY <2>1, <3>1, <3>2 DEF Ending
  <2>12. CASE m < Len(g) /\ IsQuote(s, g[m]) /\ g[m] = Token("QUOTE", e, e + 1) /\ s[e] = "\""
    <3>1. c = "\"" /\ quote = <<u>> /\ u = g[m]
      BY <1>5, <1>8, <2>4, <2>7, <2>12
    <3>2. tokens2' = Append(us, g[m])
      BY <2>6, <2>9, <2>10, <3>1 DEF Closed
    <3>3. cursor2' = e + 1
      <4>1. Len(<<u>>) = 1
        OBVIOUS
      <4> QED
        BY <2>6, <3>1, <4>1
    <3>4. m \in Nat \ {0} /\ m + 1 \in 1 .. Len(g) /\ Before(g, m + 1) = g[m].to /\ Len(g) \in Nat
      BY <2>2, <2>12, LaidLength
    <3>5. PICK ts : ts = tokens2' /\ Holds(ts, g, m)
      <4>1. PICK ts : ts = tokens2'
        OBVIOUS
      <4>2. Holds(ts, g, m)
        BY <2>11, <3>2, <3>4, <4>1, PushOn
      <4> QED
        BY <4>1, <4>2
    <3>6. g[m].type = "QUOTE" /\ g[m].to = e + 1
      <4>1. g[m] = Token("QUOTE", e, e + 1)
        BY <2>12
      <4> QED
        BY <4>1 DEF Token
    <3>7. ~Glued(g, m + 1)
      BY <2>2, <3>4, <3>6, GluedSteps
    <3>8. (m + 1) - 1 = m /\ m + 1 # 1 /\ m + 1 \in 1 .. Len(g) + 1 /\ m + 1 <= Len(g) /\ m + 1 \in Nat
      BY <3>4
    <3>9. Pushed(g, m + 1)'
      BY <3>5, <3>8 DEF Pushed, Holds
    <3>10. TypeBefore(g, m + 1) = "QUOTE"
      BY <3>6, <3>8 DEF TypeBefore
    <3>11. AtNext(g, s, m + 1)'
      BY <3>3, <3>4, <3>6, <3>7, <3>8 DEF AtNext
    <3>12. Follows(g, s, m + 1)'
      BY <2>6, <3>9, <3>10, <3>11 DEF Follows
    <3> QED
      BY <3>8, <3>12 DEF Following
  <2>13. CASE s[e] # "\"" /\ (m < Len(g) => IsTorn(s, g[m]))
    <3>1. quote = << >>
      BY <1>5, <1>8, <2>4, <2>13
    <3>2. tokens2' = us
      BY <2>6, <2>9, <2>10, <3>1 DEF Closed
    <3>3. cursor2' = e
      <4>1. Len(<< >>) = 0
        OBVIOUS
      <4> QED
        BY <1>4, <2>6, <3>1, <4>1
    <3>4. m \in Nat /\ m \in 1 .. Len(g) + 1 /\ m <= Len(g)
      <4>1. Len(g) \in Nat /\ m \in Nat \ {0} /\ m <= Len(g)
        BY <2>2, LaidLength
      <4> QED
        BY <4>1
    <3>5. Pushed(g, m)'
      BY <2>11, <3>2, <3>4 DEF Pushed, Holds
    <3>6. AtNext(g, s, m)'
      BY <2>2, <2>13, <3>3, <3>4 DEF AtNext
    <3>7. Follows(g, s, m)'
      BY <2>2, <2>6, <3>5, <3>6 DEF Follows
    <3> QED
      BY <3>4, <3>7 DEF Following
  <2>14. NUL # "\"" /\ "\\" # "\""
    BY ClassesApart
  <2>15. s[e] = NUL => ~(m < Len(g)) \/ IsTorn(s, g[m])
    <3>1. CASE m = Len(g)
      <4>1. Len(g) \in Nat
        BY DEF Laid
      <4> QED
        BY <3>1, <4>1
    <3>2. CASE m # Len(g)
      BY <2>1, <2>14, <3>2 DEF Ending
    <3> QED
      BY <3>1, <3>2
  <2> QED
    BY <2>1, <2>12, <2>13, <2>14, <2>15 DEF Ending
<1> QED
  BY <1>7, <1>8

\* The tokens of the text laid out are the ones the second lexer pushes.
LEMMA FollowsOn ==
  ASSUME NEW g, NEW s, Laid(g, s), Following(g, s), Again!Next
  PROVE  Following(g, s)'
<1>1. PICK k \in Nat : Follows(g, s, k)
  BY DEF Following
<1>2. mode2 # "done"
  BY DEF Again!Next, Again!SkipBlank, Again!StartWord, Again!WordChar, Again!EndWord,
         Again!StartNumber, Again!StartSigned, Again!NumberChar, Again!StartFraction, Again!EndNumber,
         Again!OpenString, Again!StringChar, Again!Escape, Again!CloseString,
         Again!StartComment, Again!CommentChar, Again!EndComment,
         Again!Operator, Again!Invalid, Again!Finish
<1>3. mode2 \in {"next", "word", "number", "fraction", "string"}
  BY <1>1, <1>2 DEF Follows
<1> QED
  BY <1>1, <1>3, FollowNext, FollowWord, FollowNumber, FollowFraction, FollowString

\* The first lexer keeps its invariants, and the second follows the tokens of
\* the text that is laid out when the first is done.
SecondLexer ==
  IF mode2 = "idle"
    THEN cursor2 = 1 /\ lastTy2 = "EOF" /\ tokens2 = << >>
    ELSE mode = "done" /\ \E g : Laid(g, source2) /\ Following(g, source2)

LayoutInv == IInv /\ LInv /\ SecondLexer

\* The invariant holds at the start.
LEMMA LayoutInitial == LayoutInit => LayoutInv
<1> SUFFICES ASSUME LayoutInit PROVE LayoutInv
  OBVIOUS
<1>1. IInv /\ LInv
  BY LInitial, Starts DEF LayoutInit
<1> QED
  BY <1>1 DEF LayoutInit, LayoutInv, SecondLexer

\* Every step of either lexer keeps it.
LEMMA LayoutSteps == LayoutInv /\ [LayoutNext]_<<vars, vars2>> => LayoutInv'
<1> SUFFICES ASSUME LayoutInv, [LayoutNext]_<<vars, vars2>> PROVE LayoutInv'
  OBVIOUS
<1>1. [Next]_vars
  BY DEF LayoutNext, LexAgain
<1>2. IInv' /\ LInv'
  BY <1>1, Steps, Shapes DEF LayoutInv
<1>3. SecondLexer'
  <2>1. CASE Next /\ UNCHANGED vars2
    <3>1. mode # "done"
      BY <2>1 DEF Next, SkipBlank, StartWord, WordChar, EndWord, StartNumber, StartSigned, NumberChar,
         StartFraction, EndNumber, OpenString, StringChar, Escape, CloseString, StartComment,
         CommentChar, EndComment, Operator, Invalid, Finish
    <3> QED
      BY <2>1, <3>1 DEF LayoutInv, SecondLexer, vars2
  <2>2. CASE LexAgain
    <3>1. /\ mode = "done" /\ mode2 = "idle" /\ source2' = Respaced \o <<NUL>> /\ mode2' = "next"
          /\ UNCHANGED <<cursor2, lastTy2, tokens2>> /\ UNCHANGED vars
      BY <2>2 DEF LexAgain
    <3>2. PICK s : s = Respaced \o <<NUL>>
      OBVIOUS
    <3>3. PICK g : Laid(g, s)
      BY <3>1, <3>2, LaidOut DEF LayoutInv
    <3>4. cursor2' = 1 /\ lastTy2' = "EOF" /\ tokens2' = << >>
      BY <3>1 DEF LayoutInv, SecondLexer
    <3>5. Len(g) \in Nat \ {0} /\ 1 \in 1 .. Len(g)
      <4>1. Len(g) \in Nat \ {0}
        BY <3>3 DEF Laid
      <4> QED
        BY <4>1
    <3>6. ~Glued(g, 1) /\ Before(g, 1) = 1 /\ TypeBefore(g, 1) = "EOF"
      BY GluedSteps DEF Before, TypeBefore
    <3>7. Pushed(g, 1)'
      <4>1. (IsSequence(tokens2) /\ Len(tokens2) = 1 - 1)'
        BY <3>4, EmptySeq DEF IsSequence
      <4>2. \A j \in 1 .. 1 - 1 : FALSE
        OBVIOUS
      <4>3. 1 \in 1 .. Len(g) + 1
        BY <3>5
      <4> QED
        BY <4>1, <4>2, <4>3 DEF Pushed
    <3>8. AtNext(g, s, 1)'
      BY <3>4, <3>5, <3>6 DEF AtNext
    <3>9. Follows(g, s, 1)'
      BY <3>1, <3>2, <3>4, <3>6, <3>7, <3>8 DEF Follows
    <3>10. Following(g, s)'
      BY <3>9 DEF Following
    <3>11. source2' = s /\ mode' = "done" /\ mode2' # "idle"
      BY <3>1, <3>2 DEF vars
    <3>12. Laid(g, s)'
      BY <3>1, <3>3 DEF vars, Laid, Read
    <3> QED
      BY <3>10, <3>11, <3>12 DEF SecondLexer
  <2>3. CASE mode2 # "idle" /\ Again!Next /\ UNCHANGED vars
    <3>1. PICK g, s : s = source2 /\ Laid(g, s) /\ Following(g, s)
      BY <2>3 DEF LayoutInv, SecondLexer
    <3>2. Following(g, s)'
      BY <2>3, <3>1, FollowsOn
    <3>3. PICK k : Follows(g, s, k)'
      BY <3>2 DEF Following
    <3>4. source2' = s /\ mode2' # "idle" /\ mode' = "done"
      <4>1. mode' = "done"
        BY <2>3 DEF vars, LayoutInv, SecondLexer
      <4> QED
        BY <3>3, <4>1 DEF Follows
    <3>5. Laid(g, s)'
      BY <2>3, <3>1 DEF vars, Laid, Read
    <3> QED
      BY <3>2, <3>4, <3>5 DEF SecondLexer
  <2>4. CASE UNCHANGED <<vars, vars2>>
    <3>1. UNCHANGED vars /\ UNCHANGED vars2
      BY <2>4
    <3>2. CASE mode2 = "idle"
      BY <3>1, <3>2 DEF vars2, LayoutInv, SecondLexer
    <3>3. CASE mode2 # "idle"
      <4>1. PICK g, s : s = source2 /\ Laid(g, s) /\ Following(g, s) /\ mode = "done"
        BY <3>3 DEF LayoutInv, SecondLexer
      <4>2. Laid(g, s)'
        BY <3>1, <4>1 DEF vars, Laid, Read
      <4>3. Following(g, s)'
        <5>1. PICK k \in Nat : Follows(g, s, k)
          BY <4>1 DEF Following
        <5>2. Follows(g, s, k)'
          BY <3>1, <5>1 DEF vars2, Follows, Pushed, AtNext, AtText, AtWord, AtNumber, AtFraction, AtString
        <5> QED
          BY <5>2 DEF Following
      <4>4. source2' = s /\ mode2' # "idle" /\ mode' = "done"
        BY <3>1, <3>3, <4>1 DEF vars, vars2
      <4> QED
        BY <4>2, <4>3, <4>4 DEF SecondLexer
    <3> QED
      BY <3>2, <3>3
  <2> QED
    BY <2>1, <2>2, <2>3, <2>4 DEF LayoutNext
<1> QED
  BY <1>2, <1>3 DEF LayoutInv

\* When the second lexer is done it has read what the first has.
LEMMA LayoutMeans == LayoutInv => LayoutFree
<1> SUFFICES ASSUME LayoutInv, mode2 = "done" PROVE Read(tokens2, source2) = Read(tokens, source)
  BY DEF LayoutFree
<1>1. PICK g, s : s = source2 /\ Laid(g, s) /\ Following(g, s)
  BY DEF LayoutInv, SecondLexer
<1>2. PICK k \in Nat : Follows(g, s, k)
  BY <1>1 DEF Following
<1>3. k = Len(g) + 1 /\ Pushed(g, k) /\ Len(g) \in Nat
  BY <1>1, <1>2 DEF Follows, Laid
<1>4. Len(tokens2) = Len(g) /\ \A j \in 1 .. Len(g) : tokens2[j] = g[j]
  BY <1>3 DEF Pushed
<1>5. Read(tokens2, s) = Read(g, s)
  BY <1>4 DEF Read
<1> QED
  BY <1>1, <1>5 DEF Laid

\* Layout means nothing: whatever the text, what the longest match makes of it
\* is what it makes of its tokens written one blank apart.
THEOREM LayoutSound == LayoutSpec => []LayoutFree
<1>1. LayoutInv /\ [LayoutNext]_<<vars, vars2>> => LayoutInv'
  BY LayoutSteps
<1> QED
  BY LayoutInitial, <1>1, LayoutMeans, PTL DEF LayoutSpec

=============================================================================
