---------------------------- MODULE PrattProofs ----------------------------
(***************************************************************************)
(* For any equation, any variables and any number of slots: the parser     *)
(* accepts and refuses what it should, collect_steps lists the steps in an *)
(* order in which they can be carried out, a Context keeps one slot for    *)
(* each of its names, the result is what the equation is worth, and an     *)
(* equation is grouped the way it was meant when it was written.           *)
(***************************************************************************)
EXTENDS PrattMeaning, SequenceFacts

Kinds == {"num", "var", "error", "(", ")"} \cup Op

TokensOK == IsSequence(tokens) /\ \A i \in 1 .. Len(tokens) : tokens[i][1] \in Kinds

\* The min_bp that a call of this kind is made with.
Binding(kind) == CASE kind = "(" -> 0 [] kind = "neg" -> 10 [] OTHER -> rbp(kind)

\* The min_bp of the call above the first k frames.
MinOf(k) == IF k = 0 THEN 0 ELSE Binding(frames[k].kind)

\* A waiting call of expr keeps the min_bp the call before it in the stack gave it.
CallsOK ==
  mode \in {"operand", "loop"} =>
    /\ \A k \in 1 .. Len(frames) :
         frames[k].kind \in {"(", "neg"} \cup Op /\ frames[k].min = MinOf(k - 1)
    /\ min = MinOf(Len(frames))

Unclosed == {k \in 1 .. Len(frames) : frames[k].kind = "("}

\* What is read so far can be the beginning of an equation; each parenthesis
\* that is still open has its call.
ReadOK ==
  mode \in {"operand", "loop"} =>
    /\ pos \in 1 .. Len(tokens) + 1
    /\ \A i \in 1 .. pos - 1 : Depth(i) >= 0 /\ Alternates(i)
    /\ Depth(pos - 1) = Cardinality(Unclosed)
    /\ mode = "loop" <=> EndsOperand(pos - 1)

Before ==
  /\ mode \in {"vars", "lexed"} => frames = << >> /\ min = 0
  /\ mode = "lexed" => pos = 1

ParseInv == TokensOK /\ IsSequence(frames) /\ Before /\ CallsOK /\ ReadOK /\ VerdictRight

---------------------------------------------------------------------------
(* Tokens and operators *)

LEMMA Symbols ==
  /\ "(" \notin Op /\ ")" \notin Op /\ "num" \notin Op /\ "var" \notin Op /\ "error" \notin Op
  /\ "end" \notin Op /\ "neg" \notin Op /\ "left" \notin Op /\ "-" \in Op
BY DEF Op

LEMMA Bindings ==
  ASSUME NEW t
  PROVE  /\ lbp(t) \in Nat /\ (lbp(t) > 0 <=> t \in Op)
         /\ t \in Op => rbp(t) \in Nat
BY DEF lbp, rbp, Op

LEMMA LexKinds ==
  ASSUME NEW lexeme
  PROVE  Lex(lexeme)[1] \in Kinds
<1>1. CASE lexeme \in Numbers
  BY <1>1 DEF Lex, Kinds
<1>2. CASE lexeme \notin Numbers /\ lexeme \in Names
  BY <1>2 DEF Lex, Kinds
<1>3. CASE lexeme \notin Numbers /\ lexeme \notin Names /\ lexeme \in Op \cup {"(", ")"}
  BY <1>3 DEF Lex, Kinds
<1>4. CASE lexeme \notin Numbers /\ lexeme \notin Names /\ lexeme \notin Op \cup {"(", ")"}
  BY <1>4 DEF Lex, Kinds
<1> QED
  BY <1>1, <1>2, <1>3, <1>4

\* One token more.
LEMMA OneToken ==
  ASSUME NEW kind, NEW n \in Nat
  PROVE  /\ IsFiniteSet(OfKind(kind, n)) /\ Cardinality(OfKind(kind, n)) \in Nat
         /\ Cardinality(OfKind(kind, 0)) = 0
         /\ Cardinality(OfKind(kind, n + 1)) =
              Cardinality(OfKind(kind, n)) + IF tokens[n + 1][1] = kind THEN 1 ELSE 0
<1>1. IsFiniteSet(1 .. n)
  BY FS_Interval
<1>2. IsFiniteSet(OfKind(kind, n))
  BY <1>1, FS_Subset DEF OfKind
<1>3. Cardinality(OfKind(kind, n)) \in Nat
  BY <1>2, FS_CardinalityType
<1>4. OfKind(kind, 0) = {}
  BY DEF OfKind
<1>5. CASE tokens[n + 1][1] = kind
  <2>1. OfKind(kind, n + 1) = OfKind(kind, n) \cup {n + 1} /\ n + 1 \notin OfKind(kind, n)
    BY <1>5 DEF OfKind
  <2>2. Cardinality(OfKind(kind, n + 1)) = Cardinality(OfKind(kind, n)) + 1
    BY <1>2, <2>1, FS_AddElement
  <2> QED
    BY <1>2, <1>3, <1>4, <1>5, <2>2, FS_EmptySet
<1>6. CASE tokens[n + 1][1] # kind
  <2>1. OfKind(kind, n + 1) = OfKind(kind, n)
    BY <1>6 DEF OfKind
  <2> QED
    BY <1>2, <1>3, <1>4, <1>6, <2>1, FS_EmptySet
<1> QED
  BY <1>5, <1>6

LEMMA OneDeeper ==
  ASSUME NEW n \in Nat
  PROVE  /\ Depth(n) \in Int /\ Depth(0) = 0
         /\ Depth(n + 1) = Depth(n) + (IF tokens[n + 1][1] = "(" THEN 1
                                       ELSE IF tokens[n + 1][1] = ")" THEN -1 ELSE 0)
<1>1. /\ Cardinality(OfKind("(", n)) \in Nat /\ Cardinality(OfKind(")", n)) \in Nat
      /\ Cardinality(OfKind("(", 0)) = 0 /\ Cardinality(OfKind(")", 0)) = 0
      /\ Cardinality(OfKind("(", n + 1)) =
           Cardinality(OfKind("(", n)) + IF tokens[n + 1][1] = "(" THEN 1 ELSE 0
      /\ Cardinality(OfKind(")", n + 1)) =
           Cardinality(OfKind(")", n)) + IF tokens[n + 1][1] = ")" THEN 1 ELSE 0
  BY OneToken
<1> QED
  BY <1>1 DEF Depth

\* The tokens stay as they are, and so does all that is said of them.
LEMMA SameTokens ==
  ASSUME tokens' = tokens, NEW n
  PROVE  /\ Depth(n)' = Depth(n) /\ (EndsOperand(n)' <=> EndsOperand(n))
         /\ (Alternates(n)' <=> Alternates(n)) /\ (WellFormed(n)' <=> WellFormed(n))
BY DEF Depth, OfKind, EndsOperand, Alternates, WellFormed

---------------------------------------------------------------------------
(* The stack *)

LEMMA FrontFacts ==
  ASSUME NEW s, IsSequence(s), s # << >>
  PROVE  /\ IsSequence(Front(s)) /\ Len(s) \in Nat \ {0} /\ Len(Front(s)) = Len(s) - 1
         /\ \A k \in 1 .. Len(s) - 1 : Front(s)[k] = s[k]
<1>1. Len(s) \in Nat \ {0}
  BY IsSequenceFacts, EmptySeq
<1>2. 1 \in 1 .. Len(s) + 1 /\ Len(s) - 1 \in 0 .. Len(s)
  BY <1>1
<1>3. PICK m \in 0 .. Len(s) : m = Len(s) - 1
  BY <1>2
<1>4. /\ IsSequence(SubSeq(s, 1, m)) /\ Len(SubSeq(s, 1, m)) = (IF 1 <= m THEN m - 1 + 1 ELSE 0)
      /\ \A k \in 1 .. m - 1 + 1 : SubSeq(s, 1, m)[k] = s[1 + k - 1]
  BY <1>2, SubSeqFacts
<1>5. Front(s) = SubSeq(s, 1, m)
  BY <1>3 DEF Front
<1> QED
  BY <1>1, <1>3, <1>4, <1>5

\* A call of expr is made: its caller waits in a new frame.
LEMMA Pushed ==
  ASSUME NEW kind \in {"(", "neg"} \cup Op, NEW lhs, IsSequence(frames), CallsOK,
         mode \in {"operand", "loop"},
         frames' = Append(frames, Frame(kind, lhs)), min' = Binding(kind)
  PROVE  /\ IsSequence(frames)' /\ CallsOK'
         /\ Cardinality(Unclosed)' \in Nat
         /\ Cardinality(Unclosed)' = Cardinality(Unclosed) + IF kind = "(" THEN 1 ELSE 0
<1>0. PICK n \in Nat : n = Len(frames)
  BY IsSequenceFacts
<1>1. /\ IsSequence(frames)' /\ Len(frames') = n + 1
      /\ \A k \in 1 .. n : frames'[k] = frames[k]
      /\ frames'[n + 1] = Frame(kind, lhs)
  BY <1>0, AppendFacts
<1>2. /\ frames'[n + 1].kind = kind /\ frames'[n + 1].min = MinOf(n)
  BY <1>0, <1>1 DEF Frame, CallsOK
<1>3. ASSUME NEW k \in 0 .. n PROVE MinOf(k)' = MinOf(k)
  BY <1>1, <1>3 DEF MinOf
<1>4. MinOf(n + 1)' = Binding(kind)
  BY <1>1, <1>2 DEF MinOf
<1>5. \A k \in 1 .. n : frames[k].kind \in {"(", "neg"} \cup Op /\ frames[k].min = MinOf(k - 1)
  BY <1>0 DEF CallsOK
<1>6. ASSUME NEW k \in 1 .. n + 1
      PROVE  frames'[k].kind \in {"(", "neg"} \cup Op /\ frames'[k].min = MinOf(k - 1)'
  <2>1. CASE k \in 1 .. n
    BY <1>1, <1>3, <1>5, <2>1
  <2>2. CASE k = n + 1
    BY <1>1, <1>2, <1>3, <2>2
  <2> QED
    BY <1>1, <2>1, <2>2
<1>7. CallsOK'
  BY <1>1, <1>4, <1>6 DEF CallsOK
<1>8. IsFiniteSet(Unclosed) /\ n + 1 \notin Unclosed
  <2>1. IsFiniteSet(1 .. n)
    BY <1>1, FS_Interval
  <2> QED
    BY <1>0, <2>1, FS_Subset DEF Unclosed
<1>9. Cardinality(Unclosed) \in Nat
  BY <1>8, FS_CardinalityType
<1>10. Unclosed' = IF kind = "(" THEN Unclosed \cup {n + 1} ELSE Unclosed
  BY <1>0, <1>1, <1>2 DEF Unclosed
<1>11. CASE kind = "("
  <2>1. Cardinality(Unclosed \cup {n + 1}) = Cardinality(Unclosed) + 1
    BY <1>8, FS_AddElement
  <2> QED
    BY <1>1, <1>7, <1>9, <1>10, <1>11, <2>1
<1>12. CASE kind # "("
  BY <1>1, <1>7, <1>9, <1>10, <1>12
<1> QED
  BY <1>11, <1>12

\* A call of expr returns: the last frame is gone.
LEMMA Popped ==
  ASSUME IsSequence(frames), CallsOK, mode \in {"operand", "loop"}, frames # << >>,
         frames' = Front(frames), min' = Last(frames).min
  PROVE  /\ IsSequence(frames)' /\ CallsOK'
         /\ Cardinality(Unclosed)' \in Nat
         /\ Cardinality(Unclosed)' =
              Cardinality(Unclosed) - IF Last(frames).kind = "(" THEN 1 ELSE 0
<1>0. PICK n \in Nat \ {0} : n = Len(frames)
  BY FrontFacts
<1>1. /\ IsSequence(frames)' /\ Len(frames') = n - 1
      /\ \A k \in 1 .. n - 1 : frames'[k] = frames[k]
      /\ Last(frames) = frames[n]
  BY <1>0, FrontFacts DEF Last
<1>2. ASSUME NEW k \in 0 .. n - 1 PROVE MinOf(k)' = MinOf(k)
  BY <1>1, <1>2 DEF MinOf
<1>3. \A k \in 1 .. n : frames[k].kind \in {"(", "neg"} \cup Op /\ frames[k].min = MinOf(k - 1)
  BY <1>0 DEF CallsOK
<1>4. ASSUME NEW k \in 1 .. n - 1
      PROVE  frames'[k].kind \in {"(", "neg"} \cup Op /\ frames'[k].min = MinOf(k - 1)'
  BY <1>1, <1>2, <1>3
<1>5. min' = MinOf(n - 1)'
  BY <1>1, <1>2, <1>3
<1>6. CallsOK'
  BY <1>1, <1>4, <1>5 DEF CallsOK
<1>7. IsFiniteSet(Unclosed)
  <2>1. IsFiniteSet(1 .. n)
    BY <1>1, FS_Interval
  <2> QED
    BY <1>0, <2>1, FS_Subset DEF Unclosed
<1>8. Unclosed' = Unclosed \ {n} /\ (n \in Unclosed <=> Last(frames).kind = "(")
  BY <1>0, <1>1 DEF Unclosed
<1>9. /\ IsFiniteSet(Unclosed \ {n})
      /\ Cardinality(Unclosed \ {n}) = IF n \in Unclosed THEN Cardinality(Unclosed) - 1 ELSE Cardinality(Unclosed)
  BY <1>7, FS_RemoveElement
<1>10. Cardinality(Unclosed) \in Nat /\ Cardinality(Unclosed \ {n}) \in Nat
  BY <1>7, <1>9, FS_CardinalityType
<1>11. Cardinality(Unclosed \ {n}) = Cardinality(Unclosed) - IF Last(frames).kind = "(" THEN 1 ELSE 0
  BY <1>8, <1>9, <1>10
<1> QED
  BY <1>1, <1>6, <1>8, <1>10, <1>11

---------------------------------------------------------------------------
(* What is read *)

\* A token that may stand where it stands is read.
LEMMA Eaten ==
  ASSUME ReadOK, mode \in {"operand", "loop"}, tokens' = tokens,
         pos \in 1 .. Len(tokens), pos' = pos + 1, Alternates(pos), Cardinality(Unclosed)' \in Nat,
         mode' \in {"operand", "loop"}, mode' = "loop" <=> EndsOperand(pos),
         Cardinality(Unclosed)' =
           Cardinality(Unclosed) + (IF tokens[pos][1] = "(" THEN 1
                                    ELSE IF tokens[pos][1] = ")" THEN -1 ELSE 0)
  PROVE  ReadOK'
<1>0. PICK m \in 1 .. Len(tokens) : m = pos
  OBVIOUS
<1>1. Depth(m) = Cardinality(Unclosed)'
  <2>1. pos - 1 \in Nat /\ (pos - 1) + 1 = pos
    OBVIOUS
  <2>2. PICK n \in Nat : n = pos - 1 /\ n + 1 = pos
    BY <2>1
  <2>3. Depth(n + 1) = Depth(n) + (IF tokens[n + 1][1] = "(" THEN 1
                                   ELSE IF tokens[n + 1][1] = ")" THEN -1 ELSE 0)
    BY OneDeeper
  <2>4. Depth(n) = Cardinality(Unclosed)
    BY <2>2 DEF ReadOK
  <2> QED
    BY <1>0, <2>2, <2>3, <2>4
<1>2. pos' - 1 = m /\ pos' \in 1 .. Len(tokens') + 1
  BY <1>0
<1>3. \A i \in 1 .. m : Depth(i) >= 0 /\ Alternates(i)
  <2>0. Depth(m) >= 0
    BY <1>1
  <2>1. \A i \in 1 .. pos - 1 : Depth(i) >= 0 /\ Alternates(i)
    BY DEF ReadOK
  <2> QED
    BY <1>0, <2>0, <2>1
<1>4. \A i \in 1 .. m : Depth(i)' >= 0 /\ Alternates(i)'
  BY <1>3, SameTokens
<1>5. Depth(m)' = Depth(m) /\ (EndsOperand(m)' <=> EndsOperand(m))
  BY SameTokens
<1>6. Depth(pos - 1)' = Depth(m)' /\ (EndsOperand(pos - 1)' <=> EndsOperand(m)')
  BY <1>2 DEF Depth, OfKind, EndsOperand
<1> QED
  BY <1>0, <1>1, <1>2, <1>4, <1>5 DEF ReadOK

LEMMA SameVerdict ==
  ASSUME tokens' = tokens
  PROVE  WellFormed(Len(tokens))' <=> WellFormed(Len(tokens))
<1>1. PICK n : n = Len(tokens)
  OBVIOUS
<1>2. WellFormed(n)' <=> WellFormed(n)
  BY SameTokens
<1>3. WellFormed(Len(tokens))' <=> WellFormed(n)'
  BY <1>1 DEF WellFormed, Depth, OfKind, EndsOperand, Alternates
<1> QED
  BY <1>1, <1>2, <1>3

LEMMA SameReading ==
  ASSUME tokens' = tokens, pos' = pos, mode' = mode, ReadOK,
         Cardinality(Unclosed)' = Cardinality(Unclosed)
  PROVE  ReadOK'
<1>1. PICK m : m = pos
  OBVIOUS
<1> SUFFICES ASSUME mode \in {"operand", "loop"} PROVE ReadOK'
  BY DEF ReadOK
<1>2. /\ m \in 1 .. Len(tokens) + 1 /\ Depth(m - 1) = Cardinality(Unclosed)
      /\ mode = "loop" <=> EndsOperand(m - 1)
      /\ \A i \in 1 .. m - 1 : Depth(i) >= 0 /\ Alternates(i)
  BY <1>1 DEF ReadOK
<1>3. \A i \in 1 .. m - 1 : Depth(i)' >= 0 /\ Alternates(i)'
  BY <1>2, SameTokens
<1>4. PICK n : n = m - 1
  OBVIOUS
<1>5. Depth(n)' = Depth(n) /\ (EndsOperand(n)' <=> EndsOperand(n))
  BY SameTokens
<1>6. Depth(pos - 1)' = Depth(n)' /\ (EndsOperand(pos - 1)' <=> EndsOperand(n)')
  BY <1>1, <1>4 DEF Depth, OfKind, EndsOperand
<1> QED
  BY <1>1, <1>2, <1>3, <1>4, <1>5, <1>6 DEF ReadOK

\* What stops the parser is no equation.
LEMMA Refused ==
  ASSUME TokensOK, ReadOK, mode \in {"operand", "loop"},
         pos <= Len(tokens) => ~Alternates(pos),
         pos = Len(tokens) + 1 => ~EndsOperand(Len(tokens)) \/ Depth(Len(tokens)) # 0
  PROVE  ~WellFormed(Len(tokens))
<1>1. pos \in 1 .. Len(tokens) + 1 /\ Len(tokens) \in Nat
  BY IsSequenceFacts DEF ReadOK, TokensOK
<1>2. CASE pos \in 1 .. Len(tokens)
  BY <1>2 DEF WellFormed
<1>3. CASE pos = Len(tokens) + 1
  BY <1>3 DEF WellFormed
<1> QED
  BY <1>1, <1>2, <1>3

LEMMA NoCalls ==
  ASSUME frames = << >>
  PROVE  Len(frames) = 0 /\ IsSequence(frames) /\ Unclosed = {} /\ Cardinality(Unclosed) = 0
<1>1. Len(frames) = 0 /\ frames \in Seq({})
  BY EmptySeq
<1>2. IsSequence(frames)
  BY <1>1, IsSequenceOf
<1>3. Unclosed = {}
  BY <1>1 DEF Unclosed
<1> QED
  BY <1>1, <1>2, <1>3, FS_EmptySet

LEMMA ParseInit == Init => ParseInv
<1> SUFFICES ASSUME Init PROVE ParseInv
  OBVIOUS
<1>1. PICK eq \in Equations : tokens = [i \in 1 .. Len(eq) |-> Lex(eq[i])]
  BY DEF Init
<1>2. Len(eq) \in Nat
  BY PrattAssumption
<1>3. PICK n \in Nat : n = Len(eq)
  BY <1>2
<1>4. tokens = [i \in 1 .. n |-> tokens[i]]
  BY <1>1, <1>3
<1>5. IsSequence(tokens) /\ Len(tokens) = n
  BY <1>4, IsSequenceFunction
<1>6. \A i \in 1 .. n : tokens[i][1] \in Kinds
  BY <1>1, <1>3, LexKinds
<1> QED
  BY <1>5, <1>6, NoCalls DEF Init, ParseInv, TokensOK, Before, CallsOK, ReadOK, VerdictRight

\* Once the equation is read, nothing of it changes.
LEMMA Walked ==
  ASSUME ParseInv, tokens' = tokens, pos' = pos, IsSequence(frames)',
         mode \in {"collect", "collected", "done", "failed"},
         mode' \in {"collect", "collected", "done", "failed"}
  PROVE  ParseInv'
<1>1. WellFormed(pos - 1)
  BY DEF ParseInv, VerdictRight
<1>2. PICK n : n = pos - 1
  OBVIOUS
<1>3. WellFormed(n)'
  BY <1>1, <1>2, SameTokens
<1>4. WellFormed(pos - 1)'
  BY <1>2, <1>3 DEF WellFormed, Depth, OfKind, EndsOperand, Alternates
<1> QED
  BY <1>4 DEF ParseInv, TokensOK, Before, CallsOK, ReadOK, VerdictRight

\* The token at pos, where there is one.
LEMMA Peeked ==
  ASSUME TokensOK, ReadOK, mode \in {"operand", "loop"}
  PROVE  /\ Peek # "end" => pos \in 1 .. Len(tokens) /\ tokens[pos][1] = Peek
         /\ Peek = "end" => pos = Len(tokens) + 1
<1>1. "end" \notin Kinds
  BY DEF Kinds, Op
<1>2. pos \in 1 .. Len(tokens) + 1 /\ Len(tokens) \in Nat
  BY IsSequenceFacts DEF TokensOK, ReadOK
<1>3. CASE pos \in 1 .. Len(tokens)
  BY <1>1, <1>2, <1>3 DEF Peek, TokensOK
<1>4. CASE pos = Len(tokens) + 1
  BY <1>2, <1>4 DEF Peek
<1> QED
  BY <1>2, <1>3, <1>4

LEMMA MinNatural ==
  ASSUME IsSequence(frames), CallsOK, mode \in {"operand", "loop"}
  PROVE  min \in Nat
<1>1. PICK n \in Nat : n = Len(frames)
  BY IsSequenceFacts
<1>2. n = 0 \/ frames[n].kind \in {"(", "neg"} \cup Op
  BY <1>1 DEF CallsOK
<1>3. min = MinOf(n)
  BY <1>1 DEF CallsOK
<1> QED
  BY <1>2, <1>3, Bindings DEF MinOf, Binding

LEMMA NoCallsBelow ==
  ASSUME IsSequence(frames), CallsOK, mode \in {"operand", "loop"}, frames # << >>,
         Last(frames).kind = "("
  PROVE  min = 0
<1>1. Len(frames) \in Nat \ {0}
  BY FrontFacts
<1> QED
  BY <1>1 DEF CallsOK, MinOf, Binding, Last

LEMMA OpenCall ==
  ASSUME IsSequence(frames)
  PROVE  /\ Cardinality(Unclosed) \in Nat
         /\ frames # << >> /\ Last(frames).kind = "(" => Cardinality(Unclosed) # 0
<1>1. Len(frames) \in Nat
  BY IsSequenceFacts
<1>2. IsFiniteSet(1 .. Len(frames))
  BY <1>1, FS_Interval
<1>3. IsFiniteSet(Unclosed)
  BY <1>2, FS_Subset DEF Unclosed
<1>4. frames # << >> /\ Last(frames).kind = "(" => Unclosed # {}
  <2> SUFFICES ASSUME frames # << >>, Last(frames).kind = "(" PROVE Unclosed # {}
    OBVIOUS
  <2>1. Len(frames) \in 1 .. Len(frames)
    BY FrontFacts
  <2> QED
    BY <2>1 DEF Unclosed, Last
<1> QED
  BY <1>3, <1>4, FS_CardinalityType, FS_EmptySet

LEMMA ParseNext == ParseInv /\ [Next]_vars => ParseInv'
<1> SUFFICES ASSUME ParseInv, [Next]_vars PROVE ParseInv'
  OBVIOUS
<1>0. /\ TokensOK /\ IsSequence(frames) /\ Before /\ CallsOK /\ ReadOK /\ VerdictRight
      /\ Len(tokens) \in Nat /\ Len(frames) \in Nat
  BY IsSequenceFacts DEF ParseInv, TokensOK
<1>1. ASSUME ParseVar PROVE ParseInv'
  BY <1>0, <1>1 DEF ParseVar, ParseInv, TokensOK, Before, CallsOK, ReadOK, VerdictRight
<1>2. ASSUME VarsParsed PROVE ParseInv'
  BY <1>0, <1>2 DEF VarsParsed, ParseInv, TokensOK, Before, CallsOK, ReadOK, VerdictRight
<1>3. ASSUME StartExpr PROVE ParseInv'
  <2>1. /\ mode = "lexed" /\ pos = 1 /\ frames = << >> /\ min = 0
        /\ tokens' = tokens /\ pos' = pos /\ frames' = frames /\ min' = min
    BY <1>0, <1>3 DEF StartExpr, Before
  <2>2. TokensOK' /\ IsSequence(frames)' /\ (frames' = << >>)
    BY <1>0, <2>1 DEF TokensOK
  <2>3. CASE mode' = "refused"
    <3>1. PICK i \in 1 .. Len(tokens) : tokens[i][1] = "error"
      BY <1>3, <2>3 DEF StartExpr
    <3>2. ~WellFormed(Len(tokens))
      BY <3>1, Symbols DEF WellFormed, Alternates
    <3>3. ~WellFormed(Len(tokens))'
      BY <2>1, <3>2, SameVerdict
    <3> QED
      BY <2>2, <2>3, <3>3 DEF ParseInv, Before, CallsOK, ReadOK, VerdictRight
  <2>4. CASE mode' = "operand"
    <3>1. Len(frames') = 0 /\ Cardinality(Unclosed)' = 0
      <4>1. Len(frames) = 0 /\ Cardinality(Unclosed) = 0
        BY <2>1, NoCalls
      <4> QED
        BY <2>1, <4>1 DEF Unclosed
    <3>2. CallsOK'
      BY <2>1, <2>4, <3>1 DEF CallsOK, MinOf
    <3>3. Depth(0) = 0
      BY OneDeeper
    <3>4. Depth(pos - 1)' = 0
      BY <2>1, <3>3 DEF Depth, OfKind
    <3>5. ReadOK'
      BY <1>0, <2>1, <2>4, <3>1, <3>4 DEF ReadOK, EndsOperand
    <3> QED
      BY <2>2, <2>4, <3>2, <3>5 DEF ParseInv, Before, VerdictRight
  <2> QED
    BY <1>3, <2>3, <2>4 DEF StartExpr
<1>4. ASSUME EatOperand PROVE ParseInv'
  <2>1. /\ mode = "operand" /\ tokens' = tokens /\ pos' = pos + 1 /\ mode' = "loop"
        /\ frames' = frames /\ min' = min /\ Peek \in {"num", "var"}
    BY <1>4 DEF EatOperand
  <2>2. /\ TokensOK' /\ IsSequence(frames)' /\ CallsOK'
        /\ Cardinality(Unclosed)' = Cardinality(Unclosed) /\ Cardinality(Unclosed) \in Nat
    BY <1>0, <2>1, OpenCall DEF TokensOK, CallsOK, MinOf, Unclosed
  <2>3. pos \in 1 .. Len(tokens) /\ tokens[pos][1] \in {"num", "var"} /\ ~EndsOperand(pos - 1)
    BY <1>0, <2>1, Peeked DEF ReadOK
  <2>4. Alternates(pos) /\ EndsOperand(pos)
    BY <2>3 DEF Alternates, EndsOperand
  <2>5. ReadOK'
    BY <1>0, <2>1, <2>2, <2>3, <2>4, Eaten
  <2> QED
    BY <2>1, <2>2, <2>5 DEF ParseInv, Before, VerdictRight
<1>5. ASSUME EatParen PROVE ParseInv'
  <2>1. /\ mode = "operand" /\ tokens' = tokens /\ pos' = pos + 1 /\ mode' = "operand"
        /\ frames' = Append(frames, Frame("(", None)) /\ min' = 0 /\ Peek = "("
    BY <1>5 DEF EatParen, Calling
  <2>2. IsSequence(frames)' /\ CallsOK' /\ Cardinality(Unclosed)' \in Nat
        /\ Cardinality(Unclosed)' = Cardinality(Unclosed) + 1
    BY <1>0, <2>1, Pushed DEF Binding
  <2>3. pos \in 1 .. Len(tokens) /\ tokens[pos][1] = "(" /\ ~EndsOperand(pos - 1)
    BY <1>0, <2>1, Peeked DEF ReadOK
  <2>4. Alternates(pos) /\ ~EndsOperand(pos)
    BY <2>3 DEF Alternates, EndsOperand
  <2>5. ReadOK'
    BY <1>0, <2>1, <2>2, <2>3, <2>4, Eaten
  <2> QED
    BY <1>0, <2>1, <2>2, <2>5 DEF ParseInv, TokensOK, Before, VerdictRight
<1>6. ASSUME EatMinus PROVE ParseInv'
  <2>1. /\ mode = "operand" /\ tokens' = tokens /\ pos' = pos + 1 /\ mode' = "operand"
        /\ frames' = Append(frames, Frame("neg", None)) /\ min' = 10 /\ Peek = "-"
    BY <1>6 DEF EatMinus, Calling
  <2>2. IsSequence(frames)' /\ CallsOK' /\ Cardinality(Unclosed)' \in Nat
        /\ Cardinality(Unclosed)' = Cardinality(Unclosed) + 0
    BY <1>0, <2>1, Pushed DEF Binding
  <2>3. pos \in 1 .. Len(tokens) /\ tokens[pos][1] = "-" /\ ~EndsOperand(pos - 1)
    BY <1>0, <2>1, Peeked DEF ReadOK
  <2>4. Alternates(pos) /\ ~EndsOperand(pos)
    BY <2>3 DEF Alternates, EndsOperand
  <2>5. ReadOK'
    BY <1>0, <2>1, <2>2, <2>3, <2>4, Eaten
  <2> QED
    BY <1>0, <2>1, <2>2, <2>5 DEF ParseInv, TokensOK, Before, VerdictRight
<1>7. ASSUME Unexpected PROVE ParseInv'
  <2>1. /\ mode = "operand" /\ tokens' = tokens /\ frames' = frames /\ mode' = "refused"
        /\ Peek \notin {"num", "var", "(", "-"}
    BY <1>7 DEF Unexpected
  <2>2. ~EndsOperand(pos - 1)
    BY <1>0, <2>1 DEF ReadOK
  <2>3. pos <= Len(tokens) => ~Alternates(pos)
    BY <1>0, <2>1, <2>2, Peeked DEF Alternates, Peek
  <2>4. pos = Len(tokens) + 1 => ~EndsOperand(Len(tokens))
    BY <1>0, <2>2
  <2>5. ~WellFormed(Len(tokens))
    BY <1>0, <2>1, <2>3, <2>4, Refused
  <2>6. ~WellFormed(Len(tokens))'
    BY <2>1, <2>5, SameVerdict
  <2> QED
    BY <1>0, <2>1, <2>6 DEF ParseInv, TokensOK, Before, CallsOK, ReadOK, VerdictRight
<1>8. ASSUME EatOperator PROVE ParseInv'
  <2>1. /\ mode = "loop" /\ tokens' = tokens /\ pos' = pos + 1 /\ mode' = "operand"
        /\ frames' = Append(frames, Frame(Peek, val)) /\ min' = rbp(Peek) /\ lbp(Peek) > min
    BY <1>8 DEF EatOperator, Calling
  <2>2. Peek \in Op
    BY <1>0, <2>1, MinNatural, Bindings
  <2>3. Peek \notin {"(", ")", "neg", "end", "num", "var"}
    BY <2>2, Symbols
  <2>4. IsSequence(frames)' /\ CallsOK' /\ Cardinality(Unclosed)' \in Nat
        /\ Cardinality(Unclosed)' = Cardinality(Unclosed) + 0
    BY <1>0, <2>1, <2>2, <2>3, Pushed DEF Binding
  <2>5. pos \in 1 .. Len(tokens) /\ tokens[pos][1] = Peek /\ EndsOperand(pos - 1)
    BY <1>0, <2>1, <2>3, Peeked DEF ReadOK
  <2>6. Alternates(pos) /\ ~EndsOperand(pos)
    BY <2>2, <2>3, <2>5 DEF Alternates, EndsOperand
  <2>7. ReadOK'
    BY <1>0, <2>1, <2>3, <2>4, <2>5, <2>6, Eaten
  <2> QED
    BY <1>0, <2>1, <2>4, <2>7 DEF ParseInv, TokensOK, Before, VerdictRight
<1>9. ASSUME Close PROVE ParseInv'
  <2>1. /\ mode = "loop" /\ lbp(Peek) <= min /\ frames # << >> /\ Last(frames).kind = "("
        /\ EndsOperand(pos - 1)
    BY <1>0, <1>9 DEF Close, ReadOK
  <2>2. CASE Peek = ")"
    <3>1. /\ tokens' = tokens /\ pos' = pos + 1 /\ mode' = "loop"
          /\ frames' = Front(frames) /\ min' = Last(frames).min
      BY <1>9, <2>2 DEF Close, ReturnTo
    <3>2. IsSequence(frames)' /\ CallsOK' /\ Cardinality(Unclosed)' \in Nat
          /\ Cardinality(Unclosed)' = Cardinality(Unclosed) - 1
      BY <1>0, <2>1, <3>1, Popped
    <3>3. pos \in 1 .. Len(tokens) /\ tokens[pos][1] = ")"
      BY <1>0, <2>1, <2>2, Peeked
    <3>4. Alternates(pos) /\ EndsOperand(pos)
      BY <2>1, <3>3 DEF Alternates, EndsOperand
    <3>5. ReadOK'
      BY <1>0, <2>1, <3>1, <3>2, <3>3, <3>4, Eaten
    <3> QED
      BY <1>0, <3>1, <3>2, <3>5 DEF ParseInv, TokensOK, Before, VerdictRight
  <2>3. CASE Peek # ")"
    <3>1. /\ tokens' = tokens /\ frames' = frames /\ mode' = "refused"
      BY <1>9, <2>3 DEF Close
    <3>2. Peek \notin Op
      <4>1. min = 0
        BY <1>0, <2>1, NoCallsBelow
      <4> QED
        BY <2>1, <4>1, Bindings
    <3>3. pos <= Len(tokens) => ~Alternates(pos)
      BY <1>0, <2>1, <2>3, <3>2, Peeked DEF Alternates, Peek
    <3>4. pos = Len(tokens) + 1 => Depth(Len(tokens)) # 0
      BY <1>0, <2>1, OpenCall DEF ReadOK
    <3>5. ~WellFormed(Len(tokens))
      BY <1>0, <2>1, <3>3, <3>4, Refused
    <3>6. ~WellFormed(Len(tokens))'
      BY <3>1, <3>5, SameVerdict
    <3> QED
      BY <1>0, <3>1, <3>6 DEF ParseInv, TokensOK, Before, CallsOK, ReadOK, VerdictRight
  <2> QED
    BY <2>2, <2>3
<1>10. ASSUME Return PROVE ParseInv'
  <2>1. /\ mode = "loop" /\ frames # << >> /\ Last(frames).kind # "("
        /\ tokens' = tokens /\ pos' = pos /\ mode' = "loop"
        /\ frames' = Front(frames) /\ min' = Last(frames).min
    BY <1>0, <1>10, Symbols DEF Return, ReturnTo, ReadOK
  <2>2. IsSequence(frames)' /\ CallsOK' /\ Cardinality(Unclosed)' = Cardinality(Unclosed)
    BY <1>0, <2>1, Popped, OpenCall
  <2>3. ReadOK'
    BY <1>0, <2>1, <2>2, SameReading
  <2> QED
    BY <1>0, <2>1, <2>2, <2>3 DEF ParseInv, TokensOK, Before, VerdictRight
<1>11. ASSUME Accept PROVE ParseInv'
  <2>1. /\ mode = "loop" /\ frames = << >> /\ mode' = "collect"
        /\ tokens' = tokens /\ pos' = pos /\ frames' = frames
    BY <1>11 DEF Accept
  <2>2. WellFormed(pos - 1)
    BY <1>0, <2>1, NoCalls DEF ReadOK, WellFormed
  <2>3. WellFormed(pos - 1)'
    BY <2>1, <2>2 DEF WellFormed, Depth, OfKind, EndsOperand, Alternates
  <2> QED
    BY <1>0, <2>1, <2>3 DEF ParseInv, TokensOK, Before, CallsOK, ReadOK, VerdictRight
<1>12. ASSUME CollectNum PROVE ParseInv'
  BY <1>0, <1>12, Walked DEF CollectNum, Collecting
<1>13. ASSUME CollectVariable PROVE ParseInv'
  BY <1>0, <1>13, Walked DEF CollectVariable, Collecting
<1>14. ASSUME Missing PROVE ParseInv'
  <2>1. IsSequence(<< >>)
    BY EmptySeq, IsSequenceOf
  <2> QED
    BY <1>0, <1>14, <2>1, Walked DEF Missing, Collecting
<1>15. ASSUME CollectLeft PROVE ParseInv'
  BY <1>0, <1>15, AppendFacts, Walked DEF CollectLeft, Collecting
<1>16. ASSUME CollectRight PROVE ParseInv'
  <2>1. IsSequence(Front(frames))
    BY <1>0, <1>16, FrontFacts DEF CollectRight
  <2> QED
    BY <1>0, <1>16, <2>1, AppendFacts, Walked DEF CollectRight, Collecting
<1>17. ASSUME AddStep PROVE ParseInv'
  BY <1>0, <1>17, FrontFacts, Walked DEF AddStep, Collecting
<1>18. ASSUME Schedule PROVE ParseInv'
  BY <1>0, <1>18, Walked DEF Schedule
<1>19. ASSUME EmitIR PROVE ParseInv'
  BY <1>0, <1>19, Walked DEF EmitIR
<1>20. ASSUME UNCHANGED vars PROVE ParseInv'
  <2>1. /\ tokens' = tokens /\ pos' = pos /\ mode' = mode /\ frames' = frames /\ min' = min
    BY <1>20 DEF vars
  <2>2. Cardinality(Unclosed)' = Cardinality(Unclosed)
    BY <2>1 DEF Unclosed
  <2>3. ReadOK'
    BY <1>0, <2>1, <2>2, SameReading
  <2>4. VerdictRight'
    <3>1. WellFormed(pos - 1)' <=> WellFormed(pos - 1)
      <4>1. PICK n : n = pos - 1
        OBVIOUS
      <4>2. WellFormed(n)' <=> WellFormed(n)
        BY <2>1, SameTokens
      <4>3. WellFormed(pos - 1)' <=> WellFormed(n)'
        BY <2>1, <4>1 DEF WellFormed, Depth, OfKind, EndsOperand, Alternates
      <4> QED
        BY <4>1, <4>2, <4>3
    <3> QED
      BY <1>0, <2>1, <3>1, SameVerdict DEF VerdictRight
  <2>5. CallsOK'
    BY <1>0, <2>1 DEF CallsOK, MinOf
  <2> QED
    BY <1>0, <2>1, <2>3, <2>4, <2>5 DEF ParseInv, TokensOK, Before
<1> QED
  BY <1>1, <1>2, <1>3, <1>4, <1>5, <1>6, <1>7, <1>8, <1>9, <1>10, <1>11, <1>12, <1>13, <1>14,
     <1>15, <1>16, <1>17, <1>18, <1>19, <1>20 DEF Next

\* The parser accepts the tokens up to where it stops only if they are an
\* equation, and refuses them only if they are none.
THEOREM VerdictSound == Spec => []VerdictRight
<1>1. ParseInv => VerdictRight
  BY DEF ParseInv
<1> QED
  BY <1>1, ParseInit, ParseNext, PTL DEF Spec

---------------------------------------------------------------------------
(* Variables *)

\* Context::insert never writes beyond the last slot, and Context::get finds
\* one slot for a name; its value is a number.
ContextInv ==
  /\ IsSequence(ctx) /\ Len(ctx) <= Slots
  /\ \A i, j \in 1 .. Len(ctx) : ctx[i][1] = ctx[j][1] => i = j
  /\ \A i \in 1 .. Len(ctx) : ctx[i][2][1] = "num"

LEMMA Inserted ==
  ASSUME ContextInv, NEW name, NEW value, ctx' = Insert(ctx, name, <<"num", value>>)
  PROVE  ContextInv'
<1>0. PICK n \in Nat : n = Len(ctx)
  BY IsSequenceFacts DEF ContextInv
<1>1. /\ IsSequence(ctx) /\ n <= Slots /\ DOMAIN ctx = 1 .. n
      /\ \A i, j \in 1 .. n : ctx[i][1] = ctx[j][1] => i = j
      /\ \A i \in 1 .. n : ctx[i][2][1] = "num"
  BY <1>0, IsSequenceFacts DEF ContextInv
<1> DEFINE slot == <<name, <<"num", value>>>>
<1>2. slot[1] = name /\ slot[2][1] = "num"
  OBVIOUS
<1> HIDE DEF slot
<1>3. CASE SlotOf(ctx, name) # {}
  <2>1. ctx' = [i \in 1 .. n |-> IF ctx[i][1] = name THEN slot ELSE ctx[i]]
    BY <1>0, <1>3 DEF Insert, SlotOf, slot
  <2>2. ctx' = [i \in 1 .. n |-> ctx'[i]]
    BY <2>1
  <2>3. IsSequence(ctx)' /\ Len(ctx') = n
    BY <2>2, IsSequenceFunction
  <2>4. \A i \in 1 .. n : ctx'[i][1] = ctx[i][1] /\ ctx'[i][2][1] = "num"
    BY <1>1, <1>2, <2>1
  <2> QED
    BY <1>1, <2>3, <2>4 DEF ContextInv
<1>4. CASE SlotOf(ctx, name) = {} /\ n < Slots
  <2>1. ctx' = Append(ctx, slot)
    BY <1>0, <1>4 DEF Insert, slot
  <2>2. /\ IsSequence(ctx)' /\ Len(ctx') = n + 1 /\ ctx'[n + 1] = slot
        /\ \A i \in 1 .. n : ctx'[i] = ctx[i]
    <3>1. /\ IsSequence(Append(ctx, slot)) /\ Len(Append(ctx, slot)) = Len(ctx) + 1
          /\ \A i \in 1 .. Len(ctx) : Append(ctx, slot)[i] = ctx[i]
          /\ Append(ctx, slot)[Len(ctx) + 1] = slot
      BY <1>1, AppendFacts
    <3> QED
      BY <1>0, <2>1, <3>1
  <2>3. \A i \in 1 .. n : ctx[i][1] # name
    BY <1>0, <1>4 DEF SlotOf
  <2>4. ASSUME NEW i \in 1 .. n + 1, NEW j \in 1 .. n + 1, ctx'[i][1] = ctx'[j][1] PROVE i = j
    <3>1. CASE i \in 1 .. n /\ j \in 1 .. n
      BY <1>1, <2>2, <2>4, <3>1
    <3>2. CASE i \in 1 .. n /\ j = n + 1
      BY <1>2, <2>2, <2>3, <2>4, <3>2
    <3>3. CASE i = n + 1 /\ j \in 1 .. n
      BY <1>2, <2>2, <2>3, <2>4, <3>3
    <3> QED
      BY <3>1, <3>2, <3>3
  <2>5. ASSUME NEW i \in 1 .. n + 1 PROVE ctx'[i][2][1] = "num"
    BY <1>1, <1>2, <2>2
  <2>6. n + 1 <= Slots
    BY <1>4, PrattAssumption
  <2> QED
    BY <2>2, <2>4, <2>5, <2>6 DEF ContextInv
<1>5. CASE SlotOf(ctx, name) = {} /\ ~(n < Slots)
  BY <1>0, <1>5 DEF Insert, ContextInv
<1> QED
  BY <1>3, <1>4, <1>5

LEMMA ContextInit == Init => ContextInv
<1> SUFFICES ASSUME Init PROVE ContextInv
  OBVIOUS
<1>1. ctx = << >>
  BY DEF Init
<1>2. Len(ctx) = 0 /\ ctx \in Seq({})
  BY <1>1, EmptySeq
<1>3. IsSequence(ctx)
  BY <1>2, IsSequenceOf
<1> QED
  BY <1>2, <1>3, PrattAssumption DEF ContextInv

LEMMA ContextNext == ContextInv /\ [Next]_vars => ContextInv'
<1> SUFFICES ASSUME ContextInv, [Next]_vars PROVE ContextInv'
  OBVIOUS
<1>1. ctx' = ctx \/ ParseVar
  BY DEF Next, vars, VarsParsed, StartExpr, EatOperand, EatParen, EatMinus, Calling,
         Unexpected, EatOperator, ReturnTo, Close, Return, Accept, CollectNum, CollectVariable,
         Missing, CollectLeft, CollectRight, AddStep, Collecting, Schedule, EmitIR
<1>2. CASE ParseVar
  BY <1>2, Inserted DEF ParseVar, ContextInv
<1> QED
  BY <1>1, <1>2 DEF ContextInv

\* Whatever the caller gives, the Context has at most Slots variables, each
\* under a name of its own.
THEOREM ContextSound == Spec => []ContextInv
BY ContextInit, ContextNext, PTL DEF Spec

---------------------------------------------------------------------------
(* Steps *)

StepsInv ==
  /\ ParseInv /\ ContextInv
  /\ mode \in {"vars", "lexed", "operand", "loop", "refused", "failed"} => steps = << >>
  /\ api = "emit_ir" \/ mode # "done" => IsSequence(steps) /\ InOrder(steps)
  /\ mode \in {"collect", "collected"} =>
       \A k \in 1 .. Len(frames) :
         frames[k].kind \in Op => IsComputed(frames[k].lhs, steps, Len(steps))
  /\ mode = "collected" => IsComputed(root, steps, Len(steps))

LEMMA NoSteps ==
  IsSequence(<< >>) /\ Len(<< >>) = 0 /\ InOrder(<< >>)
<1> DEFINE none == << >>
<1>1. Len(none) = 0 /\ none \in Seq({})
  BY EmptySeq
<1> HIDE DEF none
<1>2. IsSequence(none)
  BY <1>1, IsSequenceOf
<1>3. InOrder(none)
  BY <1>1 DEF InOrder
<1> QED
  BY <1>1, <1>2, <1>3 DEF none

\* A step more, of operands that are computed.
LEMMA StepAdded ==
  ASSUME IsSequence(steps), InOrder(steps), NEW op, NEW l, NEW r,
         IsComputed(l, steps, Len(steps)), IsComputed(r, steps, Len(steps)),
         steps' = Append(steps, Step(op, l, r))
  PROVE  /\ IsSequence(steps)' /\ InOrder(steps)'
         /\ \A v : IsComputed(v, steps, Len(steps)) => IsComputed(v, steps', Len(steps'))
         /\ IsComputed(<<op, l, r>>, steps', Len(steps'))
<1>0. PICK n \in Nat : n = Len(steps)
  BY IsSequenceFacts
<1> DEFINE step == Step(op, l, r)
<1>1. step.lhs = l /\ step.rhs = r /\ step.result = <<op, l, r>>
  BY DEF Step
<1>2. /\ IsSequence(steps)' /\ Len(steps') = n + 1 /\ steps'[n + 1] = step
      /\ \A k \in 1 .. n : steps'[k] = steps[k]
  BY <1>0, AppendFacts
<1> HIDE DEF step
<1>3. ASSUME NEW v, NEW k \in 0 .. n, IsComputed(v, steps, k) PROVE IsComputed(v, steps', k)
  BY <1>2, <1>3 DEF IsComputed
<1>4. ASSUME NEW v, IsComputed(v, steps, n) PROVE IsComputed(v, steps', n + 1)
  BY <1>2, <1>4 DEF IsComputed
<1>5. IsComputed(<<op, l, r>>, steps', n + 1)
  BY <1>1, <1>2 DEF IsComputed
<1>6. ASSUME NEW k \in 1 .. n + 1
      PROVE  IsComputed(steps'[k].lhs, steps', k - 1) /\ IsComputed(steps'[k].rhs, steps', k - 1)
  <2>1. CASE k \in 1 .. n
    <3>1. IsComputed(steps[k].lhs, steps, k - 1) /\ IsComputed(steps[k].rhs, steps, k - 1)
      BY <1>0, <2>1 DEF InOrder
    <3>2. k - 1 \in 0 .. n
      BY <2>1
    <3> QED
      BY <1>2, <1>3, <2>1, <3>1, <3>2
  <2>2. CASE k = n + 1
    <3>1. n \in 0 .. n /\ k - 1 = n
      BY <2>2
    <3>2. IsComputed(l, steps', n) /\ IsComputed(r, steps', n)
      BY <1>0, <1>3, <3>1
    <3> QED
      BY <1>1, <1>2, <2>2, <3>1, <3>2
  <2>3. k \in 1 .. n \/ k = n + 1
    OBVIOUS
  <2> QED
    BY <2>1, <2>2, <2>3, Zenon
<1>7. InOrder(steps')
  BY <1>2, <1>6 DEF InOrder
<1> QED
  BY <1>0, <1>2, <1>4, <1>5, <1>7

LEMMA StepsInit == Init => StepsInv
<1> SUFFICES ASSUME Init PROVE StepsInv
  OBVIOUS
<1>1. ParseInv
  BY ParseInit
<1>2. ContextInv
  BY ContextInit
<1> QED
  BY <1>1, <1>2, NoSteps DEF Init, StepsInv

\* Before and after the walk the steps are what they were.
LEMMA StepsKept ==
  ASSUME StepsInv, ParseInv', ContextInv', steps' = steps, api' = api,
         mode # "done" \/ api = "emit_ir",
         mode' \in {"vars", "lexed", "operand", "loop", "refused", "failed"} => steps = << >>,
         mode' \notin {"collect", "collected"}
  PROVE  StepsInv'
BY DEF StepsInv

LEMMA StepsNext == StepsInv /\ [Next]_vars => StepsInv'
<1> SUFFICES ASSUME StepsInv, [Next]_vars PROVE StepsInv'
  OBVIOUS
<1>0. ParseInv' /\ ContextInv' /\ IsSequence(frames) /\ Len(frames) \in Nat
  BY ParseNext, ContextNext, IsSequenceFacts DEF StepsInv, ParseInv
<1>1. ASSUME ParseVar \/ VarsParsed \/ StartExpr \/ EatOperand \/ EatParen \/ EatMinus
             \/ Unexpected \/ EatOperator \/ Close \/ Return
      PROVE  StepsInv'
  <2>1. /\ steps' = steps /\ api' = api
        /\ mode \in {"vars", "lexed", "operand", "loop"}
        /\ mode' \in {"vars", "lexed", "operand", "loop", "refused"}
    BY <1>1 DEF ParseVar, VarsParsed, StartExpr, EatOperand, EatParen, EatMinus, Calling,
                Unexpected, EatOperator, ReturnTo, Close, Return
  <2> QED
    BY <1>0, <2>1, StepsKept DEF StepsInv
<1>2. ASSUME Accept PROVE StepsInv'
  <2>1. /\ steps' = steps /\ mode = "loop" /\ mode' = "collect" /\ frames' = << >>
    BY <1>2 DEF Accept
  <2>2. Len(frames') = 0
    BY <2>1, NoSteps
  <2> QED
    BY <1>0, <2>1, <2>2 DEF StepsInv
<1>3. ASSUME CollectNum PROVE StepsInv'
  <2>1. /\ steps' = steps /\ mode = "collect" /\ mode' = "collected" /\ frames' = frames
        /\ root' = root /\ root[1] = "num"
    BY <1>3 DEF CollectNum, Collecting
  <2>2. IsComputed(root, steps, Len(steps))
    BY <2>1, Symbols DEF IsComputed
  <2> QED
    BY <1>0, <2>1, <2>2 DEF StepsInv
<1>4. ASSUME CollectVariable PROVE StepsInv'
  <2>1. PICK i \in SlotOf(ctx, root[2]) : root' = ctx[i][2]
    BY <1>4 DEF CollectVariable, Collecting
  <2>2. steps' = steps /\ mode = "collect" /\ mode' = "collected" /\ frames' = frames
    BY <1>4 DEF CollectVariable, Collecting
  <2>3. root'[1] = "num"
    BY <2>1 DEF SlotOf, StepsInv, ContextInv
  <2>4. IsComputed(root', steps, Len(steps))
    BY <2>3, Symbols DEF IsComputed
  <2> QED
    BY <1>0, <2>2, <2>4 DEF StepsInv
<1>5. ASSUME Missing PROVE StepsInv'
  <2>1. /\ mode = "collect" /\ api' = api
        /\ \/ api = "emit_ir" /\ mode' = "done" /\ steps' = steps
           \/ api # "emit_ir" /\ mode' = "failed" /\ steps' = << >>
    BY <1>5 DEF Missing, Collecting
  <2>2. IsSequence(steps)' /\ InOrder(steps)'
    BY <2>1, NoSteps DEF StepsInv
  <2> QED
    BY <1>0, <2>1, <2>2 DEF StepsInv
<1>6. ASSUME CollectLeft PROVE StepsInv'
  <2>1. /\ steps' = steps /\ mode = "collect" /\ mode' = "collect"
        /\ frames' = Append(frames, Frame("left", root))
    BY <1>6 DEF CollectLeft, Collecting
  <2>2. /\ Len(frames') = Len(frames) + 1 /\ frames'[Len(frames) + 1].kind = "left"
        /\ \A k \in 1 .. Len(frames) : frames'[k] = frames[k]
    BY <1>0, <2>1, AppendFacts DEF Frame
  <2>3. ASSUME NEW k \in 1 .. Len(frames'), frames'[k].kind \in Op
        PROVE  IsComputed(frames'[k].lhs, steps, Len(steps))
    BY <1>0, <2>1, <2>2, <2>3, Symbols DEF StepsInv
  <2> QED
    BY <1>0, <2>1, <2>3 DEF StepsInv
<1>7. ASSUME CollectRight PROVE StepsInv'
  <2> DEFINE e == Last(frames).lhs
  <2>1. /\ steps' = steps /\ mode = "collected" /\ mode' = "collect" /\ frames # << >>
        /\ frames' = Append(Front(frames), Frame(e[1], root))
    BY <1>7 DEF CollectRight, Collecting
  <2>2. /\ IsSequence(Front(frames)) /\ Len(frames) \in Nat \ {0}
        /\ Len(Front(frames)) = Len(frames) - 1
        /\ \A k \in 1 .. Len(frames) - 1 : Front(frames)[k] = frames[k]
    BY <1>0, <2>1, FrontFacts
  <2>3. /\ Len(frames') = Len(frames) /\ frames'[Len(frames)].lhs = root
        /\ \A k \in 1 .. Len(frames) - 1 : frames'[k] = frames[k]
    BY <2>1, <2>2, AppendFacts DEF Frame
  <2>4. ASSUME NEW k \in 1 .. Len(frames'), frames'[k].kind \in Op
        PROVE  IsComputed(frames'[k].lhs, steps, Len(steps))
    <3>1. CASE k = Len(frames)
      BY <2>1, <2>3, <3>1 DEF StepsInv
    <3>2. CASE k \in 1 .. Len(frames) - 1
      BY <2>1, <2>2, <2>3, <2>4, <3>2 DEF StepsInv
    <3> QED
      BY <2>2, <2>3, <3>1, <3>2
  <2> QED
    BY <1>0, <2>1, <2>4 DEF StepsInv
<1>8. ASSUME AddStep PROVE StepsInv'
  <2> DEFINE op == Last(frames).kind
             l == Last(frames).lhs
  <2>1. /\ mode = "collected" /\ mode' = "collected" /\ frames # << >> /\ op \in Op
        /\ steps' = Append(steps, Step(op, l, root))
        /\ frames' = Front(frames) /\ root' = Step(op, l, root).result
    BY <1>8 DEF AddStep, Collecting
  <2>2. root' = <<op, l, root>>
    BY <2>1 DEF Step
  <2>3. /\ Len(frames) \in Nat \ {0} /\ Len(frames') = Len(frames) - 1
        /\ \A k \in 1 .. Len(frames) - 1 : frames'[k] = frames[k]
    BY <1>0, <2>1, FrontFacts
  <2>4. IsSequence(steps) /\ InOrder(steps) /\ IsComputed(root, steps, Len(steps))
    BY <2>1 DEF StepsInv
  <2>5. IsComputed(l, steps, Len(steps))
    BY <2>1, <2>3 DEF StepsInv, Last
  <2> HIDE DEF op, l
  <2>6. /\ IsSequence(steps)' /\ InOrder(steps)'
        /\ \A v : IsComputed(v, steps, Len(steps)) => IsComputed(v, steps', Len(steps'))
        /\ IsComputed(root', steps', Len(steps'))
    BY <2>1, <2>2, <2>4, <2>5, StepAdded
  <2>7. ASSUME NEW k \in 1 .. Len(frames'), frames'[k].kind \in Op
        PROVE  IsComputed(frames'[k].lhs, steps', Len(steps'))
    BY <2>1, <2>3, <2>6, <2>7 DEF StepsInv
  <2> QED
    BY <1>0, <2>1, <2>6, <2>7 DEF StepsInv
<1>9. ASSUME Schedule PROVE StepsInv'
  BY <1>0, <1>9 DEF Schedule, StepsInv
<1>10. ASSUME EmitIR PROVE StepsInv'
  BY <1>0, <1>10 DEF EmitIR, StepsInv
<1>11. ASSUME UNCHANGED vars PROVE StepsInv'
  BY <1>0, <1>11 DEF vars, StepsInv
<1> QED
  BY <1>1, <1>2, <1>3, <1>4, <1>5, <1>6, <1>7, <1>8, <1>9, <1>10, <1>11 DEF Next

\* collect_steps lists the steps in an order in which they can be carried out,
\* however far it gets, and so does emit_ir; only the sorting loses that order.
THEOREM StepsOrdered == Spec => []IRExecutable
<1>1. StepsInv => IRExecutable
  BY DEF StepsInv, IRExecutable
<1> QED
  BY <1>1, StepsInit, StepsNext, PTL DEF Spec

---------------------------------------------------------------------------
(* Trees *)

Larger(part) == Leaf \cup ({"*"} \X {MinusOne} \X part) \cup (Op \X part \X part)

\* The sets of trees are what their equation says.
LEMMA TreeEquation ==
  ASSUME NEW h \in Nat
  PROVE  Tree[h] = Larger(IF h = 0 THEN {} ELSE Tree[h - 1])
<1> DEFINE Up(f, n) == [k \in 0 .. n |-> Larger(IF k = 0 THEN {} ELSE f[k - 1])]
<1>1. ASSUME NEW n \in Nat PROVE \E f : f = Up(f, n)
  <2> DEFINE T == {m \in Nat : ~ \E f : f = Up(f, m)}
  <2> SUFFICES ASSUME T # {} PROVE FALSE
    OBVIOUS
  <2>1. PICK m \in T : \A k \in T : m <= k
    <3>1. T \subseteq Nat /\ T # {}
      OBVIOUS
    <3> HIDE DEF T
    <3> QED
      BY <3>1, LeastNumber
  <2>2. CASE m = 0
    <3> DEFINE g == [k \in 0 .. 0 |-> Larger({})]
    <3>1. g = Up(g, 0)
      <4>1. Up(g, 0) = [k \in 0 .. 0 |-> Larger({})]
        OBVIOUS
      <4> QED
        BY <4>1
    <3> HIDE DEF g
    <3> QED
      BY <2>1, <2>2, <3>1
  <2>3. CASE m # 0
    <3>0. m \in Nat /\ m - 1 \in Nat
      BY <2>1, <2>3
    <3>1. m - 1 \in Nat /\ m - 1 \notin T
      <4> HIDE DEF T
      <4> QED
        BY <2>1, <3>0
    <3>2. PICK f : f = Up(f, m - 1)
      BY <3>1
    <3> DEFINE g == Up(f, m)
    <3>3. ASSUME NEW k \in 0 .. m, k # 0 PROVE g[k - 1] = f[k - 1]
      <4>1. k - 1 \in 0 .. m - 1 /\ k - 1 \in 0 .. m
        BY <3>0, <3>3
      <4> DEFINE j == k - 1
      <4>2. f[j] = Larger(IF j = 0 THEN {} ELSE f[j - 1])
        <5> HIDE DEF j
        <5> QED
          BY <3>2, <4>1 DEF j
      <4>3. g[j] = Larger(IF j = 0 THEN {} ELSE f[j - 1])
        <5> HIDE DEF j
        <5> QED
          BY <4>1 DEF j
      <4> QED
        BY <4>2, <4>3
    <3>4. g = Up(g, m)
      <4> HIDE DEF g
      <4>1. Up(f, m) = Up(g, m)
        BY <3>3, Zenon
      <4> QED
        BY <4>1 DEF g
    <3> QED
      BY <2>1, <3>4
  <2> QED
    BY <2>2, <2>3
<1>2. ASSUME NEW n \in Nat, NEW f, NEW g, f = Up(f, n + 1), g = Up(g, n)
      PROVE  \A k \in 0 .. n : f[k] = g[k]
  <2> DEFINE T == {k \in 0 .. n : f[k] # g[k]}
  <2>0. \A k \in 0 .. n : /\ f[k] = Larger(IF k = 0 THEN {} ELSE f[k - 1])
                          /\ g[k] = Larger(IF k = 0 THEN {} ELSE g[k - 1])
    <3>1. \A k \in 0 .. n : k \in 0 .. n + 1
      OBVIOUS
    <3>2. \A k \in 0 .. n + 1 : f[k] = Larger(IF k = 0 THEN {} ELSE f[k - 1])
      BY <1>2, Zenon
    <3>3. \A k \in 0 .. n : g[k] = Larger(IF k = 0 THEN {} ELSE g[k - 1])
      BY <1>2, Zenon
    <3> QED
      BY <3>1, <3>2, <3>3
  <2> SUFFICES ASSUME T # {} PROVE FALSE
    OBVIOUS
  <2>1. PICK m \in T : \A k \in T : m <= k
    <3>1. T \subseteq Nat /\ T # {}
      OBVIOUS
    <3> HIDE DEF T
    <3> QED
      BY <3>1, LeastNumber
  <2>2. CASE m = 0
    BY <2>0, <2>1, <2>2
  <2>3. CASE m # 0
    <3>1. m - 1 \in 0 .. n /\ m - 1 \notin T
      BY <2>1, <2>3
    <3>2. f[m - 1] = g[m - 1]
      BY <3>1
    <3> QED
      BY <2>0, <2>1, <2>3, <3>2
  <2> QED
    BY <2>2, <2>3
<1> DEFINE F(n) == CHOOSE f : f = Up(f, n)
           tree == [n \in Nat |-> F(n)[n]]
           Walk(f) == [k \in Nat |-> Larger(IF k = 0 THEN {} ELSE f[k - 1])]
<1>3. ASSUME NEW n \in Nat PROVE F(n) = Up(F(n), n)
  <2> HIDE DEF Up
  <2> QED
    BY <1>1, <1>3, Zenon
<1>4. ASSUME NEW n \in Nat PROVE tree[n] = Larger(IF n = 0 THEN {} ELSE tree[n - 1])
  <2> HIDE DEF F
  <2>1. F(n)[n] = Larger(IF n = 0 THEN {} ELSE F(n)[n - 1])
    <3>1. n \in 0 .. n
      OBVIOUS
    <3> QED
      BY <1>3, <3>1, Zenon
  <2>2. CASE n = 0
    BY <2>1, <2>2
  <2>3. CASE n # 0
    <3>1. PICK m \in Nat : n = m + 1 /\ m = n - 1 /\ m \in 0 .. m
      BY <2>3
    <3>2. F(m + 1) = Up(F(m + 1), m + 1) /\ F(m) = Up(F(m), m)
      BY <1>3
    <3>3. F(m + 1)[m] = F(m)[m]
      <4> HIDE DEF Up
      <4>1. \A f, g : f = Up(f, m + 1) /\ g = Up(g, m) => \A k \in 0 .. m : f[k] = g[k]
        BY <1>2, <3>1
      <4> QED
        BY <3>1, <3>2, <4>1, Zenon
    <3>4. tree[m] = F(m)[m] /\ tree[n] = F(n)[n]
      OBVIOUS
    <3> QED
      BY <2>1, <2>3, <3>1, <3>3, <3>4
  <2> QED
    BY <2>2, <2>3
<1>5. tree = Walk(tree)
  <2>1. tree = [n \in Nat |-> tree[n]]
    OBVIOUS
  <2> HIDE DEF tree
  <2> QED
    BY <1>4, <2>1
<1>6. Tree = CHOOSE f : f = Walk(f)
  BY DEF Tree, Larger
<1>7. Tree = Walk(Tree)
  <2> HIDE DEF tree, Walk
  <2> QED
    BY <1>5, <1>6, Zenon
<1> QED
  BY <1>7, Zenon

LEMMA Shapes ==
  ASSUME NEW part, NEW e
  PROVE  e \in Larger(part) <=>
           \/ e \in Leaf
           \/ \E op \in Op, l, r \in part : e = <<op, l, r>>
           \/ \E r \in part : e = <<"*", MinusOne, r>>
<1>1. e \in {"*"} \X {MinusOne} \X part <=> \E r \in part : e = <<"*", MinusOne, r>>
  OBVIOUS
<1>2. e \in Op \X part \X part <=> \E op \in Op, l, r \in part : e = <<op, l, r>>
  OBVIOUS
<1> QED
  BY <1>1, <1>2 DEF Larger

\* Trees that are higher are more.
LEMMA Higher ==
  ASSUME NEW m \in Nat, NEW n \in Nat, m <= n
  PROVE  Tree[m] \subseteq Tree[n]
<1>1. ASSUME NEW p, NEW q, p \subseteq q PROVE Larger(p) \subseteq Larger(q)
  BY <1>1, Shapes
<1>2. ASSUME NEW k \in Nat PROVE Tree[k] \subseteq Tree[k + 1]
  <2> DEFINE T == {i \in Nat : ~ (Tree[i] \subseteq Tree[i + 1])}
  <2> SUFFICES ASSUME T # {} PROVE FALSE
    OBVIOUS
  <2>1. PICK i \in T : \A j \in T : i <= j
    <3>1. T \subseteq Nat /\ T # {}
      OBVIOUS
    <3> HIDE DEF T
    <3> QED
      BY <3>1, LeastNumber
  <2>2. i \in Nat /\ i + 1 \in Nat /\ i + 1 # 0 /\ (i + 1) - 1 = i
    BY <2>1
  <2>3. Tree[i + 1] = Larger(Tree[i])
    BY <2>2, TreeEquation
  <2>4. CASE i = 0
    <3>1. Tree[i] = Larger({})
      BY <2>4, TreeEquation
    <3> QED
      BY <1>1, <2>1, <2>3, <3>1
  <2>5. CASE i # 0
    <3>1. i - 1 \in Nat /\ i - 1 \notin T /\ (i - 1) + 1 = i
      <4>1. i - 1 \in Nat /\ (i - 1) + 1 = i /\ ~ (i <= i - 1)
        BY <2>2, <2>5
      <4> HIDE DEF T
      <4> QED
        BY <2>1, <4>1
    <3>2. Tree[i - 1] \subseteq Tree[i]
      BY <3>1
    <3>3. Tree[i] = Larger(Tree[i - 1])
      BY <2>2, <2>5, TreeEquation
    <3>4. Larger(Tree[i - 1]) \subseteq Larger(Tree[i])
      BY <1>1, <3>2
    <3> QED
      BY <2>1, <2>3, <3>3, <3>4
  <2> QED
    BY <2>4, <2>5
<1> DEFINE T == {k \in Nat : k >= m /\ ~ (Tree[m] \subseteq Tree[k])}
<1> SUFFICES ASSUME T # {} PROVE FALSE
  OBVIOUS
<1>3. PICK k \in T : \A j \in T : k <= j
  <2>1. T \subseteq Nat /\ T # {}
    OBVIOUS
  <2> HIDE DEF T
  <2> QED
    BY <2>1, LeastNumber
<1>4. k # m /\ k - 1 \in Nat /\ k - 1 >= m /\ (k - 1) + 1 = k
  BY <1>3
<1>5. Tree[m] \subseteq Tree[k - 1]
  <2>1. k - 1 \notin T
    <3>1. k \in Nat /\ ~ (k <= k - 1)
      BY <1>3
    <3> HIDE DEF T
    <3> QED
      BY <1>3, <3>1
  <2> QED
    BY <1>4, <2>1
<1>6. Tree[k - 1] \subseteq Tree[k]
  BY <1>2, <1>4
<1> QED
  BY <1>3, <1>5, <1>6

LEMMA LeafFacts ==
  ASSUME NEW e \in Leaf
  PROVE  /\ e = <<e[1], e[2]>> /\ e[1] \in {"num", "var"} /\ e[1] \notin Op
         /\ e[1] = "num" => e[2] \in Numbers
         /\ e[1] = "var" => e[2] \in Names
BY DEF Leaf, Op

\* A tree is a leaf or an operation on smaller trees.
LEMMA TreeFacts ==
  ASSUME NEW h \in Nat
  PROVE  /\ Leaf \subseteq Tree[h]
         /\ \A op \in Op, l, r \in Tree[h] : <<op, l, r>> \in Tree[h + 1]
         /\ \A r \in Tree[h] : <<"*", MinusOne, r>> \in Tree[h + 1]
         /\ \A e \in Tree[h] :
              \/ e \in Leaf
              \/ h > 0 /\ \E op \in Op, l, r \in Tree[h - 1] : e = <<op, l, r>>
              \/ h > 0 /\ \E r \in Tree[h - 1] : e = <<"*", MinusOne, r>>
<1>1. Leaf \subseteq Tree[h]
  BY TreeEquation, Shapes
<1>2. Tree[h + 1] = Larger(Tree[h])
  <2>1. h + 1 \in Nat /\ h + 1 # 0 /\ (h + 1) - 1 = h
    OBVIOUS
  <2> QED
    BY <2>1, TreeEquation
<1>3. CASE h = 0
  <2>1. Tree[h] = Larger({})
    BY <1>3, TreeEquation
  <2> QED
    BY <1>1, <1>2, <2>1, Shapes
<1>4. CASE h # 0
  <2>1. h > 0 /\ Tree[h] = Larger(Tree[h - 1])
    BY <1>4, TreeEquation
  <2> QED
    BY <1>1, <1>2, <2>1, Shapes
<1> QED
  BY <1>3, <1>4

\* How a tree is written if f is how its operands are.
Wrote(f, e) ==
  CASE e[1] \in {"num", "var"} -> <<e[2]>>
    [] IsNegation(e) -> <<"-">> \o Within(e[3], f[e[3]], 4)
    [] OTHER -> Within(e[2], f[e[2]], LeftLevel(e)) \o <<e[1]>>
                \o Within(e[3], f[e[3]], RightLevel(e))

\* How each shape of tree is written.
LEMMA WroteLeaf ==
  ASSUME NEW f, NEW e \in Leaf
  PROVE  Wrote(f, e) = <<e[2]>>
BY LeafFacts DEF Wrote, IsNegation, Op

LEMMA WroteNegation ==
  ASSUME NEW f, NEW e, IsNegation(e)
  PROVE  Wrote(f, e) = <<"-">> \o Within(e[3], f[e[3]], 4)
<1>1. e[1] \notin {"num", "var"}
  BY DEF IsNegation
<1> QED
  BY <1>1 DEF Wrote

LEMMA WroteOperation ==
  ASSUME NEW f, NEW e, e[1] \in Op, ~IsNegation(e)
  PROVE  Wrote(f, e) = Within(e[2], f[e[2]], LeftLevel(e)) \o <<e[1]>>
                       \o Within(e[3], f[e[3]], RightLevel(e))
<1>1. e[1] \notin {"num", "var"}
  BY DEF Op
<1> QED
  BY <1>1 DEF Wrote

\* The operands of a tree are smaller trees; a minus has one.
LEMMA Operands ==
  ASSUME NEW h \in Nat, NEW e \in Tree[h], e \notin Leaf
  PROVE  /\ h > 0 /\ e = <<e[1], e[2], e[3]>> /\ e[1] \in Op /\ e[3] \in Tree[h - 1]
         /\ e[2] \in Tree[h - 1] \/ (IsNegation(e) /\ e[2] = MinusOne)
<1>1. CASE h > 0 /\ \E op \in Op, l, r \in Tree[h - 1] : e = <<op, l, r>>
  BY <1>1
<1>2. CASE h > 0 /\ \E r \in Tree[h - 1] : e = <<"*", MinusOne, r>>
  BY <1>2 DEF IsNegation, Op
<1> QED
  BY <1>1, <1>2, TreeFacts

LEMMA WroteSame ==
  ASSUME NEW h \in Nat, NEW e \in Tree[h], NEW f, NEW g,
         h > 0 => \A t \in Tree[h - 1] : f[t] = g[t]
  PROVE  Wrote(f, e) = Wrote(g, e)
<1>1. CASE e \in Leaf
  BY <1>1, WroteLeaf
<1>2. CASE e \notin Leaf /\ IsNegation(e)
  <2>1. f[e[3]] = g[e[3]]
    BY <1>2, Operands
  <2> QED
    BY <1>2, <2>1, WroteNegation
<1>3. CASE e \notin Leaf /\ ~IsNegation(e)
  <2>1. f[e[3]] = g[e[3]] /\ f[e[2]] = g[e[2]] /\ e[1] \in Op
    BY <1>3, Operands
  <2> QED
    BY <1>3, <2>1, WroteOperation
<1> QED
  BY <1>1, <1>2, <1>3

\* Each tree is written as the equation of written says.
LEMMA WrittenEquation ==
  ASSUME NEW e \in Tree[Height]
  PROVE  written[e] = Wrote(written, e)
<1> DEFINE Walk(f, h) == [t \in Tree[h] |-> Wrote(f, t)]
<1>1. ASSUME NEW h \in Nat PROVE \E f : f = Walk(f, h)
  <2> DEFINE T == {m \in Nat : ~ \E f : f = Walk(f, m)}
  <2> SUFFICES ASSUME T # {} PROVE FALSE
    OBVIOUS
  <2>1. PICK m \in T : \A k \in T : m <= k
    <3>1. T \subseteq Nat /\ T # {}
      OBVIOUS
    <3> HIDE DEF T
    <3> QED
      BY <3>1, LeastNumber
  <2>2. PICK f : m > 0 => f = Walk(f, m - 1)
    <3>1. CASE m = 0
      BY <3>1
    <3>2. CASE m # 0
      <4>1. m \in Nat /\ m - 1 \in Nat /\ ~ (m <= m - 1)
        BY <2>1, <3>2
      <4>2. m - 1 \notin T
        <5> HIDE DEF T
        <5> QED
          BY <2>1, <4>1
      <4> QED
        BY <4>1, <4>2
    <3> QED
      BY <3>1, <3>2
  <2> DEFINE g == Walk(f, m)
  <2>3. m > 0 => \A t \in Tree[m - 1] : g[t] = f[t]
    <3> SUFFICES ASSUME m > 0, NEW t \in Tree[m - 1] PROVE g[t] = f[t]
      OBVIOUS
    <3>1. t \in Tree[m]
      BY <2>1, Higher
    <3>2. f[t] = Wrote(f, t)
      BY <2>2, Zenon
    <3> QED
      BY <3>1, <3>2
  <2> HIDE DEF g
  <2>4. ASSUME NEW t \in Tree[m] PROVE Wrote(f, t) = Wrote(g, t)
    BY <2>1, <2>3, WroteSame
  <2>5. Walk(f, m) = Walk(g, m)
    BY <2>4, Zenon
  <2>6. g = Walk(g, m)
    BY <2>5 DEF g
  <2> QED
    BY <2>1, <2>6
<1>2. written = CHOOSE f : f = Walk(f, Height)
  BY DEF written, Wrote
<1>3. written = Walk(written, Height)
  <2>1. \E f : f = Walk(f, Height)
    BY <1>1, MeaningAssumption
  <2> HIDE DEF Walk
  <2> QED
    BY <1>2, <2>1, Zenon
<1> QED
  BY <1>3, Zenon

\* The value of a tree if f has those of its operands.
Valued(f, e) ==
  CASE e[1] = "num" -> e
    [] e[1] = "var" -> Meant(e[2], Len(given))
    [] OTHER -> Combined(e[1], f[e[2]], f[e[3]])

Valuable(h) == Tree[h] \cup {MinusOne}

LEMMA ValuedCases ==
  ASSUME NEW f, NEW e
  PROVE  /\ e[1] = "num" => Valued(f, e) = e
         /\ e[1] = "var" => Valued(f, e) = Meant(e[2], Len(given))
         /\ e[1] \in Op => Valued(f, e) = Combined(e[1], f[e[2]], f[e[3]])
BY DEF Valued, Op

LEMMA ValuedSame ==
  ASSUME NEW h \in Nat, NEW e \in Valuable(h), NEW f, NEW g,
         h > 0 => \A t \in Valuable(h - 1) : f[t] = g[t]
  PROVE  Valued(f, e) = Valued(g, e)
<1>1. CASE e \in Leaf \/ e = MinusOne
  <2>1. e[1] \in {"num", "var"}
    BY <1>1, LeafFacts DEF MinusOne
  <2> QED
    BY <2>1, ValuedCases
<1>2. CASE e \notin Leaf /\ e # MinusOne
  <2>1. e \in Tree[h]
    BY <1>2 DEF Valuable
  <2>2. h > 0 /\ e[1] \in Op /\ e[2] \in Valuable(h - 1) /\ e[3] \in Valuable(h - 1)
    BY <1>2, <2>1, Operands DEF Valuable
  <2>3. f[e[2]] = g[e[2]] /\ f[e[3]] = g[e[3]]
    BY <2>2
  <2> QED
    BY <2>2, <2>3, ValuedCases
<1> QED
  BY <1>1, <1>2

\* The value of a tree is what the equation of ValueIn says.
LEMMA ValueEquation ==
  ASSUME NEW h \in Nat, NEW e \in Valuable(h)
  PROVE  /\ e[1] = "num" => ValueIn(e, h) = e
         /\ e[1] = "var" => ValueIn(e, h) = Meant(e[2], Len(given))
         /\ e[1] \in Op => ValueIn(e, h) = Combined(e[1], ValueIn(e[2], h), ValueIn(e[3], h))
<1> DEFINE Walk(f, n) == [t \in Valuable(n) |-> Valued(f, t)]
<1>1. ASSUME NEW n \in Nat PROVE \E f : f = Walk(f, n)
  <2> DEFINE T == {m \in Nat : ~ \E f : f = Walk(f, m)}
  <2> SUFFICES ASSUME T # {} PROVE FALSE
    OBVIOUS
  <2>1. PICK m \in T : \A k \in T : m <= k
    <3>1. T \subseteq Nat /\ T # {}
      OBVIOUS
    <3> HIDE DEF T
    <3> QED
      BY <3>1, LeastNumber
  <2>2. PICK f : m > 0 => f = Walk(f, m - 1)
    <3>1. CASE m = 0
      BY <3>1
    <3>2. CASE m # 0
      <4>1. m \in Nat /\ m - 1 \in Nat /\ ~ (m <= m - 1)
        BY <2>1, <3>2
      <4>2. m - 1 \notin T
        <5> HIDE DEF T
        <5> QED
          BY <2>1, <4>1
      <4> QED
        BY <4>1, <4>2
    <3> QED
      BY <3>1, <3>2
  <2> DEFINE g == Walk(f, m)
  <2>3. m > 0 => \A t \in Valuable(m - 1) : g[t] = f[t]
    <3> SUFFICES ASSUME m > 0, NEW t \in Valuable(m - 1) PROVE g[t] = f[t]
      OBVIOUS
    <3>1. t \in Valuable(m)
      <4>1. m - 1 \in Nat /\ m \in Nat /\ m - 1 <= m
        BY <2>1
      <4> QED
        BY <4>1, Higher DEF Valuable
    <3>2. f[t] = Valued(f, t)
      BY <2>2, Zenon
    <3> QED
      BY <3>1, <3>2
  <2> HIDE DEF g
  <2>4. ASSUME NEW t \in Valuable(m) PROVE Valued(f, t) = Valued(g, t)
    BY <2>1, <2>3, ValuedSame
  <2>5. Walk(f, m) = Walk(g, m)
    BY <2>4, Zenon
  <2>6. g = Walk(g, m)
    BY <2>5 DEF g
  <2> QED
    BY <2>1, <2>6
<1> DEFINE value == CHOOSE f : f = Walk(f, h)
<1>2. ASSUME NEW t PROVE ValueIn(t, h) = value[t]
  BY DEF ValueIn, Valued, Valuable
<1>3. value = Walk(value, h)
  <2> HIDE DEF Walk
  <2> QED
    BY <1>1, Zenon
<1> HIDE DEF value
<1>4. value[e] = Valued(value, e)
  BY <1>3, Zenon
<1> QED
  BY <1>2, <1>4, ValuedCases

---------------------------------------------------------------------------
(* The equation that is built *)

Lexeme(t) == t[Len(t)]
TextOK == \A i \in 1 .. Len(tokens) : tokens[i] = Lex(Lexeme(tokens[i]))

\* What is built so far is lower than the tokens read are many, and lower
\* still by one for each call that waits.
BuildInv ==
  /\ ParseInv /\ TextOK
  /\ mode \in {"operand", "loop"} =>
       /\ Len(frames) <= pos - 1
       /\ \A k \in 1 .. Len(frames) : frames[k].kind \in Op => frames[k].lhs \in Tree[pos - 1 - k]
  /\ mode = "loop" => val \in Tree[pos - 1 - Len(frames)]
  /\ mode \in {"collect", "collected", "done", "failed"} => val \in Tree[Len(tokens)]

LEMMA LexCases ==
  ASSUME NEW x
  PROVE  /\ x \in Numbers => Lex(x) = <<"num", x>>
         /\ x \in Names => Lex(x) = <<"var", x>>
         /\ x \in Op \cup {"(", ")"} => Lex(x) = <<x>>
         /\ x \notin Numbers \cup Names \cup Op \cup {"(", ")"} => Lex(x) = <<"error", x>>
<1>1. x \in Numbers => Lex(x) = <<"num", x>>
  BY PrattAssumption, MeaningAssumption DEF Lex
<1>2. x \in Names => Lex(x) = <<"var", x>>
  BY PrattAssumption, MeaningAssumption DEF Lex
<1>3. x \in Op \cup {"(", ")"} => Lex(x) = <<x>>
  BY MeaningAssumption DEF Lex
<1>4. x \notin Numbers \cup Names \cup Op \cup {"(", ")"} => Lex(x) = <<"error", x>>
  BY DEF Lex
<1> QED
  BY <1>1, <1>2, <1>3, <1>4

LEMMA LexemeKept ==
  ASSUME NEW x
  PROVE  Lexeme(Lex(x)) = x
<1>1. ASSUME NEW a PROVE Lexeme(<<a, x>>) = x
  BY DEF Lexeme
<1>2. Lexeme(<<x>>) = x
  BY DEF Lexeme
<1> QED
  BY <1>1, <1>2, LexCases

LEMMA TokenLeaf ==
  ASSUME TextOK, NEW i \in 1 .. Len(tokens), tokens[i][1] \in {"num", "var"}
  PROVE  tokens[i] \in Leaf
<1> DEFINE x == Lexeme(tokens[i])
<1>1. tokens[i] = Lex(x)
  BY DEF TextOK
<1> HIDE DEF x
<1>2. CASE x \in Numbers
  <2>1. tokens[i] = <<"num", x>>
    BY <1>1, <1>2, LexCases
  <2> QED
    BY <1>2, <2>1 DEF Leaf
<1>3. CASE x \in Names
  <2>1. tokens[i] = <<"var", x>>
    BY <1>1, <1>3, LexCases
  <2> QED
    BY <1>3, <2>1 DEF Leaf
<1>4. CASE x \in Op \cup {"(", ")"}
  <2>1. tokens[i] = <<x>>
    BY <1>1, <1>4, LexCases
  <2>2. tokens[i][1] = x
    BY <2>1
  <2> QED
    BY <1>4, <2>2, Symbols
<1>5. CASE x \notin Numbers \cup Names \cup Op \cup {"(", ")"}
  <2>1. tokens[i] = <<"error", x>>
    BY <1>1, <1>5, LexCases
  <2>2. tokens[i][1] = "error"
    BY <2>1
  <2> QED
    BY <2>2
<1> QED
  BY <1>2, <1>3, <1>4, <1>5

LEMMA BuildInit == Init => BuildInv
<1> SUFFICES ASSUME Init PROVE BuildInv
  OBVIOUS
<1>1. ParseInv
  BY ParseInit
<1>2. PICK eq \in Equations : tokens = [i \in 1 .. Len(eq) |-> Lex(eq[i])]
  BY DEF Init
<1>3. Len(eq) \in Nat
  BY PrattAssumption
<1>4. PICK n \in Nat : n = Len(eq)
  BY <1>3
<1>5. Len(tokens) = n
  <2>1. tokens = [i \in 1 .. n |-> tokens[i]]
    BY <1>2, <1>4
  <2> QED
    BY <2>1, IsSequenceFunction
<1>6. TextOK
  <2> SUFFICES ASSUME NEW i \in 1 .. n PROVE tokens[i] = Lex(Lexeme(tokens[i]))
    BY <1>5 DEF TextOK
  <2>1. tokens[i] = Lex(eq[i])
    BY <1>2, <1>4
  <2> QED
    BY <2>1, LexemeKept
<1> QED
  BY <1>1, <1>6 DEF Init, BuildInv

\* Of a tree that is lower than the tokens read are many.
LEMMA NotLower ==
  ASSUME NEW t, NEW a \in Nat, NEW b \in Nat, t \in Tree[a], a <= b
  PROVE  t \in Tree[b]
BY Higher

LEMMA BuildNext == BuildInv /\ [Next]_vars => BuildInv'
<1> SUFFICES ASSUME BuildInv, [Next]_vars PROVE BuildInv'
  OBVIOUS
<1>0. /\ ParseInv /\ ParseInv' /\ TextOK /\ TokensOK /\ IsSequence(frames) /\ CallsOK /\ ReadOK
      /\ Before
  BY ParseNext DEF BuildInv, ParseInv
<1>t. tokens' = tokens
  BY DEF Next, vars, ParseVar, VarsParsed, StartExpr, EatOperand, EatParen, EatMinus, Calling,
         Unexpected, EatOperator, ReturnTo, Close, Return, Accept, CollectNum, CollectVariable,
         Missing, CollectLeft, CollectRight, AddStep, Collecting, Schedule, EmitIR
<1>x. TextOK'
  BY <1>0, <1>t DEF TextOK
<1>n. PICK n \in Nat : n = Len(frames)
  BY <1>0, IsSequenceFacts
<1>p. ASSUME mode \in {"operand", "loop"}
      PROVE  /\ pos \in Nat \ {0} /\ pos <= Len(tokens) + 1 /\ n <= pos - 1 /\ Len(tokens) \in Nat
             /\ \A k \in 1 .. n : frames[k].kind \in Op => frames[k].lhs \in Tree[pos - 1 - k]
             /\ \A k \in 1 .. n : frames[k].kind \in {"(", "neg"} \cup Op
  <2>1. pos \in 1 .. Len(tokens) + 1 /\ Len(tokens) \in Nat
    BY <1>0, <1>p, IsSequenceFacts DEF ReadOK, TokensOK
  <2> QED
    BY <1>0, <1>n, <1>p, <2>1 DEF BuildInv, CallsOK
\* A token is read and a call is made.
<1>c. ASSUME mode \in {"operand", "loop"}, NEW kind, NEW lhs, Calling(Frame(kind, lhs), min'),
             kind \in Op => lhs \in Tree[pos - 1 - n]
      PROVE  BuildInv'
  <2>1. PICK p \in Nat \ {0} : p = pos /\ n <= p - 1
    BY <1>p, <1>c
  <2>2. /\ mode' = "operand" /\ pos' = p + 1 /\ Len(frames') = n + 1
        /\ frames'[n + 1] = Frame(kind, lhs)
        /\ \A k \in 1 .. n : frames'[k] = frames[k]
    BY <1>0, <1>n, <1>c, <2>1, AppendFacts DEF Calling
  <2>3. frames'[n + 1].kind = kind /\ frames'[n + 1].lhs = lhs
    BY <2>2 DEF Frame
  <2>4. ASSUME NEW k \in 1 .. n + 1, frames'[k].kind \in Op
        PROVE  frames'[k].lhs \in Tree[(p + 1) - 1 - k]
    <3>1. CASE k = n + 1
      <4>1. (p + 1) - 1 - k = p - 1 - n
        BY <3>1
      <4> QED
        BY <1>c, <2>1, <2>3, <2>4, <3>1, <4>1
    <3>2. CASE k \in 1 .. n
      <4>1. p - 1 - k \in Nat /\ (p + 1) - 1 - k \in Nat /\ p - 1 - k <= (p + 1) - 1 - k
        BY <2>1, <3>2
      <4>2. frames[k].lhs \in Tree[p - 1 - k]
        BY <1>p, <1>c, <2>1, <2>2, <2>4, <3>2
      <4> QED
        BY <2>2, <3>2, <4>1, <4>2, NotLower
    <3> QED
      BY <3>1, <3>2
  <2> QED
    BY <1>0, <1>x, <2>1, <2>2, <2>4 DEF BuildInv
\* A call returns a tree.
<1>r. ASSUME mode = "loop", n > 0, NEW result, NEW eaten \in {0, 1},
             ReturnTo(frames[n], result, eaten), result \in Tree[pos - n]
      PROVE  BuildInv'
  <2>1. PICK p \in Nat \ {0} : p = pos /\ n <= p - 1
    BY <1>p, <1>r
  <2>2. /\ mode' = "loop" /\ pos' = p + eaten /\ Len(frames') = n - 1 /\ val' = result
        /\ \A k \in 1 .. n - 1 : frames'[k] = frames[k]
    <3>1. frames # << >>
      BY <1>n, <1>r, NoCalls
    <3> QED
      BY <1>0, <1>n, <1>r, <2>1, <3>1, FrontFacts DEF ReturnTo
  <2>3. ASSUME NEW k \in 1 .. n - 1, frames'[k].kind \in Op
        PROVE  frames'[k].lhs \in Tree[(p + eaten) - 1 - k]
    <3>1. p - 1 - k \in Nat /\ (p + eaten) - 1 - k \in Nat /\ p - 1 - k <= (p + eaten) - 1 - k
      BY <2>1, <2>3
    <3>2. frames[k].lhs \in Tree[p - 1 - k]
      BY <1>p, <1>r, <2>1, <2>2, <2>3
    <3> QED
      BY <2>2, <2>3, <3>1, <3>2, NotLower
  <2>4. val' \in Tree[(p + eaten) - 1 - (n - 1)]
    <3>1. p - n \in Nat /\ (p + eaten) - 1 - (n - 1) \in Nat /\ p - n <= (p + eaten) - 1 - (n - 1)
      BY <1>r, <2>1
    <3> QED
      BY <1>r, <2>1, <2>2, <3>1, NotLower
  <2>5. n - 1 <= (p + eaten) - 1
    BY <1>r, <2>1
  <2> QED
    BY <1>0, <1>x, <2>1, <2>2, <2>3, <2>4, <2>5 DEF BuildInv
<1>k. ASSUME mode \in {"collect", "collected", "done", "failed"}, val' = val,
             mode' \in {"collect", "collected", "done", "failed"}
      PROVE  BuildInv'
  BY <1>0, <1>x, <1>t, <1>k DEF BuildInv
<1>1. ASSUME ParseVar \/ VarsParsed \/ Unexpected PROVE BuildInv'
  BY <1>0, <1>x, <1>1 DEF BuildInv, ParseVar, VarsParsed, Unexpected
<1>2. ASSUME StartExpr PROVE BuildInv'
  <2>1. frames' = << >> /\ pos' = 1 /\ mode' \in {"refused", "operand"}
    BY <1>0, <1>2 DEF StartExpr, Before
  <2>2. Len(frames') = 0
    BY <2>1, EmptySeq
  <2> QED
    BY <1>0, <1>x, <2>1, <2>2 DEF BuildInv
<1>3. ASSUME EatOperand PROVE BuildInv'
  <2>1. mode = "operand" /\ mode' = "loop" /\ frames' = frames /\ pos' = pos + 1 /\ val' = tokens[pos]
    BY <1>3 DEF EatOperand
  <2>2. PICK p \in Nat \ {0} : p = pos /\ n <= p - 1
    BY <1>p, <2>1
  <2>3. val' \in Leaf
    <3>1. Peek \in {"num", "var"}
      BY <1>3 DEF EatOperand
    <3>2. pos \in 1 .. Len(tokens) /\ tokens[pos][1] = Peek
      BY <1>0, <2>1, <3>1, Peeked
    <3> QED
      BY <1>0, <2>1, <3>1, <3>2, TokenLeaf
  <2>4. val' \in Tree[(p + 1) - 1 - n]
    <3>1. (p + 1) - 1 - n \in Nat
      BY <2>2
    <3> QED
      BY <2>3, <3>1, TreeFacts
  <2>5. ASSUME NEW k \in 1 .. n, frames[k].kind \in Op
        PROVE  frames[k].lhs \in Tree[(p + 1) - 1 - k]
    <3>1. p - 1 - k \in Nat /\ (p + 1) - 1 - k \in Nat /\ p - 1 - k <= (p + 1) - 1 - k
      BY <2>2, <2>5
    <3>2. frames[k].lhs \in Tree[p - 1 - k]
      BY <1>p, <2>1, <2>2, <2>5
    <3> QED
      BY <3>1, <3>2, NotLower
  <2>6. n <= (p + 1) - 1
    BY <2>2
  <2> QED
    BY <1>0, <1>x, <1>n, <2>1, <2>2, <2>4, <2>5, <2>6 DEF BuildInv
<1>4. ASSUME EatParen PROVE BuildInv'
  BY <1>4, <1>c, Symbols DEF EatParen, Calling
<1>5. ASSUME EatMinus PROVE BuildInv'
  BY <1>5, <1>c, Symbols DEF EatMinus, Calling
<1>6. ASSUME EatOperator PROVE BuildInv'
  <2>1. mode = "loop" /\ val \in Tree[pos - 1 - n]
    BY <1>6, <1>n DEF EatOperator, BuildInv
  <2> QED
    BY <1>6, <1>c, <2>1 DEF EatOperator, Calling
<1>7. ASSUME Close PROVE BuildInv'
  <2>1. mode = "loop" /\ frames # << >> /\ val \in Tree[pos - 1 - n]
    BY <1>7, <1>n DEF Close, BuildInv
  <2>2. n > 0 /\ Last(frames) = frames[n]
    BY <1>0, <1>n, <2>1, FrontFacts DEF Last
  <2>3. CASE Peek = ")"
    <3>1. ReturnTo(frames[n], val, 1)
      BY <1>7, <2>2, <2>3 DEF Close
    <3>2. PICK p \in Nat \ {0} : p = pos /\ n <= p - 1
      BY <1>p, <2>1
    <3>3. p - 1 - n \in Nat /\ p - n \in Nat /\ p - 1 - n <= p - n
      BY <3>2
    <3>4. val \in Tree[pos - n]
      BY <2>1, <3>2, <3>3, NotLower
    <3> QED
      BY <1>r, <2>1, <2>2, <3>1, <3>4
  <2>4. CASE Peek # ")"
    BY <1>0, <1>7, <1>x, <2>4 DEF Close, BuildInv
  <2> QED
    BY <2>3, <2>4
<1>8. ASSUME Return PROVE BuildInv'
  <2>1. mode = "loop" /\ frames # << >> /\ val \in Tree[pos - 1 - n]
    BY <1>8, <1>n DEF Return, BuildInv
  <2>2. n > 0 /\ Last(frames) = frames[n]
    BY <1>0, <1>n, <2>1, FrontFacts DEF Last
  <2>3. PICK p \in Nat \ {0} : p = pos /\ n <= p - 1
    BY <1>p, <2>1
  <2>4. p - 1 - n \in Nat /\ (p - 1 - n) + 1 = p - n
    BY <2>3
  <2>5. CASE ReturnTo(frames[n], <<"*", <<"num", "-1">>, val>>, 0)
    <3>1. <<"*", MinusOne, val>> \in Tree[pos - n]
      BY <2>1, <2>3, <2>4, TreeFacts
    <3> QED
      BY <1>r, <2>1, <2>2, <2>5, <3>1 DEF MinusOne
  <2>6. CASE frames[n].kind \in Op /\ ReturnTo(frames[n], <<frames[n].kind, frames[n].lhs, val>>, 0)
    <3>1. frames[n].lhs \in Tree[pos - 1 - n]
      BY <1>p, <2>1, <2>2, <2>6
    <3>2. <<frames[n].kind, frames[n].lhs, val>> \in Tree[pos - n]
      BY <2>1, <2>3, <2>4, <2>6, <3>1, TreeFacts
    <3> QED
      BY <1>r, <2>1, <2>2, <2>6, <3>2
  <2> QED
    BY <1>8, <2>2, <2>5, <2>6 DEF Return
<1>9. ASSUME Accept PROVE BuildInv'
  <2>1. mode = "loop" /\ mode' = "collect" /\ val' = val /\ val \in Tree[pos - 1 - n] /\ n = 0
    BY <1>9, <1>n, NoCalls DEF Accept, BuildInv
  <2>2. pos - 1 - n \in Nat /\ Len(tokens) \in Nat /\ pos - 1 - n <= Len(tokens)
    BY <1>p, <2>1
  <2>3. val' \in Tree[Len(tokens)]
    BY <2>1, <2>2, NotLower
  <2> QED
    BY <1>0, <1>x, <1>t, <2>1, <2>3 DEF BuildInv
<1>10. ASSUME CollectNum \/ CollectVariable \/ Missing \/ CollectLeft \/ CollectRight \/ AddStep
              \/ Schedule \/ EmitIR
       PROVE  BuildInv'
  <2>1. val' = val /\ mode \in {"collect", "collected"}
        /\ mode' \in {"collect", "collected", "done", "failed"}
    BY <1>10 DEF CollectNum, CollectVariable, Missing, CollectLeft, CollectRight, AddStep,
                 Collecting, Schedule, EmitIR
  <2> QED
    BY <1>k, <2>1
<1>11. ASSUME UNCHANGED vars PROVE BuildInv'
  BY <1>0, <1>x, <1>11 DEF vars, BuildInv
<1> QED
  BY <1>1, <1>2, <1>3, <1>4, <1>5, <1>6, <1>7, <1>8, <1>9, <1>10, <1>11 DEF Next

---------------------------------------------------------------------------
(* What the variables stand for *)

LEMMA Extremes ==
  ASSUME NEW n \in Nat, NEW S, S \subseteq 1 .. n, S # {}
  PROVE  /\ Min(S) \in S /\ (\A m \in S : Min(S) <= m)
         /\ Max(S) \in S /\ (\A m \in S : Max(S) >= m)
<1>1. \E x \in S : \A y \in S : x <= y
  <2>1. S \subseteq Nat
    OBVIOUS
  <2> QED
    BY <2>1, LeastNumber
<1>2. S \subseteq 0 .. n
  OBVIOUS
<1>3. Min(S) \in S /\ (\A m \in S : Min(S) <= m)
  BY <1>1 DEF Min
<1> QED
  BY <1>2, <1>3, MaxOfBounded

LEMMA KnownFinite ==
  ASSUME NEW n \in Nat
  PROVE  IsFiniteSet(Known(n)) /\ Cardinality(Known(n)) \in Nat
<1> DEFINE f == [i \in Good(n) |-> given[i][1]]
<1>1. IsFiniteSet(Good(n))
  <2>1. IsFiniteSet(1 .. n) /\ Good(n) \in SUBSET (1 .. n)
    BY FS_Interval DEF Good
  <2> QED
    BY <2>1, FS_Subset
<1>2. f \in Surjection(Good(n), Known(n))
  BY DEF Surjection, Known
<1> HIDE DEF f
<1>3. IsFiniteSet(Known(n))
  BY <1>1, <1>2, FS_Surjection
<1> QED
  BY <1>3, FS_CardinalityType

\* Fewer variables, fewer names.
LEMMA KnownGrows ==
  ASSUME NEW m \in Nat, NEW n \in Nat, m <= n
  PROVE  Cardinality(Known(m)) <= Cardinality(Known(n))
<1>1. Good(m) \subseteq Good(n)
  BY DEF Good
<1>2. Known(m) \in SUBSET Known(n)
  BY <1>1 DEF Known
<1> QED
  BY <1>2, KnownFinite, FS_Subset

Mine(name, n) == {i \in Good(n) : given[i][1] = name}

\* What no number is given for counts for nothing.
LEMMA BadSkipped ==
  ASSUME NEW n \in Nat, given[n + 1][2] \notin Numbers
  PROVE  Known(n + 1) = Known(n) /\ \A name : Meant(name, n + 1) = Meant(name, n)
<1>1. Good(n + 1) = Good(n)
  BY DEF Good
<1> QED
  BY <1>1 DEF Known, Meant

LEMMA GoodCounted ==
  ASSUME NEW n \in Nat, given[n + 1][2] \in Numbers, NEW name
  PROVE  /\ Good(n + 1) = Good(n) \cup {n + 1}
         /\ Known(n + 1) = Known(n) \cup {given[n + 1][1]}
         /\ name # given[n + 1][1] => Meant(name, n + 1) = Meant(name, n)
         /\ name = given[n + 1][1] /\ name \in Known(n) =>
              Meant(name, n + 1) =
                IF Meant(name, n) = None THEN None ELSE <<"num", given[n + 1][2]>>
         /\ name = given[n + 1][1] /\ name \notin Known(n) =>
              /\ Meant(name, n) = None
              /\ Meant(name, n + 1) =
                   IF Cardinality(Known(n)) >= Slots THEN None ELSE <<"num", given[n + 1][2]>>
<1>1. Good(n + 1) = Good(n) \cup {n + 1}
  BY DEF Good
<1>2. Known(n + 1) = Known(n) \cup {given[n + 1][1]}
  BY <1>1 DEF Known
<1>3. \A k : Meant(name, k) =
        IF Mine(name, k) = {} \/ Cardinality(Known(Min(Mine(name, k)) - 1)) >= Slots
          THEN None ELSE <<"num", given[Max(Mine(name, k))][2]>>
  BY DEF Meant, Mine
<1>4. /\ Mine(name, n) \subseteq 1 .. n /\ (Mine(name, n) = {} <=> name \notin Known(n))
      /\ Mine(name, n + 1) = IF name = given[n + 1][1] THEN Mine(name, n) \cup {n + 1}
                                                      ELSE Mine(name, n)
  BY <1>1 DEF Mine, Known, Good
<1>5. \A v : <<"num", v>> # None
  BY DEF None
<1>6. CASE name # given[n + 1][1]
  BY <1>1, <1>2, <1>3, <1>4, <1>6
<1>7. CASE name = given[n + 1][1] /\ name \in Known(n)
  <2> DEFINE A == Mine(name, n)
             B == Mine(name, n + 1)
  <2>1. A # {} /\ A \subseteq 1 .. n /\ B = A \cup {n + 1} /\ B # {} /\ B \subseteq 1 .. n + 1
    BY <1>4, <1>7
  <2> HIDE DEF A, B
  <2>2. /\ Min(A) \in A /\ (\A m \in A : Min(A) <= m)
        /\ Min(B) \in B /\ (\A m \in B : Min(B) <= m)
        /\ Max(B) \in B /\ (\A m \in B : Max(B) >= m)
    <3>1. n + 1 \in Nat
      OBVIOUS
    <3> QED
      BY <2>1, <3>1, Extremes
  <2>3. Min(B) = Min(A) /\ Max(B) = n + 1
    <3>1. PICK a, b, c : a = Min(A) /\ b = Min(B) /\ c = Max(B)
      OBVIOUS
    <3>2. a \in 1 .. n /\ b \in 1 .. n + 1 /\ c \in 1 .. n + 1 /\ b <= a /\ c >= n + 1
      BY <2>1, <2>2, <3>1
    <3>3. b \in A
      BY <2>1, <2>2, <3>1, <3>2
    <3>4. a <= b
      BY <2>2, <3>1, <3>3
    <3> QED
      BY <3>1, <3>2, <3>4
  <2>4. /\ Meant(name, n) = IF Cardinality(Known(Min(A) - 1)) >= Slots
                              THEN None ELSE <<"num", given[Max(A)][2]>>
        /\ Meant(name, n + 1) = IF Cardinality(Known(Min(B) - 1)) >= Slots
                                  THEN None ELSE <<"num", given[Max(B)][2]>>
    BY <1>3, <2>1 DEF A, B
  <2> QED
    BY <1>1, <1>2, <1>5, <1>7, <2>3, <2>4
<1>8. CASE name = given[n + 1][1] /\ name \notin Known(n)
  <2> DEFINE B == Mine(name, n + 1)
  <2>1. Mine(name, n) = {} /\ B = {n + 1}
    BY <1>4, <1>8
  <2>2. Meant(name, n) = None
    BY <1>3, <2>1
  <2> HIDE DEF B
  <2>3. Min(B) = n + 1 /\ Max(B) = n + 1
    <3>1. n + 1 \in Nat /\ B \subseteq 1 .. n + 1 /\ B # {}
      BY <2>1
    <3>2. Min(B) \in B /\ Max(B) \in B
      BY <3>1, Extremes
    <3> QED
      BY <2>1, <3>2
  <2>4. Meant(name, n + 1) = IF Cardinality(Known(Min(B) - 1)) >= Slots
                              THEN None ELSE <<"num", given[Max(B)][2]>>
    BY <1>3, <2>1 DEF B
  <2>5. (n + 1) - 1 = n
    OBVIOUS
  <2> QED
    BY <1>1, <1>2, <1>8, <2>2, <2>3, <2>4, <2>5
<1> QED
  BY <1>6, <1>7, <1>8

LEMMA MeantFacts ==
  ASSUME NEW n \in Nat, NEW name
  PROVE  /\ Meant(name, n) # None => name \in Known(n) /\ Meant(name, n)[1] = "num"
         /\ name \in Known(n) /\ Meant(name, n) = None => Cardinality(Known(n)) >= Slots
<1>1. Meant(name, n) =
        IF Mine(name, n) = {} \/ Cardinality(Known(Min(Mine(name, n)) - 1)) >= Slots
          THEN None ELSE <<"num", given[Max(Mine(name, n))][2]>>
  BY DEF Meant, Mine
<1>2. Mine(name, n) \subseteq 1 .. n /\ (Mine(name, n) = {} <=> name \notin Known(n))
  BY DEF Mine, Known, Good
<1>3. \A v : <<"num", v>> # None /\ <<"num", v>>[1] = "num"
  BY DEF None
<1>4. ASSUME Mine(name, n) # {}
      PROVE  Cardinality(Known(Min(Mine(name, n)) - 1)) <= Cardinality(Known(n))
  <2>1. PICK a : a = Min(Mine(name, n))
    OBVIOUS
  <2>2. a \in 1 .. n
    BY <1>2, <1>4, <2>1, Extremes
  <2>3. a - 1 \in Nat /\ a - 1 <= n
    BY <2>2
  <2> QED
    BY <2>1, <2>3, KnownGrows
<1>5. ASSUME Mine(name, n) # {} PROVE Cardinality(Known(Min(Mine(name, n)) - 1)) \in Nat
  <2>1. PICK a : a = Min(Mine(name, n))
    OBVIOUS
  <2>2. a \in 1 .. n
    BY <1>2, <1>5, <2>1, Extremes
  <2>3. a - 1 \in Nat
    BY <2>2
  <2> QED
    BY <2>1, <2>3, KnownFinite
<1>6. CASE Mine(name, n) = {}
  BY <1>1, <1>2, <1>6
<1>7. CASE Mine(name, n) # {}
  <2>1. PICK a : a = Cardinality(Known(Min(Mine(name, n)) - 1))
    OBVIOUS
  <2>2. PICK b : b = Cardinality(Known(n))
    OBVIOUS
  <2>3. PICK v : v = <<"num", given[Max(Mine(name, n))][2]>>
    OBVIOUS
  <2>4. Meant(name, n) = IF a >= Slots THEN None ELSE v
    BY <1>1, <1>7, <2>1, <2>3
  <2>5. a \in Nat /\ b \in Nat /\ Slots \in Nat /\ a <= b /\ v # None /\ v[1] = "num"
    BY <1>3, <1>4, <1>5, <1>7, <2>1, <2>2, <2>3, KnownFinite, PrattAssumption
  <2> QED
    BY <1>2, <1>7, <2>2, <2>4, <2>5
<1> QED
  BY <1>6, <1>7

\* The Context holds what the first n variables mean.
ContextMeans(n) ==
  /\ Len(ctx) = IF Cardinality(Known(n)) < Slots THEN Cardinality(Known(n)) ELSE Slots
  /\ \A i \in 1 .. Len(ctx) : ctx[i][2] = Meant(ctx[i][1], n) /\ ctx[i][2] # None
  /\ \A name : Meant(name, n) # None => \E i \in 1 .. Len(ctx) : ctx[i][1] = name

VarsInv ==
  /\ ContextInv /\ Len(given) \in Nat
  /\ mode = "vars" => pos \in 1 .. Len(given) + 1 /\ ContextMeans(pos - 1)
  /\ mode # "vars" => ContextMeans(Len(given))

LEMMA InsertMeans ==
  ASSUME ContextInv, NEW n \in Nat, NEW next \in Nat, next = n + 1, ContextMeans(n), given[n + 1][2] \in Numbers, given' = given,
         ctx' = Insert(ctx, given[n + 1][1], <<"num", given[n + 1][2]>>)
  PROVE  ContextMeans(next)'
<1>0. PICK len \in Nat : len = Len(ctx)
  BY IsSequenceFacts DEF ContextInv
<1>1. PICK x : x = given[n + 1][1]
  OBVIOUS
<1>2. PICK value : value = <<"num", given[n + 1][2]>>
  OBVIOUS
<1>3. value[1] = "num" /\ value # None
  BY <1>2 DEF None
<1>4. /\ IsSequence(ctx) /\ len <= Slots /\ \A i \in 1 .. len : ctx[i][2][1] = "num"
      /\ \A i, j \in 1 .. len : ctx[i][1] = ctx[j][1] => i = j
      /\ len = IF Cardinality(Known(n)) < Slots THEN Cardinality(Known(n)) ELSE Slots
      /\ \A i \in 1 .. len : ctx[i][2] = Meant(ctx[i][1], n) /\ ctx[i][2] # None
      /\ \A name : Meant(name, n) # None => \E i \in 1 .. len : ctx[i][1] = name
  BY <1>0 DEF ContextInv, ContextMeans
<1>5. \A i \in 1 .. len : Meant(ctx[i][1], n) # None
  BY <1>4
<1>6. Cardinality(Known(n)) \in Nat /\ Slots \in Nat /\ IsFiniteSet(Known(n))
  BY KnownFinite, PrattAssumption
<1>7. /\ Known(next) = Known(n) \cup {x}
      /\ \A name : name # x => Meant(name, next) = Meant(name, n)
      /\ x \in Known(n) => Meant(x, next) = IF Meant(x, n) = None THEN None ELSE value
      /\ x \notin Known(n) =>
           /\ Meant(x, n) = None
           /\ Meant(x, next) = IF Cardinality(Known(n)) >= Slots THEN None ELSE value
  BY <1>1, <1>2, GoodCounted
<1>8. Cardinality(Known(next)) =
        IF x \in Known(n) THEN Cardinality(Known(n)) ELSE Cardinality(Known(n)) + 1
  BY <1>6, <1>7, FS_AddElement
<1>9. /\ Known(next)' = Known(next)
      /\ \A name : Meant(name, next)' = Meant(name, next)
  BY DEF Known, Good, Meant
<1>a. ASSUME NEW m \in Nat, Len(ctx') = m,
             m = (IF Cardinality(Known(next)) < Slots THEN Cardinality(Known(next)) ELSE Slots),
             \A i \in 1 .. m : ctx'[i][2] = Meant(ctx'[i][1], next) /\ ctx'[i][2] # None,
             \A name : Meant(name, next) # None => \E i \in 1 .. m : ctx'[i][1] = name
      PROVE  ContextMeans(next)'
  <2>1. Len(ctx') = IF Cardinality(Known(next)') < Slots THEN Cardinality(Known(next)') ELSE Slots
    BY <1>9, <1>a
  <2>2. ASSUME NEW i \in 1 .. Len(ctx')
        PROVE  ctx'[i][2] = Meant(ctx[i][1], next)' /\ ctx'[i][2] # None
    <3>1. PICK y : y = ctx'[i][1]
      OBVIOUS
    <3>2. Meant(ctx[i][1], next)' = Meant(y, next)'
      BY <3>1 DEF Meant, Known, Good
    <3>3. Meant(y, next)' = Meant(y, next)
      BY <1>9, Zenon
    <3>4. i \in 1 .. m
      BY <1>a
    <3>5. ctx'[i][2] = Meant(y, next) /\ ctx'[i][2] # None
      BY <1>a, <3>1, <3>4
    <3> QED
      BY <3>2, <3>3, <3>5
  <2>3. \A name : Meant(name, next)' # None => \E i \in 1 .. Len(ctx') : ctx'[i][1] = name
    BY <1>9, <1>a
  <2> QED
    BY <2>1, <2>2, <2>3 DEF ContextMeans
<1>10. SlotOf(ctx, x) = {i \in 1 .. len : ctx[i][1] = x}
  BY <1>0 DEF SlotOf
<1>11. CASE SlotOf(ctx, x) # {}
  <2>1. ctx' = [i \in 1 .. len |-> IF ctx[i][1] = x THEN <<x, value>> ELSE ctx[i]]
    BY <1>0, <1>1, <1>2, <1>10, <1>11 DEF Insert
  <2>2. ctx' = [i \in 1 .. len |-> ctx'[i]]
    BY <2>1
  <2>3. Len(ctx') = len
    BY <2>2, IsSequenceFunction
  <2>4. \A i \in 1 .. len : ctx'[i][1] = ctx[i][1]
                           /\ ctx'[i][2] = IF ctx[i][1] = x THEN value ELSE ctx[i][2]
    <3> SUFFICES ASSUME NEW i \in 1 .. len
                 PROVE  /\ ctx'[i][1] = ctx[i][1]
                        /\ ctx'[i][2] = IF ctx[i][1] = x THEN value ELSE ctx[i][2]
      OBVIOUS
    <3>1. ctx'[i] = IF ctx[i][1] = x THEN <<x, value>> ELSE ctx[i]
      BY <2>1
    <3> QED
      BY <3>1
  <2>5. Meant(x, n) # None /\ x \in Known(n)
    BY <1>5, <1>10, <1>11, MeantFacts
  <2>6. \A i \in 1 .. len : ctx'[i][2] = Meant(ctx'[i][1], next) /\ ctx'[i][2] # None
    BY <1>3, <1>4, <1>7, <2>4, <2>5
  <2>7. ASSUME NEW name, Meant(name, next) # None
        PROVE  \E i \in 1 .. len : ctx'[i][1] = name
    <3>1. Meant(name, n) # None
      BY <1>7, <2>5, <2>7
    <3> QED
      BY <1>4, <2>4, <3>1
  <2> QED
    BY <1>4, <1>8, <1>a, <2>3, <2>5, <2>6, <2>7
<1>12. CASE SlotOf(ctx, x) = {} /\ len < Slots
  <2>0. PICK slot : slot = <<x, value>>
    OBVIOUS
  <2>1. ctx' = Append(ctx, slot)
    BY <1>0, <1>1, <1>2, <1>12, <2>0 DEF Insert
  <2>2. /\ Len(ctx') = len + 1 /\ ctx'[len + 1] = slot
        /\ \A i \in 1 .. len : ctx'[i] = ctx[i]
    <3>1. /\ Len(Append(ctx, slot)) = Len(ctx) + 1 /\ Append(ctx, slot)[Len(ctx) + 1] = slot
          /\ \A i \in 1 .. Len(ctx) : Append(ctx, slot)[i] = ctx[i]
      BY <1>4, AppendFacts
    <3> QED
      BY <1>0, <2>1, <3>1
  <2>3. ctx'[len + 1][1] = x /\ ctx'[len + 1][2] = value
    BY <2>0, <2>2
  <2>4. \A i \in 1 .. len : ctx[i][1] # x
    BY <1>10, <1>12
  <2>5. Meant(x, n) = None
    BY <1>4, <2>4
  <2>6. x \notin Known(n) /\ Cardinality(Known(n)) = len
    BY <1>4, <1>6, <1>12, <2>5, MeantFacts
  <2>7. Meant(x, next) = value
    BY <1>6, <1>7, <1>12, <2>6
  <2>8. ASSUME NEW i \in 1 .. len + 1
        PROVE  ctx'[i][2] = Meant(ctx'[i][1], next) /\ ctx'[i][2] # None
    <3>1. CASE i = len + 1
      BY <1>3, <2>3, <2>7, <3>1
    <3>2. CASE i \in 1 .. len
      <4>1. ctx'[i] = ctx[i] /\ ctx[i][1] # x /\ ctx[i][2] = Meant(ctx[i][1], n) /\ ctx[i][2] # None
        BY <1>4, <2>2, <2>4, <3>2
      <4>2. Meant(ctx[i][1], next) = Meant(ctx[i][1], n)
        BY <1>7, <4>1
      <4> QED
        BY <4>1, <4>2
    <3> QED
      BY <3>1, <3>2
  <2>9. ASSUME NEW name, Meant(name, next) # None
        PROVE  \E i \in 1 .. len + 1 : ctx'[i][1] = name
    <3>1. CASE name = x
      BY <2>3, <3>1
    <3>2. CASE name # x
      <4>1. PICK i \in 1 .. len : ctx[i][1] = name
        BY <1>4, <1>7, <2>9, <3>2
      <4>2. i \in 1 .. len + 1 /\ ctx'[i][1] = name
        BY <2>2, <4>1
      <4> QED
        BY <4>2
    <3> QED
      BY <3>1, <3>2
  <2>10. Len(ctx') = IF Cardinality(Known(next)) < Slots THEN Cardinality(Known(next)) ELSE Slots
    BY <1>6, <1>8, <1>12, <2>2, <2>6
  <2> QED
    <3>1. PICK m \in Nat : m = len + 1
      OBVIOUS
    <3>2. Len(ctx') = m /\ m = (IF Cardinality(Known(next)) < Slots THEN Cardinality(Known(next)) ELSE Slots)
      BY <2>2, <2>10, <3>1
    <3> QED
      BY <1>a, <2>8, <2>9, <3>1, <3>2
<1>13. CASE SlotOf(ctx, x) = {} /\ ~ (len < Slots)
  <2>1. ctx' = ctx
    BY <1>0, <1>1, <1>13 DEF Insert
  <2>2. \A i \in 1 .. len : ctx[i][1] # x
    BY <1>10, <1>13
  <2>3. Meant(x, n) = None /\ Cardinality(Known(n)) >= Slots
    BY <1>4, <1>6, <1>13, <2>2
  <2>4. Meant(x, next) = None
    BY <1>7, <2>3
  <2>5. \A name : Meant(name, next) = Meant(name, n)
    BY <1>7, <2>3, <2>4
  <2>6. Len(ctx') = IF Cardinality(Known(next)) < Slots THEN Cardinality(Known(next)) ELSE Slots
    <3>1. len = Slots /\ Len(ctx') = len
      BY <1>0, <1>4, <1>6, <1>13, <2>1
    <3>2. PICK c \in Nat : c = Cardinality(Known(n))
      BY <1>6
    <3>3. PICK d : d = Cardinality(Known(next))
      OBVIOUS
    <3>4. (d = c \/ d = c + 1) /\ c >= Slots
      BY <1>8, <2>3, <3>2, <3>3
    <3> QED
      BY <1>6, <3>1, <3>2, <3>3, <3>4
  <2> QED
    <3>1. Len(ctx') = len /\ len = (IF Cardinality(Known(next)) < Slots THEN Cardinality(Known(next)) ELSE Slots)
      BY <1>0, <2>1, <2>6
    <3>2. \A i \in 1 .. len : ctx'[i][2] = Meant(ctx'[i][1], next) /\ ctx'[i][2] # None
      BY <1>4, <2>1, <2>5
    <3>3. \A name : Meant(name, next) # None => \E i \in 1 .. len : ctx'[i][1] = name
      BY <1>4, <2>1, <2>5
    <3> QED
      BY <1>a, <3>1, <3>2, <3>3
<1> QED
  BY <1>11, <1>12, <1>13

LEMMA SameMeaning ==
  ASSUME given' = given, NEW n
  PROVE  /\ Known(n)' = Known(n) /\ \A name : Meant(name, n)' = Meant(name, n)
         /\ ctx' = ctx /\ ContextMeans(n) => ContextMeans(n)'
<1>1. Known(n)' = Known(n) /\ \A name : Meant(name, n)' = Meant(name, n)
  BY DEF Known, Good, Meant
<1> QED
  BY <1>1 DEF ContextMeans

LEMMA VarsInit == Init => VarsInv
<1> SUFFICES ASSUME Init PROVE VarsInv
  OBVIOUS
<1>1. ContextInv
  BY ContextInit
<1>2. ctx = << >> /\ pos = 1 /\ mode = "vars"
  BY DEF Init
<1>3. Len(ctx) = 0
  BY <1>2, EmptySeq
<1>4. Len(given) \in Nat
  <2>1. CASE given \in VarLists
    BY <2>1, PrattAssumption
  <2>2. CASE given = << >>
    BY <2>2, EmptySeq
  <2> QED
    BY <2>1, <2>2 DEF Init
<1>5. Known(0) = {} /\ Cardinality(Known(0)) = 0
  <2>1. Known(0) = {}
    BY DEF Known, Good
  <2> QED
    BY <2>1, FS_EmptySet
<1>6. \A name : Meant(name, 0) = None
  BY <1>5, MeantFacts
<1>7. ContextMeans(0)
  BY <1>3, <1>5, <1>6, PrattAssumption DEF ContextMeans
<1> QED
  BY <1>1, <1>2, <1>4, <1>7 DEF VarsInv

LEMMA VarsNext == VarsInv /\ [Next]_vars => VarsInv'
<1> SUFFICES ASSUME VarsInv, [Next]_vars PROVE VarsInv'
  OBVIOUS
<1>0. ContextInv /\ ContextInv' /\ Len(given) \in Nat
  BY ContextNext DEF VarsInv
<1>1. given' = given
  BY DEF Next, vars, ParseVar, VarsParsed, StartExpr, EatOperand, EatParen, EatMinus, Calling,
         Unexpected, EatOperator, ReturnTo, Close, Return, Accept, CollectNum, CollectVariable,
         Missing, CollectLeft, CollectRight, AddStep, Collecting, Schedule, EmitIR
<1>2. ASSUME NEW n, ctx' = ctx, ContextMeans(n) PROVE ContextMeans(n)'
  BY <1>1, <1>2, SameMeaning
<1>3. CASE ParseVar
  <2>1. PICK n \in Nat : n = pos - 1
    BY <1>3 DEF ParseVar, VarsInv
  <2>2. /\ mode = "vars" /\ mode' = "vars" /\ pos = n + 1 /\ pos' = n + 2 /\ n + 1 <= Len(given)
        /\ ctx' = IF given[n + 1][2] \in Numbers
                    THEN Insert(ctx, given[n + 1][1], <<"num", given[n + 1][2]>>) ELSE ctx
    BY <1>3, <2>1 DEF ParseVar, VarsInv
  <2>3. ContextMeans(n)
    BY <2>1, <2>2 DEF VarsInv
  <2>5. PICK m \in Nat : m = n + 1
    OBVIOUS
  <2>4. ContextMeans(m)'
    <3>1. CASE given[n + 1][2] \in Numbers
      BY <1>0, <1>1, <2>2, <2>3, <2>5, <3>1, InsertMeans
    <3>2. CASE given[n + 1][2] \notin Numbers
      <4>1. ContextMeans(m)
        BY <2>3, <2>5, <3>2, BadSkipped DEF ContextMeans
      <4> QED
        BY <1>2, <2>2, <3>2, <4>1
    <3> QED
      BY <3>1, <3>2
  <2>6. ContextMeans(m)' /\ pos' - 1 = m
    BY <2>2, <2>4, <2>5
  <2>7. ContextMeans(pos - 1)'
    BY <2>6 DEF ContextMeans, Meant, Known, Good
  <2> QED
    BY <1>0, <1>1, <2>2, <2>7 DEF VarsInv
<1>4. CASE VarsParsed
  <2>1. PICK n : n = Len(given)
    OBVIOUS
  <2>2. /\ mode = "vars" /\ mode' # "vars" /\ ctx' = ctx /\ pos - 1 = n
    BY <1>0, <1>4, <2>1 DEF VarsParsed, VarsInv
  <2>3. ContextMeans(n)'
    BY <1>2, <2>2 DEF VarsInv
  <2>4. ContextMeans(Len(given))'
    BY <1>1, <2>1, <2>3 DEF ContextMeans, Meant, Known, Good
  <2> QED
    BY <1>0, <1>1, <2>2, <2>4 DEF VarsInv
<1>5. CASE ctx' = ctx /\ mode # "vars" /\ mode' # "vars"
  <2>1. PICK n : n = Len(given)
    OBVIOUS
  <2>2. ContextMeans(n)'
    BY <1>2, <1>5, <2>1 DEF VarsInv
  <2>3. ContextMeans(Len(given))'
    BY <1>1, <2>1, <2>2 DEF ContextMeans, Meant, Known, Good
  <2> QED
    BY <1>0, <1>1, <1>5, <2>3 DEF VarsInv
<1>6. CASE UNCHANGED vars
  <2>1. ctx' = ctx /\ pos' = pos /\ mode' = mode
    BY <1>6 DEF vars
  <2>2. PICK n : n = Len(given)
    OBVIOUS
  <2>3. PICK p : p = pos - 1
    OBVIOUS
  <2>4. mode = "vars" => ContextMeans(p)'
    BY <1>2, <2>1, <2>3 DEF VarsInv
  <2>5. mode # "vars" => ContextMeans(n)'
    BY <1>2, <2>1, <2>2 DEF VarsInv
  <2>6. mode = "vars" => ContextMeans(pos - 1)'
    BY <2>1, <2>3, <2>4 DEF ContextMeans, Meant, Known, Good
  <2>7. mode # "vars" => ContextMeans(Len(given))'
    BY <1>1, <2>2, <2>5 DEF ContextMeans, Meant, Known, Good
  <2> QED
    BY <1>0, <1>1, <2>1, <2>6, <2>7 DEF VarsInv
<1> QED
  <2>1. ParseVar \/ VarsParsed \/ UNCHANGED vars \/ (ctx' = ctx /\ mode # "vars" /\ mode' # "vars")
    BY DEF Next, StartExpr, EatOperand, EatParen, EatMinus, Calling, Unexpected, EatOperator,
           ReturnTo, Close, Return, Accept, CollectNum, CollectVariable, Missing, CollectLeft,
           CollectRight, AddStep, Collecting, Schedule, EmitIR
  <2> QED
    BY <1>3, <1>4, <1>5, <1>6, <2>1

---------------------------------------------------------------------------
(* What collect_steps works out *)

Worth(e) == ValueIn(e, Len(tokens))

\* parts[k] is what call k of collect_steps is made with: a call that waits
\* has yet to look at its right operand, or knows what the left one is worth.
Descends(parts) ==
  /\ parts[0] = val
  /\ \A k \in 0 .. Len(frames) :
       parts[k] \in Valuable(Len(tokens)) /\ (Worth(parts[k]) = None => Worth(val) = None)
  /\ \A k \in 1 .. Len(frames) :
       /\ parts[k - 1][1] \in Op
       /\ \/ /\ frames[k].kind = "left" /\ frames[k].lhs = parts[k - 1]
             /\ parts[k] = parts[k - 1][2]
          \/ /\ frames[k].kind = parts[k - 1][1]
             /\ frames[k].lhs = Worth(parts[k - 1][2]) /\ frames[k].lhs # None
             /\ parts[k] = parts[k - 1][3]
  /\ mode = "collect" => root = parts[Len(frames)]
  /\ mode = "collected" => root = Worth(parts[Len(frames)]) /\ root # None

RootInv ==
  /\ StepsInv /\ BuildInv /\ VarsInv /\ RootRight
  /\ mode # "done" => \A i \in 1 .. Len(steps) : steps[i].priority \in 1 .. 3
  /\ mode \in {"collect", "collected"} => \E parts : Descends(parts)

LEMMA SameWorth ==
  ASSUME given' = given, tokens' = tokens
  PROVE  \A e : Worth(e)' = Worth(e)
BY DEF Worth, ValueIn, Meant, Known, Good

\* What is worth what.
LEMMA WorthFacts ==
  ASSUME Len(tokens) \in Nat, NEW e \in Valuable(Len(tokens))
  PROVE  /\ e[1] = "num" => Worth(e) = e /\ e # None
         /\ e[1] = "var" => Worth(e) = Meant(e[2], Len(given))
         /\ e[1] \in Op =>
              /\ e[2] \in Valuable(Len(tokens)) /\ e[3] \in Valuable(Len(tokens))
              /\ Worth(e) = Combined(e[1], Worth(e[2]), Worth(e[3]))
<1>0. PICK h \in Nat : h = Len(tokens)
  OBVIOUS
<1>1. ASSUME e[1] \in Op PROVE e[2] \in Valuable(h) /\ e[3] \in Valuable(h)
  <2>1. e # MinusOne /\ e \notin Leaf
    BY <1>1, LeafFacts, Symbols DEF MinusOne
  <2>2. e \in Tree[h]
    BY <1>0, <2>1 DEF Valuable
  <2>3. h > 0 /\ e[3] \in Tree[h - 1] /\ (e[2] \in Tree[h - 1] \/ e[2] = MinusOne)
    BY <2>1, <2>2, Operands
  <2>4. Tree[h - 1] \subseteq Tree[h]
    <3>1. h - 1 \in Nat /\ h - 1 <= h
      BY <2>3
    <3> QED
      BY <3>1, Higher
  <2> QED
    BY <2>3, <2>4 DEF Valuable
<1>2. ASSUME e[1] = "num" PROVE e # None
  <2>1. CASE e = MinusOne
    BY <2>1 DEF MinusOne, None
  <2>2. CASE e \in Leaf
    BY <2>2 DEF Leaf, None
  <2>3. CASE e \in Tree[h] /\ e \notin Leaf
    <3>1. e[1] \in Op
      BY <2>3, Operands
    <3> QED
      BY <1>2, <3>1, Symbols
  <2> QED
    BY <1>0, <2>1, <2>2, <2>3 DEF Valuable
<1> QED
  BY <1>0, <1>1, <1>2, ValueEquation DEF Worth

\* Each step is in the list once it is sorted.
LEMMA Sorted ==
  ASSUME NEW s, IsSequence(s), \A i \in 1 .. Len(s) : s[i].priority \in 1 .. 3,
         NEW i \in 1 .. Len(s)
  PROVE  IsSequence(ByPriority(s)) /\ \E k \in 1 .. Len(ByPriority(s)) : ByPriority(s)[k] = s[i]
<1> DEFINE Cell(p, j) == IF s[j].priority = p THEN <<s[j]>> ELSE << >>
           cells(p) == [j \in DOMAIN s |-> Cell(p, j)]
           all == [p \in 1 .. 3 |-> OfPriority(s, p)]
<1>0. DOMAIN s = 1 .. Len(s) /\ Len(s) \in Nat
  BY IsSequenceFacts
<1>1. ASSUME NEW p, NEW j
      PROVE  IsSequence(Cell(p, j)) /\ (s[j].priority = p => s[j] \in ToSet(Cell(p, j)))
  <2>1. << >> \in Seq({}) /\ <<s[j]>> \in Seq({s[j]})
    BY EmptySeq
  <2>2. IsSequence(<< >>) /\ IsSequence(<<s[j]>>)
    BY <2>1, IsSequenceOf
  <2>3. s[j] \in ToSet(<<s[j]>>)
    BY DEF ToSet
  <2> QED
    BY <2>2, <2>3
<1>2. ASSUME NEW p
      PROVE  /\ IsSequence(OfPriority(s, p))
             /\ \A j \in 1 .. Len(s) : s[j].priority = p => s[j] \in ToSet(OfPriority(s, p))
  <2>1. OfPriority(s, p) = FlattenSeq(cells(p))
    BY DEF OfPriority
  <2>2. DOMAIN cells(p) = 1 .. Len(s) /\ \A j \in 1 .. Len(s) : cells(p)[j] = Cell(p, j)
    BY <1>0
  <2>3. cells(p) = [j \in 1 .. Len(s) |-> cells(p)[j]]
    BY <1>0
  <2> HIDE DEF cells, Cell
  <2>4. IsSequence(cells(p)) /\ Len(cells(p)) = Len(s)
    BY <1>0, <2>3, IsSequenceFunction
  <2>5. \A j \in DOMAIN cells(p) : IsSequence(cells(p)[j])
    BY <1>1, <2>2
  <2>6. /\ IsSequence(FlattenSeq(cells(p)))
        /\ \A e : e \in ToSet(FlattenSeq(cells(p))) <=> \E j \in DOMAIN cells(p) : e \in ToSet(cells(p)[j])
    BY <2>4, <2>5, FlattenFacts
  <2> QED
    BY <1>1, <2>1, <2>2, <2>6
<1>3. /\ DOMAIN all = 1 .. 3 /\ \A p \in 1 .. 3 : all[p] = OfPriority(s, p)
      /\ all = [p \in 1 .. 3 |-> all[p]]
  OBVIOUS
<1>4. ByPriority(s) = FlattenSeq(all)
  BY DEF ByPriority
<1> HIDE DEF all, cells, Cell
<1>5. IsSequence(all)
  BY <1>3, IsSequenceFunction
<1>6. \A p \in DOMAIN all : IsSequence(all[p])
  BY <1>2, <1>3
<1>7. /\ IsSequence(FlattenSeq(all))
      /\ \A e : e \in ToSet(FlattenSeq(all)) <=> \E p \in DOMAIN all : e \in ToSet(all[p])
  BY <1>5, <1>6, FlattenFacts
<1>8. s[i] \in ToSet(ByPriority(s))
  BY <1>2, <1>3, <1>4, <1>7
<1>9. IsSequence(ByPriority(s))
  BY <1>4, <1>7
<1>10. DOMAIN ByPriority(s) = 1 .. Len(ByPriority(s))
  BY <1>9, IsSequenceFacts
<1> QED
  BY <1>8, <1>9, <1>10 DEF ToSet

LEMMA RootInit == Init => RootInv
<1> SUFFICES ASSUME Init PROVE RootInv
  OBVIOUS
<1>1. Len(steps) = 0
  BY NoSteps DEF Init
<1> QED
  BY <1>1, StepsInit, BuildInit, VarsInit DEF Init, RootInv, RootRight

LEMMA RootNext == RootInv /\ [Next]_vars => RootInv'
<1> SUFFICES ASSUME RootInv, [Next]_vars PROVE RootInv'
  OBVIOUS
<1>0. /\ StepsInv /\ BuildInv /\ VarsInv /\ StepsInv' /\ BuildInv' /\ VarsInv'
      /\ IsSequence(frames) /\ TokensOK
  BY StepsNext, BuildNext, VarsNext DEF RootInv, BuildInv, ParseInv
<1>n. PICK n \in Nat : n = Len(frames)
  BY <1>0, IsSequenceFacts
<1>h. PICK h \in Nat : h = Len(tokens)
  BY <1>0, IsSequenceFacts DEF TokensOK
<1>g. given' = given /\ tokens' = tokens
  BY DEF Next, vars, ParseVar, VarsParsed, StartExpr, EatOperand, EatParen, EatMinus, Calling,
         Unexpected, EatOperator, ReturnTo, Close, Return, Accept, CollectNum, CollectVariable,
         Missing, CollectLeft, CollectRight, AddStep, Collecting, Schedule, EmitIR
<1>w. \A e : Worth(e)' = Worth(e)
  BY <1>g, SameWorth
<1>o. ASSUME NEW e, NEW l, NEW r PROVE Combined(e, l, r) = None <=> l = None \/ r = None
  BY DEF Combined, None
\* Nothing is collected yet, or nothing can be.
<1>b. ASSUME mode' \notin {"collect", "collected", "done", "failed"}, steps' = steps, mode # "done"
      PROVE  RootInv'
  BY <1>0, <1>b DEF RootInv, RootRight
\* The walk goes on with what parts says.
<1>p. ASSUME mode' \in {"collect", "collected"}, mode \in {"collect", "collected"}, val' = val,
             \A i \in 1 .. Len(steps') : steps'[i].priority \in 1 .. 3,
             NEW m \in Nat, m = Len(frames'), NEW parts, parts[0] = val,
             \A k \in 0 .. m : parts[k] \in Valuable(h) /\ (Worth(parts[k]) = None => Worth(val) = None),
             \A k \in 1 .. m :
               /\ parts[k - 1][1] \in Op
               /\ \/ /\ frames'[k].kind = "left" /\ frames'[k].lhs = parts[k - 1]
                     /\ parts[k] = parts[k - 1][2]
                  \/ /\ frames'[k].kind = parts[k - 1][1]
                     /\ frames'[k].lhs = Worth(parts[k - 1][2]) /\ frames'[k].lhs # None
                     /\ parts[k] = parts[k - 1][3],
             mode' = "collect" => root' = parts[m],
             mode' = "collected" => root' = Worth(parts[m]) /\ root' # None
      PROVE  RootInv'
  <2>1. Descends(parts)'
    BY <1>h, <1>g, <1>w, <1>p DEF Descends, Valuable
  <2> QED
    BY <1>0, <1>p, <2>1 DEF RootInv, RootRight
<1>1. ASSUME ParseVar \/ VarsParsed \/ StartExpr \/ EatOperand \/ EatParen \/ EatMinus
             \/ Unexpected \/ EatOperator \/ Close \/ Return
      PROVE  RootInv'
  <2>1. /\ steps' = steps /\ mode # "done"
        /\ mode' \notin {"collect", "collected", "done", "failed"}
    BY <1>1 DEF ParseVar, VarsParsed, StartExpr, EatOperand, EatParen, EatMinus, Calling,
                Unexpected, EatOperator, ReturnTo, Close, Return
  <2> QED
    BY <1>b, <2>1
<1>2. ASSUME Accept PROVE RootInv'
  <2>1. /\ steps' = steps /\ mode = "loop" /\ mode' = "collect" /\ frames' = << >> /\ root' = val
        /\ val' = val
    BY <1>2 DEF Accept
  <2>2. Len(frames') = 0
    BY <2>1, NoSteps
  <2>3. PICK v : v = val
    OBVIOUS
  <2> DEFINE parts == [k \in 0 .. 0 |-> v]
  <2>4. parts[0] = v /\ v \in Valuable(Len(tokens))'
    <3>1. val' \in Tree[Len(tokens)]'
      BY <1>0, <2>1 DEF BuildInv
    <3> QED
      BY <2>1, <2>3, <3>1 DEF Valuable
  <2> HIDE DEF parts
  <2>5. Descends(parts)'
    BY <2>1, <2>2, <2>3, <2>4 DEF Descends
  <2> QED
    BY <1>0, <2>1, <2>5 DEF RootInv, RootRight
<1>3. ASSUME UNCHANGED vars PROVE RootInv'
  <2>1. \A parts : Descends(parts) => Descends(parts)'
    BY <1>g, <1>w, <1>3 DEF vars, Descends, Valuable
  <2>2. RootRight'
    <3>1. /\ root' = root /\ val' = val /\ mode' = mode /\ api' = api /\ steps' = steps
      BY <1>3 DEF vars
    <3>2. ValueIn(val, Len(tokens))' = ValueIn(val, Len(tokens))
      BY <1>g, <3>1 DEF ValueIn, Meant, Known, Good
    <3> QED
      BY <3>1, <3>2 DEF RootInv, RootRight
  <2> QED
    BY <1>0, <1>3, <2>1, <2>2 DEF vars, RootInv
<1> SUFFICES ASSUME mode \in {"collect", "collected"}, val' = val,
                    CollectNum \/ CollectVariable \/ Missing \/ CollectLeft \/ CollectRight
                    \/ AddStep \/ Schedule \/ EmitIR
             PROVE  RootInv'
  BY <1>1, <1>2, <1>3 DEF Next, CollectNum, CollectVariable, Missing, CollectLeft, CollectRight,
                          AddStep, Collecting, Schedule, EmitIR
<1>4. PICK parts :
        /\ parts[0] = val
        /\ \A k \in 0 .. n : parts[k] \in Valuable(h) /\ (Worth(parts[k]) = None => Worth(val) = None)
        /\ \A k \in 1 .. n :
             /\ parts[k - 1][1] \in Op
             /\ \/ /\ frames[k].kind = "left" /\ frames[k].lhs = parts[k - 1]
                   /\ parts[k] = parts[k - 1][2]
                \/ /\ frames[k].kind = parts[k - 1][1]
                   /\ frames[k].lhs = Worth(parts[k - 1][2]) /\ frames[k].lhs # None
                   /\ parts[k] = parts[k - 1][3]
        /\ mode = "collect" => root = parts[n]
        /\ mode = "collected" => root = Worth(parts[n]) /\ root # None
  BY <1>n, <1>h DEF RootInv, Descends
<1>5. \A i \in 1 .. Len(steps) : steps[i].priority \in 1 .. 3
  BY DEF RootInv
<1>6. parts[n] \in Valuable(h) /\ (Worth(parts[n]) = None => Worth(val) = None)
  BY <1>4
<1>7. \A e \in Valuable(h) :
        /\ e[1] = "num" => Worth(e) = e /\ e # None
        /\ e[1] = "var" => Worth(e) = Meant(e[2], Len(given))
        /\ e[1] \in Op => /\ e[2] \in Valuable(h) /\ e[3] \in Valuable(h)
                         /\ Worth(e) = Combined(e[1], Worth(e[2]), Worth(e[3]))
  BY <1>h, WorthFacts
<1>8. ASSUME CollectNum PROVE RootInv'
  <2>1. /\ mode = "collect" /\ mode' = "collected" /\ root[1] = "num" /\ root' = root
        /\ frames' = frames /\ steps' = steps
    BY <1>8 DEF CollectNum, Collecting
  <2>2. root' = Worth(parts[n]) /\ root' # None
    BY <1>4, <1>6, <1>7, <2>1
  <2> QED
    BY <1>n, <1>4, <1>5, <1>p, <2>1, <2>2
<1>9. ASSUME CollectVariable PROVE RootInv'
  <2>1. PICK i \in SlotOf(ctx, root[2]) : root' = ctx[i][2]
    BY <1>9 DEF CollectVariable, Collecting
  <2>2. /\ mode = "collect" /\ mode' = "collected" /\ root[1] = "var"
        /\ frames' = frames /\ steps' = steps
    BY <1>9 DEF CollectVariable, Collecting
  <2>3. root' = Meant(root[2], Len(given)) /\ root' # None
    BY <1>0, <2>1, <2>2 DEF SlotOf, VarsInv, ContextMeans
  <2>4. root' = Worth(parts[n])
    BY <1>4, <1>6, <1>7, <2>2, <2>3
  <2> QED
    BY <1>n, <1>4, <1>5, <1>p, <2>2, <2>3, <2>4
<1>10. ASSUME Missing PROVE RootInv'
  <2>1. /\ mode = "collect" /\ root[1] = "var" /\ SlotOf(ctx, root[2]) = {} /\ root' = None
        /\ api' = api
        /\ \/ api = "emit_ir" /\ mode' = "done" /\ steps' = steps
           \/ api # "emit_ir" /\ mode' = "failed" /\ steps' = << >>
    BY <1>10 DEF Missing, Collecting
  <2>2. Meant(root[2], Len(given)) = None
    BY <1>0, <2>1 DEF SlotOf, VarsInv, ContextMeans
  <2>3. Worth(val) = None
    BY <1>4, <1>6, <1>7, <2>1, <2>2
  <2>4. ValueIn(val, Len(tokens))' = None
    <3>1. PICK v : v = val
      OBVIOUS
    <3>2. ValueIn(val, Len(tokens))' = Worth(v)'
      BY <3>1 DEF Worth, ValueIn, Meant, Known, Good
    <3> QED
      BY <1>w, <2>3, <3>1, <3>2
  <2>5. api \in {"emit_ir"} => api # "schedule"
    OBVIOUS
  <2>6. RootRight'
    BY <2>1, <2>4, <2>5 DEF RootRight
  <2>7. mode' # "done" => Len(steps') = 0
    BY <2>1, NoSteps
  <2> QED
    BY <1>0, <2>1, <2>6, <2>7 DEF RootInv
<1>11. ASSUME CollectLeft PROVE RootInv'
  <2>1. /\ mode = "collect" /\ mode' = "collect" /\ root[1] \in Op /\ root' = root[2]
        /\ frames' = Append(frames, Frame("left", root)) /\ steps' = steps
    BY <1>11 DEF CollectLeft, Collecting
  <2>2. PICK e : e = root
    OBVIOUS
  <2> DEFINE next == [k \in 0 .. n + 1 |-> IF k = n + 1 THEN e[2] ELSE parts[k]]
  <2>3. /\ next[n + 1] = e[2] /\ \A k \in 0 .. n : next[k] = parts[k]
    OBVIOUS
  <2> HIDE DEF next
  <2>4. /\ Len(frames') = n + 1 /\ frames'[n + 1].kind = "left" /\ frames'[n + 1].lhs = e
        /\ \A k \in 1 .. n : frames'[k] = frames[k]
    BY <1>0, <1>n, <2>1, <2>2, AppendFacts DEF Frame
  <2>5. e = parts[n] /\ e[2] \in Valuable(h) /\ (Worth(e[2]) = None => Worth(val) = None)
    <3>1. e = parts[n] /\ e \in Valuable(h) /\ e[1] \in Op /\ (Worth(e) = None => Worth(val) = None)
      BY <1>4, <1>6, <2>1, <2>2
    <3>2. e[2] \in Valuable(h) /\ Worth(e) = Combined(e[1], Worth(e[2]), Worth(e[3]))
      BY <1>7, <3>1
    <3>3. Worth(e[2]) = None => Worth(e) = None
      BY <1>o, <3>2
    <3> QED
      BY <3>1, <3>2, <3>3
  <2>6. PICK m \in Nat : m = n + 1
    OBVIOUS
  <2>7. ASSUME NEW k \in 0 .. m
        PROVE  next[k] \in Valuable(h) /\ (Worth(next[k]) = None => Worth(val) = None)
    <3>1. CASE k = m
      BY <2>3, <2>5, <2>6, <3>1
    <3>2. CASE k \in 0 .. n
      BY <1>4, <2>3, <3>2
    <3> QED
      BY <2>6, <3>1, <3>2
  <2>8. ASSUME NEW k \in 1 .. m
        PROVE  /\ next[k - 1][1] \in Op
               /\ \/ /\ frames'[k].kind = "left" /\ frames'[k].lhs = next[k - 1]
                     /\ next[k] = next[k - 1][2]
                  \/ /\ frames'[k].kind = next[k - 1][1]
                     /\ frames'[k].lhs = Worth(next[k - 1][2]) /\ frames'[k].lhs # None
                     /\ next[k] = next[k - 1][3]
    <3>1. CASE k = m
      <4>1. k - 1 = n /\ next[k - 1] = e /\ next[k] = e[2]
        BY <2>3, <2>5, <2>6, <3>1
      <4> QED
        BY <2>1, <2>2, <2>4, <2>6, <3>1, <4>1
    <3>2. CASE k \in 1 .. n
      <4>1. k - 1 \in 0 .. n /\ k \in 0 .. n
        BY <3>2
      <4>2. next[k - 1] = parts[k - 1] /\ next[k] = parts[k] /\ frames'[k] = frames[k]
        BY <2>3, <2>4, <3>2, <4>1
      <4> QED
        BY <1>4, <3>2, <4>2
    <3> QED
      BY <2>6, <3>1, <3>2
  <2>9. next[0] = val /\ next[m] = e[2]
    BY <1>4, <2>3, <2>6
  <2> QED
    BY <1>5, <1>p, <2>1, <2>2, <2>4, <2>6, <2>7, <2>8, <2>9
<1>12. ASSUME CollectRight PROVE RootInv'
  <2>1. /\ mode = "collected" /\ mode' = "collect" /\ frames # << >> /\ Last(frames).kind = "left"
        /\ frames' = Append(Front(frames), Frame(Last(frames).lhs[1], root))
        /\ root' = Last(frames).lhs[3] /\ steps' = steps
    BY <1>12 DEF CollectRight, Collecting
  <2>2. n > 0 /\ Last(frames) = frames[n]
    BY <1>0, <1>n, <2>1, FrontFacts DEF Last
  <2>3. PICK e : e = parts[n - 1]
    OBVIOUS
  <2>4. /\ e[1] \in Op /\ frames[n].lhs = e /\ parts[n] = e[2]
        /\ e \in Valuable(h) /\ (Worth(e) = None => Worth(val) = None)
    <3>1. n \in 1 .. n /\ n - 1 \in 0 .. n
      BY <2>2
    <3> QED
      BY <1>4, <2>1, <2>2, <2>3, <3>1, Symbols
  <2>5. /\ Worth(e[2]) # None /\ root = Worth(e[2])
    BY <1>4, <2>1, <2>4
  <2>6. e[3] \in Valuable(h) /\ (Worth(e[3]) = None => Worth(val) = None)
    <3>1. e[3] \in Valuable(h) /\ Worth(e) = Combined(e[1], Worth(e[2]), Worth(e[3]))
      BY <1>7, <2>4
    <3>2. Worth(e[3]) = None => Worth(e) = None
      BY <1>o, <3>1
    <3> QED
      BY <2>4, <3>1, <3>2
  <2> DEFINE next == [k \in 0 .. n |-> IF k = n THEN e[3] ELSE parts[k]]
  <2>7. /\ next[n] = e[3] /\ \A k \in 0 .. n - 1 : next[k] = parts[k]
    OBVIOUS
  <2> HIDE DEF next
  <2>8. /\ Len(frames') = n /\ frames'[n].kind = e[1] /\ frames'[n].lhs = root
        /\ \A k \in 1 .. n - 1 : frames'[k] = frames[k]
    <3>1. /\ IsSequence(Front(frames)) /\ Len(Front(frames)) = n - 1
          /\ \A k \in 1 .. n - 1 : Front(frames)[k] = frames[k]
      BY <1>0, <1>n, <2>1, FrontFacts
    <3>2. PICK f : f = Frame(e[1], root)
      OBVIOUS
    <3>3. f.kind = e[1] /\ f.lhs = root
      BY <3>2 DEF Frame
    <3>4. frames' = Append(Front(frames), f)
      BY <2>1, <2>2, <2>4, <3>2
    <3>5. Len(Front(frames)) + 1 = n
      BY <2>2, <3>1
    <3>6. /\ Len(Append(Front(frames), f)) = n /\ Append(Front(frames), f)[n] = f
          /\ \A k \in 1 .. n - 1 : Append(Front(frames), f)[k] = Front(frames)[k]
      BY <3>1, <3>5, AppendFacts
    <3> QED
      BY <3>1, <3>3, <3>4, <3>6
  <2>9. ASSUME NEW k \in 0 .. n
        PROVE  next[k] \in Valuable(h) /\ (Worth(next[k]) = None => Worth(val) = None)
    <3>1. CASE k = n
      BY <2>6, <2>7, <3>1
    <3>2. CASE k \in 0 .. n - 1
      BY <1>4, <2>7, <3>2
    <3> QED
      BY <3>1, <3>2
  <2>10. ASSUME NEW k \in 1 .. n
         PROVE  /\ next[k - 1][1] \in Op
                /\ \/ /\ frames'[k].kind = "left" /\ frames'[k].lhs = next[k - 1]
                      /\ next[k] = next[k - 1][2]
                   \/ /\ frames'[k].kind = next[k - 1][1]
                      /\ frames'[k].lhs = Worth(next[k - 1][2]) /\ frames'[k].lhs # None
                      /\ next[k] = next[k - 1][3]
    <3>1. CASE k = n
      <4>1. k - 1 \in 0 .. n - 1 /\ next[k - 1] = e /\ next[k] = e[3]
        BY <2>2, <2>3, <2>7, <3>1
      <4> QED
        BY <2>4, <2>5, <2>8, <3>1, <4>1
    <3>2. CASE k \in 1 .. n - 1
      <4>1. k - 1 \in 0 .. n - 1 /\ k \in 0 .. n - 1
        BY <3>2
      <4>2. next[k - 1] = parts[k - 1] /\ next[k] = parts[k] /\ frames'[k] = frames[k]
        BY <2>7, <2>8, <3>2, <4>1
      <4> QED
        BY <1>4, <4>2
    <3> QED
      BY <3>1, <3>2
  <2>11. next[0] = val /\ root' = next[n]
    <3>1. 0 \in 0 .. n - 1
      BY <2>2
    <3> QED
      BY <1>4, <2>1, <2>2, <2>4, <2>7, <3>1
  <2> QED
    BY <1>5, <1>p, <2>1, <2>8, <2>9, <2>10, <2>11
<1>13. ASSUME AddStep PROVE RootInv'
  <2>1. /\ mode = "collected" /\ mode' = "collected" /\ frames # << >> /\ Last(frames).kind \in Op
        /\ steps' = Append(steps, Step(Last(frames).kind, Last(frames).lhs, root))
        /\ frames' = Front(frames) /\ root' = Step(Last(frames).kind, Last(frames).lhs, root).result
    BY <1>13 DEF AddStep, Collecting
  <2>2. n > 0 /\ Last(frames) = frames[n]
    BY <1>0, <1>n, <2>1, FrontFacts DEF Last
  <2>3. PICK e : e = parts[n - 1]
    OBVIOUS
  <2>4. /\ e[1] \in Op /\ frames[n].kind = e[1] /\ parts[n] = e[3] /\ e \in Valuable(h)
        /\ frames[n].lhs = Worth(e[2]) /\ frames[n].lhs # None
    <3>1. n \in 1 .. n /\ n - 1 \in 0 .. n
      BY <2>2
    <3> QED
      BY <1>4, <2>1, <2>2, <2>3, <3>1, Symbols
  <2>5. root = Worth(e[3]) /\ root # None
    BY <1>4, <2>1, <2>4
  <2>6. root' = <<e[1], Worth(e[2]), Worth(e[3])>>
    BY <2>1, <2>2, <2>4, <2>5 DEF Step
  <2>7. root' = Worth(e) /\ root' # None
    <3>1. Worth(e) = Combined(e[1], Worth(e[2]), Worth(e[3]))
      BY <1>7, <2>4
    <3>2. Worth(e[2]) # None /\ Worth(e[3]) # None
      BY <2>4, <2>5
    <3> QED
      BY <1>o, <2>6, <3>1, <3>2 DEF Combined
  <2>8. /\ Len(frames') = n - 1 /\ \A k \in 1 .. n - 1 : frames'[k] = frames[k]
    BY <1>0, <1>n, <2>1, FrontFacts
  <2>9. \A i \in 1 .. Len(steps') : steps'[i].priority \in 1 .. 3
    <3>1. PICK s : s = Step(Last(frames).kind, Last(frames).lhs, root)
      OBVIOUS
    <3>2. s.priority \in 1 .. 3
      BY <3>1 DEF Step, priority
    <3>3. IsSequence(steps)
      BY <1>0, <2>1 DEF StepsInv
    <3>4. PICK l \in Nat : l = Len(steps)
      BY <3>3, IsSequenceFacts
    <3>5. /\ Len(steps') = l + 1 /\ steps'[l + 1] = s /\ \A i \in 1 .. l : steps'[i] = steps[i]
      BY <2>1, <3>1, <3>3, <3>4, AppendFacts
    <3> QED
      BY <1>5, <3>2, <3>4, <3>5
  <2>10. PICK m \in Nat : m = n - 1
    BY <2>2
  <2>11. root' = Worth(parts[m]) /\ m = Len(frames')
    BY <2>3, <2>7, <2>8, <2>10
  <2>12. \A k \in 0 .. m : k \in 0 .. n
    BY <2>10
  <2>13. \A k \in 1 .. m : k \in 1 .. n /\ frames'[k] = frames[k]
    BY <2>8, <2>10
  <2>14. \A k \in 0 .. m : parts[k] \in Valuable(h) /\ (Worth(parts[k]) = None => Worth(val) = None)
    BY <1>4, <2>12
  <2>15. ASSUME NEW k \in 1 .. m
         PROVE  /\ parts[k - 1][1] \in Op
                /\ \/ /\ frames'[k].kind = "left" /\ frames'[k].lhs = parts[k - 1]
                      /\ parts[k] = parts[k - 1][2]
                   \/ /\ frames'[k].kind = parts[k - 1][1]
                      /\ frames'[k].lhs = Worth(parts[k - 1][2]) /\ frames'[k].lhs # None
                      /\ parts[k] = parts[k - 1][3]
    <3>1. frames'[k] = frames[k] /\ k \in 1 .. n
      BY <2>13
    <3> QED
      BY <1>4, <3>1
  <2>16. /\ mode' \in {"collect", "collected"} /\ mode' # "collect" /\ parts[0] = val
         /\ root' = Worth(parts[m]) /\ root' # None
    BY <1>4, <2>1, <2>7, <2>11
  <2> QED
    BY <1>p, <2>9, <2>11, <2>14, <2>15, <2>16
\* The walk is over.
<1>14. ASSUME mode = "collected", frames = << >>, mode' = "done", root' = root,
              \A i \in 1 .. Len(steps) : \E k \in 1 .. Len(steps') : steps'[k] = steps[i]
       PROVE  RootInv'
  <2>1. n = 0 /\ root = Worth(val) /\ root # None
    BY <1>n, <1>4, <1>14, NoCalls
  <2>2. IsComputed(root, steps, Len(steps))
    BY <1>0, <1>14 DEF StepsInv
  <2>3. root[1] \in Op => \E k \in 1 .. Len(steps') : steps'[k].result = root
    BY <1>14, <2>2 DEF IsComputed
  <2>4. ValueIn(val, Len(tokens))' = root
    <3>1. PICK v : v = val
      OBVIOUS
    <3>2. ValueIn(val, Len(tokens))' = Worth(v)'
      BY <3>1 DEF Worth, ValueIn, Meant, Known, Good
    <3> QED
      BY <1>w, <2>1, <3>1, <3>2
  <2>5. RootRight'
    BY <1>14, <2>1, <2>3, <2>4 DEF RootRight
  <2> QED
    BY <1>0, <1>14, <2>5 DEF RootInv
<1>15. ASSUME Schedule PROVE RootInv'
  <2>1. /\ mode = "collected" /\ frames = << >> /\ mode' = "done" /\ root' = root
        /\ steps' = ByPriority(steps)
    BY <1>15 DEF Schedule
  <2>2. IsSequence(steps)
    BY <1>0, <2>1 DEF StepsInv
  <2>3. CASE Len(steps) = 0
    <3>1. \A i \in 1 .. Len(steps) : \E k \in 1 .. Len(steps') : steps'[k] = steps[i]
      BY <2>3
    <3> QED
      BY <1>14, <2>1, <3>1
  <2>4. CASE Len(steps) # 0
    BY <1>5, <1>14, <2>1, <2>2, <2>4, Sorted
  <2> QED
    BY <2>3, <2>4
<1>16. ASSUME EmitIR PROVE RootInv'
  <2>1. /\ mode = "collected" /\ frames = << >> /\ mode' = "done" /\ root' = root /\ steps' = steps
    BY <1>16 DEF EmitIR
  <2>2. IsSequence(steps)
    BY <1>0, <2>1 DEF StepsInv
  <2> QED
    BY <1>14, <2>1, <2>2
<1> QED
  BY <1>8, <1>9, <1>10, <1>11, <1>12, <1>13, <1>15, <1>16

\* For every equation and every list of variables: what the caller is given is
\* what the equation is worth, computed by the steps, and the library fails
\* for want of a variable only where one is missing.
THEOREM RootSound == Spec => []RootRight
<1>1. RootInv => RootRight
  BY DEF RootInv
<1> QED
  BY <1>1, RootInit, RootNext, PTL DEF Spec

---------------------------------------------------------------------------
(* Where a tree is written in a text *)

Words == Numbers \cup Names \cup Op \cup {"(", ")"}
IsText(s) == IsSequence(s) /\ Len(s) # 0 /\ \A i \in 1 .. Len(s) : s[i] \in Words

Shows(x, i, word) == i \in DOMAIN x /\ x[i] = word
Occurs(x, s, p) == \A i \in 1 .. Len(s) : Shows(x, p + i - 1, s[i])

\* The text x is, from p to before q, what is written for e; or that in
\* parentheses; or whichever of the two this level needs.
At(x, e, p, q) == q = p + Len(written[e]) /\ Occurs(x, written[e], p)
Inside(x, e, p, q) == Shows(x, p, "(") /\ Shows(x, q - 1, ")") /\ At(x, e, p + 1, q - 1)
Holds(x, e, level, p, q) == IF Level(e) < level THEN Inside(x, e, p, q) ELSE At(x, e, p, q)

LEMMA OneWord ==
  ASSUME NEW a
  PROVE  IsSequence(<<a>>) /\ Len(<<a>>) = 1 /\ <<a>>[1] = a
<1>1. <<a>> \in Seq({a})
  OBVIOUS
<1> QED
  BY <1>1, IsSequenceOf

LEMMA ConcatText ==
  ASSUME NEW s, NEW t, IsText(s), IsText(t)
  PROVE  IsText(s \o t)
<1>1. /\ IsSequence(s \o t) /\ Len(s \o t) = Len(s) + Len(t)
      /\ \A i \in 1 .. Len(s) : (s \o t)[i] = s[i]
      /\ \A i \in 1 .. Len(t) : (s \o t)[Len(s) + i] = t[i]
  BY ConcatFacts DEF IsText
<1>2. Len(s) \in Nat /\ Len(t) \in Nat
  BY IsSequenceFacts DEF IsText
<1>3. ASSUME NEW i \in 1 .. Len(s \o t) PROVE (s \o t)[i] \in Words
  <2>1. CASE i \in 1 .. Len(s)
    BY <1>1, <2>1 DEF IsText
  <2>2. CASE i \notin 1 .. Len(s)
    <3>1. i - Len(s) \in 1 .. Len(t)
      BY <1>1, <1>2, <2>2
    <3>2. PICK j \in 1 .. Len(t) : j = i - Len(s)
      BY <3>1
    <3>3. i = Len(s) + j
      BY <1>1, <1>2, <3>2
    <3> QED
      BY <1>1, <3>3 DEF IsText
  <2> QED
    BY <2>1, <2>2
<1>4. Len(s \o t) # 0
  BY <1>1, <1>2 DEF IsText
<1> QED
  BY <1>1, <1>3, <1>4 DEF IsText

LEMMA WordText ==
  ASSUME NEW a \in Words
  PROVE  IsText(<<a>>)
BY OneWord DEF IsText

LEMMA WithinText ==
  ASSUME NEW part, NEW s, NEW level, IsText(s)
  PROVE  IsText(Within(part, s, level))
<1>1. IsText(<<"(">>) /\ IsText(<<")">>)
  BY WordText DEF Words
<1>2. IsText(<<"(">> \o s)
  BY <1>1, ConcatText
<1>3. IsText((<<"(">> \o s) \o <<")">>)
  BY <1>1, <1>2, ConcatText
<1> QED
  BY <1>3 DEF Within

\* What is written is a sequence of lexemes the library knows.
LEMMA WrittenText ==
  ASSUME NEW e \in Tree[Height]
  PROVE  IsText(written[e])
<1> DEFINE T == {h \in Nat : h <= Height /\ \E t \in Tree[h] : ~IsText(written[t])}
<1> SUFFICES ASSUME T # {} PROVE FALSE
  BY MeaningAssumption
<1>1. PICK h \in T : \A k \in T : h <= k
  <2>1. T \subseteq Nat /\ T # {}
    OBVIOUS
  <2> HIDE DEF T
  <2> QED
    BY <2>1, LeastNumber
<1>2. h \in Nat /\ h <= Height
  OBVIOUS
<1>3. PICK t \in Tree[h] : ~IsText(written[t])
  OBVIOUS
<1>4. t \in Tree[Height]
  BY <1>2, Higher, MeaningAssumption
<1>5. h > 0 => \A r \in Tree[h - 1] : IsText(written[r])
  <2> SUFFICES ASSUME h > 0 PROVE \A r \in Tree[h - 1] : IsText(written[r])
    OBVIOUS
  <2>1. PICK k \in Nat : k = h - 1
    BY <1>2
  <2>2. k \notin T
    <3> HIDE DEF T
    <3> QED
      BY <1>1, <1>2, <2>1
  <2>3. k <= Height
    BY <1>2, <2>1, MeaningAssumption
  <2> QED
    BY <2>1, <2>2, <2>3
<1> HIDE DEF T
<1>6. CASE t \in Leaf
  <2>1. written[t] = <<t[2]>> /\ t[2] \in Words
    BY <1>4, <1>6, WrittenEquation, WroteLeaf, LeafFacts DEF Words
  <2> QED
    BY <1>3, <2>1, WordText
<1>7. CASE t \notin Leaf /\ IsNegation(t)
  <2>1. t[3] \in Tree[h - 1] /\ h > 0
    BY <1>2, <1>7, Operands
  <2>2. IsText(Within(t[3], written[t[3]], 4))
    BY <1>5, <2>1, WithinText
  <2>3. IsText(<<"-">>)
    BY WordText DEF Words, Op
  <2>4. IsText(<<"-">> \o Within(t[3], written[t[3]], 4))
    BY <2>2, <2>3, ConcatText
  <2>5. written[t] = Wrote(written, t)
    BY <1>4, WrittenEquation
  <2>6. Wrote(written, t) = <<"-">> \o Within(t[3], written[t[3]], 4)
    BY <1>7, WroteNegation
  <2> QED
    BY <1>3, <2>4, <2>5, <2>6
<1>8. CASE t \notin Leaf /\ ~IsNegation(t)
  <2>1. t[2] \in Tree[h - 1] /\ t[3] \in Tree[h - 1] /\ h > 0 /\ t[1] \in Op
    BY <1>2, <1>8, Operands
  <2>2. PICK a : a = Within(t[2], written[t[2]], LeftLevel(t))
    OBVIOUS
  <2>3. PICK b : b = Within(t[3], written[t[3]], RightLevel(t))
    OBVIOUS
  <2>4. IsText(a) /\ IsText(b)
    BY <1>5, <2>1, <2>2, <2>3, WithinText
  <2>5. PICK o : o = <<t[1]>>
    OBVIOUS
  <2>6. IsText(o)
    BY <2>1, <2>5, WordText DEF Words
  <2>7. IsText(a \o o)
    BY <2>4, <2>6, ConcatText
  <2>8. IsText(a \o o \o b)
    BY <2>4, <2>7, ConcatText
  <2>9. written[t] = Wrote(written, t)
    BY <1>4, WrittenEquation
  <2>10. Wrote(written, t) = a \o o \o b
    BY <1>8, <2>1, <2>2, <2>3, <2>5, WroteOperation
  <2> QED
    BY <1>3, <2>8, <2>9, <2>10
<1> QED
  BY <1>6, <1>7, <1>8

LEMMA OccursConcat ==
  ASSUME NEW x, NEW s, NEW t, IsSequence(s), IsSequence(t), NEW p \in Nat, Occurs(x, s \o t, p)
  PROVE  /\ Occurs(x, s, p) /\ Occurs(x, t, p + Len(s))
         /\ Len(s \o t) = Len(s) + Len(t) /\ Len(s) \in Nat /\ Len(t) \in Nat
<1>1. /\ Len(s \o t) = Len(s) + Len(t)
      /\ \A i \in 1 .. Len(s) : (s \o t)[i] = s[i]
      /\ \A i \in 1 .. Len(t) : (s \o t)[Len(s) + i] = t[i]
  BY ConcatFacts
<1>2. Len(s) \in Nat /\ Len(t) \in Nat
  BY IsSequenceFacts
<1>3. ASSUME NEW i \in 1 .. Len(s) PROVE Shows(x, p + i - 1, s[i])
  <2>1. i \in 1 .. Len(s \o t)
    BY <1>1, <1>2
  <2> QED
    BY <1>1, <2>1 DEF Occurs
<1>4. ASSUME NEW i \in 1 .. Len(t) PROVE Shows(x, p + Len(s) + i - 1, t[i])
  <2>1. PICK k \in Nat : k = Len(s) + i
    BY <1>2
  <2>2. k \in 1 .. Len(s \o t) /\ (s \o t)[k] = t[i] /\ p + k - 1 = p + Len(s) + i - 1
    BY <1>1, <1>2, <2>1
  <2> QED
    BY <2>2 DEF Occurs
<1> QED
  BY <1>1, <1>2, <1>3, <1>4 DEF Occurs

LEMMA OccursWord ==
  ASSUME NEW x, NEW a, NEW p \in Nat, Occurs(x, <<a>>, p)
  PROVE  Shows(x, p, a)
<1>1. Len(<<a>>) = 1 /\ <<a>>[1] = a
  BY OneWord
<1>2. PICK i : i = 1
  OBVIOUS
<1>3. Shows(x, p + i - 1, <<a>>[i])
  BY <1>1, <1>2 DEF Occurs
<1>4. p + i - 1 = p
  BY <1>2
<1> QED
  BY <1>1, <1>2, <1>3, <1>4

LEMMA WithinHolds ==
  ASSUME NEW x, NEW e \in Tree[Height], NEW level, NEW p \in Nat, NEW q,
         Occurs(x, Within(e, written[e], level), p),
         q = p + Len(Within(e, written[e], level))
  PROVE  Holds(x, e, level, p, q) /\ q \in Nat
<1>0. PICK s : s = written[e]
  OBVIOUS
<1>1. IsText(s) /\ IsSequence(s) /\ Len(s) \in Nat
  BY <1>0, WrittenText, IsSequenceFacts DEF IsText
<1>2. CASE Level(e) < level
  <2>1. PICK o : o = <<"(">>
    OBVIOUS
  <2>2. PICK c : c = <<")">>
    OBVIOUS
  <2>3. IsSequence(o) /\ Len(o) = 1 /\ IsSequence(c) /\ Len(c) = 1
    BY <2>1, <2>2, OneWord
  <2>4. IsSequence(o \o s)
    BY <1>1, <2>3, ConcatFacts
  <2>5. Within(e, written[e], level) = (o \o s) \o c
    BY <1>0, <1>2, <2>1, <2>2 DEF Within
  <2>6. /\ Occurs(x, o \o s, p) /\ Occurs(x, c, p + Len(o \o s))
        /\ Len((o \o s) \o c) = Len(o \o s) + Len(c)
    <3>1. Occurs(x, (o \o s) \o c, p)
      BY <2>5
    <3> QED
      BY <2>3, <2>4, <3>1, OccursConcat, Zenon
  <2>7. Occurs(x, o, p) /\ Occurs(x, s, p + Len(o)) /\ Len(o \o s) = Len(o) + Len(s)
    BY <1>1, <2>3, <2>6, OccursConcat
  <2>8. q = p + Len(s) + 2 /\ q \in Nat /\ q - 1 = p + Len(o \o s) /\ q - 1 \in Nat
    BY <1>1, <2>3, <2>5, <2>6, <2>7
  <2>9. Shows(x, p, "(")
    BY <2>1, <2>7, OccursWord
  <2>10. PICK r \in Nat : r = q - 1
    BY <2>8
  <2>11. Shows(x, r, ")")
    BY <2>2, <2>6, <2>8, <2>10, OccursWord
  <2>12. At(x, e, p + 1, q - 1)
    <3>1. Occurs(x, s, p + 1)
      BY <2>3, <2>7
    <3>2. q - 1 = p + 1 + Len(s)
      BY <1>1, <2>8
    <3> QED
      BY <1>0, <3>1, <3>2 DEF At
  <2> QED
    BY <1>2, <2>8, <2>9, <2>10, <2>11, <2>12 DEF Holds, Inside
<1>3. CASE ~(Level(e) < level)
  <2>1. Within(e, written[e], level) = s
    BY <1>0, <1>3 DEF Within
  <2> QED
    BY <1>0, <1>1, <1>3, <2>1 DEF Holds, At
<1> QED
  BY <1>2, <1>3

\* What each shape of tree looks like.
LEMMA Reads ==
  ASSUME NEW x, NEW e \in Tree[Height], NEW p \in Nat, NEW q, At(x, e, p, q)
  PROVE  /\ q \in Nat
         /\ e \in Leaf => q = p + 1 /\ Shows(x, p, e[2])
         /\ e \notin Leaf /\ IsNegation(e) => Shows(x, p, "-") /\ Holds(x, e[3], 4, p + 1, q)
         /\ e \notin Leaf /\ ~IsNegation(e) =>
              \E k \in Nat : /\ Holds(x, e[2], LeftLevel(e), p, k)
                             /\ Shows(x, k, e[1])
                             /\ Holds(x, e[3], RightLevel(e), k + 1, q)
<1>0. Height \in Nat
  BY MeaningAssumption
<1>1. written[e] = Wrote(written, e) /\ Len(written[e]) \in Nat
  BY WrittenEquation, WrittenText, IsSequenceFacts DEF IsText
<1>2. q \in Nat
  BY <1>1 DEF At
<1>3. CASE e \in Leaf
  <2>1. written[e] = <<e[2]>>
    BY <1>1, <1>3, WroteLeaf
  <2>2. q = p + 1 /\ Shows(x, p, e[2])
    BY <2>1, OneWord, OccursWord DEF At
  <2> QED
    BY <1>2, <1>3, <2>2
<1>4. CASE e \notin Leaf /\ IsNegation(e)
  <2>1. e[3] \in Tree[Height]
    <3>1. e[3] \in Tree[Height - 1] /\ Height - 1 \in Nat
      BY <1>0, <1>4, Operands
    <3> QED
      BY <1>0, <3>1, Higher
  <2>2. PICK a : a = Within(e[3], written[e[3]], 4)
    OBVIOUS
  <2>3. PICK o : o = <<"-">>
    OBVIOUS
  <2>4. Wrote(written, e) = o \o a
    BY <1>4, <2>2, <2>3, WroteNegation
  <2>5. IsSequence(o) /\ Len(o) = 1 /\ IsSequence(a)
    BY <2>1, <2>2, <2>3, OneWord, WithinText, WrittenText DEF IsText
  <2>6. Occurs(x, o, p) /\ Occurs(x, a, p + Len(o)) /\ Len(o \o a) = Len(o) + Len(a) /\ Len(a) \in Nat
    <3>1. Occurs(x, o \o a, p)
      BY <1>1, <2>4 DEF At
    <3>4. IsSequence(o) /\ IsSequence(a)
      BY <2>5
    <3>2. /\ Occurs(x, o, p) /\ Occurs(x, a, p + Len(o)) /\ Len(o \o a) = Len(o) + Len(a)
      BY <3>1, <3>4, OccursConcat
    <3>3. Len(a) \in Nat
      BY <2>5, IsSequenceFacts
    <3> QED
      BY <3>2, <3>3
  <2>7. Shows(x, p, "-")
    BY <2>3, <2>6, OccursWord
  <2>8. PICK r \in Nat : r = p + 1
    OBVIOUS
  <2>9. Occurs(x, a, r) /\ q = r + Len(a)
    BY <1>1, <2>4, <2>5, <2>6, <2>8 DEF At
  <2>10. Holds(x, e[3], 4, r, q)
    BY <2>1, <2>2, <2>9, WithinHolds
  <2> QED
    BY <1>2, <1>4, <2>7, <2>8, <2>10
<1>5. CASE e \notin Leaf /\ ~IsNegation(e)
  <2>1. e[2] \in Tree[Height] /\ e[3] \in Tree[Height] /\ e[1] \in Op
    <3>1. e[2] \in Tree[Height - 1] /\ e[3] \in Tree[Height - 1] /\ Height - 1 \in Nat /\ e[1] \in Op
      BY <1>0, <1>5, Operands
    <3> QED
      BY <1>0, <3>1, Higher
  <2>2. PICK a : a = Within(e[2], written[e[2]], LeftLevel(e))
    OBVIOUS
  <2>3. PICK b : b = Within(e[3], written[e[3]], RightLevel(e))
    OBVIOUS
  <2>4. PICK o : o = <<e[1]>>
    OBVIOUS
  <2>5. Wrote(written, e) = a \o o \o b
    BY <1>5, <2>1, <2>2, <2>3, <2>4, WroteOperation
  <2>6. IsSequence(o) /\ Len(o) = 1 /\ IsSequence(a) /\ IsSequence(b)
    BY <2>1, <2>2, <2>3, <2>4, OneWord, WithinText, WrittenText DEF IsText
  <2>7. IsSequence(a \o o)
    BY <2>6, ConcatFacts
  <2>8. /\ Occurs(x, a \o o, p) /\ Occurs(x, b, p + Len(a \o o))
        /\ Len((a \o o) \o b) = Len(a \o o) + Len(b) /\ Len(b) \in Nat
    <3>1. Occurs(x, (a \o o) \o b, p)
      BY <1>1, <2>5 DEF At
    <3>4. IsSequence(a \o o) /\ IsSequence(b)
      BY <2>6, <2>7
    <3>2. /\ Occurs(x, a \o o, p) /\ Occurs(x, b, p + Len(a \o o))
          /\ Len((a \o o) \o b) = Len(a \o o) + Len(b)
      BY <3>1, <3>4, OccursConcat
    <3>3. Len(b) \in Nat
      BY <2>6, IsSequenceFacts
    <3> QED
      BY <3>2, <3>3
  <2>9. /\ Occurs(x, a, p) /\ Occurs(x, o, p + Len(a))
        /\ Len(a \o o) = Len(a) + Len(o) /\ Len(a) \in Nat
    <3>1. Occurs(x, a \o o, p)
      BY <2>8
    <3>4. IsSequence(o) /\ IsSequence(a)
      BY <2>6
    <3>2. /\ Occurs(x, a, p) /\ Occurs(x, o, p + Len(a)) /\ Len(a \o o) = Len(a) + Len(o)
      BY <3>1, <3>4, OccursConcat
    <3>3. Len(a) \in Nat
      BY <2>6, IsSequenceFacts
    <3> QED
      BY <3>2, <3>3
  <2>10. PICK k \in Nat : k = p + Len(a)
    BY <2>9
  <2>11. Holds(x, e[2], LeftLevel(e), p, k)
    BY <2>1, <2>2, <2>9, <2>10, WithinHolds
  <2>12. Shows(x, k, e[1])
    BY <2>4, <2>9, <2>10, OccursWord
  <2>13. PICK r \in Nat : r = k + 1
    OBVIOUS
  <2>14. Occurs(x, b, r) /\ q = r + Len(b)
    BY <1>1, <2>5, <2>6, <2>8, <2>9, <2>10, <2>13 DEF At
  <2>15. Holds(x, e[3], RightLevel(e), r, q)
    BY <2>1, <2>3, <2>14, WithinHolds
  <2> QED
    BY <1>2, <1>5, <2>11, <2>12, <2>13, <2>15
<1> QED
  BY <1>3, <1>4, <1>5

---------------------------------------------------------------------------
(* How the parser climbs from the first operand to the tree it builds *)

LEMMA Levels ==
  ASSUME NEW h \in Nat, NEW e \in Tree[h]
  PROVE  /\ Level(e) \in 1 .. 4
         /\ e \in Leaf \/ IsNegation(e) => Level(e) = 4
         /\ e \notin Leaf /\ ~IsNegation(e) =>
              /\ e[1] \in Op /\ Level(e) = lbp(e[1]) /\ lbp(e[1]) \in 1 .. 3
              /\ rbp(e[1]) \in Nat /\ lbp(e[1]) <= rbp(e[1]) + 1
              /\ e[1] = "^" => LeftLevel(e) = 4 /\ RightLevel(e) = 3 /\ rbp(e[1]) = 2
                               /\ lbp(e[1]) = 3
              /\ e[1] # "^" => /\ LeftLevel(e) = lbp(e[1]) /\ RightLevel(e) = lbp(e[1]) + 1
                              /\ rbp(e[1]) = lbp(e[1]) /\ lbp(e[1]) <= 2
<1>1. CASE e \in Leaf
  BY <1>1, LeafFacts DEF Level
<1>2. CASE e \notin Leaf /\ IsNegation(e)
  BY <1>2 DEF Level, IsNegation
<1>3. CASE e \notin Leaf /\ ~IsNegation(e)
  <2>1. PICK o \in Op : o = e[1]
    BY <1>3, Operands
  <2>2. o \notin {"num", "var"}
    BY DEF Op
  <2>3. Level(e) = lbp(o)
    BY <1>3, <2>1, <2>2 DEF Level, lbp, Op
  <2>4. /\ lbp(o) \in 1 .. 3 /\ (o = "^" => lbp(o) = 3) /\ (o # "^" => lbp(o) \in 1 .. 2)
    BY DEF lbp, Op
  <2>5. rbp(o) = IF o = "^" THEN lbp(o) - 1 ELSE lbp(o)
    BY DEF rbp
  <2> QED
    BY <1>3, <2>1, <2>3, <2>4, <2>5 DEF LeftLevel, RightLevel
<1> QED
  BY <1>1, <1>2, <1>3

\* How strongly what stands at p binds to its left.
After(x, p) == IF p \in DOMAIN x THEN lbp(x[p]) ELSE 0

\* Of <<tree, position after it>> the next: the operation that has it as its
\* left operand, and that the loop of a call with this min_bp builds.
Link(x, m, a, b) ==
  /\ b \in Tree[Height] \X Nat /\ b[1] \notin Leaf /\ ~IsNegation(b[1])
  /\ a[1] = b[1][2] /\ a[2] \in Nat /\ Shows(x, a[2], b[1][1])
  /\ Holds(x, b[1][3], RightLevel(b[1]), a[2] + 1, b[2])
  /\ lbp(b[1][1]) > m /\ After(x, b[2]) <= rbp(b[1][1])

Chain(x, m, a, b) ==
  \E j \in Nat : \E c : c[0] = a /\ c[j] = b /\ \A i \in 0 .. j - 1 : Link(x, m, c[i], c[i + 1])

LEMMA NoLink ==
  ASSUME NEW x, NEW m, NEW a
  PROVE  Chain(x, m, a, a)
<1> DEFINE c == [i \in 0 .. 0 |-> a]
<1>1. c[0] = a
  OBVIOUS
<1> HIDE DEF c
<1>2. c[0] = a /\ \A i \in 0 .. 0 - 1 : Link(x, m, c[i], c[i + 1])
  BY <1>1
<1>3. 0 \in Nat
  OBVIOUS
<1> QED
  BY <1>1, <1>2, <1>3 DEF Chain

LEMMA FirstLink ==
  ASSUME NEW x, NEW m, NEW a, NEW b, Chain(x, m, a, b), a # b
  PROVE  \E t : Link(x, m, a, t) /\ Chain(x, m, t, b)
<1>0. PICK j \in Nat : \E c : /\ c[0] = a /\ c[j] = b
                             /\ \A i \in 0 .. j - 1 : Link(x, m, c[i], c[i + 1])
  BY DEF Chain
<1>1. PICK c : c[0] = a /\ c[j] = b /\ \A i \in 0 .. j - 1 : Link(x, m, c[i], c[i + 1])
  BY <1>0
<1>2. PICK k \in Nat : j = k + 1
  <2>1. j # 0
    BY <1>1
  <2>2. j - 1 \in Nat /\ j = (j - 1) + 1
    BY <2>1
  <2> QED
    BY <2>2
<1> DEFINE d == [i \in 0 .. k |-> c[i + 1]]
<1>3. \A i \in 0 .. k : d[i] = c[i + 1]
  OBVIOUS
<1> HIDE DEF d
<1>4. d[0] = c[1] /\ d[k] = b
  BY <1>1, <1>2, <1>3
<1>5. ASSUME NEW i \in 0 .. k - 1 PROVE Link(x, m, d[i], d[i + 1])
  <2>1. i \in 0 .. k /\ i + 1 \in 0 .. k /\ i + 1 \in 0 .. j - 1
    BY <1>2
  <2>2. d[i] = c[i + 1] /\ d[i + 1] = c[(i + 1) + 1]
    BY <1>3, <2>1
  <2> QED
    BY <1>1, <2>1, <2>2
<1>6. Link(x, m, a, c[1])
  <2>1. 0 \in 0 .. j - 1
    BY <1>2
  <2>2. Link(x, m, c[0], c[0 + 1])
    BY <1>1, <2>1
  <2> QED
    BY <1>1, <2>2
<1>7. Chain(x, m, c[1], b)
  BY <1>4, <1>5 DEF Chain
<1> QED
  BY <1>6, <1>7

LEMMA LastLink ==
  ASSUME NEW x, NEW m, NEW a, NEW b, NEW t, Chain(x, m, a, b), Link(x, m, b, t)
  PROVE  Chain(x, m, a, t)
<1>0. PICK j \in Nat : \E c : /\ c[0] = a /\ c[j] = b
                             /\ \A i \in 0 .. j - 1 : Link(x, m, c[i], c[i + 1])
  BY DEF Chain
<1>1. PICK c : c[0] = a /\ c[j] = b /\ \A i \in 0 .. j - 1 : Link(x, m, c[i], c[i + 1])
  BY <1>0
<1> DEFINE d == [i \in 0 .. j + 1 |-> IF i = j + 1 THEN t ELSE c[i]]
<1>2. d[j + 1] = t /\ \A i \in 0 .. j : d[i] = c[i]
  OBVIOUS
<1> HIDE DEF d
<1>3. ASSUME NEW i \in 0 .. (j + 1) - 1 PROVE Link(x, m, d[i], d[i + 1])
  <2>1. CASE i = j
    BY <1>1, <1>2, <2>1
  <2>2. CASE i \in 0 .. j - 1
    BY <1>1, <1>2, <2>2
  <2> QED
    BY <2>1, <2>2
<1>4. d[0] = a /\ j + 1 \in Nat
  BY <1>1, <1>2
<1> QED
  BY <1>2, <1>3, <1>4 DEF Chain

\* What a call with this min_bp reads at p before its loop begins.
Atom(x, v, p, b) ==
  /\ v \in Tree[Height] /\ b \in Nat
  /\ \/ v \in Leaf /\ Shows(x, p, v[2]) /\ b = p + 1
     \/ v \notin Leaf /\ IsNegation(v) /\ Shows(x, p, "-") /\ Holds(x, v[3], 4, p + 1, b)
     \/ Inside(x, v, p, b)

Begins(x, e, m, p, q) ==
  \/ At(x, e, p, q) /\ (Level(e) = 4 \/ (Level(e) > m /\ After(x, q) <= rbp(e[1])))
  \/ Inside(x, e, p, q)

\* From its first operand the whole tree is reached.
LEMMA FirstAtom ==
  ASSUME NEW x, NEW m \in Nat, NEW h \in Nat, h <= Height, NEW e \in Tree[h],
         NEW p \in Nat, NEW q \in Nat, Begins(x, e, m, p, q)
  PROVE  \E v, b : Atom(x, v, p, b) /\ Chain(x, m, <<v, b>>, <<e, q>>)
<1> DEFINE Found(t, r) == \E v, b : Atom(x, v, p, b) /\ Chain(x, m, <<v, b>>, <<t, r>>)
           Lost(k) == \E t \in Tree[k] : \E r \in Nat : Begins(x, t, m, p, r) /\ ~Found(t, r)
           T == {k \in Nat : k <= Height /\ Lost(k)}
<1> SUFFICES ASSUME T # {} PROVE FALSE
  OBVIOUS
<1>0. Height \in Nat
  BY MeaningAssumption
<1>1. PICK k \in T : \A i \in T : k <= i
  <2>1. T \subseteq Nat /\ T # {}
    OBVIOUS
  <2> HIDE DEF T
  <2> QED
    BY <2>1, LeastNumber
<1>2. k \in Nat /\ k <= Height /\ Lost(k)
  OBVIOUS
<1>3. PICK t \in Tree[k], r \in Nat : Begins(x, t, m, p, r) /\ ~Found(t, r)
  BY <1>2
<1>4. k > 0 => ~Lost(k - 1)
  <2> SUFFICES ASSUME k > 0 PROVE ~Lost(k - 1)
    OBVIOUS
  <2>1. PICK i \in Nat : i = k - 1
    BY <1>2
  <2>2. i \notin T
    <3> HIDE DEF T
    <3> QED
      BY <1>1, <1>2, <2>1
  <2>3. i <= Height
    BY <1>0, <1>2, <2>1
  <2> QED
    BY <2>1, <2>2, <2>3
<1>5. t \in Tree[Height]
  BY <1>0, <1>2, Higher
<1> HIDE DEF T, Lost
<1>6. ~Atom(x, t, p, r)
  BY <1>3, NoLink
<1>7. /\ At(x, t, p, r) /\ (Level(t) = 4 \/ (Level(t) > m /\ After(x, r) <= rbp(t[1])))
  BY <1>3, <1>5, <1>6 DEF Begins, Atom
<1>8. t \notin Leaf /\ ~IsNegation(t)
  BY <1>5, <1>6, <1>7, Reads DEF Atom
<1>9. PICK c \in Nat : /\ Holds(x, t[2], LeftLevel(t), p, c)
                       /\ Shows(x, c, t[1])
                       /\ Holds(x, t[3], RightLevel(t), c + 1, r)
  BY <1>5, <1>7, <1>8, Reads
<1>10. /\ t[1] \in Op /\ Level(t) = lbp(t[1]) /\ lbp(t[1]) \in 1 .. 3
       /\ t[1] = "^" => LeftLevel(t) = 4
       /\ t[1] # "^" => LeftLevel(t) = lbp(t[1]) /\ lbp(t[1]) <= 2
  BY <1>2, <1>8, Levels
<1>11. lbp(t[1]) > m /\ After(x, r) <= rbp(t[1])
  BY <1>7, <1>10
<1>12. k > 0 /\ t[2] \in Tree[k - 1] /\ k - 1 \in Nat
  BY <1>2, <1>8, Operands
<1>13. PICK l : l = t[2]
  OBVIOUS
<1>14. After(x, c) = lbp(t[1])
  BY <1>9 DEF After, Shows
<1>15. Begins(x, l, m, p, c)
  <2>1. CASE Level(l) < LeftLevel(t)
    BY <1>9, <1>13, <2>1 DEF Holds, Begins
  <2>2. CASE ~(Level(l) < LeftLevel(t))
    <3>1. At(x, l, p, c)
      BY <1>9, <1>13, <2>2 DEF Holds
    <3>2. Level(l) = 4 \/ (Level(l) > m /\ After(x, c) <= rbp(l[1]))
      <4>1. Level(l) \in 1 .. 4
        BY <1>12, <1>13, Levels
      <4>2. ASSUME Level(l) # 4 PROVE Level(l) > m /\ After(x, c) <= rbp(l[1])
        <5>1. l \notin Leaf /\ ~IsNegation(l)
          BY <1>12, <1>13, <4>2, Levels
        <5>2. /\ Level(l) = lbp(l[1]) /\ lbp(l[1]) \in 1 .. 3
              /\ (l[1] = "^" => rbp(l[1]) = 2) /\ (l[1] # "^" => rbp(l[1]) = lbp(l[1]))
          BY <1>12, <1>13, <5>1, Levels
        <5>3. t[1] # "^" /\ LeftLevel(t) = lbp(t[1]) /\ lbp(t[1]) <= 2
          BY <1>10, <2>2, <4>1, <4>2
        <5>4. Level(l) >= lbp(t[1])
          BY <1>10, <2>2, <4>1, <5>3
        <5> QED
          BY <1>10, <1>11, <1>14, <5>2, <5>3, <5>4
      <4> QED
        BY <4>2
    <3> QED
      BY <3>1, <3>2 DEF Begins
  <2> QED
    BY <2>1, <2>2
<1>16. PICK v, b : Atom(x, v, p, b) /\ Chain(x, m, <<v, b>>, <<l, c>>)
  BY <1>4, <1>12, <1>13, <1>15 DEF Lost
<1>17. Link(x, m, <<l, c>>, <<t, r>>)
  BY <1>5, <1>8, <1>9, <1>11, <1>13 DEF Link
<1>18. Chain(x, m, <<v, b>>, <<t, r>>)
  BY <1>16, <1>17, LastLink
<1> QED
  BY <1>3, <1>16, <1>18

---------------------------------------------------------------------------
(* What each call of expr has to build *)

\* The tree with this text stands from p to before q, bound strongly enough
\* for a call with this min_bp.
Asked(x, e, m, p, q) ==
  \/ At(x, e, p, q) /\ (Level(e) = 4 \/ Level(e) > m)
  \/ Inside(x, e, p, q)

\* What the call that waits in f does with the tree of goal g it is given leads
\* to what it has to build itself, goal o.
Waits(x, f, g, o) ==
  /\ \/ f.kind = "(" /\ Shows(x, g[2], ")") /\ Chain(x, f.min, <<g[1], g[2] + 1>>, o)
     \/ f.kind = "neg" /\ Chain(x, f.min, << <<"*", MinusOne, g[1]>>, g[2]>>, o)
     \/ f.kind \in Op /\ Chain(x, f.min, << <<f.kind, f.lhs, g[1]>>, g[2]>>, o)
  /\ After(x, o[2]) <= f.min

\* Each call has a goal, a tree and the position after it.
Goals(x, e, goals) ==
  /\ goals[0] = <<e, Len(x) + 1>>
  /\ \A k \in 0 .. Len(frames) : goals[k] \in Tree[Height] \X Nat
  /\ \A k \in 1 .. Len(frames) : Waits(x, frames[k], goals[k], goals[k - 1])
  /\ After(x, goals[Len(frames)][2]) <= min
  /\ mode = "operand" => Asked(x, goals[Len(frames)][1], min, pos, goals[Len(frames)][2])
  /\ mode = "loop" => Chain(x, min, <<val, pos>>, goals[Len(frames)])

Follows(x, e) ==
  /\ mode # "refused"
  /\ mode \in {"operand", "loop"} => \E goals : Goals(x, e, goals)
  /\ mode \in {"collect", "collected", "done", "failed"} => val = e

FollowInv ==
  /\ BuildInv
  /\ \A e \in Trees : WrittenAs[e] = Text => Follows(written[e], e)

\* What is read next, as a lexeme and as a token.
LEMMA Peeks ==
  ASSUME TokensOK, TextOK, NEW x, x = Text, \A i \in 1 .. Len(x) : x[i] \in Words,
         NEW p \in Nat \ {0}, p = pos
  PROVE  /\ Len(x) = Len(tokens) /\ Len(x) \in Nat /\ DOMAIN x = 1 .. Len(x)
         /\ After(x, p) = lbp(Peek)
         /\ \A w \in Op \cup {"(", ")"} : Shows(x, p, w) => Peek = w
         /\ \A v \in Leaf : Shows(x, p, v[2]) => tokens[pos] = v /\ Peek = v[1]
<1>1. PICK n \in Nat : n = Len(tokens)
  BY IsSequenceFacts DEF TokensOK
<1>2. x = [i \in 1 .. n |-> Lexeme(tokens[i])]
  BY <1>1 DEF Text, Lexeme
<1>3. x = [i \in 1 .. n |-> x[i]]
  BY <1>2
<1>4. Len(x) = n /\ DOMAIN x = 1 .. n
  BY <1>2, <1>3, IsSequenceFunction
<1>5. ASSUME NEW i \in 1 .. n
      PROVE  tokens[i] = Lex(x[i]) /\ x[i] \in Words
  BY <1>1, <1>2, <1>4 DEF TextOK
<1>6. ASSUME NEW w \in Op \cup {"(", ")"}, Shows(x, p, w) PROVE Peek = w
  <2>1. p \in 1 .. n /\ tokens[p] = Lex(w)
    BY <1>4, <1>5, <1>6 DEF Shows
  <2>2. tokens[p] = <<w>>
    BY <2>1, LexCases
  <2> QED
    BY <1>1, <2>1, <2>2 DEF Peek
<1>7. ASSUME NEW v \in Leaf, Shows(x, p, v[2]) PROVE tokens[pos] = v /\ Peek = v[1]
  <2>1. p \in 1 .. n /\ tokens[p] = Lex(v[2])
    BY <1>4, <1>5, <1>7 DEF Shows
  <2>2. Lex(v[2]) = <<v[1], v[2]>>
    BY LeafFacts, LexCases
  <2>3. tokens[p] = v
    BY <2>1, <2>2, LeafFacts
  <2> QED
    BY <1>1, <2>1, <2>3 DEF Peek
<1>8. After(x, p) = lbp(Peek)
  <2>1. CASE p \notin 1 .. n
    <3>1. Peek = "end"
      BY <1>1, <2>1 DEF Peek
    <3> QED
      BY <1>4, <2>1, <3>1 DEF After, lbp
  <2>2. CASE p \in 1 .. n
    <3>1. PICK w : w = x[p]
      OBVIOUS
    <3>2. w \in Words /\ tokens[p] = Lex(w) /\ After(x, p) = lbp(w) /\ Peek = Lex(w)[1]
      BY <1>1, <1>4, <1>5, <2>2, <3>1 DEF After, Peek
    <3>3. CASE w \in Op \cup {"(", ")"}
      BY <3>2, <3>3, LexCases
    <3>4. CASE w \in Numbers \cup Names
      <4>1. w \notin Op
        BY <3>4, MeaningAssumption
      <4>2. Peek \in {"num", "var"}
        BY <3>2, <3>4, LexCases
      <4>3. lbp(w) = 0 /\ lbp(Peek) = 0
        BY <4>1, <4>2 DEF lbp, Op
      <4> QED
        BY <3>2, <4>3
    <3> QED
      BY <3>2, <3>3, <3>4 DEF Words
  <2> QED
    BY <2>1, <2>2
<1> QED
  BY <1>1, <1>4, <1>6, <1>7, <1>8

\* A call is made with a goal of its own.
LEMMA NewGoal ==
  ASSUME NEW x, NEW e, NEW goals, Goals(x, e, goals), IsSequence(frames),
         NEW f, frames' = Append(frames, f), mode' = "operand",
         NEW g \in Tree[Height] \X Nat, Waits(x, f, g, goals[Len(frames)]),
         After(x, g[2]) <= min', Asked(x, g[1], min', pos', g[2])
  PROVE  \E new : Goals(x, e, new)'
<1>1. PICK n \in Nat : n = Len(frames)
  BY IsSequenceFacts
<1>2. /\ Len(frames') = n + 1 /\ frames'[n + 1] = f /\ \A k \in 1 .. n : frames'[k] = frames[k]
  BY <1>1, AppendFacts
<1> DEFINE new == [k \in 0 .. n + 1 |-> IF k = n + 1 THEN g ELSE goals[k]]
<1>3. new[n + 1] = g /\ \A k \in 0 .. n : new[k] = goals[k]
  OBVIOUS
<1> HIDE DEF new
<1>4. new[0] = <<e, Len(x) + 1>>
  BY <1>3 DEF Goals
<1>5. ASSUME NEW k \in 0 .. n + 1 PROVE new[k] \in Tree[Height] \X Nat
  <2>1. CASE k = n + 1
    BY <1>3, <2>1
  <2>2. CASE k \in 0 .. n
    BY <1>1, <1>3, <2>2 DEF Goals
  <2> QED
    BY <2>1, <2>2
<1>6. ASSUME NEW k \in 1 .. n + 1 PROVE Waits(x, frames'[k], new[k], new[k - 1])
  <2>1. CASE k = n + 1
    BY <1>1, <1>2, <1>3, <2>1
  <2>2. CASE k \in 1 .. n
    BY <1>1, <1>2, <1>3, <2>2 DEF Goals
  <2>3. k = n + 1 \/ k \in 1 .. n
    OBVIOUS
  <2> QED
    BY <2>1, <2>2, <2>3, Zenon
<1>7. Goals(x, e, new)'
  BY <1>2, <1>3, <1>4, <1>5, <1>6 DEF Goals
<1> QED
  BY <1>7

\* A call returns, and the one that waited goes on.
LEMMA OldGoal ==
  ASSUME NEW x, NEW e, NEW goals, Goals(x, e, goals), IsSequence(frames), frames # << >>,
         frames' = Front(frames), mode' = "loop", min' = frames[Len(frames)].min,
         Chain(x, min', <<val', pos'>>, goals[Len(frames) - 1])
  PROVE  Goals(x, e, goals)'
<1>1. PICK n \in Nat : n + 1 = Len(frames)
  <2>1. Len(frames) \in Nat \ {0}
    BY FrontFacts
  <2>2. Len(frames) - 1 \in Nat /\ (Len(frames) - 1) + 1 = Len(frames)
    BY <2>1
  <2> QED
    BY <2>2
<1>2. Len(frames') = n /\ \A k \in 1 .. n : frames'[k] = frames[k]
  <2>1. /\ Len(Front(frames)) = Len(frames) - 1
        /\ \A k \in 1 .. Len(frames) - 1 : Front(frames)[k] = frames[k]
    BY FrontFacts
  <2> QED
    BY <1>1, <2>1
<1>3. /\ goals[0] = <<e, Len(x) + 1>>
      /\ \A k \in 0 .. n : goals[k] \in Tree[Height] \X Nat
      /\ \A k \in 1 .. n + 1 : Waits(x, frames[k], goals[k], goals[k - 1])
  BY <1>1 DEF Goals
<1>4. After(x, goals[n][2]) <= min'
  <2>1. Waits(x, frames[n + 1], goals[n + 1], goals[n])
    <3>1. PICK k \in 1 .. n + 1 : k = n + 1
      BY <1>1
    <3>2. k - 1 = n
      BY <3>1
    <3> QED
      BY <1>3, <3>1, <3>2
  <2> QED
    BY <1>1, <2>1 DEF Waits
<1>5. ASSUME NEW k \in 1 .. n PROVE Waits(x, frames'[k], goals[k], goals[k - 1])
  <2>1. k \in 1 .. n + 1 /\ frames'[k] = frames[k]
    BY <1>2
  <2>2. Waits(x, frames[k], goals[k], goals[k - 1])
    BY <1>3, <2>1
  <2> QED
    BY <2>1, <2>2
<1>6. Chain(x, min', <<val', pos'>>, goals[n])
  BY <1>1
<1> QED
  BY <1>2, <1>3, <1>4, <1>5, <1>6 DEF Goals

LEMMA FollowStep ==
  ASSUME BuildInv, [Next]_vars, NEW e \in Trees, Text = written[e], Follows(written[e], e)
  PROVE  Follows(written[e], e)'
<1>0. /\ TokensOK /\ TextOK /\ IsSequence(frames) /\ CallsOK /\ ReadOK /\ Before
  BY DEF BuildInv, ParseInv
<1>x. PICK x : x = written[e]
  OBVIOUS
<1>e. e \in Tree[Height]
  BY MeaningAssumption
<1>w. /\ x = Text /\ IsText(x) /\ \A i \in 1 .. Len(x) : x[i] \in Words
  BY <1>x, <1>e, WrittenText DEF IsText
<1>f. /\ mode # "refused"
      /\ mode \in {"operand", "loop"} => \E goals : Goals(x, e, goals)
      /\ mode \in {"collect", "collected", "done", "failed"} => val = e
  BY <1>x DEF Follows
\* It is enough to say what the running call and those that wait have to build.
<1>g. ASSUME mode' # "refused",
             mode' \in {"operand", "loop"} => \E goals : Goals(x, e, goals)',
             mode' \in {"collect", "collected", "done", "failed"} => val' = e
      PROVE  Follows(written[e], e)'
  BY <1>x, <1>g DEF Follows
<1>1. ASSUME ParseVar \/ VarsParsed PROVE Follows(written[e], e)'
  <2>1. mode' \in {"vars", "lexed"}
    BY <1>1 DEF ParseVar, VarsParsed
  <2> QED
    BY <1>g, <2>1
<1>2. ASSUME CollectNum \/ CollectVariable \/ Missing \/ CollectLeft \/ CollectRight \/ AddStep
             \/ Schedule \/ EmitIR
      PROVE  Follows(written[e], e)'
  <2>1. /\ mode \in {"collect", "collected", "done", "failed"} /\ val' = val
        /\ mode' \in {"collect", "collected", "done", "failed"}
    BY <1>2 DEF CollectNum, CollectVariable, Missing, CollectLeft, CollectRight, AddStep,
                Collecting, Schedule, EmitIR
  <2> QED
    BY <1>f, <1>g, <2>1
<1>3. ASSUME UNCHANGED vars PROVE Follows(written[e], e)'
  <2>1. \A goals : Goals(x, e, goals) => Goals(x, e, goals)'
    BY <1>3 DEF vars, Goals
  <2>2. mode' = mode /\ val' = val
    BY <1>3 DEF vars
  <2> QED
    BY <1>f, <1>g, <2>1, <2>2
<1>4. ASSUME StartExpr PROVE Follows(written[e], e)'
  <2>1. /\ mode = "lexed" /\ pos = 1 /\ frames = << >> /\ min = 0
        /\ pos' = 1 /\ frames' = << >> /\ min' = 0
    BY <1>0, <1>4 DEF StartExpr, Before
  <2>2. Len(frames') = 0
    BY <2>1, NoSteps
  <2>3. PICK p \in Nat \ {0} : p = 1
    OBVIOUS
  <2>4. Len(x) = Len(tokens) /\ Len(x) \in Nat /\ DOMAIN x = 1 .. Len(x)
    BY <1>0, <1>w, <2>1, <2>3, Peeks
  <2>5. mode' = "operand"
    <3>1. ASSUME NEW i \in 1 .. Len(tokens) PROVE tokens[i][1] # "error"
      <4>1. tokens[i] = Lex(x[i])
        BY <1>0, <1>w, <2>4 DEF TextOK, Text, Lexeme
      <4>2. x[i] \in Words
        BY <1>w, <2>4
      <4>3. PICK w \in Words : w = x[i]
        BY <4>2
      <4>4. Lex(w)[1] # "error"
        BY LexCases DEF Words, Op
      <4> QED
        BY <4>1, <4>3, <4>4
    <3> QED
      BY <1>4, <3>1 DEF StartExpr
  <2> DEFINE goals == [k \in 0 .. 0 |-> <<e, Len(x) + 1>>]
  <2>6. goals[0] = <<e, Len(x) + 1>>
    OBVIOUS
  <2> HIDE DEF goals
  <2>7. Asked(x, e, 0, 1, Len(x) + 1)
    <3>1. Level(e) \in 1 .. 4
      BY <1>e, Levels, MeaningAssumption
    <3>2. ASSUME NEW i \in 1 .. Len(x) PROVE Shows(x, 1 + i - 1, x[i])
      BY <2>4 DEF Shows
    <3>3. At(x, e, 1, Len(x) + 1)
      BY <1>x, <2>4, <3>2 DEF At, Occurs
    <3> QED
      BY <3>1, <3>3 DEF Asked
  <2>8. After(x, Len(x) + 1) = 0
    BY <2>4 DEF After
  <2>9. goals[0] \in Tree[Height] \X Nat
    BY <1>e, <2>4, <2>6
  <2>10. Goals(x, e, goals)'
    BY <2>1, <2>2, <2>5, <2>6, <2>7, <2>8, <2>9 DEF Goals
  <2> QED
    BY <1>g, <2>5, <2>10
<1> SUFFICES ASSUME mode \in {"operand", "loop"},
                    EatOperand \/ EatParen \/ EatMinus \/ Unexpected
                    \/ EatOperator \/ Close \/ Return \/ Accept
             PROVE  Follows(written[e], e)'
  BY <1>1, <1>2, <1>3, <1>4 DEF Next, EatOperand, EatParen, EatMinus, Unexpected, EatOperator,
                                Close, Return, Accept
<1>n. PICK n \in Nat : n = Len(frames)
  BY <1>0, IsSequenceFacts
<1>p. PICK p \in Nat \ {0} : p = pos
  BY <1>0 DEF ReadOK
<1>m. min \in Nat
  <2>1. \A k \in 0 .. n : MinOf(k) \in Nat
    BY <1>0, <1>n, Bindings DEF CallsOK, MinOf, Binding
  <2> QED
    BY <1>0, <1>n, <2>1 DEF CallsOK
<1>5. PICK goals : Goals(x, e, goals)
  BY <1>f
<1>6. PICK g \in Tree[Height] \X Nat : g = goals[n]
  BY <1>5, <1>n DEF Goals
<1>7. PICK t \in Tree[Height], q \in Nat : g = <<t, q>>
  OBVIOUS
<1>h. g[1] = t /\ g[2] = q
  BY <1>7
<1>i. /\ After(x, goals[n][2]) <= min /\ goals[0] = <<e, Len(x) + 1>>
      /\ mode = "operand" => Asked(x, goals[n][1], min, p, goals[n][2])
  BY <1>5, <1>n, <1>p DEF Goals
<1>8. /\ Len(x) = Len(tokens) /\ Len(x) \in Nat /\ DOMAIN x = 1 .. Len(x)
      /\ After(x, p) = lbp(Peek)
      /\ \A w \in Op \cup {"(", ")"} : Shows(x, p, w) => Peek = w
      /\ \A v \in Leaf : Shows(x, p, v[2]) => tokens[pos] = v /\ Peek = v[1]
  BY <1>0, <1>w, <1>p, Peeks
<1>9. After(x, q) <= min
  BY <1>6, <1>h, <1>i
<1>10. ASSUME NEW k PROVE After(x, k) \in 0 .. 3
  BY DEF After, lbp
\* An operand: it is the first of what the call has to build.
<1>11. ASSUME mode = "operand"
       PROVE  \E v, b : Atom(x, v, p, b) /\ Chain(x, min, <<v, b>>, g)
  <2>1. Asked(x, t, min, p, q)
    BY <1>6, <1>11, <1>h, <1>i
  <2>2. ASSUME Level(t) > min, Level(t) # 4 PROVE After(x, q) <= rbp(t[1])
    <3>1. Level(t) = lbp(t[1]) /\ lbp(t[1]) \in 1 .. 3 /\ rbp(t[1]) \in Nat /\ lbp(t[1]) <= rbp(t[1]) + 1
      BY <2>2, Levels, MeaningAssumption
    <3> QED
      BY <1>9, <1>10, <1>m, <2>2, <3>1
  <2>3. Begins(x, t, min, p, q)
    BY <2>1, <2>2 DEF Asked, Begins
  <2>4. Height \in Nat /\ Height <= Height
    BY MeaningAssumption
  <2>5. PICK m \in Nat : m = min
    BY <1>m
  <2>6. \E v, b : Atom(x, v, p, b) /\ Chain(x, m, <<v, b>>, <<t, q>>)
    BY <2>3, <2>4, <2>5, FirstAtom
  <2> QED
    BY <1>7, <2>5, <2>6
\* What the first lexeme of an operand says.
<1>12. ASSUME NEW v, NEW b, Atom(x, v, p, b)
       PROVE  \/ v \in Leaf /\ tokens[pos] = v /\ Peek \in {"num", "var"} /\ b = p + 1
              \/ v \notin Leaf /\ IsNegation(v) /\ Peek = "-" /\ Holds(x, v[3], 4, p + 1, b)
              \/ Peek = "(" /\ Inside(x, v, p, b)
  <2>1. CASE v \in Leaf /\ Shows(x, p, v[2]) /\ b = p + 1
    BY <1>8, <2>1, LeafFacts
  <2>2. CASE v \notin Leaf /\ IsNegation(v) /\ Shows(x, p, "-") /\ Holds(x, v[3], 4, p + 1, b)
    BY <1>8, <2>2 DEF Op
  <2>3. CASE Inside(x, v, p, b)
    BY <1>8, <2>3 DEF Inside
  <2> QED
    BY <1>12, <2>1, <2>2, <2>3 DEF Atom
\* A call is made.
<1>13. ASSUME NEW kind, NEW lhs, NEW bp, NEW u \in Tree[Height], NEW r \in Nat,
              Calling(Frame(kind, lhs), bp),
              \/ kind = "(" /\ Shows(x, r, ")") /\ Chain(x, min, <<u, r + 1>>, g)
              \/ kind = "neg" /\ Chain(x, min, << <<"*", MinusOne, u>>, r>>, g)
              \/ kind \in Op /\ Chain(x, min, << <<kind, lhs, u>>, r>>, g),
              After(x, r) <= bp, Asked(x, u, bp, p + 1, r)
       PROVE  Follows(written[e], e)'
  <2>1. PICK f : f = Frame(kind, lhs)
    OBVIOUS
  <2>2. /\ frames' = Append(frames, f) /\ min' = bp /\ mode' = "operand" /\ pos' = p + 1
    BY <1>13, <1>p, <2>1 DEF Calling
  <2>3. f.kind = kind /\ f.lhs = lhs /\ f.min = min
    BY <2>1 DEF Frame
  <2>4. PICK c \in Tree[Height] \X Nat : c = <<u, r>>
    OBVIOUS
  <2>5. Waits(x, f, c, goals[Len(frames)])
    <3>1. c[1] = u /\ c[2] = r /\ goals[Len(frames)] = g /\ After(x, g[2]) <= min
      BY <1>6, <1>9, <1>h, <1>n, <2>4
    <3> QED
      BY <1>13, <2>3, <3>1 DEF Waits
  <2>6. After(x, c[2]) <= min' /\ Asked(x, c[1], min', pos', c[2])
    BY <1>13, <2>2, <2>4
  <2>7. \E new : Goals(x, e, new)'
    BY <1>0, <1>5, <2>2, <2>5, <2>6, NewGoal
  <2> QED
    BY <1>g, <2>2, <2>7
\* A call that is at its goal has built it, one that is not goes on.
<1>14. ASSUME mode = "loop", lbp(Peek) <= min PROVE val = t /\ pos = q
  <2>1. Chain(x, min, <<val, pos>>, g)
    BY <1>5, <1>6, <1>14, <1>n DEF Goals
  <2>2. ASSUME NEW a, Link(x, min, <<val, pos>>, a) PROVE FALSE
    <3>1. Shows(x, p, a[1][1]) /\ lbp(a[1][1]) > min
      BY <1>p, <2>2 DEF Link
    <3>2. After(x, p) = lbp(a[1][1])
      BY <3>1 DEF After, Shows
    <3> QED
      BY <1>8, <1>10, <1>14, <1>m, <3>1, <3>2
  <2>3. <<val, pos>> = g
    BY <2>1, <2>2, FirstLink
  <2> QED
    BY <1>7, <2>3
\* The call that waits is given what it asked for.
<1>15. ASSUME n > 0, NEW result, NEW eaten, mode = "loop", lbp(Peek) <= min,
              ReturnTo(Last(frames), result, eaten), eaten \in 0 .. 1,
              Chain(x, frames[n].min, <<result, q + eaten>>, goals[n - 1])
       PROVE  Follows(written[e], e)'
  <2>1. pos = q
    BY <1>14, <1>15
  <2>2. /\ val' = result /\ pos' = q + eaten /\ frames' = Front(frames) /\ mode' = "loop"
        /\ min' = frames[Len(frames)].min
    BY <1>15, <2>1 DEF ReturnTo, Last
  <2>3. frames # << >>
    BY <1>15, <1>n, NoSteps
  <2>4. Chain(x, min', <<val', pos'>>, goals[Len(frames) - 1])
    BY <1>15, <1>n, <2>2
  <2>5. Goals(x, e, goals)'
    BY <1>0, <1>5, <2>2, <2>3, <2>4, OldGoal
  <2> QED
    BY <1>g, <2>2, <2>5
<1>16. ASSUME EatOperand PROVE Follows(written[e], e)'
  <2>1. /\ mode = "operand" /\ Peek \in {"num", "var"} /\ val' = tokens[pos] /\ pos' = p + 1
        /\ mode' = "loop" /\ frames' = frames /\ min' = min
    BY <1>16, <1>p DEF EatOperand
  <2>2. PICK v, b : Atom(x, v, p, b) /\ Chain(x, min, <<v, b>>, g)
    BY <1>11, <2>1
  <2>3. tokens[pos] = v /\ b = p + 1
    BY <1>12, <2>1, <2>2
  <2>4. Chain(x, min', <<val', pos'>>, g)
    BY <2>1, <2>2, <2>3
  <2>5. Goals(x, e, goals)'
    BY <1>5, <1>6, <1>n, <2>1, <2>4 DEF Goals
  <2> QED
    BY <1>g, <2>1, <2>5
<1>17. ASSUME EatParen PROVE Follows(written[e], e)'
  <2>1. mode = "operand" /\ Peek = "(" /\ Calling(Frame("(", None), 0)
    BY <1>17 DEF EatParen
  <2>2. PICK v, b : Atom(x, v, p, b) /\ Chain(x, min, <<v, b>>, g)
    BY <1>11, <2>1
  <2>3. Shows(x, b - 1, ")") /\ At(x, v, p + 1, b - 1) /\ v \in Tree[Height] /\ b \in Nat
    BY <1>12, <2>1, <2>2 DEF Inside, Atom
  <2>4. PICK r \in Nat : r = b - 1 /\ b = r + 1
    BY <1>8, <2>3 DEF Shows
  <2>5. Level(v) \in 1 .. 4
    BY <2>3, Levels, MeaningAssumption
  <2>6. Asked(x, v, 0, p + 1, r)
    BY <2>3, <2>4, <2>5 DEF Asked
  <2>7. After(x, r) <= 0
    <3>1. After(x, r) = lbp(")")
      BY <2>3, <2>4 DEF After, Shows
    <3> QED
      BY <3>1 DEF lbp
  <2> QED
    BY <1>13, <2>1, <2>2, <2>3, <2>4, <2>6, <2>7
<1>18. ASSUME EatMinus PROVE Follows(written[e], e)'
  <2>1. mode = "operand" /\ Peek = "-" /\ Calling(Frame("neg", None), 10)
    BY <1>18 DEF EatMinus
  <2>2. PICK v, b : Atom(x, v, p, b) /\ Chain(x, min, <<v, b>>, g)
    BY <1>11, <2>1
  <2>3. /\ v \notin Leaf /\ IsNegation(v) /\ Holds(x, v[3], 4, p + 1, b)
        /\ v \in Tree[Height] /\ b \in Nat
    BY <1>12, <2>1, <2>2 DEF Atom
  <2>4. v = <<"*", MinusOne, v[3]>> /\ v[3] \in Tree[Height]
    <3>1. v = <<v[1], v[2], v[3]>> /\ v[3] \in Tree[Height - 1] /\ Height - 1 \in Nat
      BY <2>3, Operands, MeaningAssumption
    <3>2. v[3] \in Tree[Height]
      BY <3>1, Higher, MeaningAssumption
    <3> QED
      BY <2>3, <3>1, <3>2 DEF IsNegation
  <2>5. PICK u \in Tree[Height] : u = v[3]
    BY <2>4
  <2>6. Level(u) \in 1 .. 4
    BY Levels, MeaningAssumption
  <2>7. Asked(x, u, 10, p + 1, b)
    BY <2>3, <2>5, <2>6 DEF Holds, Asked
  <2>8. After(x, b) <= 10
    BY <1>10
  <2>9. Chain(x, min, << <<"*", MinusOne, u>>, b>>, g)
    BY <2>2, <2>4, <2>5
  <2> QED
    BY <1>13, <2>1, <2>3, <2>7, <2>8, <2>9
<1>19. ASSUME Unexpected PROVE Follows(written[e], e)'
  BY <1>11, <1>12, <1>19 DEF Unexpected
<1>20. ASSUME EatOperator PROVE Follows(written[e], e)'
  <2>1. mode = "loop" /\ lbp(Peek) > min /\ Calling(Frame(Peek, val), rbp(Peek))
    BY <1>20 DEF EatOperator
  <2>2. Chain(x, min, <<val, pos>>, g)
    BY <1>5, <1>6, <1>n, <2>1 DEF Goals
  <2>3. <<val, pos>> # g
    BY <1>7, <1>8, <1>9, <1>10, <1>m, <1>p, <2>1
  <2>4. PICK a : Link(x, min, <<val, pos>>, a) /\ Chain(x, min, a, g)
    BY <2>2, <2>3, FirstLink
  <2>5. PICK c \in Tree[Height], r \in Nat : a = <<c, r>>
    BY <2>4 DEF Link
  <2>6. /\ c \notin Leaf /\ ~IsNegation(c) /\ val = c[2] /\ Shows(x, p, c[1])
        /\ Holds(x, c[3], RightLevel(c), p + 1, r) /\ lbp(c[1]) > min /\ After(x, r) <= rbp(c[1])
    BY <1>p, <2>4, <2>5 DEF Link
  <2>7. c = <<c[1], c[2], c[3]>> /\ c[1] \in Op /\ c[3] \in Tree[Height]
    <3>1. /\ c = <<c[1], c[2], c[3]>> /\ c[1] \in Op /\ c[3] \in Tree[Height - 1] /\ Height - 1 \in Nat
      BY <2>6, Operands, MeaningAssumption
    <3> QED
      BY <3>1, Higher, MeaningAssumption
  <2>8. Peek = c[1]
    BY <1>8, <2>6, <2>7
  <2>9. PICK u \in Tree[Height] : u = c[3]
    BY <2>7
  <2>10. Asked(x, u, rbp(Peek), p + 1, r)
    <3>1. Level(u) \in 1 .. 4
      BY Levels, MeaningAssumption
    <3>2. RightLevel(c) > rbp(c[1]) /\ rbp(c[1]) \in Nat /\ RightLevel(c) \in Nat
      BY <2>6, Levels, MeaningAssumption
    <3>3. CASE Level(u) < RightLevel(c)
      BY <2>6, <2>9, <3>3 DEF Holds, Asked
    <3>4. CASE ~(Level(u) < RightLevel(c))
      BY <2>6, <2>8, <2>9, <3>1, <3>2, <3>4 DEF Holds, Asked
    <3> QED
      BY <3>3, <3>4
  <2>11. Chain(x, min, << <<Peek, val, u>>, r>>, g)
    BY <2>4, <2>5, <2>6, <2>7, <2>8, <2>9
  <2> QED
    BY <1>13, <2>1, <2>6, <2>7, <2>8, <2>10, <2>11
<1>21. ASSUME Close \/ Return
       PROVE  n > 0 /\ n \in 1 .. n /\ Last(frames) = frames[n] /\ Waits(x, frames[n], g, goals[n - 1])
  <2>1. frames # << >>
    BY <1>21 DEF Close, Return
  <2>2. n > 0
    BY <1>0, <1>n, <2>1, FrontFacts
  <2> QED
    BY <1>5, <1>6, <1>n, <2>2 DEF Last, Goals
<1>22. ASSUME Close PROVE Follows(written[e], e)'
  <2>1. /\ mode = "loop" /\ lbp(Peek) <= min /\ frames[n].kind = "("
        /\ Peek = ")" => ReturnTo(Last(frames), val, 1)
    BY <1>21, <1>22 DEF Close
  <2>2. val = t /\ pos = q
    BY <1>14, <2>1
  <2>3. Shows(x, q, ")") /\ Chain(x, frames[n].min, <<t, q + 1>>, goals[n - 1])
    BY <1>7, <1>21, <1>22, <2>1, Symbols DEF Waits
  <2>4. Peek = ")"
    BY <1>8, <1>p, <2>2, <2>3
  <2>5. PICK eaten \in 0 .. 1 : eaten = 1
    OBVIOUS
  <2> QED
    BY <1>15, <1>21, <1>22, <2>1, <2>2, <2>3, <2>4, <2>5
<1>23. ASSUME Return PROVE Follows(written[e], e)'
  <2>1. mode = "loop" /\ lbp(Peek) <= min
    BY <1>23 DEF Return
  <2>2. val = t /\ pos = q
    BY <1>14, <2>1
  <2>3. PICK eaten \in 0 .. 1 : eaten = 0 /\ q + eaten = q
    OBVIOUS
  <2>4. CASE frames[n].kind = "neg" /\ ReturnTo(Last(frames), <<"*", <<"num", "-1">>, val>>, 0)
    <3>1. Chain(x, frames[n].min, << <<"*", MinusOne, t>>, q>>, goals[n - 1])
      BY <1>7, <1>21, <1>23, <2>4, Symbols DEF Waits
    <3>2. PICK r : r = <<"*", MinusOne, t>>
      OBVIOUS
    <3>3. ReturnTo(Last(frames), r, eaten)
      BY <2>2, <2>3, <2>4, <3>2 DEF MinusOne
    <3> QED
      BY <1>15, <1>21, <1>23, <2>1, <2>3, <3>1, <3>2, <3>3
  <2>5. CASE frames[n].kind \in Op /\ ReturnTo(Last(frames), <<frames[n].kind, frames[n].lhs, val>>, 0)
    <3>1. Chain(x, frames[n].min, << <<frames[n].kind, frames[n].lhs, t>>, q>>, goals[n - 1])
      BY <1>7, <1>21, <1>23, <2>5, Symbols DEF Waits
    <3>2. PICK r : r = <<frames[n].kind, frames[n].lhs, t>>
      OBVIOUS
    <3>3. ReturnTo(Last(frames), r, eaten)
      BY <2>2, <2>3, <2>5, <3>2
    <3> QED
      BY <1>15, <1>21, <1>23, <2>1, <2>3, <3>1, <3>2, <3>3
  <2> QED
    BY <1>21, <1>23, <2>4, <2>5 DEF Return
<1>24. ASSUME Accept PROVE Follows(written[e], e)'
  <2>1. /\ mode = "loop" /\ lbp(Peek) <= min /\ frames = << >> /\ mode' = "collect" /\ val' = val
    BY <1>24 DEF Accept
  <2>2. n = 0
    BY <1>n, <2>1, NoSteps
  <2>3. t = e
    <3>1. g = <<e, Len(x) + 1>>
      BY <1>6, <1>i, <2>2
    <3> QED
      BY <1>h, <3>1
  <2> QED
    BY <1>14, <1>g, <2>1, <2>3
<1> QED
  BY <1>16, <1>17, <1>18, <1>19, <1>20, <1>22, <1>23, <1>24

LEMMA FollowInit == Init => FollowInv
<1> SUFFICES ASSUME Init PROVE FollowInv
  OBVIOUS
<1>1. mode = "vars"
  BY DEF Init
<1> QED
  BY <1>1, BuildInit DEF FollowInv, Follows

LEMMA FollowNext == FollowInv /\ [Next]_vars => FollowInv'
<1> SUFFICES ASSUME FollowInv, [Next]_vars PROVE FollowInv'
  OBVIOUS
<1>1. BuildInv /\ BuildInv'
  BY BuildNext DEF FollowInv
<1>2. tokens' = tokens
  BY DEF Next, vars, ParseVar, VarsParsed, StartExpr, EatOperand, EatParen, EatMinus, Calling,
         Unexpected, EatOperator, ReturnTo, Close, Return, Accept, CollectNum, CollectVariable,
         Missing, CollectLeft, CollectRight, AddStep, Collecting, Schedule, EmitIR
<1>3. Text' = Text
  BY <1>2 DEF Text
<1>4. ASSUME NEW e \in Trees PROVE WrittenAs[e] = written[e]
  BY DEF WrittenAs
<1>5. ASSUME NEW e \in Trees, WrittenAs[e] = Text' PROVE Follows(written[e], e)'
  <2>1. Text = written[e] /\ Follows(written[e], e)
    BY <1>3, <1>4, <1>5 DEF FollowInv
  <2> QED
    BY <1>1, <2>1, FollowStep
<1> QED
  BY <1>1, <1>5 DEF FollowInv

\* For every tree the equation may be written from, with operators, minus
\* signs and parentheses nested to any height: Parser::expr builds that tree
\* and does not refuse the equation.
THEOREM GroupingSound == Spec => []GroupedAsWritten
<1>1. FollowInv => GroupedAsWritten
  BY DEF FollowInv, Follows, GroupedAsWritten
<1> QED
  BY <1>1, FollowInit, FollowNext, PTL DEF Spec

=============================================================================
