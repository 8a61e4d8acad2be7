---------------------------- MODULE LexerLayout ----------------------------
(***************************************************************************)
(* Layout means nothing to the lexer.  When a text is lexed, it is written *)
(* again with one blank between its tokens, and a second lexer reads that. *)
(***************************************************************************)
EXTENDS Lexer, FiniteSets, SequencesExt

ASSUME LayoutAssumption ==
  /\ \A word \in DOMAIN Keywords : Keywords[word] # "QUOTE"
  /\ (Letters \cup Digits) \cap Singles = {}

VARIABLES source2, cursor2, mark2, mode2, lastTy2, tokens2
vars2 == <<source2, cursor2, mark2, mode2, lastTy2, tokens2>>
Again == INSTANCE Lexer WITH source <- source2, cursor <- cursor2, mark <- mark2,
                             mode <- mode2, lastTy <- lastTy2, tokens <- tokens2

TextOf(t) == SubSeq(source, t.from, t.to - 1)

Quotes(ts, n) == {k \in 1 .. n : ts[k].type = "QUOTE"}
\* An odd number of quotes lies before it: it belongs to the string they open,
\* whose text stays together.
Glued(ts, k) == Cardinality(Quotes(ts, k - 1)) % 2 = 1
Spaced(k) == (IF Glued(tokens, k) THEN << >> ELSE <<" ">>) \o TextOf(tokens[k])
Respaced == FlattenSeq([k \in 1 .. Len(tokens) - 1 |-> Spaced(k)])

LayoutInit ==
  /\ Init
  /\ source2 = <<NUL>> /\ cursor2 = 1 /\ mark2 = 1 /\ mode2 = "idle"
  /\ lastTy2 = "EOF" /\ tokens2 = << >>

LexAgain ==
  /\ mode = "done" /\ mode2 = "idle"
  /\ source2' = Respaced \o <<NUL>>
  /\ mode2' = "next"
  /\ UNCHANGED <<cursor2, mark2, lastTy2, tokens2>>
  /\ UNCHANGED vars

LayoutNext ==
  \/ Next /\ UNCHANGED vars2
  \/ LexAgain
  \/ mode2 # "idle" /\ Again!Next /\ UNCHANGED vars

LayoutSpec == LayoutInit /\ [][LayoutNext]_<<vars, vars2>>

Read(ts, s) == [k \in 1 .. Len(ts) |-> <<ts[k].type, SubSeq(s, ts[k].from, ts[k].to - 1)>>]

\* Layout means nothing: what the longest match makes of a text is what it
\* makes of its tokens when they stand apart; unclosed strings included, which
\* lexer.cpp closes at the end of the text.
LayoutFree == mode2 = "done" => Read(tokens2, source2) = Read(tokens, source)

=============================================================================
