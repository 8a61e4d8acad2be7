------------------------- MODULE MCStringInterning -------------------------
(***************************************************************************)
(* Texts for chunks of four bytes: "a" and "b" together fill one exactly,  *)
(* "ddd" alone does, "long" is too long for any, "a0" is "a" followed by a *)
(* NUL, and "c" belongs to the second shard.                               *)
(***************************************************************************)
EXTENDS StringInterning

TextSet == {"a", "b", "a0", "ddd", "long", "c"}
Lengths == [x \in TextSet |->
  CASE x = "a0" -> 2 [] x = "ddd" -> 3 [] x = "long" -> 4 [] OTHER -> 1]
UpToNul == [x \in TextSet |-> IF x = "a0" THEN "a" ELSE x]
TwoShards == [x \in TextSet |-> IF x = "c" THEN 2 ELSE 1]

=============================================================================
