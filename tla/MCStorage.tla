----------------------------- MODULE MCStorage -----------------------------
(* Two kinds of nodes, one of which has a smaller table. *)
EXTENDS NodeStorage, TLC

CONSTANTS declaration, literal
MCKinds == {declaration, literal}
MCCapacity == declaration :> 3 @@ literal :> 2

=============================================================================
