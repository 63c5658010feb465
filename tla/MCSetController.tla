--------------------------- MODULE MCSetController ---------------------------
(* Two templates of one role, one or three replicas.                       *)
EXTENDS SetController

MCContents == {"x", "y"}
MCSizes == {1, 3}
=============================================================================
