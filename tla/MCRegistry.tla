----------------------------- MODULE MCRegistry -----------------------------
(* An instance of module Registry: two addresses, an IO board that comes   *)
(* and goes at the first.                                                  *)
EXTENDS Registry

First == {0}
=============================================================================
