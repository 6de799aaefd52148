------------------------------- MODULE MCBoard -------------------------------
(* Small instances of module Board.                                        *)
EXTENDS Board

CONSTANT b1

(* One pin in either byte: the code takes now the first, now the second.   *)
OnePin == <<1, 1>>
=============================================================================
