------------------------------ MODULE MCServer ------------------------------
(* Small instances of module Server for TLC.                               *)
EXTENDS Server

CONSTANTS c1, c2
=============================================================================
