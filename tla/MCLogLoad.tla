--------------------------- MODULE MCLogLoad ---------------------------
(* A small instance of LogLoad for TLC: one load generator.               *)
EXTENDS LogLoad, TLC

CONSTANTS s1

OneStream == s1 :> <<1, 2, 3, 4, 5, 6, 7, 8>>
=============================================================================
