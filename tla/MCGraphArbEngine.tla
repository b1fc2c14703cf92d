-------------------------- MODULE MCGraphArbEngine --------------------------
(* TLC instance of GraphArbEngine: a grid of two sizes, the first or the second *)
(* of which is the best, or ties, or reverts, or loses.                         *)
EXTENDS GraphArbEngine

SomeGrid == <<1, 2>>
=============================================================================
