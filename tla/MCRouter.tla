------------------------------ MODULE MCRouter ------------------------------
(* The route table over one identity besides the relay itself, each asking *)
(* either, and one request more than the table has room for.               *)
EXTENDS Router, TLC

Symmetry == Permutations(Hash)
=============================================================================
