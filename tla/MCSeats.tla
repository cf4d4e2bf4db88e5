------------------------------ MODULE MCSeats ------------------------------
(* Seats for an owner and two others.                                      *)
EXTENDS Seats, TLC

Symmetry ==
    Permutations(Person \ {Owner}) \cup Permutations(Token) \cup Permutations(Label)
=============================================================================
