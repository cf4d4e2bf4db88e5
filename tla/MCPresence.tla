----------------------------- MODULE MCPresence -----------------------------
(* Two members besides the owner and as many connections as members.       *)
EXTENDS Presence, TLC

Symmetry == Permutations(Conn) \cup Permutations(Id \ {SelfKey, Owner})
=============================================================================
