------------------------------ MODULE MCRelay ------------------------------
(* The owner asks a member, a stranger asks the same member, and the       *)
(* member asks the relay itself.                                           *)
EXTENDS Relay, TLC

CONSTANTS askMember, askHeld, askRelay, member, stranger

MCFrom == [h \in Hash |-> CASE h = askMember -> Owner
                            [] h = askHeld   -> stranger
                            [] h = askRelay  -> member]

MCTo == [h \in Hash |-> IF h = askRelay THEN SelfKey ELSE member]

Symmetry == Permutations(Conn) \cup Permutations(Call)

(* No handler reads what was told or which rows are cached, and no route   *)
(* property mentions them: states that differ in these alone are one.      *)
RouteView == <<members, conn, sink, pending, carried, slot, call, answered>>
=============================================================================
