--------------------------- MODULE RouteContract ---------------------------
(***************************************************************************)
(* What the relay's route table promises to the rest of the relay, with no *)
(* clock in it: a route is held for one request; a requester holds at most *)
(* PerRequester of them; only the target of a held route can turn it into  *)
(* a receipt, the receipt goes to the requester of that route, and the     *)
(* route is gone the moment it did.  A route may lapse at any time.        *)
(*                                                                         *)
(* Router.tla (src/spirit/run/spirit/router.js) is shown to implement it.  *)
(***************************************************************************)
EXTENDS Naturals, FiniteSets, Functions

CONSTANTS
    Hash,           \* names of requests
    Id,             \* identities that ask and answer
    PerRequester    \* routes one requester may hold at a time

VARIABLES
    held,           \* live routes: Hash -|-> [requester, target]
    receipt         \* the last receipt that was matched

contractVars == <<held, receipt>>

Pair == [requester : Id, target : Id]

NoReceipt == [hash |-> "none", by |-> "none", to |-> "none"]

HeldBy(h, r) == {x \in DOMAIN h : h[x].requester = r}

ContractInit ==
    /\ held = [x \in {} |-> x]
    /\ receipt = NoReceipt

(* A request is filed: its name is not in use and its asker has room.      *)
Grant(x, r, t) ==
    /\ x \notin DOMAIN held
    /\ Cardinality(HeldBy(held, r)) < PerRequester
    /\ held' = [y \in DOMAIN held \cup {x} |->
                    IF y = x THEN [requester |-> r, target |-> t] ELSE held[y]]
    /\ UNCHANGED receipt

(* The target of a live route answers it.                                  *)
Receive(x) ==
    /\ x \in DOMAIN held
    /\ receipt' = [hash |-> x, by |-> held[x].target, to |-> held[x].requester]
    /\ held' = Restrict(held, DOMAIN held \ {x})

(* Routes end unanswered: expired, given up, or an end of them went away.  *)
Lapse(S) ==
    /\ held' = Restrict(held, DOMAIN held \ S)
    /\ UNCHANGED receipt

ContractNext ==
    \/ \E x \in Hash, r, t \in Id : Grant(x, r, t)
    \/ \E x \in Hash : Receive(x)
    \/ \E S \in SUBSET Hash : Lapse(S)

ContractSpec == ContractInit /\ [][ContractNext]_contractVars
=============================================================================
