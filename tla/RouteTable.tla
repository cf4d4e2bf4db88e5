----------------------------- MODULE RouteTable -----------------------------
(***************************************************************************)
(* The relay's table of pending requests as a value: what the functions of *)
(* src/spirit/run/spirit/router.js make of it.                             *)
(*                                                                         *)
(* The table maps the hash of a request to who asked, who is asked, when   *)
(* it was filed and for how long it was granted.  The clock is kept as the *)
(* age of each entry (now - at, counted up to its ttl and no further), so  *)
(* time itself is unbounded and the model is not.  A caller that names no  *)
(* budget gets the ceiling, as does one that asks for more than the        *)
(* ceiling: both are a budget of at least MaxTtl here.                     *)
(***************************************************************************)
EXTENDS Identities, Naturals, FiniteSets, Functions

CONSTANTS
    Hash,           \* names of requests
    Budget,         \* lifetimes callers may ask for
    MaxTtl,         \* ttlMs: the longest lifetime granted
    MaxRoutes,      \* max: capacity of the table
    PerRequester,   \* maxPerRequester
    PerTarget       \* maxPerTarget, counted per (requester, target)

ASSUME RouterAssumption ==
    /\ Budget \subseteq Nat
    /\ MaxTtl \in Nat \ {0}
    /\ MaxRoutes \in Nat \ {0}
    /\ PerRequester \in Nat \ {0}
    /\ PerTarget \in Nat \ {0}

Route == [requester : Id, target : Id, age : Nat, ttl : Nat]

EmptyTable == [x \in {} |-> x]

Expired(e) == e.age >= e.ttl

Live(p) == {x \in DOMAIN p : ~Expired(p[x])}

(* sweep(): every entry past its own time leaves.                          *)
Swept(p) == Restrict(p, Live(p))

Without(p, S) == Restrict(p, DOMAIN p \ S)

(* countFor(requester) and countForTarget(target, requester).              *)
RoutesOf(p, r) == {x \in DOMAIN p : p[x].requester = r}

RoutesBetween(p, r, t) == {x \in RoutesOf(p, r) : p[x].target = t}

(* release() takes every route that names an identity on either side.      *)
RoutesNaming(p, i) == {x \in DOMAIN p : i \in {p[x].requester, p[x].target}}

(* Mutant: the ceiling is forgotten.                                       *)
GrantedAsAsked(want) == want

(* What a caller is given: what it asked for, or the ceiling.              *)
Granted(want) == IF want < MaxTtl THEN want ELSE MaxTtl

(* Mutants of the refusals of open(), one dropped in each.                 *)
DeclinesNoInFlight(p, x, r, t, want) ==
    \/ Cardinality(DOMAIN p) >= MaxRoutes
    \/ Cardinality(RoutesOf(p, r)) >= PerRequester
    \/ t # SelfKey /\ Cardinality(RoutesBetween(p, r, t)) >= PerTarget
    \/ Granted(want) = 0

DeclinesNoCapacity(p, x, r, t, want) ==
    \/ x \in DOMAIN p
    \/ Cardinality(RoutesOf(p, r)) >= PerRequester
    \/ t # SelfKey /\ Cardinality(RoutesBetween(p, r, t)) >= PerTarget
    \/ Granted(want) = 0

DeclinesNoRequesterCap(p, x, r, t, want) ==
    \/ x \in DOMAIN p
    \/ Cardinality(DOMAIN p) >= MaxRoutes
    \/ t # SelfKey /\ Cardinality(RoutesBetween(p, r, t)) >= PerTarget
    \/ Granted(want) = 0

DeclinesNoPairCap(p, x, r, t, want) ==
    \/ x \in DOMAIN p
    \/ Cardinality(DOMAIN p) >= MaxRoutes
    \/ Cardinality(RoutesOf(p, r)) >= PerRequester
    \/ Granted(want) = 0

(* open() declines without filing anything; p is the swept table.          *)
Declines(p, x, r, t, want) ==
    \/ x \in DOMAIN p                                       \* 409 in flight
    \/ Cardinality(DOMAIN p) >= MaxRoutes                   \* 503 router full
    \/ Cardinality(RoutesOf(p, r)) >= PerRequester          \* 429
    \/ /\ t # SelfKey                                       \* 503 target busy
       /\ Cardinality(RoutesBetween(p, r, t)) >= PerTarget
    \/ Granted(want) = 0                                    \* 503 no time left

Filed(p, x, r, t, want) ==
    [y \in DOMAIN p \cup {x} |->
        IF y = x
        THEN [requester |-> r, target |-> t, age |-> 0, ttl |-> Granted(want)]
        ELSE p[y]]

(* One unit of time passes for every entry.                                *)
Older(p) ==
    [x \in DOMAIN p |->
        [p[x] EXCEPT !.age = IF Expired(p[x]) THEN p[x].age ELSE p[x].age + 1]]

(* What every reachable table satisfies: its entries are routes granted at *)
(* most the ceiling, and none of the three caps is exceeded.               *)
WellFormed(p) ==
    /\ DOMAIN p \subseteq Hash
    /\ IsFiniteSet(DOMAIN p)
    /\ p \in [DOMAIN p -> Route]
    /\ \A x \in DOMAIN p : p[x].ttl \in 1 .. MaxTtl /\ p[x].age <= p[x].ttl

Capped(p) ==
    /\ Cardinality(DOMAIN p) <= MaxRoutes
    /\ \A r \in Id : Cardinality(RoutesOf(p, r)) <= PerRequester
    /\ \A r \in Id, t \in Id \ {SelfKey} :
            Cardinality(RoutesBetween(p, r, t)) <= PerTarget
=============================================================================
