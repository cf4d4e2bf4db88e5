------------------------------- MODULE Router -------------------------------
(***************************************************************************)
(* src/spirit/run/spirit/router.js: the operations on the relay's table of *)
(* pending requests (RouteTable.tla).                                      *)
(*                                                                         *)
(* Nothing runs on a timer: an entry past its time stays in the table      *)
(* until the next call sweeps it out.  Every call that counts or matches   *)
(* therefore sweeps first, and the contract that the callers see           *)
(* (RouteContract.tla) has no stale entries at all.                        *)
(***************************************************************************)
EXTENDS RouteTable

VARIABLES
    pending,        \* Hash -|-> Route
    receipt         \* what the last successful answer() returned

routerVars == <<pending, receipt>>

-----------------------------------------------------------------------------
(* The operations.                                                         *)

NoReceipt == [hash |-> "none", by |-> "none", to |-> "none"]

Init ==
    /\ pending = EmptyTable
    /\ receipt = NoReceipt

(* open(): the entry is filed before the delivery runs, and a delivery     *)
(* that fails takes it out again.  Both happen in one turn.                *)
Open(x, r, t, want) ==
    LET p == Swept(pending)
    IN  /\ \/ ~Declines(p, x, r, t, want) /\ pending' = Filed(p, x, r, t, want)
           \/ ~Declines(p, x, r, t, want) /\ pending' = p    \* 502
           \/ Declines(p, x, r, t, want) /\ pending' = p
        /\ UNCHANGED receipt

(* Mutant: answer() looks the hash up without sweeping first.              *)
AnswerUnswept(x, poster) ==
    /\ x \in DOMAIN pending
    /\ pending[x].target = poster
    /\ pending' = Without(pending, {x})
    /\ receipt' = [hash |-> x, by |-> poster, to |-> pending[x].requester]

(* answer(): the hash finds the route, being its target is the permission. *)
Answer(x, poster) ==
    LET p == Swept(pending)
    IN  \/ /\ x \in DOMAIN p
           /\ p[x].target = poster
           /\ pending' = Without(p, {x})
           /\ receipt' = [hash |-> x, by |-> poster, to |-> p[x].requester]
        \/ /\ x \in DOMAIN p => p[x].target # poster
           /\ pending' = p
           /\ UNCHANGED receipt

(* cancel(): no sweep here; an entry past its time is cancelled as well.   *)
Cancel(x, r) ==
    /\ x \in DOMAIN pending
    /\ pending[x].requester = r
    /\ pending' = Without(pending, {x})
    /\ UNCHANGED receipt

Release(i) ==
    LET p == Swept(pending)
    IN  /\ pending' = Without(p, RoutesNaming(p, i))
        /\ UNCHANGED receipt

(* has(): looks at one entry, and drops that one when it is past its time. *)
Has(x) ==
    /\ x \in DOMAIN pending
    /\ Expired(pending[x])
    /\ pending' = Without(pending, {x})
    /\ UNCHANGED receipt

(* size(), countFor(), countForTarget() and msUntilFreeFor() only sweep.   *)
Size ==
    /\ pending' = Swept(pending)
    /\ UNCHANGED receipt

Reset ==
    /\ pending' = EmptyTable
    /\ UNCHANGED receipt

Tick ==
    /\ pending' = Older(pending)
    /\ UNCHANGED receipt

Next ==
    \/ \E x \in Hash, r, t \in Id, want \in Budget : Open(x, r, t, want)
    \/ \E x \in Hash, poster \in Id : Answer(x, poster)
    \/ \E x \in Hash, r \in Id : Cancel(x, r)
    \/ \E i \in Id : Release(i)
    \/ \E x \in Hash : Has(x)
    \/ Size
    \/ Reset
    \/ Tick

Spec == Init /\ [][Next]_routerVars

-----------------------------------------------------------------------------
(* Properties.                                                             *)

Receipts == [hash : Hash, by : Id, to : Id] \cup {NoReceipt}

(* Every entry is a well-formed route that was granted at most the ceiling *)
(* and is never counted past its own end.                                  *)
TypeOK == WellFormed(pending) /\ receipt \in Receipts

(* "One peer cannot spend the table on everyone else's behalf"             *)
(* (router.js, open): nobody holds more than maxPerRequester entries, the  *)
(* ones past their time that no call has swept yet included.               *)
RequesterCap ==
    \A r \in Id : Cardinality(RoutesOf(pending, r)) <= PerRequester

(* One sender holds at most maxPerTarget slots at one target, the relay's  *)
(* own key excepted (router.js, the guard before `busy`).                  *)
PairCap ==
    \A r \in Id, t \in Id \ {SelfKey} :
        Cardinality(RoutesBetween(pending, r, t)) <= PerTarget

(* The table never outgrows its capacity, whatever is still unswept.       *)
Capacity == Cardinality(DOMAIN pending) <= MaxRoutes

(* Every entry is a well-formed route and the three ceilings of open()     *)
(* hold, stale entries counted.                                            *)
TableSound == TypeOK /\ RequesterCap /\ PairCap /\ Capacity

(* A hash stands for one request from the time it is filed until it ends:  *)
(* a retry of it neither starts its clock again nor changes who may answer *)
(* it or who is told (the 409 of open(); a receipt is signed over the hash *)
(* and nothing else).                                                      *)
NeverRenewed ==
    [][\A x \in DOMAIN pending \cap DOMAIN pending' :
            ~Expired(pending[x]) =>
                /\ pending'[x].requester = pending[x].requester
                /\ pending'[x].target = pending[x].target
                /\ pending'[x].ttl = pending[x].ttl
                /\ pending'[x].age >= pending[x].age]_routerVars

(* What the callers are promised: no route is ever seen past its time, and *)
(* only a live one is turned into a receipt, once, for its own requester.  *)
Held == [x \in Live(pending) |->
            [requester |-> pending[x].requester, target |-> pending[x].target]]

Contract == INSTANCE RouteContract WITH held <- Held, receipt <- receipt

KeepsContract == Contract!ContractSpec
=============================================================================
