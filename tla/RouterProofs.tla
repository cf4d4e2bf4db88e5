---------------------------- MODULE RouterProofs ----------------------------
(***************************************************************************)
(* Proofs about Router.tla, for any number of requests and identities and  *)
(* any ceilings.                                                           *)
(*                                                                         *)
(* Every operation turns the table into one of three things: a part of it, *)
(* it with one more entry, or it one unit older.  RouteTableProofs shows   *)
(* that each of these keeps a table sound; the theorems here combine that  *)
(* action by action, and show on the way that the table implements its     *)
(* contract.                                                               *)
(***************************************************************************)
EXTENDS Router, RouteTableProofs

(* The inductive invariant: the table is sound, the receipt is one.        *)
IInv == Sound(pending) /\ receipt \in Receipts

-----------------------------------------------------------------------------
(* The table after a call is sound, whichever call it was.                 *)
LEMMA InductiveStep ==
    ASSUME IInv, [Next]_routerVars
    PROVE  IInv'
<1> DEFINE p == Swept(pending)
<1>1. Sound(p)
  BY SoundSwept DEF IInv
<1>2. ASSUME NEW x \in Hash, NEW r \in Id, NEW t \in Id, NEW want \in Budget,
             Open(x, r, t, want)
      PROVE  IInv'
  <2>1. CASE ~Declines(p, x, r, t, want) /\ pending' = Filed(p, x, r, t, want)
    BY <1>1, <1>2, <2>1, SoundFiled DEF Open, IInv, Receipts
  <2>2. CASE pending' = p
    BY <1>1, <1>2, <2>2 DEF Open, IInv, Receipts
  <2> QED
    BY <1>2, <2>1, <2>2 DEF Open
<1>3. ASSUME NEW x \in Hash, NEW poster \in Id, Answer(x, poster)
      PROVE  IInv'
  <2>1. CASE /\ x \in DOMAIN p
             /\ p[x].target = poster
             /\ pending' = Without(p, {x})
             /\ receipt' = [hash |-> x, by |-> poster, to |-> p[x].requester]
    <3>1. p[x].requester \in Id
      BY <1>1, <2>1 DEF Sound, WellFormed, Route
    <3>2. Sound(pending')
      BY <1>1, <2>1, SoundWithout
    <3> QED
      BY <2>1, <3>1, <3>2 DEF IInv, Receipts
  <2>2. CASE pending' = p /\ UNCHANGED receipt
    BY <1>1, <2>2 DEF IInv, Receipts
  <2> QED
    BY <1>3, <2>1, <2>2 DEF Answer
<1>4. ASSUME NEW x \in Hash, NEW r \in Id, Cancel(x, r)
      PROVE  IInv'
  BY <1>4, SoundWithout DEF Cancel, IInv, Receipts
<1>5. ASSUME NEW i \in Id, Release(i)
      PROVE  IInv'
  BY <1>1, <1>5, SoundWithout DEF Release, IInv, Receipts
<1>6. ASSUME NEW x \in Hash, Has(x)
      PROVE  IInv'
  BY <1>6, SoundWithout DEF Has, IInv, Receipts
<1>7. CASE Size
  BY <1>1, <1>7 DEF Size, IInv, Receipts
<1>8. CASE Reset
  BY <1>8, SoundEmpty DEF Reset, IInv, Receipts
<1>9. CASE Tick
  BY <1>9, SoundOlder DEF Tick, IInv, Receipts
<1>10. CASE UNCHANGED routerVars
  BY <1>10 DEF routerVars, IInv, Receipts
<1> QED
  BY <1>2, <1>3, <1>4, <1>5, <1>6, <1>7, <1>8, <1>9, <1>10 DEF Next

(* What IInv says covers the invariant that the run checks.                *)
LEMMA Covers ==
    ASSUME IInv
    PROVE  TableSound
BY DEF IInv, Sound, Capped, TypeOK, TableSound, RequesterCap, PairCap, Capacity

THEOREM Inductive == Spec => []IInv
<1>1. Init => IInv
  BY SoundEmpty DEF Init, IInv, Receipts
<1>2. IInv /\ [Next]_routerVars => IInv'
  BY InductiveStep
<1> QED
  BY <1>1, <1>2, PTL DEF Spec

(* Every entry the table holds is a well-formed route, never granted more  *)
(* than the ceiling (router.js, open: Math.min), and the three ceilings of *)
(* open() hold of every reachable table, whatever sits in it unswept.      *)
THEOREM TableIsSound == Spec => []TableSound
BY Inductive, Covers, PTL

-----------------------------------------------------------------------------
(* No renewal, and the contract that the callers rely on                   *)
(* (RouteContract.tla).  It sees the live part of the table, HeldIn(p): an *)
(* operation sweeps, which HeldIn does not see, and then files or removes; *)
(* a unit of time only makes routes lapse.                                 *)

(* The step that NeverRenewed forbids to be anything else.                 *)
KeepsEntries(p, q) ==
    \A x \in DOMAIN p \cap DOMAIN q :
        ~Expired(p[x]) =>
            /\ q[x].requester = p[x].requester
            /\ q[x].target = p[x].target
            /\ q[x].ttl = p[x].ttl
            /\ q[x].age >= p[x].age

LEMMA RestrictKeeps ==
    ASSUME NEW p, WellFormed(p), NEW S, S \subseteq DOMAIN p
    PROVE  KeepsEntries(p, Restrict(p, S))
<1>1. \A x \in S : Restrict(p, S)[x] = p[x] /\ p[x].age \in Nat
  BY DEF Restrict, WellFormed, Route
<1>2. DOMAIN Restrict(p, S) = S
  BY DEF Restrict
<1> QED
  BY <1>1, <1>2 DEF KeepsEntries

(* Filing under a name that is not live leaves every live entry as it is.  *)
LEMMA FiledKeeps ==
    ASSUME NEW p, WellFormed(p), NEW x, NEW r, NEW t, NEW want,
           x \notin DOMAIN Swept(p)
    PROVE  KeepsEntries(p, Filed(Swept(p), x, r, t, want))
<1> DEFINE q == Filed(Swept(p), x, r, t, want)
<1>1. DOMAIN Swept(p) = Live(p) /\ \A y \in Live(p) : Swept(p)[y] = p[y]
  BY DEF Swept, Restrict
<1>2. \A y \in Live(p) : q[y] = p[y]
  BY <1>1 DEF Filed
<1>3. \A y \in DOMAIN p : ~Expired(p[y]) => y \in Live(p) /\ p[y].age \in Nat
  BY DEF Live, WellFormed, Route
<1> QED
  BY <1>2, <1>3 DEF KeepsEntries

LEMMA OlderKeeps ==
    ASSUME NEW p, WellFormed(p)
    PROVE  KeepsEntries(p, Older(p))
<1>1. ASSUME NEW x \in DOMAIN p
      PROVE  /\ Older(p)[x].requester = p[x].requester
             /\ Older(p)[x].target = p[x].target
             /\ Older(p)[x].ttl = p[x].ttl
             /\ Older(p)[x].age >= p[x].age
  BY DEF Older, WellFormed, Route
<1> QED
  BY <1>1 DEF KeepsEntries

(* A request in flight is neither renewed nor handed to anybody else.      *)
THEOREM RoutesAreNeverRenewed == Spec => NeverRenewed
<1>1. ASSUME IInv, [Next]_routerVars
      PROVE  KeepsEntries(pending, pending')
  <2> DEFINE p == Swept(pending)
  <2>1. WellFormed(pending)
    BY <1>1 DEF IInv, Sound
  <2>2. p = Restrict(pending, Live(pending)) /\ Live(pending) \subseteq DOMAIN pending
    BY DEF Swept, Live
  <2>3. ASSUME NEW S, pending' = Without(p, S)
        PROVE  KeepsEntries(pending, pending')
    <3>1. pending' = Restrict(pending, Live(pending) \ S)
      BY <2>2, <2>3 DEF Without, Restrict
    <3> QED
      BY <2>1, <2>2, <3>1, RestrictKeeps
  <2>4. CASE pending' = p
    BY <2>1, <2>2, <2>4, RestrictKeeps
  <2>5. ASSUME NEW S, pending' = Without(pending, S)
        PROVE  KeepsEntries(pending, pending')
    BY <2>1, <2>5, RestrictKeeps DEF Without
  <2>6. ASSUME NEW x \in Hash, NEW r \in Id, NEW t \in Id, NEW want \in Budget,
               Open(x, r, t, want)
        PROVE  KeepsEntries(pending, pending')
    <3>1. CASE ~Declines(p, x, r, t, want) /\ pending' = Filed(p, x, r, t, want)
      BY <2>1, <3>1, FiledKeeps DEF Declines
    <3> QED
      BY <2>4, <2>6, <3>1 DEF Open
  <2>7. ASSUME NEW x \in Hash, NEW poster \in Id, Answer(x, poster)
        PROVE  KeepsEntries(pending, pending')
    BY <2>3, <2>4, <2>7 DEF Answer
  <2>8. ASSUME NEW x \in Hash, NEW r \in Id, Cancel(x, r)
        PROVE  KeepsEntries(pending, pending')
    BY <2>5, <2>8 DEF Cancel
  <2>9. ASSUME NEW i \in Id, Release(i)
        PROVE  KeepsEntries(pending, pending')
    BY <2>3, <2>9 DEF Release
  <2>10. ASSUME NEW x \in Hash, Has(x)
         PROVE  KeepsEntries(pending, pending')
    BY <2>5, <2>10 DEF Has
  <2>11. CASE Size
    BY <2>4, <2>11 DEF Size
  <2>12. CASE Reset
    BY <2>12 DEF Reset, EmptyTable, KeepsEntries
  <2>13. CASE Tick
    BY <2>1, <2>13, OlderKeeps DEF Tick
  <2>14. CASE UNCHANGED routerVars
    <3>1. \A x \in DOMAIN pending : pending[x].age >= pending[x].age
      BY <2>1 DEF WellFormed, Route
    <3> QED
      BY <2>14, <3>1 DEF routerVars, KeepsEntries
  <2> QED
    BY <1>1, <2>6, <2>7, <2>8, <2>9, <2>10, <2>11, <2>12, <2>13, <2>14 DEF Next
<1> QED
  BY <1>1, Inductive, PTL DEF Spec, NeverRenewed, KeepsEntries

-----------------------------------------------------------------------------
(* The contract.                                                           *)

HeldIn(p) == [x \in Live(p) |-> [requester |-> p[x].requester, target |-> p[x].target]]

(* A step after which the live routes are some of those before it, each    *)
(* with the same two ends, is a lapse.                                     *)
LEMMA FewerIsLapse ==
    ASSUME DOMAIN pending \subseteq Hash,
           Live(pending') \subseteq Live(pending),
           \A x \in Live(pending') :
                /\ pending'[x].requester = pending[x].requester
                /\ pending'[x].target = pending[x].target,
           UNCHANGED receipt
    PROVE  Contract!ContractNext
<1> DEFINE S == Live(pending) \ Live(pending')
<1>1. DOMAIN Held = Live(pending) /\ Held' = HeldIn(pending')
  BY DEF Held, HeldIn, Live, Expired
<1>2. Live(pending) \ S = Live(pending')
  OBVIOUS
<1>3. Restrict(Held, Live(pending')) = HeldIn(pending')
  BY DEF Restrict, Held, HeldIn
<1>4. Contract!Lapse(S)
  BY <1>1, <1>2, <1>3 DEF Contract!Lapse, Contract!Restrict, Restrict
<1>5. S \in SUBSET Hash
  BY DEF Live
<1> QED
  BY <1>4, <1>5 DEF Contract!ContractNext

LEMMA RestrictIsLapse ==
    ASSUME DOMAIN pending \subseteq Hash, NEW S, S \subseteq DOMAIN pending,
           pending' = Restrict(pending, S), UNCHANGED receipt
    PROVE  Contract!ContractNext
<1>1. Live(pending') = Live(pending) \cap S
  BY LiveParts
<1>2. \A x \in Live(pending') : pending'[x] = pending[x]
  BY <1>1, LiveParts
<1> QED
  BY <1>1, <1>2, FewerIsLapse

(* A request that is filed is a grant: the sweep has made the entries of   *)
(* the table and the routes of the contract the same.                      *)
LEMMA FiledIsGrant ==
    ASSUME IInv, NEW x \in Hash, NEW r \in Id, NEW t \in Id, NEW want \in Budget,
           ~Declines(Swept(pending), x, r, t, want),
           pending' = Filed(Swept(pending), x, r, t, want), UNCHANGED receipt
    PROVE  Contract!ContractNext
<1> DEFINE p == Swept(pending)
<1>1. Sound(p)
  BY SoundSwept DEF IInv
<1>2. DOMAIN p = Live(pending) /\ \A y \in Live(pending) : p[y] = pending[y]
  BY DEF Swept, Restrict
<1>3. Granted(want) \in 1 .. MaxTtl
  BY RouterAssumption DEF Granted, Declines
<1>4. Live(pending') = Live(pending) \cup {x}
  <2>1. pending'[x].age = 0 /\ pending'[x].ttl = Granted(want)
    BY DEF Filed
  <2>2. ~Expired(pending'[x])
    BY <1>3, <2>1 DEF Expired
  <2>3. x \notin DOMAIN p /\ DOMAIN pending' = DOMAIN p \cup {x}
    BY DEF Filed, Declines
  <2>4. \A y \in DOMAIN p : pending'[y] = p[y] /\ ~Expired(p[y])
    BY <1>2, <2>3 DEF Filed, Live
  <2> QED
    BY <1>2, <2>2, <2>3, <2>4 DEF Live
<1>5. Contract!HeldBy(Held, r) = RoutesOf(p, r)
  BY <1>2 DEF Contract!HeldBy, Held, RoutesOf
<1>6. Cardinality(RoutesOf(p, r)) < PerRequester
  <2>1. Cardinality(RoutesOf(p, r)) \in Nat
    BY <1>1, Selections, FS_CardinalityType DEF Sound
  <2>2. ~(Cardinality(RoutesOf(p, r)) >= PerRequester)
    BY DEF Declines
  <2> QED
    BY <2>1, <2>2, RouterAssumption
<1>7. Held' = [y \in DOMAIN Held \cup {x} |->
                 IF y = x THEN [requester |-> r, target |-> t] ELSE Held[y]]
  <2>1. Held' = HeldIn(pending')
    BY DEF Held, HeldIn, Live, Expired
  <2>2. DOMAIN Held = Live(pending)
    BY DEF Held
  <2>3. pending'[x].requester = r /\ pending'[x].target = t
    BY DEF Filed
  <2>4. \A y \in Live(pending) : y # x => pending'[y] = pending[y]
    BY <1>2 DEF Filed
  <2> QED
    BY <1>4, <2>1, <2>2, <2>3, <2>4 DEF Held, HeldIn
<1>8. x \notin DOMAIN Held
  BY <1>2 DEF Held, Declines
<1>9. Contract!Cardinality(Contract!HeldBy(Held, r)) < PerRequester
  <2>1. \A T : Contract!Cardinality(T) = Cardinality(T)
    BY Zenon DEF Contract!Cardinality, Cardinality, Contract!IsFiniteSet, IsFiniteSet
  <2> QED
    BY <1>5, <1>6, <2>1
<1>10. Contract!Grant(x, r, t)
  BY <1>7, <1>8, <1>9 DEF Contract!Grant
<1> QED
  BY <1>10 DEF Contract!ContractNext

(* An answer that matches is a receipt for a live route.                   *)
LEMMA AnswerIsReceive ==
    ASSUME NEW x \in Hash, NEW poster \in Id,
           x \in DOMAIN Swept(pending),
           Swept(pending)[x].target = poster,
           pending' = Without(Swept(pending), {x}),
           receipt' = [hash |-> x, by |-> poster, to |-> Swept(pending)[x].requester]
    PROVE  Contract!ContractNext
<1>1. x \in Live(pending) /\ Swept(pending)[x] = pending[x]
  BY DEF Swept, Restrict
<1>2. pending' = Restrict(pending, Live(pending) \ {x})
  BY DEF Swept, Without, Restrict
<1>3. Live(pending) \ {x} \subseteq DOMAIN pending
  BY DEF Live
<1>4. /\ Live(pending') = Live(pending) \ {x}
      /\ \A y \in Live(pending) \ {x} : pending'[y] = pending[y]
  <2>1. Live(pending') = Live(pending) \cap (Live(pending) \ {x})
    BY <1>2, <1>3, LiveParts
  <2>2. \A y \in Live(pending) \ {x} : pending'[y] = pending[y]
    BY <1>2, <1>3, LiveParts
  <2> QED
    BY <2>1, <2>2
<1>5. Held[x].requester = pending[x].requester /\ Held[x].target = pending[x].target
  BY <1>1 DEF Held
<1>6. Held' = Restrict(Held, DOMAIN Held \ {x})
  <2>1. Held' = HeldIn(pending')
    BY DEF Held, HeldIn, Live, Expired
  <2>2. DOMAIN Held = Live(pending)
    BY DEF Held
  <2> QED
    BY <1>4, <2>1, <2>2 DEF Held, HeldIn, Restrict
<1>7. Contract!Receive(x)
  BY <1>1, <1>5, <1>6 DEF Contract!Receive, Contract!Restrict, Restrict, Held
<1> QED
  BY <1>7 DEF Contract!ContractNext

(* Every step of the table is a step of the contract.                      *)
LEMMA ContractStep ==
    ASSUME IInv, Next
    PROVE  Contract!ContractNext
<1> DEFINE p == Swept(pending)
<1>1. DOMAIN pending \subseteq Hash /\ WellFormed(pending)
  BY DEF IInv, Sound, WellFormed
<1>2. Live(pending) \subseteq DOMAIN pending
  BY DEF Live
<1>3. ASSUME NEW S, pending' = Without(p, S), UNCHANGED receipt
      PROVE  Contract!ContractNext
  <2>1. pending' = Restrict(pending, Live(pending) \ S)
    BY <1>3 DEF Swept, Without, Restrict
  <2> QED
    BY <1>1, <1>2, <1>3, <2>1, RestrictIsLapse
<1>4. ASSUME NEW S, pending' = Without(pending, S), UNCHANGED receipt
      PROVE  Contract!ContractNext
  <2>1. pending' = Restrict(pending, DOMAIN pending \ S)
    BY <1>4 DEF Without
  <2> QED
    BY <1>1, <1>4, <2>1, RestrictIsLapse
<1>5. ASSUME pending' = p, UNCHANGED receipt
      PROVE  Contract!ContractNext
  BY <1>1, <1>2, <1>5, RestrictIsLapse DEF Swept
<1>6. ASSUME NEW x \in Hash, NEW r \in Id, NEW t \in Id, NEW want \in Budget,
             Open(x, r, t, want)
      PROVE  Contract!ContractNext
  BY <1>5, <1>6, FiledIsGrant DEF Open
<1>7. ASSUME NEW x \in Hash, NEW poster \in Id, Answer(x, poster)
      PROVE  Contract!ContractNext
  BY <1>5, <1>7, AnswerIsReceive DEF Answer
<1>8. ASSUME NEW x \in Hash, NEW r \in Id, Cancel(x, r)
      PROVE  Contract!ContractNext
  BY <1>4, <1>8 DEF Cancel
<1>9. ASSUME NEW i \in Id, Release(i)
      PROVE  Contract!ContractNext
  BY <1>3, <1>9 DEF Release
<1>10. ASSUME NEW x \in Hash, Has(x)
       PROVE  Contract!ContractNext
  BY <1>4, <1>10 DEF Has
<1>11. CASE Size
  BY <1>5, <1>11 DEF Size
<1>12. CASE Reset
  <2>1. Live(pending') = {}
    BY <1>12 DEF Reset, EmptyTable, Live
  <2> QED
    BY <1>1, <1>12, <2>1, FewerIsLapse DEF Reset
<1>13. CASE Tick
  <2>1. DOMAIN pending' = DOMAIN pending
    BY <1>13 DEF Tick, Older
  <2>2. ASSUME NEW x \in DOMAIN pending
        PROVE  /\ pending'[x].requester = pending[x].requester
               /\ pending'[x].target = pending[x].target
               /\ Expired(pending[x]) => Expired(pending'[x])
    BY <1>1, <1>13 DEF Tick, Older, WellFormed, Route, Expired
  <2>3. Live(pending') \subseteq Live(pending)
    BY <2>1, <2>2 DEF Live
  <2> QED
    BY <1>1, <1>13, <2>1, <2>2, <2>3, FewerIsLapse DEF Tick, Live
<1> QED
  BY <1>6, <1>7, <1>8, <1>9, <1>10, <1>11, <1>12, <1>13 DEF Next

(* The table implements the contract, for every size of it: a caller never *)
(* sees a route past its time, and a receipt is matched once, by its live  *)
(* target, for its own requester.                                          *)
THEOREM TableKeepsContract == Spec => KeepsContract
<1>1. Init => Contract!ContractInit
  <2>1. ASSUME pending = EmptyTable
        PROVE  Held = [x \in {} |-> x]
    <3>1. Live(pending) = {}
      BY <2>1 DEF EmptyTable, Live
    <3> QED
      BY <3>1 DEF Held
  <2> QED
    BY <2>1 DEF Init, Contract!ContractInit, NoReceipt, Contract!NoReceipt
<1>2. IInv /\ [Next]_routerVars => [Contract!ContractNext]_(Contract!contractVars)
  <2>1. ASSUME UNCHANGED routerVars
        PROVE  UNCHANGED Contract!contractVars
    BY <2>1 DEF routerVars, Contract!contractVars, Held, Live, Expired
  <2> QED
    BY <2>1, ContractStep
<1> QED
  BY <1>1, <1>2, Inductive, PTL DEF Spec, KeepsContract, Contract!ContractSpec
=============================================================================
