-------------------------- MODULE RouteTableProofs --------------------------
(***************************************************************************)
(* Lemmas about RouteTable.tla, for any number of requests and identities  *)
(* and any ceilings: each operator that makes a new table of a sound one   *)
(* makes a sound one.                                                      *)
(***************************************************************************)
EXTENDS RouteTable, FiniteSetTheorems, TLAPS

Sound(p) == WellFormed(p) /\ Capped(p)

-----------------------------------------------------------------------------
(* A part of a finite set of naturals' worth is no larger.                 *)
LEMMA SmallerPart ==
    ASSUME NEW S, IsFiniteSet(S), NEW T, T \subseteq S, NEW n \in Nat,
           Cardinality(S) <= n
    PROVE  IsFiniteSet(T) /\ Cardinality(T) <= n
<1>1. IsFiniteSet(T) /\ Cardinality(T) <= Cardinality(S)
  BY FS_Subset
<1>2. Cardinality(T) \in Nat /\ Cardinality(S) \in Nat
  BY <1>1, FS_CardinalityType
<1> QED
  BY <1>1, <1>2

(* The selections of a sound table are finite.                             *)
LEMMA Selections ==
    ASSUME NEW p, WellFormed(p), NEW r, NEW t
    PROVE  /\ IsFiniteSet(RoutesOf(p, r))
           /\ IsFiniteSet(RoutesBetween(p, r, t))
<1>1. RoutesOf(p, r) \subseteq DOMAIN p /\ RoutesBetween(p, r, t) \subseteq DOMAIN p
  BY DEF RoutesOf, RoutesBetween
<1> QED
  BY <1>1, FS_Subset DEF WellFormed

(* Taking entries out of a sound table leaves a sound table.               *)
LEMMA SoundRestrict ==
    ASSUME NEW p, Sound(p), NEW S, S \subseteq DOMAIN p
    PROVE  Sound(Restrict(p, S))
<1> DEFINE q == Restrict(p, S)
<1>1. DOMAIN q = S /\ \A x \in S : q[x] = p[x]
  BY DEF Restrict
<1>2. IsFiniteSet(S) /\ Cardinality(S) <= MaxRoutes
  BY SmallerPart, RouterAssumption DEF Sound, WellFormed, Capped
<1>3. WellFormed(q)
  <2>1. q = [x \in S |-> q[x]]
    BY DEF Restrict
  <2>2. \A x \in S : q[x] \in Route
    BY <1>1 DEF Sound, WellFormed
  <2>3. q \in [S -> Route]
    BY <2>1, <2>2
  <2> QED
    BY <1>1, <1>2, <2>3 DEF Sound, WellFormed
<1>4. ASSUME NEW r \in Id
      PROVE  Cardinality(RoutesOf(q, r)) <= PerRequester
  <2>1. RoutesOf(q, r) \subseteq RoutesOf(p, r)
    BY <1>1 DEF RoutesOf
  <2>2. IsFiniteSet(RoutesOf(p, r)) /\ Cardinality(RoutesOf(p, r)) <= PerRequester
    BY Selections DEF Sound, Capped
  <2> QED
    BY <2>1, <2>2, SmallerPart, RouterAssumption
<1>5. ASSUME NEW r \in Id, NEW t \in Id \ {SelfKey}
      PROVE  Cardinality(RoutesBetween(q, r, t)) <= PerTarget
  <2>1. RoutesBetween(q, r, t) \subseteq RoutesBetween(p, r, t)
    BY <1>1 DEF RoutesOf, RoutesBetween
  <2>2. /\ IsFiniteSet(RoutesBetween(p, r, t))
        /\ Cardinality(RoutesBetween(p, r, t)) <= PerTarget
    BY Selections DEF Sound, Capped
  <2> QED
    BY <2>1, <2>2, SmallerPart, RouterAssumption
<1> QED
  BY <1>1, <1>2, <1>3, <1>4, <1>5 DEF Sound, Capped

LEMMA SoundSwept ==
    ASSUME NEW p, Sound(p)
    PROVE  Sound(Swept(p))
BY SoundRestrict DEF Swept, Live

LEMMA SoundWithout ==
    ASSUME NEW p, Sound(p), NEW S
    PROVE  Sound(Without(p, S))
BY SoundRestrict DEF Without

(* A request that open() does not decline leaves a sound table sound: each *)
(* refusal guards one of the conjuncts.                                    *)
LEMMA SoundFiled ==
    ASSUME NEW p, Sound(p),
           NEW x \in Hash, NEW r \in Id, NEW t \in Id, NEW want \in Budget,
           ~Declines(p, x, r, t, want)
    PROVE  Sound(Filed(p, x, r, t, want))
<1> DEFINE q == Filed(p, x, r, t, want)
<1>1. /\ DOMAIN q = DOMAIN p \cup {x}
      /\ q[x] = [requester |-> r, target |-> t, age |-> 0, ttl |-> Granted(want)]
      /\ \A y \in DOMAIN p : q[y] = p[y]
      /\ x \notin DOMAIN p
  BY DEF Filed, Declines
<1>2. Granted(want) \in 1 .. MaxTtl
  BY RouterAssumption DEF Granted, Declines
<1>3. WellFormed(q)
  <2>1. IsFiniteSet(DOMAIN q)
    BY <1>1, FS_AddElement DEF Sound, WellFormed
  <2>2. q \in [DOMAIN q -> Route]
    <3>1. \A y \in DOMAIN q : q[y] \in Route
      BY <1>1, <1>2 DEF Sound, WellFormed, Route
    <3>2. q = [y \in DOMAIN q |-> q[y]]
      BY DEF Filed
    <3> QED
      BY <3>1, <3>2
  <2>3. \A y \in DOMAIN q : q[y].ttl \in 1 .. MaxTtl /\ q[y].age <= q[y].ttl
    BY <1>1, <1>2, RouterAssumption DEF Sound, WellFormed
  <2> QED
    BY <1>1, <2>1, <2>2, <2>3 DEF Sound, WellFormed
<1>4. Cardinality(DOMAIN q) <= MaxRoutes
  <2>1. Cardinality(DOMAIN q) = Cardinality(DOMAIN p) + 1
    BY <1>1, FS_AddElement DEF Sound, WellFormed
  <2>2. Cardinality(DOMAIN p) \in Nat
    BY FS_CardinalityType DEF Sound, WellFormed
  <2> QED
    BY <2>1, <2>2, RouterAssumption DEF Declines
<1>5. ASSUME NEW i \in Id
      PROVE  Cardinality(RoutesOf(q, i)) <= PerRequester
  <2>1. CASE i = r
    <3>1. RoutesOf(q, r) = RoutesOf(p, r) \cup {x} /\ x \notin RoutesOf(p, r)
      BY <1>1 DEF RoutesOf
    <3>2. IsFiniteSet(RoutesOf(p, r))
      BY Selections DEF Sound
    <3>3. Cardinality(RoutesOf(q, r)) = Cardinality(RoutesOf(p, r)) + 1
      BY <3>1, <3>2, FS_AddElement
    <3>4. Cardinality(RoutesOf(p, r)) \in Nat
      BY <3>2, FS_CardinalityType
    <3> QED
      BY <2>1, <3>3, <3>4, RouterAssumption DEF Declines
  <2>2. CASE i # r
    <3>1. RoutesOf(q, i) = RoutesOf(p, i)
      BY <1>1, <2>2 DEF RoutesOf
    <3> QED
      BY <3>1 DEF Sound, Capped
  <2> QED
    BY <2>1, <2>2
<1>6. ASSUME NEW i \in Id, NEW j \in Id \ {SelfKey}
      PROVE  Cardinality(RoutesBetween(q, i, j)) <= PerTarget
  <2>1. CASE i = r /\ j = t
    <3>1. /\ RoutesBetween(q, r, t) = RoutesBetween(p, r, t) \cup {x}
          /\ x \notin RoutesBetween(p, r, t)
      BY <1>1 DEF RoutesOf, RoutesBetween
    <3>2. IsFiniteSet(RoutesBetween(p, r, t))
      BY Selections DEF Sound
    <3>3. Cardinality(RoutesBetween(q, r, t)) = Cardinality(RoutesBetween(p, r, t)) + 1
      BY <3>1, <3>2, FS_AddElement
    <3>4. Cardinality(RoutesBetween(p, r, t)) \in Nat
      BY <3>2, FS_CardinalityType
    <3> QED
      BY <2>1, <3>3, <3>4, RouterAssumption DEF Declines
  <2>2. CASE ~(i = r /\ j = t)
    <3>1. RoutesBetween(q, i, j) = RoutesBetween(p, i, j)
      BY <1>1, <2>2 DEF RoutesOf, RoutesBetween
    <3> QED
      BY <3>1 DEF Sound, Capped
  <2> QED
    BY <2>1, <2>2
<1> QED
  BY <1>3, <1>4, <1>5, <1>6 DEF Sound, Capped

(* Time changes no entry but for its age, and no age beyond its ttl.       *)
LEMMA SoundOlder ==
    ASSUME NEW p, Sound(p)
    PROVE  Sound(Older(p))
<1> DEFINE q == Older(p)
<1>1. DOMAIN q = DOMAIN p
  BY DEF Older
<1>2. ASSUME NEW x \in DOMAIN p
      PROVE  /\ q[x].requester = p[x].requester
             /\ q[x].target = p[x].target
             /\ q[x].ttl = p[x].ttl
             /\ q[x].age <= q[x].ttl
             /\ q[x] \in Route
  BY DEF Older, Sound, WellFormed, Route, Expired
<1>3. WellFormed(q)
  <2>1. q = [x \in DOMAIN q |-> q[x]]
    BY DEF Older
  <2>2. q \in [DOMAIN q -> Route]
    BY <1>1, <1>2, <2>1
  <2> QED
    BY <1>1, <1>2, <2>2 DEF Sound, WellFormed
<1>4. \A r : RoutesOf(q, r) = RoutesOf(p, r)
  BY <1>1, <1>2 DEF RoutesOf
<1>5. \A r, t : RoutesBetween(q, r, t) = RoutesBetween(p, r, t)
  BY <1>1, <1>2, <1>4 DEF RoutesOf, RoutesBetween
<1> QED
  BY <1>1, <1>3, <1>4, <1>5 DEF Sound, Capped

-----------------------------------------------------------------------------
(* The empty table is sound.                                               *)
LEMMA SoundEmpty == Sound(EmptyTable)
<1>1. DOMAIN EmptyTable = {} /\ EmptyTable \in [{} -> Route]
  BY DEF EmptyTable
<1>2. \A r, t : RoutesOf(EmptyTable, r) = {} /\ RoutesBetween(EmptyTable, r, t) = {}
  BY <1>1 DEF RoutesOf, RoutesBetween
<1> QED
  <2>1. WellFormed(EmptyTable)
    BY <1>1, FS_EmptySet DEF WellFormed
  <2>2. Capped(EmptyTable)
    <3>1. /\ Cardinality(DOMAIN EmptyTable) = 0
          /\ \A r, t : /\ Cardinality(RoutesOf(EmptyTable, r)) = 0
                       /\ Cardinality(RoutesBetween(EmptyTable, r, t)) = 0
      BY <1>1, <1>2, FS_EmptySet, Zenon
    <3>2. 0 <= MaxRoutes /\ 0 <= PerRequester /\ 0 <= PerTarget
      BY RouterAssumption
    <3> QED
      BY <3>1, <3>2 DEF Capped
  <2> QED
    BY <2>1, <2>2 DEF Sound

(* What the sweep and a removal leave alive.                               *)
LEMMA LiveParts ==
    ASSUME NEW p, NEW S, S \subseteq DOMAIN p
    PROVE  /\ Live(Restrict(p, S)) = Live(p) \cap S
           /\ \A x \in S : Restrict(p, S)[x] = p[x]
           /\ DOMAIN Restrict(p, S) = S
BY DEF Live, Restrict, Expired

(* Sweeping changes nothing that is live; time makes nothing live.         *)
LEMMA LiveSwept ==
    ASSUME NEW p
    PROVE  /\ Live(Swept(p)) = Live(p)
           /\ DOMAIN Swept(p) = Live(p)
           /\ \A x \in Live(p) : Swept(p)[x] = p[x]
<1>1. Live(p) \subseteq DOMAIN p
  BY DEF Live
<1> QED
  BY <1>1, LiveParts DEF Swept

LEMMA LiveWithout ==
    ASSUME NEW p, NEW S
    PROVE  Live(Without(p, S)) = Live(p) \ S
<1>1. Live(p) \subseteq DOMAIN p
  BY DEF Live
<1>2. Live(Without(p, S)) = Live(p) \cap (DOMAIN p \ S)
  BY LiveParts DEF Without
<1> QED
  BY <1>1, <1>2

LEMMA LiveFiled ==
    ASSUME NEW p, NEW x, NEW r, NEW t, NEW want
    PROVE  Live(Filed(p, x, r, t, want)) \subseteq Live(p) \cup {x}
BY DEF Live, Filed, Expired

LEMMA LiveOlder ==
    ASSUME NEW p, WellFormed(p)
    PROVE  Live(Older(p)) \subseteq Live(p)
BY DEF Live, Older, Expired, WellFormed, Route
=============================================================================
