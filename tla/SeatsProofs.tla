---------------------------- MODULE SeatsProofs ----------------------------
(***************************************************************************)
(* Proofs about Seats.tla, for any people, labels, tokens, lives and       *)
(* figures, whether writes may fail or not.                                *)
(*                                                                         *)
(* What matters of a step is what it does to four sets: who is on the roll *)
(* and which invites are kept, redeemable and live.  Most handlers are     *)
(* quiet (nobody new, no invite more, the figures untouched) and keep all  *)
(* properties for that reason alone; minting, admitting, new figures and a *)
(* start are taken one by one.                                             *)
(***************************************************************************)
EXTENDS Seats, FiniteSetTheorems, TLAPS

Rolls == [Person -> Label \cup {BootLabel, NoLabel}]

Tables == [Token -> Invite \cup {NoInvite}]

(* The inductive invariant.                                                *)
IInv == SeatsTypeOK /\ InvitersAreSeated

(* What a step may never do, in one formula.                               *)
StepOK == ReservationKept /\ SeatPaid /\ AdmissionFits /\ EvictsNobody

-----------------------------------------------------------------------------
(* Deleting takes rows out and leaves the others as they are.              *)
LEMMA DeletedRows ==
    ASSUME NEW iv \in Tables, NEW T
    PROVE  /\ Deleted(iv, T) \in Tables
           /\ Kept(Deleted(iv, T)) = Kept(iv) \ T
           /\ Redeemable(Deleted(iv, T)) = Redeemable(iv) \ T
           /\ Live(Deleted(iv, T)) = Live(iv) \ T
BY DEF Deleted, Tables, Kept, Redeemable, Live

(* Sweeping leaves what is redeemable.                                     *)
LEMMA SweptRows ==
    ASSUME NEW iv \in Tables
    PROVE  /\ Swept(iv) \in Tables
           /\ Kept(Swept(iv)) = Redeemable(iv)
           /\ Redeemable(Swept(iv)) = Redeemable(iv)
           /\ Live(Swept(iv)) = Live(iv)
<1>1. /\ Redeemable(iv) \subseteq Kept(iv)
      /\ Live(iv) \subseteq Redeemable(iv)
  BY DEF Redeemable, Live, Kept, Tables, Invite
<1> DEFINE T == Kept(iv) \ Redeemable(iv)
<1>2. /\ Kept(iv) \ T = Redeemable(iv)
      /\ Redeemable(iv) \ T = Redeemable(iv)
      /\ Live(iv) \ T = Live(iv)
  BY <1>1
<1>3. Swept(iv) = Deleted(iv, T)
  BY DEF Swept
<1>4. /\ Deleted(iv, T) \in Tables
      /\ Kept(Deleted(iv, T)) = Kept(iv) \ T
      /\ Redeemable(Deleted(iv, T)) = Redeemable(iv) \ T
      /\ Live(Deleted(iv, T)) = Live(iv) \ T
  BY DeletedRows
<1> HIDE DEF T
<1> QED
  BY <1>2, <1>3, <1>4

(* The sizes that the bounds compare are numbers.                          *)
LEMMA Sizes ==
    ASSUME NEW lb, NEW iv
    PROVE  /\ IsFiniteSet(OnRoll(lb)) /\ Cardinality(OnRoll(lb)) \in Nat
           /\ IsFiniteSet(Kept(iv)) /\ Cardinality(Kept(iv)) \in Nat
           /\ IsFiniteSet(Live(iv)) /\ Cardinality(Live(iv)) \in Nat
           /\ IsFiniteSet(Redeemable(iv))
           /\ Rows(lb, iv) \in Nat
<1>1. OnRoll(lb) \subseteq Person /\ Kept(iv) \subseteq Token
  BY DEF OnRoll, Kept
<1>2. Live(iv) \subseteq Token /\ Redeemable(iv) \subseteq Token
  BY DEF Live, Redeemable, Kept
<1>3. IsFiniteSet(Person) /\ IsFiniteSet(Token)
  BY SeatsAssumption
<1>4. /\ IsFiniteSet(OnRoll(lb)) /\ IsFiniteSet(Kept(iv))
      /\ IsFiniteSet(Live(iv)) /\ IsFiniteSet(Redeemable(iv))
  BY <1>1, <1>2, <1>3, FS_Subset
<1>5. /\ Cardinality(OnRoll(lb)) \in Nat
      /\ Cardinality(Kept(iv)) \in Nat
      /\ Cardinality(Live(iv)) \in Nat
  BY <1>4, FS_CardinalityType
<1> QED
  BY <1>4, <1>5 DEF Rows

(* A store that was typed is typed after a write.                          *)
LEMMA StoredTyped ==
    ASSUME SeatsTypeOK, NEW lb \in Rolls, NEW iv \in Tables, Stored(lb, iv)
    PROVE  label' = lb /\ invites' = iv /\ used' \in Nat
BY Sizes DEF Stored, SeatsTypeOK

-----------------------------------------------------------------------------
(* Quiet steps.                                                            *)

Quiet ==
    /\ OnRoll(label') \subseteq Members
    /\ EvictsNobody
    /\ Kept(invites') \subseteq Kept(invites)
    /\ Live(invites') \subseteq Live(invites)
    /\ UNCHANGED <<file, running>>

(* Fewer members and fewer invites need no more seats.                     *)
LEMMA FewerFit ==
    ASSUME NEW lb, NEW iv, NEW lb2, NEW iv2, NEW r \in Nat, NEW r2 \in Nat,
           OnRoll(lb2) \subseteq OnRoll(lb), Live(iv2) \subseteq Live(iv), r <= r2,
           Cardinality(OnRoll(lb)) + Cardinality(Live(iv)) <= r
    PROVE  Cardinality(OnRoll(lb2)) + Cardinality(Live(iv2)) <= r2
<1>1. /\ Cardinality(OnRoll(lb2)) <= Cardinality(OnRoll(lb))
      /\ Cardinality(Live(iv2)) <= Cardinality(Live(iv))
  BY Sizes, FS_Subset
<1> QED
  BY <1>1, Sizes

LEMMA QuietKeeps ==
    ASSUME IInv, Quiet
    PROVE  InvitersAreSeated' /\ StepOK
<1>1. Newcomers = {}
  BY DEF Quiet, Newcomers
<1>2. InvitersAreSeated'
  <2>1. Owner \in Members => Owner \in OnRoll(label')
    BY DEF Quiet, EvictsNobody
  <2> QED
    BY <2>1 DEF Quiet, IInv, InvitersAreSeated, Members
<1>3. ASSUME SeatsForInvites
      PROVE  SeatsForInvites'
  <2>1. running.ram \in Nat /\ running'.ram = running.ram
    BY SeatsAssumption DEF Quiet, IInv, SeatsTypeOK, Figures
  <2>2. ASSUME Live(invites') # {}
        PROVE  Cardinality(OnRoll(label')) + Cardinality(Live(invites')) <= running'.ram
    <3>1. Cardinality(Members) + Cardinality(Live(invites)) <= running.ram
      BY <1>3, <2>2 DEF Quiet, SeatsForInvites
    <3> QED
      BY <2>1, <3>1, FewerFit DEF Quiet, Members
  <2> QED
    BY <2>2 DEF SeatsForInvites, Members
<1>4. ReservationKept
  BY <1>3 DEF ReservationKept
<1>5. EvictsNobody
  BY DEF Quiet
<1> QED
  BY <1>1, <1>2, <1>4, <1>5 DEF StepOK, SeatPaid, AdmissionFits

-----------------------------------------------------------------------------
(* The handlers.  Each leaves the state typed and is quiet or is not.      *)

(* Writing the roll as it is and fewer invites is quiet.                   *)
LEMMA WrittenQuietly ==
    ASSUME IInv, NEW lb \in Rolls, NEW iv \in Tables, Stored(lb, iv),
           OnRoll(lb) \subseteq Members,
           \A k \in Members \ OnRoll(lb) : k # Owner /\ OnRoll(lb) = Members \ {k},
           Kept(iv) \subseteq Kept(invites), Live(iv) \subseteq Live(invites),
           UNCHANGED <<joins, file, running, asked, process>>
    PROVE  SeatsTypeOK' /\ Quiet
<1>1. label' = lb /\ invites' = iv /\ used' \in Nat
  BY StoredTyped DEF IInv
<1>2. EvictsNobody
  BY <1>1 DEF EvictsNobody
<1> QED
  BY <1>1, <1>2 DEF IInv, SeatsTypeOK, Quiet, Rolls, Tables

(* The tables of the current state, and what sweeping makes of them.       *)
LEMMA Current ==
    ASSUME IInv
    PROVE  /\ label \in Rolls /\ invites \in Tables
           /\ Members = OnRoll(label)
           /\ Redeemable(invites) \subseteq Kept(invites)
           /\ Live(invites) \subseteq Redeemable(invites)
           /\ Owner \in Person
BY IdentityAssumption
   DEF IInv, SeatsTypeOK, Rolls, Tables, Members, Redeemable, Live, Kept, Invite, Person

LEMMA ReportQuiet ==
    ASSUME IInv, Report
    PROVE  SeatsTypeOK' /\ Quiet
<1>1. /\ Swept(invites) \in Tables
      /\ Kept(Swept(invites)) \subseteq Kept(invites)
      /\ Live(Swept(invites)) \subseteq Live(invites)
  BY Current, SweptRows
<1> QED
  BY <1>1, Current, WrittenQuietly DEF Report

LEMMA RevokeQuiet ==
    ASSUME IInv, NEW l \in Label, Revoke(l)
    PROVE  SeatsTypeOK' /\ Quiet
<1> DEFINE left == Deleted(invites, Under(invites, l))
<1>1. /\ left \in Tables
      /\ Kept(left) \subseteq Kept(invites)
      /\ Live(left) \subseteq Live(invites)
      /\ Redeemable(left) \subseteq Kept(left)
  BY Current, DeletedRows
<1>2. /\ Swept(left) \in Tables
      /\ Kept(Swept(left)) \subseteq Kept(invites)
      /\ Live(Swept(left)) \subseteq Live(invites)
  BY <1>1, SweptRows
<1>3. Stored(label, Swept(left)) \/ Stored(label, left)
  BY DEF Revoke
<1>4. UNCHANGED <<joins, file, running, asked, process>>
  BY DEF Revoke
<1> HIDE DEF left
<1> QED
  BY <1>1, <1>2, <1>3, <1>4, Current, WrittenQuietly

(* Naming somebody keeps the roll typed and puts nobody else on it.        *)
LEMMA NamedRoll ==
    ASSUME NEW lb \in Rolls, NEW k \in Person, NEW n \in Label \cup {BootLabel}
    PROVE  /\ [lb EXCEPT ![k] = n] \in Rolls
           /\ OnRoll([lb EXCEPT ![k] = n]) = OnRoll(lb) \cup {k}
<1>1. n # NoLabel
  BY SeatsAssumption
<1> QED
  BY <1>1 DEF Rolls, OnRoll

LEMMA RenameQuiet ==
    ASSUME IInv, NEW k \in Person, NEW n \in Label, Rename(k, n)
    PROVE  SeatsTypeOK' /\ Quiet
<1> DEFINE lb == [label EXCEPT ![k] = n]
<1>1. lb \in Rolls /\ OnRoll(lb) = Members
  <2>1. k \in Members /\ Members = OnRoll(label) /\ label \in Rolls
    BY Current DEF Rename
  <2>2. lb \in Rolls /\ OnRoll(lb) = OnRoll(label) \cup {k}
    BY <2>1, NamedRoll
  <2> QED
    BY <2>1, <2>2
<1>2. /\ Swept(invites) \in Tables
      /\ Kept(Swept(invites)) \subseteq Kept(invites)
      /\ Live(Swept(invites)) \subseteq Live(invites)
  BY Current, SweptRows
<1>3. /\ Stored(label, Swept(invites)) \/ Stored(lb, Swept(invites))
      /\ UNCHANGED <<joins, file, running, asked, process>>
  BY DEF Rename
<1> HIDE DEF lb
<1> QED
  BY <1>1, <1>2, <1>3, Current, WrittenQuietly

LEMMA RemovePeerQuiet ==
    ASSUME IInv, NEW k \in Person, RemovePeer(k)
    PROVE  SeatsTypeOK' /\ Quiet
<1> DEFINE gone == [label EXCEPT ![k] = NoLabel]
           revoked == Deleted(invites, Under(invites, label[k]))
<1>1. /\ gone \in Rolls
      /\ OnRoll(gone) \subseteq Members
      /\ OnRoll(gone) = Members \ {k} /\ k # Owner
  BY Current DEF RemovePeer, Rolls, OnRoll
<1>2. /\ revoked \in Tables
      /\ Kept(revoked) \subseteq Kept(invites)
      /\ Live(revoked) \subseteq Live(invites)
      /\ Redeemable(revoked) \subseteq Kept(revoked)
  BY Current, DeletedRows
<1>3. /\ Swept(revoked) \in Tables
      /\ Kept(Swept(revoked)) \subseteq Kept(invites)
      /\ Live(Swept(revoked)) \subseteq Live(invites)
  BY <1>2, SweptRows
<1>4. /\ Stored(gone, Swept(revoked)) \/ Stored(gone, revoked) \/ Stored(gone, invites)
      /\ UNCHANGED <<joins, file, running, asked, process>>
  BY DEF RemovePeer
<1> HIDE DEF gone, revoked
<1> QED
  BY <1>1, <1>2, <1>3, <1>4, Current, WrittenQuietly

LEMMA JoinQuiet ==
    ASSUME IInv, NEW k \in Person, Join(k)
    PROVE  SeatsTypeOK' /\ Quiet
BY SeatsAssumption DEF Join, IInv, SeatsTypeOK, Quiet, EvictsNobody, Members

LEMMA TickQuiet ==
    ASSUME IInv, Tick
    PROVE  SeatsTypeOK' /\ Quiet
<1>1. \A t \in Token : /\ invites'[t] \in Invite \cup {NoInvite}
                       /\ invites'[t] # NoInvite => invites[t] # NoInvite
                       /\ invites'[t] # NoInvite /\ invites'[t].left > 0
                             => invites[t].left > 0
  BY SeatsAssumption DEF Tick, IInv, SeatsTypeOK, Invite
<1>2. invites' \in Tables
  BY <1>1 DEF Tick, Tables
<1>3. Kept(invites') \subseteq Kept(invites) /\ Live(invites') \subseteq Live(invites)
  BY <1>1 DEF Kept, Live
<1>4. joins' \in [Person -> 0 .. JoinLife]
  BY SeatsAssumption DEF Tick, IInv, SeatsTypeOK
<1> QED
  BY <1>2, <1>3, <1>4 DEF Tick, IInv, SeatsTypeOK, Quiet, EvictsNobody, Members, Tables

(* Minting takes one of the free seats for one more live invite.           *)
LEMMA MintKeeps ==
    ASSUME IInv, NEW t \in Token, NEW l \in Label, Mint(t, l)
    PROVE  SeatsTypeOK' /\ InvitersAreSeated' /\ StepOK
<1>1. PICK life \in 1 .. InviteLife :
         Stored(label, [invites EXCEPT ![t] = [label |-> l, left |-> life]])
  BY DEF Mint
<1> DEFINE iv == [invites EXCEPT ![t] = [label |-> l, left |-> life]]
<1>2. iv \in Tables /\ Live(iv) \subseteq Live(invites) \cup {t}
  BY SeatsAssumption, Current DEF Tables, Invite, Live, Kept
<1>3. label' = label /\ invites' = iv /\ used' \in Nat
  BY <1>1, <1>2, Current, StoredTyped DEF IInv
<1> HIDE DEF iv
<1>4. SeatsTypeOK' /\ InvitersAreSeated'
  BY <1>2, <1>3 DEF Mint, IInv, SeatsTypeOK, InvitersAreSeated, Members, Tables
<1>5. SeatsForInvites'
  <2>1. /\ IsFiniteSet(Live(invites)) /\ Cardinality(Live(invites)) \in Nat
        /\ Cardinality(Members) \in Nat
        /\ Cardinality(Live(iv)) \in Nat
    BY Sizes DEF Members
  <2>2. /\ IsFiniteSet(Live(invites) \cup {t})
        /\ Cardinality(Live(invites) \cup {t}) =
             IF t \in Live(invites) THEN Cardinality(Live(invites))
             ELSE Cardinality(Live(invites)) + 1
    BY <2>1, FS_AddElement
  <2>3. Cardinality(Live(iv)) <= Cardinality(Live(invites)) + 1
    <3>1. Cardinality(Live(iv)) <= Cardinality(Live(invites) \cup {t})
      BY <1>2, <2>2, FS_Subset
    <3> QED
      BY <2>1, <2>2, <3>1
  <2>4. running.ram \in Nat /\ running' = running
    BY SeatsAssumption DEF Mint, IInv, SeatsTypeOK, Figures
  <2>5. Cardinality(Members) + Cardinality(Live(invites)) + 1 <= running.ram
    BY <2>1, <2>4 DEF Mint, Free
  <2>6. Cardinality(Members) + Cardinality(Live(iv)) <= running.ram
    BY <2>1, <2>3, <2>4, <2>5
  <2> QED
    BY <1>3, <2>4, <2>6 DEF SeatsForInvites, Members
<1>6. Newcomers = {} /\ OnRoll(label') = Members
  BY <1>3 DEF Newcomers, Members
<1> QED
  BY <1>4, <1>5, <1>6
     DEF StepOK, ReservationKept, SeatPaid, AdmissionFits, EvictsNobody, Mint

(* One more on the roll is one more to count.                              *)
LEMMA OneMore ==
    ASSUME NEW lb, NEW k, k \notin OnRoll(lb)
    PROVE  Cardinality(OnRoll(lb) \cup {k}) = Cardinality(OnRoll(lb)) + 1
BY Sizes, FS_AddElement

(* A seat given to k, the invites becoming iv.                             *)
LEMMA Seating ==
    ASSUME IInv, NEW k \in Person, k \notin Members, NEW n \in Label, NEW iv \in Tables,
           Stored([label EXCEPT ![k] = n], iv), Admits(k),
           UNCHANGED <<file, running>>
    PROVE  /\ label' \in Rolls /\ invites' = iv /\ used' \in Nat
           /\ OnRoll(label') = Members \cup {k}
           /\ Newcomers = {k}
           /\ Cardinality(OnRoll(label')) = Cardinality(Members) + 1
           /\ AdmissionFits /\ EvictsNobody
<1>1. /\ [label EXCEPT ![k] = n] \in Rolls
      /\ OnRoll([label EXCEPT ![k] = n]) = Members \cup {k}
  BY Current, NamedRoll
<1>2. label' \in Rolls /\ invites' = iv /\ used' \in Nat /\ OnRoll(label') = Members \cup {k}
  BY <1>1, StoredTyped DEF IInv
<1>3. Newcomers = {k}
  BY <1>2 DEF Newcomers
<1>4. Cardinality(OnRoll(label')) = Cardinality(Members) + 1
  BY <1>2, OneMore DEF Members
<1>5. AdmissionFits
  <2>1. /\ Cardinality(Members) \in Nat /\ running.ram \in Nat
        /\ used \in Nat /\ running.disc \in Nat
    BY Sizes, SeatsAssumption DEF Members, IInv, SeatsTypeOK, Figures
  <2>2. CASE k = Owner
    BY <1>3, <2>2 DEF AdmissionFits
  <2>3. CASE k # Owner
    BY <1>4, <2>1, <2>3 DEF AdmissionFits, Admits, FullForMembers, DiscFull
  <2> QED
    BY <2>2, <2>3
<1>6. EvictsNobody
  BY <1>2 DEF EvictsNobody
<1> QED
  BY <1>2, <1>3, <1>4, <1>5, <1>6

(* A claim spends its invite on a seat, or is quiet.                       *)
LEMMA ClaimKeeps ==
    ASSUME IInv, NEW k \in Person, NEW t \in Token, NEW l \in Label, NEW n \in Label,
           Claim(k, t, l, n)
    PROVE  SeatsTypeOK' /\ InvitersAreSeated' /\ StepOK
<1> DEFINE swept == Swept(invites)
           burnt == Deleted(swept, {t})
<1>1. /\ swept \in Tables
      /\ Kept(swept) = Redeemable(invites)
      /\ Redeemable(swept) = Redeemable(invites)
      /\ Live(swept) = Live(invites)
  BY Current, SweptRows
<1>2. /\ burnt \in Tables
      /\ Kept(burnt) = Redeemable(invites) \ {t}
      /\ Redeemable(burnt) = Redeemable(invites) \ {t}
      /\ Live(burnt) = Live(invites) \ {t}
  BY <1>1, DeletedRows
<1>3. UNCHANGED <<joins, file, running, asked, process>>
  BY DEF Claim
<1>4. \/ Stored(label, swept) \/ Stored(label, burnt)
      \/ /\ t \in Redeemable(invites) /\ k \notin Members /\ Admits(k)
         /\ Stored([label EXCEPT ![k] = n], burnt)
  BY DEF Claim
<1>5. k # Owner
  BY DEF Claim
<1> HIDE DEF swept, burnt
<1>6. CASE Stored(label, swept) \/ Stored(label, burnt)
  <2>1. SeatsTypeOK' /\ Quiet
    BY <1>1, <1>2, <1>3, <1>6, Current, WrittenQuietly
  <2> QED
    BY <2>1, QuietKeeps
<1>7. CASE /\ t \in Redeemable(invites) /\ k \notin Members /\ Admits(k)
           /\ Stored([label EXCEPT ![k] = n], burnt)
  <2>1. /\ label' \in Rolls /\ invites' = burnt /\ used' \in Nat
        /\ OnRoll(label') = Members \cup {k}
        /\ Newcomers = {k}
        /\ Cardinality(OnRoll(label')) = Cardinality(Members) + 1
        /\ AdmissionFits /\ EvictsNobody
    BY <1>2, <1>3, <1>7, Seating
  <2>2. SeatsTypeOK'
    BY <1>2, <1>3, <2>1 DEF IInv, SeatsTypeOK, Rolls, Tables
  <2>3. InvitersAreSeated'
    BY <1>2, <2>1, Current DEF IInv, InvitersAreSeated, Members
  <2>4. Spent = {t}
    BY <1>2, <1>7, <2>1 DEF Spent
  <2>5. SeatPaid
    <3>1. ~Joined(k)
      BY <1>3 DEF Joined
    <3>2. Cardinality(Spent) = 1
      BY <2>4, FS_Singleton
    <3> QED
      BY <2>1, <3>1, <3>2 DEF SeatPaid
  <2>6. ReservationKept
    <3>1. SUFFICES ASSUME SeatsForInvites, t \in Live(invites), Live(burnt) # {}
                   PROVE  Cardinality(OnRoll(label')) + Cardinality(Live(burnt)) <= running'.ram
      BY <2>1, <2>4 DEF ReservationKept, SeatsForInvites, Members
    <3>2. /\ Cardinality(Live(burnt)) = Cardinality(Live(invites)) - 1
          /\ Cardinality(Live(invites)) \in Nat
          /\ Cardinality(Members) \in Nat
      BY <1>2, <3>1, Sizes, FS_RemoveElement DEF Members
    <3>3. Cardinality(Members) + Cardinality(Live(invites)) <= running.ram
      BY <3>1 DEF SeatsForInvites
    <3>4. running.ram \in Nat /\ running' = running
      BY <1>3, SeatsAssumption DEF IInv, SeatsTypeOK, Figures
    <3> QED
      BY <2>1, <3>2, <3>3, <3>4
  <2> QED
    BY <2>1, <2>2, <2>3, <2>5, <2>6 DEF StepOK
<1> QED
  BY <1>4, <1>6, <1>7

(* The owner's claim makes or renames his own seat; while he has none,     *)
(* there is no invite whose seat he could take.                            *)
LEMMA ClaimOwnerKeeps ==
    ASSUME IInv, NEW n \in Label, ClaimOwner(n)
    PROVE  SeatsTypeOK' /\ InvitersAreSeated' /\ StepOK
<1>1. Stored([label EXCEPT ![Owner] = n], invites)
  BY DEF ClaimOwner
<1>2. UNCHANGED <<joins, file, running, asked, process>>
  BY DEF ClaimOwner
<1>3. CASE Owner \in Members
  <2>1. /\ [label EXCEPT ![Owner] = n] \in Rolls
        /\ OnRoll([label EXCEPT ![Owner] = n]) = Members
    BY <1>3, Current, NamedRoll
  <2>2. SeatsTypeOK' /\ Quiet
    BY <1>1, <1>2, <2>1, Current, WrittenQuietly
  <2> QED
    BY <2>2, QuietKeeps
<1>4. CASE Owner \notin Members
  <2>1. Admits(Owner)
    BY DEF Admits
  <2>2. /\ label' \in Rolls /\ invites' = invites /\ used' \in Nat
        /\ OnRoll(label') = Members \cup {Owner}
        /\ Newcomers = {Owner}
        /\ AdmissionFits /\ EvictsNobody
    BY <1>1, <1>2, <1>4, <2>1, Current, Seating
  <2>3. Kept(invites) = {}
    BY <1>4 DEF IInv, InvitersAreSeated
  <2>4. Live(invites') = {}
    BY <2>2, <2>3 DEF Live
  <2>5. SeatsTypeOK'
    BY <1>2, <2>2 DEF IInv, SeatsTypeOK, Rolls
  <2>6. InvitersAreSeated'
    BY <2>2, <2>3 DEF InvitersAreSeated
  <2>7. ReservationKept
    BY <2>4 DEF ReservationKept, SeatsForInvites
  <2>8. SeatPaid
    BY <2>2 DEF SeatPaid
  <2> QED
    BY <2>2, <2>5, <2>6, <2>7, <2>8 DEF StepOK
<1> QED
  BY <1>3, <1>4

(* A confirmed join seats who joined, for no invite, or nobody.            *)
LEMMA JoinConfirmKeeps ==
    ASSUME IInv, NEW k \in Person, NEW n \in Label, JoinConfirm(k, n)
    PROVE  SeatsTypeOK' /\ InvitersAreSeated' /\ StepOK
<1>1. /\ UNCHANGED <<file, running, asked, process>>
      /\ joins[k] > 0 /\ joins' = [joins EXCEPT ![k] = 0]
  BY DEF JoinConfirm
<1>2. joins' \in [Person -> 0 .. JoinLife] /\ joins'[k] = 0
  BY <1>1, SeatsAssumption DEF IInv, SeatsTypeOK
<1>3. CASE UNCHANGED <<label, invites, used>>
  <2>1. SeatsTypeOK' /\ Quiet
    BY <1>1, <1>2, <1>3 DEF IInv, SeatsTypeOK, Quiet, EvictsNobody, Members
  <2> QED
    BY <2>1, QuietKeeps
<1>4. CASE /\ k \notin Members /\ Admits(k)
           /\ Stored([label EXCEPT ![k] = n], invites)
  <2>1. /\ label' \in Rolls /\ invites' = invites /\ used' \in Nat
        /\ OnRoll(label') = Members \cup {k}
        /\ Newcomers = {k}
        /\ AdmissionFits /\ EvictsNobody
    BY <1>1, <1>4, Current, Seating
  <2>2. SeatsTypeOK'
    BY <1>1, <1>2, <2>1 DEF IInv, SeatsTypeOK, Rolls
  <2>3. InvitersAreSeated'
    BY <2>1 DEF IInv, InvitersAreSeated, Members
  <2>4. Joined(k)
    BY <1>1, <1>2, <1>4 DEF Joined, Members, OnRoll
  <2>5. Cardinality(Spent) = 0
    BY <2>1, FS_EmptySet DEF Spent
  <2>6. ReservationKept
    BY <2>1, <2>4 DEF ReservationKept
  <2>7. SeatPaid
    BY <2>1, <2>4, <2>5 DEF SeatPaid
  <2> QED
    BY <2>1, <2>2, <2>3, <2>6, <2>7 DEF StepOK
<1> QED
  BY <1>3, <1>4 DEF JoinConfirm

(* While the roll and the invites stay, only a lower figure takes a seat   *)
(* from a live invite.                                                     *)
LEMMA OnlyLowerTakes ==
    ASSUME IInv, Live(invites') = Live(invites),
           Live(invites) # {} => OnRoll(label') = Members,
           running' \in Figures
    PROVE  ReservationKept
<1>1. running.ram \in Nat /\ running'.ram \in Nat
  BY SeatsAssumption DEF IInv, SeatsTypeOK, Figures
<1>2. SUFFICES ASSUME SeatsForInvites, Live(invites) # {}, running.ram <= running'.ram
               PROVE  Cardinality(OnRoll(label')) + Cardinality(Live(invites')) <= running'.ram
  BY <1>1 DEF ReservationKept, SeatsForInvites, Members
<1>3. Cardinality(Members) + Cardinality(Live(invites)) <= running.ram
  BY <1>2 DEF SeatsForInvites
<1>4. Cardinality(Members) \in Nat /\ Cardinality(Live(invites)) \in Nat
  BY Sizes DEF Members
<1> QED
  BY <1>1, <1>2, <1>3, <1>4

LEMMA ReconfigureKeeps ==
    ASSUME IInv, NEW F \in SUBSET {"ram", "disc"}, NEW f \in Figures, Reconfigure(F, f)
    PROVE  SeatsTypeOK' /\ InvitersAreSeated' /\ StepOK
<1>1. UNCHANGED <<label, invites, joins, process, used>>
  BY DEF Reconfigure
<1>2. file' \in Figures /\ running' \in Figures /\ asked' \in Figures
  BY DEF Reconfigure, IInv, SeatsTypeOK, Figures
<1>3. SeatsTypeOK' /\ InvitersAreSeated'
  BY <1>1, <1>2 DEF IInv, SeatsTypeOK, InvitersAreSeated, Members
<1>4. OnRoll(label') = Members /\ Newcomers = {}
  BY <1>1 DEF Newcomers, Members
<1>5. ReservationKept
  BY <1>1, <1>2, <1>4, OnlyLowerTakes
<1> QED
  BY <1>3, <1>4, <1>5 DEF StepOK, SeatPaid, AdmissionFits, EvictsNobody

LEMMA RestartKeeps ==
    ASSUME IInv, NEW room \in Figures, Restart(room)
    PROVE  SeatsTypeOK' /\ InvitersAreSeated' /\ StepOK
<1>1. /\ UNCHANGED <<invites, file, asked>>
      /\ process' = 1 - process
      /\ joins' = [k \in Person |-> 0]
      /\ running' = Clamped(file, room)
  BY DEF Restart
<1>2. running' \in Figures
  BY <1>1, SeatsAssumption DEF Clamped, Smaller, IInv, SeatsTypeOK, Figures
<1>3. PICK lb \in {Booted(label), label} :
         /\ label' = lb
         /\ \E start \in {Rows(label, invites), used} :
               used' = IF Rows(lb, invites) > start THEN Rows(lb, invites) ELSE start
  BY DEF Restart
<1>4. used' \in Nat
  BY <1>3, Sizes DEF IInv, SeatsTypeOK
<1>5. /\ Booted(label) \in Rolls
      /\ OnRoll(Booted(label)) = Members \cup {Owner}
  <2>1. CASE label[Owner] = NoLabel
    BY <2>1, Current, NamedRoll DEF Booted
  <2>2. CASE label[Owner] # NoLabel
    BY <2>2, Current DEF Booted, OnRoll
  <2> QED
    BY <2>1, <2>2
<1>6. /\ label' \in Rolls
      /\ Members \subseteq OnRoll(label')
      /\ OnRoll(label') \subseteq Members \cup {Owner}
  BY <1>3, <1>5, Current
<1>7. SeatsTypeOK'
  BY <1>1, <1>2, <1>4, <1>6, SeatsAssumption DEF IInv, SeatsTypeOK, Rolls
<1>8. InvitersAreSeated'
  BY <1>1, <1>6 DEF IInv, InvitersAreSeated, Members
<1>9. Live(invites) # {} => OnRoll(label') = Members
  BY <1>6 DEF Live, IInv, InvitersAreSeated
<1>10. ReservationKept
  BY <1>1, <1>2, <1>9, OnlyLowerTakes
<1>11. Newcomers \ {Owner} = {}
  BY <1>6 DEF Newcomers
<1>12. SeatPaid /\ AdmissionFits /\ EvictsNobody
  BY <1>6, <1>11 DEF SeatPaid, AdmissionFits, EvictsNobody
<1> QED
  BY <1>7, <1>8, <1>10, <1>12 DEF StepOK

-----------------------------------------------------------------------------
(* The theorems.                                                           *)

LEMMA InitHolds ==
    ASSUME Init
    PROVE  IInv
<1>1. \A lb \in {Booted([k \in Person |-> NoLabel]), [k \in Person |-> NoLabel]} : lb \in Rolls
  BY IdentityAssumption DEF Booted, Rolls, Person
<1>2. label \in Rolls
  BY <1>1 DEF Init
<1>3. used \in Nat
  BY Sizes DEF Init
<1>4. SeatsTypeOK
  BY <1>2, <1>3, SeatsAssumption DEF Init, SeatsTypeOK, Rolls
<1>5. Kept(invites) = {}
  BY DEF Init, Kept
<1> QED
  BY <1>4, <1>5 DEF IInv, InvitersAreSeated

LEMMA NothingHappens ==
    ASSUME IInv, UNCHANGED seatsVars
    PROVE  SeatsTypeOK' /\ Quiet
BY DEF seatsVars, IInv, SeatsTypeOK, Quiet, EvictsNobody, Members

LEMMA StepKeeps ==
    ASSUME IInv, [Next]_seatsVars
    PROVE  IInv' /\ StepOK
<1>1. ASSUME NEW t \in Token, NEW l \in Label, Mint(t, l)
      PROVE  IInv' /\ StepOK
  BY <1>1, MintKeeps DEF IInv
<1>2. ASSUME NEW l \in Label, Revoke(l)
      PROVE  IInv' /\ StepOK
  BY <1>2, RevokeQuiet, QuietKeeps DEF IInv
<1>3. CASE Report
  BY <1>3, ReportQuiet, QuietKeeps DEF IInv
<1>4. ASSUME NEW k \in Person, NEW t \in Token, NEW l \in Label, NEW n \in Label,
             Claim(k, t, l, n)
      PROVE  IInv' /\ StepOK
  BY <1>4, ClaimKeeps DEF IInv
<1>5. ASSUME NEW n \in Label, ClaimOwner(n)
      PROVE  IInv' /\ StepOK
  BY <1>5, ClaimOwnerKeeps DEF IInv
<1>6. ASSUME NEW k \in Person, Join(k)
      PROVE  IInv' /\ StepOK
  BY <1>6, JoinQuiet, QuietKeeps DEF IInv
<1>7. ASSUME NEW k \in Person, NEW n \in Label, JoinConfirm(k, n)
      PROVE  IInv' /\ StepOK
  BY <1>7, JoinConfirmKeeps DEF IInv
<1>8. ASSUME NEW k \in Person, NEW n \in Label, Rename(k, n)
      PROVE  IInv' /\ StepOK
  BY <1>8, RenameQuiet, QuietKeeps DEF IInv
<1>9. ASSUME NEW k \in Person, RemovePeer(k)
      PROVE  IInv' /\ StepOK
  BY <1>9, RemovePeerQuiet, QuietKeeps DEF IInv
<1>10. ASSUME NEW F \in SUBSET {"ram", "disc"}, NEW f \in Figures, Reconfigure(F, f)
       PROVE  IInv' /\ StepOK
  BY <1>10, ReconfigureKeeps DEF IInv
<1>11. ASSUME NEW room \in Figures, Restart(room)
       PROVE  IInv' /\ StepOK
  BY <1>11, RestartKeeps DEF IInv
<1>12. CASE Tick
  BY <1>12, TickQuiet, QuietKeeps DEF IInv
<1>13. CASE UNCHANGED seatsVars
  BY <1>13, NothingHappens, QuietKeeps DEF IInv
<1> QED
  BY <1>1, <1>2, <1>3, <1>4, <1>5, <1>6, <1>7, <1>8, <1>9, <1>10, <1>11, <1>12, <1>13
     DEF Next

(* The invariant is inductive.                                             *)
THEOREM Inductive == SeatsSpec => []IInv
BY InitHolds, StepKeeps, PTL DEF SeatsSpec

(* The state is typed, and whoever invited somebody has a seat himself.    *)
THEOREM SeatsAreTyped == SeatsSpec => [](SeatsTypeOK /\ InvitersAreSeated)
<1>1. IInv => SeatsTypeOK /\ InvitersAreSeated
  BY DEF IInv
<1> QED
  BY <1>1, Inductive, PTL

(* No claim, removal, failed write or raise takes the seat that an invite  *)
(* holds.                                                                  *)
THEOREM ReservedSeatsStand == SeatsSpec => ReservationsStand
<1>1. IInv /\ [Next]_seatsVars => [ReservationKept]_seatsVars
  BY StepKeeps DEF StepOK
<1> QED
  BY <1>1, Inductive, PTL DEF SeatsSpec, ReservationsStand

(* One seat, one invite, unless it came by a join.                         *)
THEOREM EverySeatIsPaid == SeatsSpec => InvitePays
<1>1. IInv /\ [Next]_seatsVars => [SeatPaid]_seatsVars
  BY StepKeeps DEF StepOK
<1> QED
  BY <1>1, Inductive, PTL DEF SeatsSpec, InvitePays

(* Nobody but the owner is admitted beyond the figures.                    *)
THEOREM EveryAdmissionFits == SeatsSpec => AdmissionsFit
<1>1. IInv /\ [Next]_seatsVars => [AdmissionFits]_seatsVars
  BY StepKeeps DEF StepOK
<1> QED
  BY <1>1, Inductive, PTL DEF SeatsSpec, AdmissionsFit

(* A member leaves the roll by his removal and by nothing else: neither a  *)
(* start nor a figure nor somebody's admission takes a row away, and       *)
(* nothing takes the owner's (relay.js, reconfigure and forgetPeer).       *)
THEOREM EvictionsAreMeant == SeatsSpec => NobodyIsEvicted
<1>1. IInv /\ [Next]_seatsVars => [EvictsNobody]_seatsVars
  BY StepKeeps DEF StepOK
<1> QED
  BY <1>1, Inductive, PTL DEF SeatsSpec, NobodyIsEvicted
=============================================================================
