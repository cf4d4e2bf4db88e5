------------------------------- MODULE Seats -------------------------------
(***************************************************************************)
(* Who gets a seat on a relay: the roll and the invites on its disc, the   *)
(* joins in its memory, and the two figures that bound them.               *)
(*                                                                         *)
(*   src/spirit/run/spirit/relay.js        seats, mint, claim, join,       *)
(*                                         joinConfirm, forgetPeer,        *)
(*                                         renameSelf, reconfigure         *)
(*   src/spirit/run/spirit/invites.js      the waiting room                *)
(*   src/spirit/run/spirit/relayStore.js   the two tables and the disc     *)
(*   src/spirit/run/spirit/relayConfig.js  the file and the boot's clamp   *)
(*                                                                         *)
(* A handler is one turn of the relay, but its writes are separate: any of *)
(* them may fail, and what was written before it stays.  A handler that    *)
(* fails at its first write is a handler that did nothing.                 *)
(*                                                                         *)
(* A RAM figure is counted in the seats it serves and a disc figure in     *)
(* rows.  What only refuses (signatures, the limits on join asks, the form *)
(* of a label) is left out, and so are mails: a join is confirmed with the *)
(* right code or not at all.  Every claim brings a card and a label that   *)
(* is not the boot's, so the owner's boot seat is claimed once.            *)
(***************************************************************************)
EXTENDS Identities, Integers, FiniteSets

CONSTANTS
    Label,          \* what members and invites are called
    BootLabel,      \* the label of the seat that the boot makes
    NoLabel,        \* of who is not on the roll
    Token,
    NoInvite,
    InviteLife,     \* the longest life of an invite
    JoinLife,       \* how long a join waits for its code
    RamFigure,      \* the figures the owner may ask for, and
    DiscFigure,     \*   those a box may have room for at boot
    DiscMayFail     \* whether a write may fail

ASSUME SeatsAssumption ==
    /\ BootLabel \notin Label
    /\ NoLabel \notin Label \cup {BootLabel}
    /\ IsFiniteSet(Person)
    /\ IsFiniteSet(Token)
    /\ InviteLife \in Nat \ {0}
    /\ JoinLife \in Nat \ {0}
    /\ RamFigure \subseteq Nat
    /\ DiscFigure \subseteq Nat
    /\ DiscMayFail \in BOOLEAN
    /\ NoInvite \notin [label : Label, left : -1 .. InviteLife]

VARIABLES
    label,      \* the roll: person -> the label of its row
    invites,    \* the invites table: token -> its label and what is left
    joins,      \* pending joins: person -> how long it still waits
    file,       \* the figures in config.json
    running,    \* the figures this process runs on
    asked,      \* the figures the owner asked for last (a history)
    process,    \* 0 or 1: one process and the one after it (a history of starts)
    used        \* the size of the store: freed rows do not shrink it

seatsVars == <<label, invites, joins, file, running, asked, process, used>>

Figures == [ram : RamFigure, disc : DiscFigure]

Invite == [label : Label, left : -1 .. InviteLife]

Smaller(a, b) == IF a < b THEN a ELSE b

-----------------------------------------------------------------------------
(* The tables.                                                             *)

OnRoll(lb) == {k \in Person : lb[k] # NoLabel}

Members == OnRoll(label)

Kept(iv) == {t \in Token : iv[t] # NoInvite}

(* An invite on its last instant is still taken by match() and kept by     *)
(* sweepExpired(), and holds no seat.                                      *)
Redeemable(iv) == {t \in Kept(iv) : iv[t].left >= 0}

Live(iv) == {t \in Kept(iv) : iv[t].left > 0}

Deleted(iv, T) == [t \in Token |-> IF t \in T THEN NoInvite ELSE iv[t]]

Swept(iv) == Deleted(iv, Kept(iv) \ Redeemable(iv))

Under(iv, l) == {t \in Kept(iv) : iv[t].label = l}

Rows(lb, iv) == Cardinality(OnRoll(lb)) + Cardinality(Kept(iv))

(* Whether a write succeeds.                                               *)
Write == IF DiscMayFail THEN BOOLEAN ELSE {TRUE}

(* The store after its tables became lb and iv.                            *)
Stored(lb, iv) ==
    /\ label' = lb
    /\ invites' = iv
    /\ used' = IF Rows(lb, iv) > used THEN Rows(lb, iv) ELSE used

-----------------------------------------------------------------------------
(* The bounds.                                                             *)

(* Mutant: the seat after the last one is given too.                       *)
FullWhenOver == Cardinality(Members) > running.ram

FullForMembers == Cardinality(Members) >= running.ram

DiscFull == used >= running.disc

(* Mutant: minting counts members alone.                                   *)
FreeOfMembers == running.ram - Cardinality(Members)

Free == running.ram - Cardinality(Members) - Cardinality(Live(invites))

(* The owner is never turned away.                                         *)
Admits(k) == k = Owner \/ (~FullForMembers /\ ~DiscFull)

-----------------------------------------------------------------------------
(* Invites.                                                                *)

(* The owner's `invite`: his label is written into it, so he has a row.    *)
(* A spoken token that is still in the table makes the insert fail.        *)
Mint(t, l) ==
    /\ Owner \in Members
    /\ Free > 0
    /\ invites[t] = NoInvite
    /\ \E life \in 1 .. InviteLife :
          Stored(label, [invites EXCEPT ![t] = [label |-> l, left |-> life]])
    /\ UNCHANGED <<joins, file, running, asked, process>>

(* The owner's `revoke`; the sweep after it may be the write that fails.   *)
Revoke(l) ==
    /\ \E ok \in Write :
          LET left == Deleted(invites, Under(invites, l))
          IN  Stored(label, IF ok THEN Swept(left) ELSE left)
    /\ UNCHANGED <<joins, file, running, asked, process>>

(* The owner's report.                                                     *)
Report ==
    /\ Stored(label, Swept(invites))
    /\ UNCHANGED <<joins, file, running, asked, process>>

-----------------------------------------------------------------------------
(* Getting a seat.                                                         *)

(* Mutant: the row is written before the invite is burnt.                  *)
ClaimRowFirst(k, t, l, n) ==
    /\ k # Owner /\ k \notin Members
    /\ Admits(k)
    /\ t \in Redeemable(invites) /\ invites[t].label = l
    /\ \E burn \in Write :
          Stored([label EXCEPT ![k] = n],
                 IF burn THEN Deleted(Swept(invites), {t}) ELSE Swept(invites))
    /\ UNCHANGED <<joins, file, running, asked, process>>

(* A claim on an invite.  Whatever comes of it, redeem() has swept.  The   *)
(* invite is burnt before the row is written: `row` is whether that write  *)
(* was taken and the process was still there to make it.                   *)
Claim(k, t, l, n) ==
    /\ k # Owner
    /\ Admits(k)
    /\ LET matched == t \in Redeemable(invites) /\ invites[t].label = l
           swept   == Swept(invites)
       IN  \/ /\ ~matched \/ k \in Members
              /\ Stored(label, swept)
           \/ /\ matched /\ k \notin Members
              /\ \E row \in Write :
                    Stored(IF row THEN [label EXCEPT ![k] = n] ELSE label,
                           Deleted(swept, {t}))
           \/ /\ matched /\ k \notin Members /\ DiscMayFail
              /\ Stored(label, swept)
    /\ UNCHANGED <<joins, file, running, asked, process>>

(* The owner's claim, on the seat that the boot made or on none.           *)
ClaimOwner(n) ==
    /\ label[Owner] \in {NoLabel, BootLabel}
    /\ Stored([label EXCEPT ![Owner] = n], invites)
    /\ UNCHANGED <<joins, file, running, asked, process>>

(* A join, or a member's change of email.                                  *)
Join(k) ==
    /\ k \in Members \/ ~FullForMembers
    /\ joins' = [joins EXCEPT ![k] = JoinLife]
    /\ UNCHANGED <<label, invites, file, running, asked, process, used>>

(* The code comes back.  The join is forgotten before the claim is made,   *)
(* so it is gone when the relay is full by now or cannot write.            *)
JoinConfirm(k, n) ==
    /\ joins[k] > 0
    /\ joins' = [joins EXCEPT ![k] = 0]
    /\ \/ /\ k \in Members \/ ~Admits(k) \/ DiscMayFail
          /\ UNCHANGED <<label, invites, used>>
       \/ /\ k \notin Members /\ Admits(k)
          /\ Stored([label EXCEPT ![k] = n], invites)
    /\ UNCHANGED <<file, running, asked, process>>

-----------------------------------------------------------------------------
(* Members.                                                                *)

(* Sweeps, and is refused when a live invite holds the name.               *)
Rename(k, n) ==
    /\ k \in Members
    /\ label[k] # n
    /\ LET swept == Swept(invites)
       IN  \/ /\ Under(swept, n) # {} \/ DiscMayFail
              /\ Stored(label, swept)
           \/ /\ Under(swept, n) = {}
              /\ Stored([label EXCEPT ![k] = n], swept)
    /\ UNCHANGED <<joins, file, running, asked, process>>

(* Mutant: the owner's row is removable like any other.                    *)
RemoveAnyPeer(k) ==
    /\ k \in Members
    /\ Stored([label EXCEPT ![k] = NoLabel],
              Swept(Deleted(invites, Under(invites, label[k]))))
    /\ UNCHANGED <<joins, file, running, asked, process>>

(* forgetPeer: the row, the invites under its label, then the sweep.  The  *)
(* writes are not guarded: the handler ends at the first that fails.       *)
RemovePeer(k) ==
    /\ k \in Members \ {Owner}
    /\ LET gone    == [label EXCEPT ![k] = NoLabel]
           revoked == Deleted(invites, Under(invites, label[k]))
       IN  \/ Stored(gone, Swept(revoked))
           \/ DiscMayFail /\ Stored(gone, revoked)
           \/ DiscMayFail /\ Stored(gone, invites)
    /\ UNCHANGED <<joins, file, running, asked, process>>

-----------------------------------------------------------------------------
(* The figures.                                                            *)

(* The owner's `config` naming the fields in F: a field it leaves out is   *)
(* taken from what the process runs on.  Refused when it would strand a    *)
(* member or a row; a raise is taken now, a cut at the next start.         *)
Reconfigure(F, f) ==
    /\ F # {}
    /\ LET want == [ram  |-> IF "ram" \in F THEN f.ram ELSE running.ram,
                    disc |-> IF "disc" \in F THEN f.disc ELSE running.disc]
       IN  /\ used <= want.disc
           /\ Cardinality(Members) <= want.ram
           /\ file' = want
           /\ running' = [ram  |-> IF want.ram >= running.ram THEN want.ram
                                   ELSE running.ram,
                          disc |-> IF want.disc >= running.disc THEN want.disc
                                   ELSE running.disc]
    /\ asked' = [ram  |-> IF "ram" \in F THEN f.ram ELSE asked.ram,
                 disc |-> IF "disc" \in F THEN f.disc ELSE asked.disc]
    /\ UNCHANGED <<label, invites, joins, process, used>>

(* Mutant: one figure is held against the other's room.                    *)
ClampedCrosswise(f, room) ==
    [ram |-> Smaller(f.disc, room.disc), disc |-> Smaller(f.ram, room.ram)]

(* A box that has room for less makes the process run on less.             *)
Clamped(f, room) == [ram  |-> Smaller(f.ram, room.ram),
                     disc |-> Smaller(f.disc, room.disc)]

(* Mutant: a start makes a new store.                                      *)
BootedAfresh(lb) ==
    [k \in Person |-> IF k = Owner THEN BootLabel ELSE NoLabel]

(* The roll with the seat that the boot makes for the owner.               *)
Booted(lb) ==
    IF lb[Owner] = NoLabel THEN [lb EXCEPT ![Owner] = BootLabel] ELSE lb

(* The process ends and the relay starts again, on a compacted store when  *)
(* the disc had the room to compact it.                                    *)
Restart(room) ==
    /\ \E lb \in {Booted(label)} \cup (IF DiscMayFail THEN {label} ELSE {}) :
          /\ label' = lb
          /\ \E start \in {Rows(label, invites), used} :
                used' = IF Rows(lb, invites) > start THEN Rows(lb, invites)
                        ELSE start
    /\ joins' = [k \in Person |-> 0]
    /\ running' = Clamped(file, room)
    /\ process' = 1 - process
    /\ UNCHANGED <<invites, file, asked>>

-----------------------------------------------------------------------------
Tick ==
    /\ invites' = [t \in Token |->
                     IF invites[t] # NoInvite /\ invites[t].left >= 0
                     THEN [invites[t] EXCEPT !.left = @ - 1] ELSE invites[t]]
    /\ joins' = [k \in Person |-> IF joins[k] > 0 THEN joins[k] - 1 ELSE 0]
    /\ UNCHANGED <<label, file, running, asked, process, used>>

Init ==
    /\ label \in {Booted([k \in Person |-> NoLabel])} \cup
                 (IF DiscMayFail THEN {[k \in Person |-> NoLabel]} ELSE {})
    /\ invites = [t \in Token |-> NoInvite]
    /\ joins = [k \in Person |-> 0]
    /\ file \in Figures
    /\ running = file
    /\ asked = file
    /\ process = 0
    /\ used = Rows(label, invites)

Next ==
    \/ \E t \in Token, l \in Label : Mint(t, l)
    \/ \E l \in Label : Revoke(l)
    \/ Report
    \/ \E k \in Person, t \in Token, l, n \in Label : Claim(k, t, l, n)
    \/ \E n \in Label : ClaimOwner(n)
    \/ \E k \in Person : Join(k)
    \/ \E k \in Person, n \in Label : JoinConfirm(k, n)
    \/ \E k \in Person, n \in Label : Rename(k, n)
    \/ \E k \in Person : RemovePeer(k)
    \/ \E F \in SUBSET {"ram", "disc"}, f \in Figures : Reconfigure(F, f)
    \/ \E room \in Figures : Restart(room)
    \/ Tick

SeatsSpec == Init /\ [][Next]_seatsVars

-----------------------------------------------------------------------------
(* Properties.                                                             *)

SeatsTypeOK ==
    /\ label \in [Person -> Label \cup {BootLabel, NoLabel}]
    /\ invites \in [Token -> Invite \cup {NoInvite}]
    /\ joins \in [Person -> 0 .. JoinLife]
    /\ file \in Figures
    /\ running \in Figures
    /\ asked \in Figures
    /\ process \in {0, 1}
    /\ used \in Nat

(* Only an owner with a row mints, and he keeps it: an invite names an     *)
(* inviter who is there, also after failed writes and restarts.            *)
InvitersAreSeated == Kept(invites) # {} => Owner \in Members

(* Every live invite has its seat (relay.js:603, relay.js:1742).           *)
SeatsForInvites ==
    Live(invites) # {} =>
        Cardinality(Members) + Cardinality(Live(invites)) <= running.ram

Newcomers == OnRoll(label') \ Members

Spent == Redeemable(invites) \ Redeemable(invites')

(* A join's code was taken in this step.                                   *)
Joined(k) == joins[k] > 0 /\ joins'[k] = 0 /\ label[k] = NoLabel

(* The seats that live invites hold are given away by a join, by an invite *)
(* redeemed on its last instant, and by a start on a lower figure: by no   *)
(* claim, rename, removal, failed write or change of figures.              *)
ReservationKept ==
    SeatsForInvites /\ ~SeatsForInvites' =>
        \/ \E k \in Newcomers : Joined(k)
        \/ ~(Spent \subseteq Live(invites))
        \/ running'.ram < running.ram

ReservationsStand == [][ReservationKept]_seatsVars

(* Whoever gets a seat without a join spends one invite for it, and a join *)
(* spends none: a failed write seats nobody twice and nobody for nothing.  *)
SeatPaid ==
    \A k \in Newcomers \ {Owner} :
        Cardinality(Spent) = IF Joined(k) THEN 0 ELSE 1

InvitePays == [][SeatPaid]_seatsVars

(* Nobody but the owner is admitted to a seat that the figures the process *)
(* runs on do not serve (relay.js:1367), by whichever way they come.       *)
AdmissionFits ==
    Newcomers \ {Owner} # {} =>
        /\ Cardinality(OnRoll(label')) <= running.ram
        /\ used < running.disc

AdmissionsFit == [][AdmissionFits]_seatsVars

(* A member leaves the roll by the owner's removal of him and by nothing   *)
(* else: no start, no figure, no failed write and nobody's admission takes *)
(* a row away, and whoever goes is not the owner and goes alone            *)
(* (relay.js:669, "membership moves only by a signed grant").              *)
EvictsNobody ==
    \A k \in Members \ OnRoll(label') :
        /\ k # Owner
        /\ OnRoll(label') = Members \ {k}
        /\ UNCHANGED <<joins, file, running, process>>

NobodyIsEvicted == [][EvictsNobody]_seatsVars

(* What the owner asked for last is what the file says, so that a cut that *)
(* waits for a start and a clamp at boot survive a change of the other     *)
(* figure (relayConfig.js:223).                                            *)
AskedIsOnFile == file = asked
=============================================================================
