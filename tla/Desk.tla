-------------------------------- MODULE Desk --------------------------------
(***************************************************************************)
(* One goal of the desk: its items, what they block, and the work on them. *)
(*                                                                         *)
(*   src/spirit/run/process/js/desk/desk.js                                *)
(*                                                                         *)
(* The owner presses; agents take items, take and finish the phases of an  *)
(* item (red, build, verify), claim, and leave.  The desk is one thread    *)
(* and none of these handlers waits before it has written, so a handler is *)
(* one action.  Every write is kept in the tables before it is answered    *)
(* and read back whole, so a restart changes nothing and is not a step.    *)
(*                                                                         *)
(* Left out: what is only shown (titles, status words, alerts), chat, the  *)
(* box, checks and file lists.  An open question or an empty file list may *)
(* refuse an end of design, a Go or a finished phase; every action here    *)
(* may also not happen, which covers those refusals.  An agent has one     *)
(* label and one key.  Adds, blocks and brought-back items are not asked   *)
(* who wrote them.                                                         *)
(***************************************************************************)
EXTENDS Naturals, FiniteSets

CONSTANTS
    Item,       \* ids the desk may mint
    Agent,
    NoOne,      \* '' where a label is expected
    NoItem,     \* no item named: the goal is blocked
    Press       \* the owner's presses an instance uses; "deleted" for those
                \* that take back the closing of a deleted item

ASSUME DeskAssumption == NoOne \notin Agent /\ NoItem \notin Item

VARIABLES
    goal,       \* the goal's own flags
    item,       \* item -> its record
    blocks,     \* item -> the items it blocks; none: it blocks the goal
    live,       \* agents whose last write is recent (LIVE_MS)
    included    \* agents the owner has not excluded

deskVars == <<goal, item, blocks, live, included>>

Phase == {"red", "build", "verify"}

NoPhase == ""

Holder == Agent \cup {NoOne}

Goal == [design : BOOLEAN, done : BOOLEAN, closed : BOOLEAN,
         abandoned : BOOLEAN, emptied : BOOLEAN]

ItemRecord ==
    [made : BOOLEAN,
     design : BOOLEAN, go : BOOLEAN, done : BOOLEAN, closed : BOOLEAN,
     leftOut : BOOLEAN, code : BOOLEAN, waived : BOOLEAN, verified : BOOLEAN,
     claims : SUBSET Agent,
     redClaimed : BOOLEAN,              \* redCommit, with its suites
     with : Holder, phaseWith : Holder,
     phase : Phase \cup {NoPhase},
     red : Holder, builder : Holder, verifier : Holder]

Blank ==
    [made |-> FALSE, design |-> FALSE, go |-> FALSE, done |-> FALSE,
     closed |-> FALSE, leftOut |-> FALSE, code |-> FALSE, waived |-> FALSE,
     verified |-> FALSE, claims |-> {}, redClaimed |-> FALSE,
     with |-> NoOne, phaseWith |-> NoOne, phase |-> NoPhase,
     red |-> NoOne, builder |-> NoOne, verifier |-> NoOne]

Made == {i \in Item : item[i].made}

Settled(m) == m.done \/ m.closed

Init ==
    /\ goal = [design |-> TRUE, done |-> FALSE, closed |-> FALSE,
               abandoned |-> FALSE, emptied |-> FALSE]
    /\ item = [i \in Item |-> Blank]
    /\ blocks = [i \in Item |-> {}]
    /\ live = {}
    /\ included = Agent

-----------------------------------------------------------------------------
(* What blocks what.                                                       *)

(* From a one comes to b along what is blocked, beyond no item left out: b *)
(* is in every set that holds what a blocks and what its members block.    *)
Reaches(a, b) ==
    \A S \in SUBSET Item :
        /\ blocks[a] \subseteq S
        /\ \A x \in S : item[x].leftOut \/ blocks[x] \subseteq S
        => b \in S

Running(i) == item[i].go /\ ~Settled(item[i])

(* Mutant: the gate follows only what is blocked at once.                  *)
MayBlockNear(a, b) ==
    /\ a # b
    /\ \A i \in {a, b} : ~item[i].closed /\ ~item[i].leftOut
    /\ ~Running(b)
    /\ a \notin blocks[b]
    /\ b \notin blocks[a]

(* blockWhy: the gate.                                                     *)
MayBlock(a, b) ==
    /\ a # b
    /\ \A i \in {a, b} : ~item[i].closed /\ ~item[i].leftOut
    /\ ~Running(b)
    /\ ~Reaches(b, a)
    /\ ~Reaches(a, b)

(* Mutant: whoever blocked the one that left blocks the goal.              *)
RepairedShort(gone) == [i \in Item |-> blocks[i] \ {gone}]

(* What is blocked once `gone` has left: whoever blocked it blocks what it *)
(* blocked instead.                                                        *)
Repaired(gone) ==
    [i \in Item |->
        IF i # gone /\ gone \in blocks[i]
        THEN (blocks[i] \cup blocks[gone]) \ {gone, i}
        ELSE blocks[i]]

Blockers(i) ==
    {o \in Made \ {i} : ~Settled(item[o]) /\ ~item[o].leftOut /\ i \in blocks[o]}

-----------------------------------------------------------------------------
(* What is offered.                                                        *)

Claimed(i) == item[i].claims # {}

OffersGo(i) ==
    /\ ~Settled(item[i]) /\ ~Claimed(i)
    /\ ~goal.design /\ ~item[i].design /\ ~item[i].go
    /\ Blockers(i) = {}

OffersClose(i) ==
    /\ ~item[i].closed
    /\ item[i].done \/ (~item[i].go /\ ~Claimed(i))

OffersReopen(i) == Settled(item[i])

OffersDelete(i) == ~Settled(item[i]) /\ item[i].phaseWith = NoOne /\ ~Claimed(i)

(* Mutant: the waive is offered only until somebody built.                 *)
OffersWaiveOnce(i) ==
    /\ ~Settled(item[i]) /\ item[i].code /\ item[i].go /\ ~item[i].waived
    /\ item[i].phase = "build" /\ item[i].phaseWith = NoOne
    /\ item[i].builder = NoOne

OffersWaive(i) ==
    /\ ~Settled(item[i]) /\ item[i].code /\ item[i].go /\ ~item[i].waived
    /\ item[i].phase = "build" /\ item[i].phaseWith = NoOne

(* Out of design and gone: its phases may be taken.                        *)
InWork(i) ==
    /\ item[i].code /\ item[i].go /\ ~Settled(item[i])
    /\ ~goal.design /\ ~item[i].design

(* Mutant: a new round of red is open to whoever built.                    *)
FitsAnyRound(m, p, a) ==
    \/ /\ p = "red"
       /\ m.waived \/ m.phase = NoPhase \/ a # m.builder
       /\ m.phase \in {"red", NoPhase} \/ (m.phase = "verify" /\ a = m.verifier)
    \/ /\ p = "build" /\ m.phase = "build"
       /\ m.waived \/ (a # m.red /\ m.builder \in {NoOne, a})
    \/ /\ p = "verify" /\ m.phase = "verify"
       /\ m.waived \/ a # m.builder

(* Whose turn a phase is, unless one agent was allowed all of them.        *)
Fits(m, p, a) ==
    \/ /\ p = "red"
       /\ m.waived \/ a # m.builder
       /\ m.phase \in {"red", NoPhase} \/ (m.phase = "verify" /\ a = m.verifier)
    \/ /\ p = "build" /\ m.phase = "build"
       /\ m.waived \/ (a # m.red /\ m.builder \in {NoOne, a})
    \/ /\ p = "verify" /\ m.phase = "verify"
       /\ m.waived \/ a # m.builder

(* mayTake answers not-offered.                                            *)
Refused(i, p, a) == ~InWork(i) \/ (item[i].phaseWith = NoOne /\ ~Fits(item[i], p, a))

(* waiveIfAlone, once its caller is the only agent heard lately.           *)
WaivedIfAlone(m, a) ==
    IF ~Settled(m) /\ live = {a} THEN [m EXCEPT !.waived = TRUE] ELSE m

-----------------------------------------------------------------------------
(* What an agent holds.                                                    *)

Listed(i) == ~goal.abandoned /\ ~goal.closed /\ ~item[i].closed

HoldsAny(m, a) == a \in {m.with, m.phaseWith}

HeldBy(a) ==
    {i \in Made : /\ ~Settled(item[i]) /\ ~item[i].leftOut /\ Listed(i)
                  /\ a \notin item[i].claims
                  /\ HoldsAny(item[i], a)}

OneTask(a, i) == HeldBy(a) \subseteq {i}

LetGo(m) == [m EXCEPT !.with = NoOne, !.phaseWith = NoOne]

(* What a holds of m given up, each of the two apart.                      *)
Without(m, a) ==
    [m EXCEPT !.with = IF @ = a THEN NoOne ELSE @,
              !.phaseWith = IF @ = a THEN NoOne ELSE @]

-----------------------------------------------------------------------------
(* Items and blocks.                                                       *)

Becomes(i, m) == item' = [item EXCEPT ![i] = m]

ItemAdd(i, b) ==
    /\ ~item[i].made
    /\ b \in Made \cup {NoItem}
    /\ Becomes(i, [Blank EXCEPT !.made = TRUE, !.design = TRUE, !.code = TRUE])
    /\ blocks' = [blocks EXCEPT ![i] = {b} \ {NoItem}]
    /\ UNCHANGED <<goal, live, included>>

Block(a, b) ==
    /\ MayBlock(a, b)
    /\ blocks' = [blocks EXCEPT ![a] = @ \cup {b}]
    /\ UNCHANGED <<goal, item, live, included>>

Unblock(a, b) ==
    /\ b \in blocks[a]
    /\ blocks' = [blocks EXCEPT ![a] = @ \ {b}]
    /\ UNCHANGED <<goal, item, live, included>>

ItemDelete(i) ==
    /\ OffersDelete(i)
    /\ Becomes(i, [item[i] EXCEPT !.closed = TRUE, !.leftOut = TRUE])
    /\ blocks' = Repaired(i)
    /\ UNCHANGED <<goal, live, included>>

-----------------------------------------------------------------------------
(* The owner's presses.                                                    *)

(* emptiedByPress: every item there is, and not left out, done or closed.  *)
Empties(its) ==
    LET there == {i \in Item : its[i].made /\ ~its[i].leftOut}
    IN  there # {} /\ \A i \in there : Settled(its[i])

(* A press lands: the items become `its`, the goal `g`, which may empty.   *)
Lands(its, g) ==
    /\ item' = its
    /\ goal' = [g EXCEPT !.emptied = @ \/ Empties(its)]
    /\ UNCHANGED <<live, included>>

LandsOn(i, m) == Lands([item EXCEPT ![i] = m], goal)

Gone(m) ==
    [m EXCEPT !.go = TRUE,
              !.phase = IF m.code /\ @ = NoPhase THEN "red" ELSE @]

PressGo(i) ==
    /\ "go" \in Press /\ OffersGo(i)
    /\ LandsOn(i, Gone(item[i]))
    /\ UNCHANGED blocks

(* go-all is offered while one item offers its own.                        *)
PressGoAll ==
    LET goable == {i \in Made : OffersGo(i)}
    IN  /\ "go-all" \in Press /\ goable # {} /\ ~goal.done /\ ~goal.closed
        /\ Lands([i \in Item |-> IF i \in goable THEN Gone(item[i]) ELSE item[i]], goal)
        /\ UNCHANGED blocks

(* Done is taken whether it is offered or not, and lets go of nothing.     *)
PressDone(i) ==
    /\ "done" \in Press
    /\ LandsOn(i, [item[i] EXCEPT !.done = TRUE])
    /\ UNCHANGED blocks

PressClose(i) ==
    /\ "close" \in Press /\ OffersClose(i)
    /\ LandsOn(i, [item[i] EXCEPT !.closed = TRUE])
    /\ blocks' = Repaired(i)

Reopened(m) ==
    [m EXCEPT !.done = FALSE, !.closed = FALSE, !.claims = {},
              !.design = TRUE, !.go = FALSE]

(* A deleted item comes back as any other, and stays left out.             *)
PressReopen(i) ==
    /\ "reopen" \in Press /\ OffersReopen(i)
    /\ item[i].leftOut => "deleted" \in Press
    /\ LandsOn(i, Reopened(item[i]))
    /\ UNCHANGED blocks

(* Any writer may bring a closed item back.                                *)
PressBringBack(i) ==
    /\ "bring-back" \in Press /\ item[i].closed
    /\ item[i].leftOut => "deleted" \in Press
    /\ LandsOn(i, [item[i] EXCEPT !.closed = FALSE])
    /\ UNCHANGED blocks

PressDesign(i, on) ==
    /\ "design" \in Press
    /\ LandsOn(i, [item[i] EXCEPT !.design = on])
    /\ UNCHANGED blocks

PressWaive(i) ==
    /\ "waive" \in Press
    /\ LandsOn(i, [item[i] EXCEPT !.waived = TRUE])
    /\ UNCHANGED blocks

(* Marked as code after its Go, an item starts its red.                    *)
PressCode(i) ==
    /\ "code" \in Press
    /\ LandsOn(i, [item[i] EXCEPT !.code = ~@,
                                  !.phase = IF ~item[i].code /\ item[i].go /\ @ = NoPhase
                                            THEN "red" ELSE @])
    /\ UNCHANGED blocks

GoalDesign(on) ==
    /\ "goal-design" \in Press
    /\ Lands(IF on THEN item
             ELSE [i \in Item |-> [item[i] EXCEPT !.design = FALSE]],
             [goal EXCEPT !.design = on])
    /\ UNCHANGED blocks

GoalDone == "goal" \in Press /\ Lands(item, [goal EXCEPT !.done = TRUE]) /\ UNCHANGED blocks

GoalClose ==
    /\ "goal" \in Press /\ ~goal.closed
    /\ Lands(item, [goal EXCEPT !.closed = TRUE])
    /\ UNCHANGED blocks

GoalReopen ==
    /\ "goal" \in Press
    /\ goal.closed \/ goal.done
    /\ Lands(item, [goal EXCEPT !.done = FALSE, !.closed = FALSE,
                                !.emptied = FALSE, !.design = TRUE])
    /\ UNCHANGED blocks

GoalAbandon ==
    /\ "goal" \in Press
    /\ Lands(item, [goal EXCEPT !.abandoned = TRUE])
    /\ UNCHANGED blocks

-----------------------------------------------------------------------------
(* The agents.  A write is an agent's sign of life, and an excluded agent  *)
(* writes nothing.                                                         *)

Writes(a) ==
    /\ a \in included
    /\ live' = live \cup {a}
    /\ UNCHANGED <<blocks, included>>

ItemTake(i, a) ==
    /\ Writes(a) /\ OneTask(a, i)
    /\ Becomes(i, [item[i] EXCEPT !.with = a])
    /\ UNCHANGED goal

ItemRelease(i, a) ==
    /\ Writes(a) /\ HoldsAny(item[i], a)
    /\ Becomes(i, Without(item[i], a))
    /\ UNCHANGED goal

Taken(m, p, a) ==
    [m EXCEPT !.with = a, !.phaseWith = a, !.verified = FALSE,
              !.phase = IF p = "red" THEN "red" ELSE @,
              !.red = IF p = "red" THEN a ELSE @,
              !.builder = IF p = "build" THEN a ELSE @,
              !.verifier = IF p = "verify" THEN a ELSE @]

(* What the item is when the take is judged: an ask that would be refused  *)
(* waives first, when its agent is alone.                                  *)
Asked(i, p, a) ==
    IF Refused(i, p, a) THEN WaivedIfAlone(item[i], a) ELSE item[i]

Passes(i, p, a) ==
    /\ InWork(i)
    /\ Asked(i, p, a).phaseWith = NoOne
    /\ Fits(Asked(i, p, a), p, a)

PhaseTake(i, p, a) ==
    /\ Passes(i, p, a) /\ OneTask(a, i) /\ Writes(a)
    /\ Becomes(i, Taken(Asked(i, p, a), p, a))
    /\ UNCHANGED goal

(* The take is refused and the waive stands: the desk wrote it, so even an *)
(* agent that may not write comes here, and no sign of life is kept.  A    *)
(* refusal that waives nothing is no step.                                 *)
PhaseAsked(i, p, a) ==
    /\ live = {a} /\ ~item[i].waived
    /\ ~(Passes(i, p, a) /\ OneTask(a, i) /\ a \in included)
    /\ Becomes(i, Asked(i, p, a))
    /\ UNCHANGED <<goal, blocks, live, included>>

(* A finished phase: nobody holds the next one yet, and a verify that did  *)
(* not pass goes back to the build.                                        *)
Finished(m, pass) ==
    [LetGo(m) EXCEPT !.phase = CASE m.phase = "red" -> "build"
                                 [] m.phase = "build" -> "verify"
                                 [] m.phase = "verify" /\ pass -> NoPhase
                                 [] OTHER -> "build",
                     !.verified = @ \/ (m.phase = "verify" /\ pass)]

(* waiveIfAlone follows the write, so its caller is live by then.          *)
PhaseDone(i, a, pass) ==
    LET m == Finished(item[i], pass)
    IN  /\ Writes(a)
        /\ item[i].code /\ item[i].phaseWith = a /\ item[i].phase # NoPhase
        /\ item[i].phase = "red" => item[i].redClaimed
        /\ Becomes(i, IF ~Settled(m) /\ live \subseteq {a}
                      THEN [m EXCEPT !.waived = TRUE] ELSE m)
        /\ UNCHANGED goal

(* A claim ends its phase, whoever holds it.                               *)
Ended(m, p, next) ==
    IF m.code /\ m.phase = p THEN [LetGo(m) EXCEPT !.phase = next] ELSE m

RedClaim(i, a) ==
    /\ Writes(a) /\ item[i].code /\ item[i].go
    /\ Becomes(i, Ended([item[i] EXCEPT !.redClaimed = TRUE], "red", "build"))
    /\ UNCHANGED goal

WithClaim(i, a) == [item[i] EXCEPT !.claims = @ \cup {a}]

Claims(i, a, m) ==
    /\ item[i].go /\ Writes(a)
    /\ Becomes(i, m)
    /\ goal' = [goal EXCEPT !.emptied = @ \/ Empties([item EXCEPT ![i] = m])]

BuildClaim(i, a) == Claims(i, a, Ended(WithClaim(i, a), "build", "verify"))

(* The press claim-done, which carries no commit and ends no phase.        *)
PressClaimDone(i, a) == Claims(i, a, WithClaim(i, a))

(* The first word or line of chat of an agent that was not heard lately.   *)
Speak(a) == a \notin live /\ Writes(a) /\ UNCHANGED <<goal, item>>

(* Leaving frees the phases it holds, with the item they are of; an item   *)
(* it only took stays with it.                                             *)
Signoff(a) ==
    /\ a \in included
    /\ live' = live \ {a}
    /\ item' = [i \in Item |-> IF item[i].phaseWith = a THEN Without(item[i], a) ELSE item[i]]
    /\ UNCHANGED <<goal, blocks, included>>

(* Mutant: exclusion frees phases, as leaving does.                        *)
ExcludePhases(a) ==
    /\ included' = included \ {a}
    /\ item' = [i \in Item |-> IF item[i].phaseWith = a THEN Without(item[i], a) ELSE item[i]]
    /\ UNCHANGED <<goal, blocks, live>>

(* profile.set with included off lets go of all the agent holds.           *)
Exclude(a) ==
    /\ included' = included \ {a}
    /\ item' = [i \in Item |-> Without(item[i], a)]
    /\ UNCHANGED <<goal, blocks, live>>

Include(a) ==
    /\ a \notin included
    /\ included' = included \cup {a}
    /\ UNCHANGED <<goal, item, blocks, live>>

FallsSilent(a) ==
    /\ a \in live
    /\ live' = live \ {a}
    /\ UNCHANGED <<goal, item, blocks, included>>

-----------------------------------------------------------------------------
OwnerNext(i) ==
    \/ ItemDelete(i)
    \/ PressGo(i) \/ PressDone(i) \/ PressClose(i) \/ PressReopen(i)
    \/ PressBringBack(i) \/ PressWaive(i) \/ PressCode(i)
    \/ \E on \in BOOLEAN : PressDesign(i, on)

GoalNext ==
    \/ PressGoAll \/ GoalDone \/ GoalClose \/ GoalReopen \/ GoalAbandon
    \/ \E on \in BOOLEAN : GoalDesign(on)

WorkNext(i, a) ==
    \/ ItemTake(i, a) \/ ItemRelease(i, a)
    \/ RedClaim(i, a) \/ BuildClaim(i, a) \/ PressClaimDone(i, a)
    \/ \E p \in Phase : PhaseTake(i, p, a) \/ PhaseAsked(i, p, a)
    \/ \E pass \in BOOLEAN : PhaseDone(i, a, pass)

AgentNext(a) == Speak(a) \/ Signoff(a) \/ Exclude(a) \/ Include(a) \/ FallsSilent(a)

Next ==
    \/ \E i \in Item, b \in Item \cup {NoItem} : ItemAdd(i, b)
    \/ \E a, b \in Made : Block(a, b) \/ Unblock(a, b)
    \/ \E i \in Made : OwnerNext(i)
    \/ GoalNext
    \/ \E i \in Made, a \in Agent : WorkNext(i, a)
    \/ \E a \in Agent : AgentNext(a)

DeskSpec == Init /\ [][Next]_deskVars
-----------------------------------------------------------------------------
(* Properties.                                                             *)

TypeOK ==
    /\ goal \in Goal
    /\ item \in [Item -> ItemRecord]
    /\ blocks \in [Item -> SUBSET Item]
    /\ live \subseteq Agent
    /\ included \subseteq Agent

(* No item waits for itself: however items are added, blocked, unblocked,  *)
(* closed, deleted, reopened and brought back, along what is blocked none  *)
(* that is still there comes back to itself, so some open item is free     *)
(* (desk.js, blockWhy and repairBlocks).                                   *)
NothingGoesRound ==
    \A i \in Item : ~item[i].leftOut => ~Reaches(i, i)

(* When an item leaves, what came before what stays so among the others    *)
(* (desk.js, repairBlocks).                                                *)
OrderSurvives ==
    [][ (\E i \in Item : item'[i].closed /\ ~item[i].closed)
        => \A a, b \in Item :
              /\ a # b
              /\ \A i \in {a, b} : ~item'[i].closed /\ ~item'[i].leftOut
              /\ Reaches(a, b)
              => Reaches(a, b)'
      ]_deskVars

Apart(m) ==
    m.waived \/ /\ m.red = m.builder => m.red = NoOne
                /\ m.phase = "verify" /\ m.phaseWith # NoOne => m.phaseWith # m.builder

(* As long as one agent was not allowed all phases, who wrote the red does *)
(* not hold the build and who built does not hold the verify, over any     *)
(* number of rounds, claims by others, reopenings and changes of code      *)
(* (desk.js, mayTake and what moves the phase on).                         *)
DutiesApart == \A i \in Item : Apart(item[i])

OnRecord(m) ==
    m.phaseWith # NoOne =>
        \/ m.phase = "red" /\ m.phaseWith = m.red
        \/ m.phase = "build" /\ m.phaseWith = m.builder
        \/ m.phase = "verify" /\ m.phaseWith = m.verifier

(* Types; who holds a phase is the agent on record for it, and an agent    *)
(* that the owner excluded holds nothing (desk.js, releaseKey).            *)
HoldersStand ==
    /\ TypeOK
    /\ \A i \in Item : /\ OnRecord(item[i])
                       /\ {item[i].with, item[i].phaseWith} \subseteq included \cup {NoOne}

(* Work that nobody holds can go on: one of the agents may take its phase, *)
(* or will be waived through because it is alone, or the owner is offered  *)
(* the waive (desk.js, mayTake, waiveIfAlone and the waive button).        *)
SomebodyCanGoOn ==
    \A i \in Made :
        InWork(i) /\ item[i].phaseWith = NoOne /\ included # {}
        /\ (Cardinality(included) = 1 => live = included)
        => \/ OffersWaive(i)
           \/ \E a \in included, p \in Phase : Passes(i, p, a)

(* desk.js:1000, heldBy: "do not let an agent hold a second task again".   *)
(* A task that was done, closed or claimed is not held; reopened, it is    *)
(* held again by whoever was with it.                                      *)
HoldsOneTask == \A a \in Agent : Cardinality(HeldBy(a)) <= 1
=============================================================================
