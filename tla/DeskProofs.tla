----------------------------- MODULE DeskProofs -----------------------------
(* Proofs about the desk: duties stay apart, holders stand, work can go    *)
(* on, and closing keeps the order of what is left.  The first two are one *)
(* invariant of each item's record; every action turns records into        *)
(* records by one of the operators below.                                  *)
EXTENDS Desk, FiniteSetTheorems, TLAPS

USE DeskAssumption

Sound(m, inc) ==
    /\ m \in ItemRecord
    /\ Apart(m)
    /\ OnRecord(m)
    /\ {m.with, m.phaseWith} \subseteq inc \cup {NoOne}

(* The inductive invariant.                                                *)
IInv ==
    /\ goal \in Goal
    /\ item \in [Item -> ItemRecord]
    /\ \A i \in Item : Sound(item[i], included)
    /\ blocks \in [Item -> SUBSET Item]
    /\ live \subseteq Agent
    /\ included \subseteq Agent

(* A new item, and one that the owner's presses touched.                   *)
LEMMA NewIsSound ==
    ASSUME NEW inc
    PROVE  /\ Sound(Blank, inc)
           /\ Sound([Blank EXCEPT !.made = TRUE, !.design = TRUE, !.code = TRUE], inc)
BY DEF Sound, Blank, ItemRecord, Apart, OnRecord, Phase, NoPhase, Holder

LEMMA FlagsKeep ==
    ASSUME NEW inc, NEW m, Sound(m, inc), NEW on \in BOOLEAN
    PROVE  /\ Sound([m EXCEPT !.done = TRUE], inc)
           /\ Sound([m EXCEPT !.closed = on], inc)
           /\ Sound([m EXCEPT !.closed = TRUE, !.leftOut = TRUE], inc)
           /\ Sound([m EXCEPT !.design = on], inc)
           /\ Sound([m EXCEPT !.waived = TRUE], inc)
           /\ Sound(Reopened(m), inc)
<1>1. Sound([m EXCEPT !.done = TRUE], inc)
  BY DEF Sound, ItemRecord, Apart, OnRecord
<1>2. Sound([m EXCEPT !.closed = on], inc)
  BY DEF Sound, ItemRecord, Apart, OnRecord
<1>3. Sound([m EXCEPT !.closed = TRUE, !.leftOut = TRUE], inc)
  BY DEF Sound, ItemRecord, Apart, OnRecord
<1>4. Sound([m EXCEPT !.design = on], inc)
  BY DEF Sound, ItemRecord, Apart, OnRecord
<1>5. Sound([m EXCEPT !.waived = TRUE], inc)
  BY DEF Sound, ItemRecord, Apart, OnRecord
<1>6. Sound(Reopened(m), inc)
  BY ZenonT(60) DEF Sound, ItemRecord, Apart, OnRecord, Reopened
<1> QED
  BY <1>1, <1>2, <1>3, <1>4, <1>5, <1>6

LEMMA PhaseStarts ==
    ASSUME NEW inc, NEW m, Sound(m, inc)
    PROVE  /\ Sound(Gone(m), inc)
           /\ Sound([m EXCEPT !.code = ~@,
                              !.phase = IF ~m.code /\ m.go /\ @ = NoPhase
                                        THEN "red" ELSE @], inc)
<1> DEFINE n == [m EXCEPT !.code = ~@,
                          !.phase = IF ~m.code /\ m.go /\ @ = NoPhase
                                    THEN "red" ELSE @]
<1>1. Gone(m) \in ItemRecord
  BY DEF Sound, ItemRecord, Gone, Phase
<1>2. Apart(Gone(m)) /\ OnRecord(Gone(m))
  BY DEF Sound, ItemRecord, Gone, Apart, OnRecord, Phase, NoPhase
<1>3. Gone(m).with = m.with /\ Gone(m).phaseWith = m.phaseWith
  BY DEF Sound, ItemRecord, Gone
<1>4. n \in ItemRecord
  <2>1. ASSUME NEW c \in BOOLEAN, NEW ph \in Phase \cup {NoPhase}
        PROVE  [m EXCEPT !.code = c, !.phase = ph] \in ItemRecord
    BY DEF Sound, ItemRecord
  <2>2. m.phase \in Phase \cup {NoPhase} /\ "red" \in Phase
    BY DEF Sound, ItemRecord, Phase
  <2> QED
    BY <2>1, <2>2
<1>5. Apart(n) /\ OnRecord(n)
  BY DEF Sound, ItemRecord, Apart, OnRecord, Phase, NoPhase
<1>6. n.with = m.with /\ n.phaseWith = m.phaseWith
  BY DEF Sound, ItemRecord
<1> QED
  BY <1>1, <1>2, <1>3, <1>4, <1>5, <1>6 DEF Sound

(* Giving up: one agent's holds, or the whole item while a phase moves on. *)
LEMMA WithoutKeeps ==
    ASSUME NEW inc, NEW m, Sound(m, inc), NEW a
    PROVE  /\ Sound(Without(m, a), inc)
           /\ Sound(Without(m, a), inc \ {a})
<1>1. Without(m, a) \in ItemRecord
  <2>1. ASSUME NEW w \in Holder, NEW q \in Holder
        PROVE  [m EXCEPT !.with = w, !.phaseWith = q] \in ItemRecord
    BY DEF Sound, ItemRecord
  <2>2. {m.with, m.phaseWith, NoOne} \subseteq Holder
    BY DEF Sound, ItemRecord, Holder
  <2> QED
    BY <2>1, <2>2 DEF Without
<1>2. Apart(Without(m, a)) /\ OnRecord(Without(m, a))
  BY DEF Sound, ItemRecord, Without, Apart, OnRecord
<1>3. LET n == Without(m, a) IN {n.with, n.phaseWith} \subseteq (inc \ {a}) \cup {NoOne}
  BY DEF Sound, ItemRecord, Without
<1> QED
  BY <1>1, <1>2, <1>3 DEF Sound

LEMMA EndedKeeps ==
    ASSUME NEW inc, NEW m, Sound(m, inc), NEW p \in Phase, NEW next \in Phase
    PROVE  Sound(Ended(m, p, next), inc)
<1> DEFINE n == [LetGo(m) EXCEPT !.phase = next]
<1>1. n \in ItemRecord /\ n.with = NoOne /\ n.phaseWith = NoOne
  BY DEF Sound, ItemRecord, LetGo, Holder
<1>2. n.waived = m.waived /\ n.red = m.red /\ n.builder = m.builder
  BY DEF Sound, ItemRecord, LetGo
<1>3. Sound(n, inc)
  BY <1>1, <1>2 DEF Sound, Apart, OnRecord
<1> QED
  BY <1>3 DEF Ended

LEMMA FinishedKeeps ==
    ASSUME NEW inc, NEW m, Sound(m, inc), NEW pass \in BOOLEAN
    PROVE  Sound(Finished(m, pass), inc)
<1>1. Finished(m, pass) \in ItemRecord
  BY ZenonT(60) DEF Sound, ItemRecord, Finished, LetGo, Phase, NoPhase, Holder
<1>2. /\ Apart(Finished(m, pass))
      /\ OnRecord(Finished(m, pass))
      /\ Finished(m, pass).with = NoOne
      /\ Finished(m, pass).phaseWith = NoOne
  BY DEF Sound, ItemRecord, Finished, LetGo, Apart, OnRecord
<1> QED
  BY <1>1, <1>2 DEF Sound

LEMMA ClaimKeeps ==
    ASSUME NEW inc, NEW m, Sound(m, inc), NEW a \in Agent
    PROVE  /\ Sound([m EXCEPT !.redClaimed = TRUE], inc)
           /\ Sound([m EXCEPT !.claims = @ \cup {a}], inc)
<1>1. Sound([m EXCEPT !.redClaimed = TRUE], inc)
  BY DEF Sound, ItemRecord, Apart, OnRecord
<1>2. Sound([m EXCEPT !.claims = @ \cup {a}], inc)
  BY DEF Sound, ItemRecord, Apart, OnRecord
<1> QED
  BY <1>1, <1>2

(* Taking: the item alone, and a phase that fits its taker.                *)
LEMMA ItemTakeKeeps ==
    ASSUME NEW inc, NEW m, Sound(m, inc), NEW a \in Agent, a \in inc
    PROVE  Sound([m EXCEPT !.with = a], inc)
BY DEF Sound, ItemRecord, Apart, OnRecord, Holder

LEMMA TakenKeeps ==
    ASSUME NEW inc, NEW m, Sound(m, inc), NEW a \in Agent, a \in inc,
           NEW p \in Phase, Fits(m, p, a)
    PROVE  Sound(Taken(m, p, a), inc)
<1>1. Taken(m, p, a) \in ItemRecord
  <2>1. ASSUME NEW ph \in Phase \cup {NoPhase},
               NEW r \in Holder, NEW b \in Holder, NEW v \in Holder
        PROVE  [m EXCEPT !.with = a, !.phaseWith = a, !.verified = FALSE,
                         !.phase = ph, !.red = r, !.builder = b, !.verifier = v]
               \in ItemRecord
    BY ZenonT(60) DEF Sound, ItemRecord, Holder
  <2>2. /\ m.phase \in Phase \cup {NoPhase}
        /\ m.red \in Holder /\ m.builder \in Holder /\ m.verifier \in Holder
        /\ a \in Holder /\ "red" \in Phase
    BY DEF Sound, ItemRecord, Holder, Phase
  <2>3. /\ (IF p = "red" THEN "red" ELSE m.phase) \in Phase \cup {NoPhase}
        /\ (IF p = "red" THEN a ELSE m.red) \in Holder
        /\ (IF p = "build" THEN a ELSE m.builder) \in Holder
        /\ (IF p = "verify" THEN a ELSE m.verifier) \in Holder
    BY <2>2
  <2> QED
    BY <2>1, <2>3 DEF Taken
<1>2. Apart(Taken(m, p, a))
  <2>1. CASE p = "red"
    BY <2>1 DEF Sound, ItemRecord, Taken, Holder, Apart, Fits, Phase
  <2>2. CASE p = "build"
    BY <2>2 DEF Sound, ItemRecord, Taken, Holder, Apart, Fits, Phase
  <2>3. CASE p = "verify"
    BY <2>3 DEF Sound, ItemRecord, Taken, Holder, Apart, Fits, Phase
  <2> QED
    BY <2>1, <2>2, <2>3 DEF Phase
<1>3. /\ OnRecord(Taken(m, p, a))
      /\ Taken(m, p, a).with = a
      /\ Taken(m, p, a).phaseWith = a
  BY DEF Sound, ItemRecord, Taken, OnRecord, Fits, Phase
<1> QED
  BY <1>1, <1>2, <1>3 DEF Sound

LEMMA WaivedKeeps ==
    ASSUME NEW inc, NEW m, Sound(m, inc), NEW a
    PROVE  Sound(WaivedIfAlone(m, a), inc)
BY FlagsKeep DEF WaivedIfAlone

-----------------------------------------------------------------------------
LEMMA InitHolds == Init => IInv
BY NewIsSound DEF Init, IInv, Goal, Sound

(* One item replaced by a sound record, by a step of one agent.            *)
LEMMA BecomesKeeps ==
    ASSUME IInv, NEW i \in Item, NEW m, Sound(m, included), Becomes(i, m)
    PROVE  /\ item' \in [Item -> ItemRecord]
           /\ \A j \in Item : Sound(item'[j], included)
BY DEF IInv, Becomes, Sound

LEMMA LandsKeeps ==
    ASSUME IInv, NEW its, NEW g, Lands(its, g), g \in Goal,
           its \in [Item -> ItemRecord], \A i \in Item : Sound(its[i], included),
           blocks' \in [Item -> SUBSET Item]
    PROVE  IInv'
<1>1. goal' \in Goal
  BY DEF Lands, Goal, Empties
<1> QED
  BY <1>1 DEF IInv, Lands, Sound

LEMMA LandsOnKeeps ==
    ASSUME IInv, NEW i \in Item, NEW m, LandsOn(i, m), Sound(m, included),
           blocks' \in [Item -> SUBSET Item]
    PROVE  IInv'
<1> DEFINE its == [item EXCEPT ![i] = m]
<1>1. its \in [Item -> ItemRecord] /\ \A j \in Item : Sound(its[j], included)
  BY DEF IInv, Sound
<1>2. Lands(its, goal) /\ goal \in Goal
  BY DEF LandsOn, IInv
<1> HIDE DEF its
<1> QED
  BY <1>1, <1>2, LandsKeeps

LEMMA RepairedKeeps ==
    ASSUME IInv, NEW i \in Item
    PROVE  Repaired(i) \in [Item -> SUBSET Item]
BY DEF IInv, Repaired
-----------------------------------------------------------------------------
(* The steps: what changes items and blocks, the owner's presses, the      *)
(* goal's, an agent at an item, an agent by itself.                        *)
LEMMA ItemsStep ==
    ASSUME IInv
    PROVE  /\ \A i \in Item, b \in Item \cup {NoItem} : ItemAdd(i, b) => IInv'
           /\ \A i, j \in Item : Block(i, j) \/ Unblock(i, j) => IInv'
           /\ \A i \in Item : ItemDelete(i) => IInv'
<1>1. ASSUME NEW i \in Item, NEW b \in Item \cup {NoItem}, ItemAdd(i, b)
      PROVE  IInv'
  <2>1. /\ item' \in [Item -> ItemRecord]
        /\ \A j \in Item : Sound(item'[j], included)
    BY <1>1, NewIsSound, BecomesKeeps DEF ItemAdd
  <2>2. blocks' \in [Item -> SUBSET Item]
    BY <1>1 DEF ItemAdd, IInv
  <2> QED
    BY <1>1, <2>1, <2>2 DEF ItemAdd, IInv
<1>2. ASSUME NEW i \in Item, NEW j \in Item, Block(i, j) \/ Unblock(i, j)
      PROVE  IInv'
  BY <1>2 DEF Block, Unblock, IInv
<1>3. ASSUME NEW i \in Item, ItemDelete(i)
      PROVE  IInv'
  <2>1. Sound([item[i] EXCEPT !.closed = TRUE, !.leftOut = TRUE], included)
    BY FlagsKeep DEF IInv
  <2>2. /\ item' \in [Item -> ItemRecord]
        /\ \A j \in Item : Sound(item'[j], included)
    BY <1>3, <2>1, BecomesKeeps DEF ItemDelete
  <2> QED
    BY <1>3, <2>2, RepairedKeeps DEF ItemDelete, IInv
<1> QED
  BY <1>1, <1>2, <1>3

LEMMA OwnerStep ==
    ASSUME IInv, NEW i \in Item, OwnerNext(i)
    PROVE  IInv'
<1>1. Sound(item[i], included) /\ blocks \in [Item -> SUBSET Item]
  BY DEF IInv
<1>2. CASE ItemDelete(i)
  BY <1>2, ItemsStep
<1>3. CASE PressGo(i)
  <2>1. Sound(Gone(item[i]), included)
    BY <1>1, PhaseStarts
  <2> QED
    BY <1>1, <1>3, <2>1, LandsOnKeeps DEF PressGo
<1>4. CASE PressDone(i)
  <2>1. Sound([item[i] EXCEPT !.done = TRUE], included)
    BY <1>1, FlagsKeep
  <2> QED
    BY <1>1, <1>4, <2>1, LandsOnKeeps DEF PressDone
<1>5. CASE PressClose(i)
  <2>1. Sound([item[i] EXCEPT !.closed = TRUE], included)
    BY <1>1, FlagsKeep
  <2> QED
    BY <1>5, <2>1, RepairedKeeps, LandsOnKeeps DEF PressClose
<1>6. CASE PressReopen(i)
  <2>1. Sound(Reopened(item[i]), included)
    BY <1>1, FlagsKeep
  <2> QED
    BY <1>1, <1>6, <2>1, LandsOnKeeps DEF PressReopen
<1>7. CASE PressBringBack(i)
  <2>1. Sound([item[i] EXCEPT !.closed = FALSE], included)
    BY <1>1, FlagsKeep
  <2> QED
    BY <1>1, <1>7, <2>1, LandsOnKeeps DEF PressBringBack
<1>8. CASE PressWaive(i)
  <2>1. Sound([item[i] EXCEPT !.waived = TRUE], included)
    BY <1>1, FlagsKeep
  <2> QED
    BY <1>1, <1>8, <2>1, LandsOnKeeps DEF PressWaive
<1>9. CASE PressCode(i)
  <2> DEFINE n == [item[i] EXCEPT !.code = ~@,
                                  !.phase = IF ~item[i].code /\ item[i].go /\ @ = NoPhase
                                            THEN "red" ELSE @]
  <2>1. Sound(n, included)
    BY <1>1, PhaseStarts
  <2>2. LandsOn(i, n) /\ blocks' = blocks
    BY <1>9 DEF PressCode
  <2> HIDE DEF n
  <2> QED
    BY <1>1, <2>1, <2>2, LandsOnKeeps
<1>10. CASE \E on \in BOOLEAN : PressDesign(i, on)
  <2>1. PICK on \in BOOLEAN : PressDesign(i, on)
    BY <1>10
  <2>2. Sound([item[i] EXCEPT !.design = on], included)
    BY <1>1, FlagsKeep
  <2> QED
    BY <1>1, <2>1, <2>2, LandsOnKeeps DEF PressDesign
<1> QED
  BY <1>2, <1>3, <1>4, <1>5, <1>6, <1>7, <1>8, <1>9, <1>10 DEF OwnerNext

LEMMA GoalStep ==
    ASSUME IInv, GoalNext
    PROVE  IInv'
<1>1. /\ goal \in Goal
      /\ item \in [Item -> ItemRecord]
      /\ \A i \in Item : Sound(item[i], included)
      /\ blocks \in [Item -> SUBSET Item]
  BY DEF IInv
<1>2. CASE PressGoAll
  <2> DEFINE its == [i \in Item |-> IF i \in {j \in Made : OffersGo(j)}
                                   THEN Gone(item[i]) ELSE item[i]]
  <2>1. \A i \in Item : Sound(its[i], included)
    BY <1>1, PhaseStarts
  <2>2. its \in [Item -> ItemRecord]
    BY <2>1 DEF Sound
  <2>3. Lands(its, goal) /\ blocks' = blocks
    BY <1>2 DEF PressGoAll
  <2> HIDE DEF its
  <2> QED
    BY <1>1, <2>1, <2>2, <2>3, LandsKeeps
<1>3. ASSUME NEW g \in Goal, Lands(item, g), blocks' = blocks
      PROVE  IInv'
  BY <1>1, <1>3, LandsKeeps
<1>4. CASE GoalDone
  BY <1>1, <1>3, <1>4 DEF GoalDone, Goal
<1>5. CASE GoalClose
  BY <1>1, <1>3, <1>5 DEF GoalClose, Goal
<1>6. CASE GoalReopen
  BY <1>1, <1>3, <1>6 DEF GoalReopen, Goal
<1>7. CASE GoalAbandon
  BY <1>1, <1>3, <1>7 DEF GoalAbandon, Goal
<1>8. CASE \E on \in BOOLEAN : GoalDesign(on)
  <2>1. PICK on \in BOOLEAN : GoalDesign(on)
    BY <1>8
  <2> DEFINE its == IF on THEN item
                    ELSE [i \in Item |-> [item[i] EXCEPT !.design = FALSE]]
             g == [goal EXCEPT !.design = on]
  <2>2. \A i \in Item : Sound([item[i] EXCEPT !.design = FALSE], included)
    BY <1>1, FlagsKeep
  <2>3. \A i \in Item : Sound(its[i], included)
    BY <1>1, <2>2
  <2>4. its \in [Item -> ItemRecord]
    BY <1>1, <2>2 DEF Sound
  <2>5. g \in Goal
    BY <1>1 DEF Goal
  <2>6. Lands(its, g) /\ blocks' = blocks
    BY <2>1 DEF GoalDesign
  <2> HIDE DEF its, g
  <2> QED
    BY <1>1, <2>3, <2>4, <2>5, <2>6, LandsKeeps
<1> QED
  BY <1>2, <1>4, <1>5, <1>6, <1>7, <1>8 DEF GoalNext

(* A writer's step on one item.                                            *)
LEMMA WriterKeeps ==
    ASSUME IInv, NEW i \in Item, NEW a \in Agent, NEW m,
           Becomes(i, m), Sound(m, included), Writes(a), goal' \in Goal
    PROVE  IInv'
BY BecomesKeeps DEF Writes, IInv

LEMMA ClaimsStep ==
    ASSUME IInv, NEW i \in Item, NEW a \in Agent
    PROVE  RedClaim(i, a) \/ BuildClaim(i, a) \/ PressClaimDone(i, a) => IInv'
<1>1. Sound(item[i], included) /\ goal \in Goal
  BY DEF IInv
<1>2. CASE RedClaim(i, a)
  <2>1. Sound([item[i] EXCEPT !.redClaimed = TRUE], included)
    BY <1>1, ClaimKeeps
  <2>2. Sound(Ended([item[i] EXCEPT !.redClaimed = TRUE], "red", "build"), included)
    BY <2>1, EndedKeeps DEF Phase
  <2> QED
    BY <1>1, <1>2, <2>2, WriterKeeps DEF RedClaim
<1>3. ASSUME NEW m, Claims(i, a, m), Sound(m, included)
      PROVE  IInv'
  <2>1. goal' \in Goal
    BY <1>1, <1>3 DEF Claims, Goal, Empties
  <2> QED
    BY <1>3, <2>1, WriterKeeps DEF Claims
<1>4. Sound(WithClaim(i, a), included)
  BY <1>1, ClaimKeeps DEF WithClaim
<1>5. Sound(Ended(WithClaim(i, a), "build", "verify"), included)
  BY <1>4, EndedKeeps DEF Phase
<1> QED
  BY <1>2, <1>3, <1>4, <1>5 DEF BuildClaim, PressClaimDone

LEMMA PhasesStep ==
    ASSUME IInv, NEW i \in Item, NEW a \in Agent, NEW p \in Phase
    PROVE  /\ PhaseTake(i, p, a) \/ PhaseAsked(i, p, a) => IInv'
           /\ \A pass \in BOOLEAN : PhaseDone(i, a, pass) => IInv'
<1>1. Sound(item[i], included) /\ goal \in Goal
  BY DEF IInv
<1>2. Sound(Asked(i, p, a), included)
  BY <1>1, WaivedKeeps DEF Asked
<1>3. CASE PhaseTake(i, p, a)
  <2>1. Sound(Taken(Asked(i, p, a), p, a), included)
    BY <1>2, <1>3, TakenKeeps DEF PhaseTake, Passes, Writes
  <2> QED
    BY <1>1, <1>3, <2>1, WriterKeeps DEF PhaseTake
<1>4. CASE PhaseAsked(i, p, a)
  <2>1. /\ item' \in [Item -> ItemRecord]
        /\ \A j \in Item : Sound(item'[j], included)
    BY <1>2, <1>4, BecomesKeeps DEF PhaseAsked
  <2> QED
    BY <1>4, <2>1 DEF PhaseAsked, IInv
<1>5. ASSUME NEW pass \in BOOLEAN, PhaseDone(i, a, pass)
      PROVE  IInv'
  <2>1. Sound(Finished(item[i], pass), included)
    BY <1>1, FinishedKeeps
  <2>2. Sound([Finished(item[i], pass) EXCEPT !.waived = TRUE], included)
    BY <2>1, FlagsKeep
  <2>3. PICK m : Sound(m, included) /\ Becomes(i, m)
    BY <1>5, <2>1, <2>2 DEF PhaseDone
  <2> QED
    BY <1>1, <1>5, <2>3, WriterKeeps DEF PhaseDone
<1> QED
  BY <1>3, <1>4, <1>5

LEMMA WorkStep ==
    ASSUME IInv, NEW i \in Item, NEW a \in Agent, WorkNext(i, a)
    PROVE  IInv'
<1>1. Sound(item[i], included) /\ goal \in Goal
  BY DEF IInv
<1>2. CASE ItemTake(i, a)
  <2>1. Sound([item[i] EXCEPT !.with = a], included)
    BY <1>1, <1>2, ItemTakeKeeps DEF ItemTake, Writes
  <2> QED
    BY <1>1, <1>2, <2>1, WriterKeeps DEF ItemTake
<1>3. CASE ItemRelease(i, a)
  <2>1. Sound(Without(item[i], a), included)
    BY <1>1, WithoutKeeps
  <2> QED
    BY <1>1, <1>3, <2>1, WriterKeeps DEF ItemRelease
<1>4. CASE RedClaim(i, a) \/ BuildClaim(i, a) \/ PressClaimDone(i, a)
  BY <1>4, ClaimsStep
<1>5. CASE \E p \in Phase : PhaseTake(i, p, a) \/ PhaseAsked(i, p, a)
  BY <1>5, PhasesStep
<1>6. CASE \E pass \in BOOLEAN : PhaseDone(i, a, pass)
  BY <1>6, PhasesStep DEF Phase
<1> QED
  BY <1>2, <1>3, <1>4, <1>5, <1>6 DEF WorkNext

LEMMA AgentStep ==
    ASSUME IInv, NEW a \in Agent, AgentNext(a)
    PROVE  IInv'
<1>1. \A i \in Item : /\ Sound(item[i], included)
                      /\ Sound(Without(item[i], a), included)
                      /\ Sound(Without(item[i], a), included \ {a})
  BY WithoutKeeps DEF IInv
<1>2. CASE Speak(a)
  BY <1>2 DEF Speak, Writes, IInv
<1>3. CASE Signoff(a)
  <2>1. \A i \in Item : Sound(item'[i], included)
    BY <1>1, <1>3 DEF Signoff
  <2>2. item' \in [Item -> ItemRecord]
    BY <1>1, <1>3 DEF Signoff, Sound
  <2> QED
    BY <1>3, <2>1, <2>2 DEF Signoff, IInv
<1>4. CASE Exclude(a)
  <2>1. \A i \in Item : Sound(item'[i], included')
    BY <1>1, <1>4 DEF Exclude
  <2>2. item' \in [Item -> ItemRecord]
    BY <1>1, <1>4 DEF Exclude, Sound
  <2> QED
    BY <1>4, <2>1, <2>2 DEF Exclude, IInv
<1>5. CASE Include(a)
  BY <1>5 DEF Include, IInv, Sound
<1>6. CASE FallsSilent(a)
  BY <1>6 DEF FallsSilent, IInv
<1> QED
  BY <1>2, <1>3, <1>4, <1>5, <1>6 DEF AgentNext

LEMMA StepHolds == IInv /\ [Next]_deskVars => IInv'
<1> SUFFICES ASSUME IInv, [Next]_deskVars
             PROVE  IInv'
  OBVIOUS
<1>1. Made \subseteq Item
  BY DEF Made
<1>2. CASE \E i \in Item, b \in Item \cup {NoItem} : ItemAdd(i, b)
  BY <1>2, ItemsStep
<1>3. CASE \E i, j \in Made : Block(i, j) \/ Unblock(i, j)
  BY <1>1, <1>3, ItemsStep
<1>4. CASE \E i \in Made : OwnerNext(i)
  BY <1>1, <1>4, OwnerStep
<1>5. CASE GoalNext
  BY <1>5, GoalStep
<1>6. CASE \E i \in Made, a \in Agent : WorkNext(i, a)
  BY <1>1, <1>6, WorkStep
<1>7. CASE \E a \in Agent : AgentNext(a)
  BY <1>7, AgentStep
<1>8. CASE UNCHANGED deskVars
  BY <1>8 DEF deskVars, IInv
<1> QED
  BY <1>2, <1>3, <1>4, <1>5, <1>6, <1>7, <1>8 DEF Next

LEMMA AlwaysIInv == DeskSpec => []IInv
BY InitHolds, StepHolds, PTL DEF DeskSpec

(* As long as one agent was not allowed all phases, who wrote the red does *)
(* not hold the build and who built does not hold the verify (desk.js,     *)
(* mayTake and what moves the phase on).                                   *)
THEOREM DutiesStayApart == DeskSpec => []DutiesApart
<1>1. IInv => DutiesApart
  BY DEF IInv, Sound, DutiesApart
<1> QED
  BY <1>1, AlwaysIInv, PTL

(* The desk is well typed; who holds a phase is on record for it, and an   *)
(* excluded agent holds nothing (desk.js, releaseKey).                     *)
THEOREM HoldersAlwaysStand == DeskSpec => []HoldersStand
<1>1. IInv => HoldersStand
  BY DEF IInv, Sound, HoldersStand, TypeOK
<1> QED
  BY <1>1, AlwaysIInv, PTL

-----------------------------------------------------------------------------
(* One who was waived through may take whatever phase is next, and one who *)
(* did not build may take all but the build.                               *)
LEMMA WhoFits ==
    ASSUME NEW m \in ItemRecord, NEW a \in Agent,
           m.waived \/ (m.phase # "build" /\ a # m.builder)
    PROVE  \E p \in Phase : Fits(m, p, a)
<1>1. m.phase \in {"red", "build", "verify", NoPhase}
  BY DEF ItemRecord, Phase
<1>2. CASE m.phase \in {"red", NoPhase}
  <2>1. Fits(m, "red", a)
    BY <1>2 DEF Fits, NoPhase
  <2> QED
    BY <2>1 DEF Phase
<1>3. CASE m.phase = "build"
  <2>1. Fits(m, "build", a)
    BY <1>3 DEF Fits
  <2> QED
    BY <2>1 DEF Phase
<1>4. CASE m.phase = "verify"
  <2>1. Fits(m, "verify", a)
    BY <1>4 DEF Fits
  <2> QED
    BY <2>1 DEF Phase
<1> QED
  BY <1>1, <1>2, <1>3, <1>4

(* Work that nobody holds can go on, for any number of agents and items:   *)
(* whoever did not build may take all but the build, the waive is offered  *)
(* for the build, and a builder who is the only one left is waived through *)
(* (desk.js, mayTake, waiveIfAlone and the waive button).                  *)
THEOREM SomebodyAlwaysCanGoOn == DeskSpec => []SomebodyCanGoOn
<1>1. TypeOK => SomebodyCanGoOn
  <2> SUFFICES ASSUME TypeOK, NEW i \in Made, InWork(i), item[i].phaseWith = NoOne,
                      included # {}, Cardinality(included) = 1 => live = included,
                      ~OffersWaive(i)
               PROVE  \E a \in included, p \in Phase : Passes(i, p, a)
    BY DEF SomebodyCanGoOn
  <2> DEFINE m == item[i]
  <2>1. m \in ItemRecord /\ included \subseteq Agent
    BY DEF TypeOK, Made
  <2>2. ~Settled(m) /\ (m.waived \/ m.phase # "build")
    BY DEF InWork, OffersWaive
  <2> HIDE DEF m
  <2>3. ASSUME NEW a \in included, NEW p \in Phase, Fits(m, p, a)
        PROVE  Passes(i, p, a)
    BY <2>3 DEF Passes, Asked, Refused, m
  <2>4. CASE m.waived
    BY <2>1, <2>3, <2>4, WhoFits
  <2>5. CASE \E a \in included : a # m.builder
    BY <2>1, <2>2, <2>3, <2>5, WhoFits
  <2>6. CASE ~m.waived /\ ~\E a \in included : a # m.builder
    <3>1. PICK a \in included : included = {a} /\ a = m.builder
      BY <2>6
    <3>2. live = {a}
      BY <3>1, FS_Singleton
    <3> DEFINE w == [m EXCEPT !.waived = TRUE]
    <3>3. w \in ItemRecord /\ w.waived /\ w.phaseWith = m.phaseWith
      BY <2>1 DEF ItemRecord
    <3>4. WaivedIfAlone(m, a) = w
      BY <2>2, <3>2 DEF WaivedIfAlone
    <3> HIDE DEF w
    <3>5. PICK p \in Phase : Fits(w, p, a)
      BY <2>1, <3>3, WhoFits
    <3>6. CASE Fits(m, p, a)
      BY <2>3, <3>6
    <3>7. CASE ~Fits(m, p, a)
      <4>1. Asked(i, p, a) = w
        BY <3>4, <3>7 DEF Asked, Refused, m
      <4>2. Passes(i, p, a)
        BY <3>3, <3>5, <4>1 DEF Passes, m
      <4> QED
        BY <4>2
    <3> QED
      BY <3>6, <3>7
  <2> QED
    BY <2>4, <2>5, <2>6
<1>2. IInv => TypeOK
  BY DEF IInv, Sound, TypeOK
<1> QED
  BY <1>1, <1>2, AlwaysIInv, PTL
-----------------------------------------------------------------------------
(* What is closed under the repaired blocks is, with the one that left     *)
(* added or taken away, closed under the blocks before.                    *)
LEMMA RepairKeepsOrder ==
    ASSUME IInv, NEW gone \in Item, blocks' = Repaired(gone),
           \A x \in Item \ {gone} : item'[x].leftOut = item[x].leftOut,
           NEW a \in Item \ {gone}, NEW b \in Item \ {gone}, a # b,
           Reaches(a, b)
    PROVE  Reaches(a, b)'
<1> SUFFICES ASSUME NEW S \in SUBSET Item, blocks'[a] \subseteq S,
                    \A x \in S : item'[x].leftOut \/ blocks'[x] \subseteq S
             PROVE  b \in S
  BY DEF Reaches
<1>1. blocks \in [Item -> SUBSET Item]
  BY DEF IInv
<1>2. ASSUME NEW x \in Item \ {gone}
      PROVE  /\ gone \notin blocks[x] => blocks'[x] = blocks[x]
             /\ gone \in blocks[x] =>
                   blocks'[x] = (blocks[x] \cup blocks[gone]) \ {gone, x}
  BY DEF Repaired
<1>3. CASE \A x \in {a} \cup {z \in S \ {gone} : ~item[z].leftOut} : gone \notin blocks[x]
  <2> DEFINE T == S \ {gone}
  <2>1. blocks[a] \subseteq T
    BY <1>2, <1>3
  <2>2. \A x \in T : item[x].leftOut \/ blocks[x] \subseteq T
    BY <1>2, <1>3
  <2> QED
    BY <2>1, <2>2 DEF Reaches
<1>4. ASSUME NEW y \in {a} \cup {z \in S \ {gone} : ~item[z].leftOut}, gone \in blocks[y]
      PROVE  b \in S
  <2> DEFINE T == S \cup {gone, a}
  <2>1. \A x \in T \ {gone} : item[x].leftOut \/ x = a \/ blocks'[x] \subseteq S
    OBVIOUS
  <2>2. \A x \in T \ {gone} : item[x].leftOut \/ x = a \/ blocks[x] \subseteq T
    BY <1>2, <2>1
  <2>3. blocks[a] \subseteq T
    BY <1>2
  <2>4. y \in Item \ {gone} /\ y \in T /\ blocks'[y] \subseteq S
    OBVIOUS
  <2>5. blocks[gone] \subseteq T
    BY <1>2, <1>4, <2>4
  <2>6. \A x \in T : item[x].leftOut \/ blocks[x] \subseteq T
    BY <2>2, <2>3, <2>5
  <2>7. T \in SUBSET Item
    OBVIOUS
  <2>8. b \in T
    BY <2>3, <2>6, <2>7 DEF Reaches
  <2> QED
    BY <2>8
<1> QED
  BY <1>3, <1>4

(* What all but an add, a delete and a close leave of an item.             *)
Kept(m, n) ==
    /\ n.made = m.made /\ n.leftOut = m.leftOut
    /\ n.closed => m.closed
    /\ m.leftOut /\ m.closed /\ "deleted" \notin Press => n.closed

AllKept == \A i \in Item : Kept(item[i], item'[i])

LEMMA OneKept ==
    ASSUME IInv, NEW i \in Item, NEW m, Becomes(i, m) \/ LandsOn(i, m),
           Kept(item[i], m)
    PROVE  AllKept
BY DEF IInv, Becomes, LandsOn, Lands, Kept, AllKept

LEMMA OwnerLeaves ==
    ASSUME IInv, NEW i \in Item, OwnerNext(i)
    PROVE  ItemDelete(i) \/ PressClose(i) \/ (AllKept /\ blocks' = blocks)
<1>1. item[i] \in ItemRecord
  BY DEF IInv
<1>2. CASE PressGo(i)
  <2>1. Kept(item[i], Gone(item[i]))
    BY <1>1 DEF Gone, Kept, ItemRecord
  <2> QED
    BY <1>2, <2>1, OneKept DEF PressGo
<1>3. CASE PressDone(i)
  <2>1. Kept(item[i], [item[i] EXCEPT !.done = TRUE])
    BY <1>1 DEF Kept, ItemRecord
  <2> QED
    BY <1>3, <2>1, OneKept DEF PressDone
<1>4. CASE PressReopen(i)
  <2>1. Kept(item[i], Reopened(item[i]))
    BY <1>1, <1>4 DEF PressReopen, Reopened, Kept, ItemRecord
  <2> QED
    BY <1>4, <2>1, OneKept DEF PressReopen
<1>5. CASE PressBringBack(i)
  <2>1. Kept(item[i], [item[i] EXCEPT !.closed = FALSE])
    BY <1>1, <1>5 DEF PressBringBack, Kept, ItemRecord
  <2> QED
    BY <1>5, <2>1, OneKept DEF PressBringBack
<1>6. CASE PressWaive(i)
  <2>1. Kept(item[i], [item[i] EXCEPT !.waived = TRUE])
    BY <1>1 DEF Kept, ItemRecord
  <2> QED
    BY <1>6, <2>1, OneKept DEF PressWaive
<1>7. CASE PressCode(i)
  <2> DEFINE n == [item[i] EXCEPT !.code = ~@,
                                  !.phase = IF ~item[i].code /\ item[i].go /\ @ = NoPhase
                                            THEN "red" ELSE @]
  <2>1. Kept(item[i], n)
    BY <1>1 DEF Kept, ItemRecord
  <2>2. LandsOn(i, n) /\ blocks' = blocks
    BY <1>7 DEF PressCode
  <2> HIDE DEF n
  <2> QED
    BY <2>1, <2>2, OneKept
<1>8. CASE \E on \in BOOLEAN : PressDesign(i, on)
  <2>1. PICK on \in BOOLEAN : PressDesign(i, on)
    BY <1>8
  <2>2. Kept(item[i], [item[i] EXCEPT !.design = on])
    BY <1>1 DEF Kept, ItemRecord
  <2> QED
    BY <2>1, <2>2, OneKept DEF PressDesign
<1> QED
  BY <1>2, <1>3, <1>4, <1>5, <1>6, <1>7, <1>8 DEF OwnerNext

LEMMA GoalLeaves ==
    ASSUME IInv, GoalNext
    PROVE  AllKept /\ blocks' = blocks
<1>1. \A i \in Item : item[i] \in ItemRecord
  BY DEF IInv
<1>2. ASSUME NEW its, NEW g, Lands(its, g), \A i \in Item : Kept(item[i], its[i])
      PROVE  AllKept
  BY <1>2 DEF Lands, AllKept
<1>3. \A i \in Item : Kept(item[i], item[i])
  BY DEF Kept
<1>4. CASE PressGoAll
  <2> DEFINE its == [i \in Item |-> IF i \in {j \in Made : OffersGo(j)}
                                   THEN Gone(item[i]) ELSE item[i]]
  <2>1. \A i \in Item : Kept(item[i], Gone(item[i]))
    BY <1>1 DEF Gone, Kept, ItemRecord
  <2>2. \A i \in Item : Kept(item[i], its[i])
    BY <1>3, <2>1
  <2>3. Lands(its, goal) /\ blocks' = blocks
    BY <1>4 DEF PressGoAll
  <2> HIDE DEF its
  <2> QED
    BY <1>2, <2>2, <2>3
<1>5. CASE \E on \in BOOLEAN : GoalDesign(on)
  <2>1. PICK on \in BOOLEAN : GoalDesign(on)
    BY <1>5
  <2> DEFINE its == IF on THEN item
                    ELSE [i \in Item |-> [item[i] EXCEPT !.design = FALSE]]
  <2>2. \A i \in Item : Kept(item[i], [item[i] EXCEPT !.design = FALSE])
    BY <1>1 DEF Kept, ItemRecord
  <2>3. \A i \in Item : Kept(item[i], its[i])
    BY <1>3, <2>2
  <2>4. Lands(its, [goal EXCEPT !.design = on]) /\ blocks' = blocks
    BY <2>1 DEF GoalDesign
  <2> HIDE DEF its
  <2> QED
    BY <1>2, <2>3, <2>4
<1>6. CASE GoalDone \/ GoalClose \/ GoalReopen \/ GoalAbandon
  BY <1>2, <1>3, <1>6 DEF GoalDone, GoalClose, GoalReopen, GoalAbandon
<1> QED
  BY <1>4, <1>5, <1>6 DEF GoalNext

LEMMA WorkLeaves ==
    ASSUME IInv, NEW i \in Item, NEW a \in Agent, WorkNext(i, a)
    PROVE  AllKept /\ blocks' = blocks
<1>1. item[i] \in ItemRecord
  BY DEF IInv
<1>2. \E m : Kept(item[i], m) /\ Becomes(i, m)
  <2>1. CASE ItemTake(i, a)
    <3>1. Kept(item[i], [item[i] EXCEPT !.with = a])
      BY <1>1 DEF Kept, ItemRecord
    <3> QED
      BY <2>1, <3>1 DEF ItemTake
  <2>2. CASE ItemRelease(i, a)
    <3>1. Kept(item[i], Without(item[i], a))
      BY <1>1 DEF Kept, Without, ItemRecord
    <3> QED
      BY <2>2, <3>1 DEF ItemRelease
  <2>3. CASE RedClaim(i, a)
    <3>1. Kept(item[i], Ended([item[i] EXCEPT !.redClaimed = TRUE], "red", "build"))
      BY <1>1 DEF Kept, Ended, LetGo, ItemRecord
    <3> QED
      BY <2>3, <3>1 DEF RedClaim
  <2>4. CASE BuildClaim(i, a)
    <3>1. Kept(item[i], Ended(WithClaim(i, a), "build", "verify"))
      BY <1>1 DEF Kept, WithClaim, Ended, LetGo, ItemRecord
    <3> QED
      BY <2>4, <3>1 DEF BuildClaim, Claims
  <2>5. CASE PressClaimDone(i, a)
    <3>1. Kept(item[i], WithClaim(i, a))
      BY <1>1 DEF Kept, WithClaim, ItemRecord
    <3> QED
      BY <2>5, <3>1 DEF PressClaimDone, Claims
  <2>6. ASSUME NEW p \in Phase, PhaseTake(i, p, a) \/ PhaseAsked(i, p, a)
        PROVE  \E m : Kept(item[i], m) /\ Becomes(i, m)
    <3>1. Kept(item[i], Asked(i, p, a)) /\ Asked(i, p, a) \in ItemRecord
      <4>1. \/ Asked(i, p, a) = item[i]
            \/ Asked(i, p, a) = [item[i] EXCEPT !.waived = TRUE]
        BY DEF Asked, WaivedIfAlone
      <4>2. LET w == [item[i] EXCEPT !.waived = TRUE]
            IN  /\ w \in ItemRecord /\ w.made = item[i].made
                /\ w.leftOut = item[i].leftOut /\ w.closed = item[i].closed
        BY <1>1 DEF ItemRecord
      <4> QED
        BY <1>1, <4>1, <4>2 DEF Kept
    <3>2. Kept(item[i], Taken(Asked(i, p, a), p, a))
      BY <3>1 DEF Kept, Taken, ItemRecord
    <3> QED
      BY <2>6, <3>1, <3>2 DEF PhaseTake, PhaseAsked
  <2>7. ASSUME NEW pass \in BOOLEAN, PhaseDone(i, a, pass)
        PROVE  \E m : Kept(item[i], m) /\ Becomes(i, m)
    <3>1. /\ Kept(item[i], Finished(item[i], pass))
          /\ Kept(item[i], [Finished(item[i], pass) EXCEPT !.waived = TRUE])
      BY <1>1 DEF Kept, Finished, LetGo, ItemRecord
    <3> QED
      BY <2>7, <3>1 DEF PhaseDone
  <2> QED
    BY <2>1, <2>2, <2>3, <2>4, <2>5, <2>6, <2>7 DEF WorkNext
<1>3. blocks' = blocks
  <2>1. CASE \E p \in Phase : PhaseAsked(i, p, a)
    BY <2>1 DEF PhaseAsked
  <2>2. CASE Writes(a)
    BY <2>2 DEF Writes
  <2> QED
    BY <2>1, <2>2 DEF WorkNext, ItemTake, ItemRelease, RedClaim, BuildClaim,
                      PressClaimDone, Claims, PhaseTake, PhaseDone
<1> QED
  BY <1>2, <1>3, OneKept

LEMMA AgentLeaves ==
    ASSUME IInv, NEW a \in Agent, AgentNext(a)
    PROVE  AllKept /\ blocks' = blocks
<1>1. \A i \in Item : Kept(item[i], Without(item[i], a)) /\ Kept(item[i], item[i])
  BY DEF IInv, Kept, Without, ItemRecord
<1> QED
  BY <1>1 DEF AllKept, AgentNext, Speak, Writes, Signoff, Exclude, Include, FallsSilent

LEMMA StepLeaves ==
    ASSUME IInv, Next
    PROVE  \/ \E i \in Item, b \in Item \cup {NoItem} : ItemAdd(i, b)
           \/ \E i \in Made : ItemDelete(i) \/ PressClose(i)
           \/ \E i, j \in Made : Block(i, j) \/ Unblock(i, j)
           \/ AllKept /\ blocks' = blocks
<1>1. Made \subseteq Item
  BY DEF Made
<1>2. CASE \E i \in Made : OwnerNext(i)
  BY <1>1, <1>2, OwnerLeaves
<1>3. CASE GoalNext
  BY <1>3, GoalLeaves
<1>4. CASE \E i \in Made, a \in Agent : WorkNext(i, a)
  BY <1>1, <1>4, WorkLeaves
<1>5. CASE \E a \in Agent : AgentNext(a)
  BY <1>5, AgentLeaves
<1> QED
  BY <1>2, <1>3, <1>4, <1>5 DEF Next

(* When an item leaves, what came before what stays so among the others    *)
(* (desk.js, repairBlocks).                                                *)
THEOREM OrderAlwaysSurvives == DeskSpec => OrderSurvives
<1> DEFINE Keeps ==
      (\E i \in Item : item'[i].closed /\ ~item[i].closed)
      => \A a, b \in Item :
            /\ a # b
            /\ \A i \in {a, b} : ~item'[i].closed /\ ~item'[i].leftOut
            /\ Reaches(a, b)
            => Reaches(a, b)'
<1>1. IInv /\ [Next]_deskVars => [Keeps]_deskVars
  <2> SUFFICES ASSUME IInv, Next,
                      NEW g \in Item, item'[g].closed, ~item[g].closed,
                      NEW a \in Item, NEW b \in Item, a # b,
                      \A i \in {a, b} : ~item'[i].closed /\ ~item'[i].leftOut,
                      Reaches(a, b)
               PROVE  Reaches(a, b)'
    OBVIOUS
  <2>1. item \in [Item -> ItemRecord] /\ a # g /\ b # g
    BY DEF IInv
  <2>2. PICK i \in Item : ItemDelete(i) \/ PressClose(i)
    <3>1. CASE \E i \in Item, j \in Item \cup {NoItem} : ItemAdd(i, j)
      BY <2>1, <3>1 DEF ItemAdd, Becomes, Blank
    <3>2. CASE \E i, j \in Made : Block(i, j) \/ Unblock(i, j)
      BY <3>2 DEF Block, Unblock
    <3>3. CASE AllKept
      BY <3>3 DEF AllKept, Kept
    <3> QED
      BY <3>1, <3>2, <3>3, StepLeaves DEF Made
  <2>3. i = g
    BY <2>1, <2>2 DEF ItemDelete, PressClose, Becomes, LandsOn, Lands
  <2>4. blocks' = Repaired(g) /\ \A x \in Item \ {g} : item'[x] = item[x]
    BY <2>1, <2>2, <2>3 DEF ItemDelete, PressClose, Becomes, LandsOn, Lands
  <2> QED
    BY <2>1, <2>4, RepairKeepsOrder
<1> QED
  BY <1>1, AlwaysIInv, PTL DEF DeskSpec, OrderSurvives
-----------------------------------------------------------------------------
(* No circle.  What is blocked was made, and, while the closing of a       *)
(* deleted item is not taken back, what is left out stays closed: neither  *)
(* a close nor a delete meets it again.                                    *)
Rounds ==
    /\ \A i \in Item : blocks[i] \subseteq Made
    /\ \A i \in Item : item[i].leftOut => item[i].closed
    /\ NothingGoesRound

(* S shows that i is not reached from itself.                              *)
Clear(i, S) ==
    /\ blocks[i] \subseteq S
    /\ \A x \in S : item[x].leftOut \/ blocks[x] \subseteq S
    /\ i \notin S

LEMMA ClearIsNoCircle ==
    /\ NothingGoesRound <=>
          \A i \in Item : ~item[i].leftOut => \E S \in SUBSET Item : Clear(i, S)
    /\ NothingGoesRound' <=>
          \A i \in Item : ~item'[i].leftOut => \E S \in SUBSET Item : Clear(i, S)'
BY DEF NothingGoesRound, Reaches, Clear

LEMMA BlockMakesNoCircle ==
    ASSUME IInv, NothingGoesRound, NEW a \in Item, NEW b \in Item, Block(a, b)
    PROVE  NothingGoesRound'
<1> SUFFICES ASSUME NEW i \in Item, ~item[i].leftOut
             PROVE  \E S \in SUBSET Item : Clear(i, S)'
  BY ClearIsNoCircle DEF Block
<1>1. /\ item' = item /\ a # b /\ ~item[a].leftOut
      /\ b \in blocks'[a] /\ blocks'[a] = blocks[a] \cup {b}
      /\ \A x \in Item \ {a} : blocks'[x] = blocks[x]
  BY DEF Block, MayBlock, IInv
<1>2. PICK R \in SUBSET Item :
         /\ blocks[b] \subseteq R
         /\ \A x \in R : item[x].leftOut \/ blocks[x] \subseteq R
         /\ a \notin R
  BY DEF Block, MayBlock, Reaches
<1>3. PICK S \in SUBSET Item : Clear(i, S)
  BY ClearIsNoCircle
<1>4. CASE i # a /\ ~Reaches(i, a)
  <2>1. PICK T \in SUBSET Item :
           /\ blocks[i] \subseteq T
           /\ \A x \in T : item[x].leftOut \/ blocks[x] \subseteq T
           /\ a \notin T
    BY <1>4 DEF Reaches
  <2> DEFINE W == S \cap T
  <2>2. blocks'[i] \subseteq W /\ i \notin W
    BY <1>1, <1>3, <1>4, <2>1 DEF Clear
  <2>3. \A x \in W : item[x].leftOut \/ blocks'[x] \subseteq W
    BY <1>1, <1>3, <2>1 DEF Clear
  <2>4. W \in SUBSET Item
    OBVIOUS
  <2> QED
    BY <1>1, <2>2, <2>3, <2>4 DEF Clear
<1>5. CASE i = a \/ Reaches(i, a)
  <2> DEFINE W == S \cup R \cup {b}
  <2>1. i \notin R /\ i # b
    <3>1. CASE i = a
      BY <1>1, <1>2, <3>1
    <3>2. CASE Reaches(i, a)
      <4>1. i # b
        BY <3>2 DEF Block, MayBlock
      <4>2. ASSUME i \in R
            PROVE  FALSE
        BY <1>2, <3>2, <4>2 DEF Reaches
      <4> QED
        BY <4>1, <4>2
    <3> QED
      BY <1>5, <3>1, <3>2
  <2>2. i \notin W
    BY <1>3, <2>1 DEF Clear
  <2>3. \A x \in W : item[x].leftOut \/ blocks[x] \subseteq W
    BY <1>2, <1>3 DEF Clear
  <2>4. \A x \in W : item[x].leftOut \/ blocks'[x] \subseteq W
    BY <1>1, <2>3
  <2>5. blocks'[i] \subseteq W
    BY <1>1, <1>3 DEF Clear
  <2>6. W \in SUBSET Item
    OBVIOUS
  <2> QED
    BY <1>1, <2>2, <2>4, <2>5, <2>6 DEF Clear
<1> QED
  BY <1>4, <1>5

LEMMA RepairMakesNoCircle ==
    ASSUME IInv, NothingGoesRound, NEW gone \in Item, ~item[gone].leftOut,
           blocks' = Repaired(gone),
           \A x \in Item : item[x].leftOut => item'[x].leftOut
    PROVE  NothingGoesRound'
<1> SUFFICES ASSUME NEW i \in Item, ~item'[i].leftOut
             PROVE  \E S \in SUBSET Item : Clear(i, S)'
  BY ClearIsNoCircle
<1>1. blocks \in [Item -> SUBSET Item]
  BY DEF IInv
<1>2. \A x \in Item : blocks'[x] \subseteq
                        blocks[x] \cup (IF gone \in blocks[x] THEN blocks[gone] ELSE {})
  BY <1>1 DEF Repaired
<1>3. PICK S \in SUBSET Item : Clear(i, S)
  BY ClearIsNoCircle
<1>4. gone \in S => blocks[gone] \subseteq S
  BY <1>3 DEF Clear
<1>5. \A x \in Item : blocks[x] \subseteq S => blocks'[x] \subseteq S
  BY <1>2, <1>4
<1>6. blocks'[i] \subseteq S /\ i \notin S
  BY <1>3, <1>5 DEF Clear
<1>7. \A x \in S : item'[x].leftOut \/ blocks'[x] \subseteq S
  BY <1>3, <1>5 DEF Clear
<1> QED
  BY <1>6, <1>7 DEF Clear

LEMMA RoundsStep ==
    ASSUME "deleted" \notin Press, IInv, Rounds, [Next]_deskVars
    PROVE  Rounds'
<1>1. /\ item \in [Item -> ItemRecord] /\ blocks \in [Item -> SUBSET Item]
      /\ \A i \in Item : item[i] \in ItemRecord
      /\ Made \subseteq Item
  BY DEF IInv, Made
<1>2. ASSUME NEW i \in Item, NEW b \in Item \cup {NoItem}, ItemAdd(i, b)
      PROVE  Rounds'
  <2>1. /\ i \notin Made /\ b \in Made \cup {NoItem}
        /\ Made' = Made \cup {i}
        /\ item'[i].leftOut = FALSE
        /\ \A x \in Item \ {i} : item'[x] = item[x] /\ blocks'[x] = blocks[x]
        /\ blocks'[i] = {b} \ {NoItem}
    BY <1>1, <1>2 DEF ItemAdd, Becomes, Blank, Made
  <2>2. ASSUME NEW j \in Item \ {i}, ~item'[j].leftOut
        PROVE  \E S \in SUBSET Item : Clear(j, S)'
    <3>1. PICK S \in SUBSET Item : Clear(j, S)
      BY <2>1, <2>2, ClearIsNoCircle DEF Rounds
    <3> DEFINE W == S \cap Made
    <3>2. blocks'[j] \subseteq W /\ j \notin W
      BY <2>1, <3>1 DEF Rounds, Clear
    <3>3. \A x \in W : item'[x].leftOut \/ blocks'[x] \subseteq W
      BY <2>1, <3>1 DEF Rounds, Clear
    <3>4. W \in SUBSET Item
      OBVIOUS
    <3> QED
      BY <3>2, <3>3, <3>4 DEF Clear
  <2>3. \E S \in SUBSET Item : Clear(i, S)'
    <3> DEFINE W == Made
    <3>1. blocks'[i] \subseteq W /\ i \notin W
      BY <2>1
    <3>2. \A x \in W : item'[x].leftOut \/ blocks'[x] \subseteq W
      BY <1>1, <2>1 DEF Rounds
    <3>3. W \in SUBSET Item
      BY <1>1
    <3> HIDE DEF W
    <3> QED
      BY <3>1, <3>2, <3>3 DEF Clear
  <2>4. NothingGoesRound'
    BY <2>2, <2>3, ClearIsNoCircle
  <2>5. /\ \A x \in Item : blocks'[x] \subseteq Made'
        /\ \A x \in Item : item'[x].leftOut => item'[x].closed
    BY <2>1 DEF Rounds
  <2> QED
    BY <2>4, <2>5 DEF Rounds
<1>3. ASSUME NEW i \in Item, ItemDelete(i) \/ PressClose(i)
      PROVE  Rounds'
  <2>1. /\ ~item[i].closed /\ blocks' = Repaired(i)
        /\ \A x \in Item \ {i} : item'[x] = item[x]
        /\ item'[i].closed /\ item'[i].made = item[i].made
        /\ item[i].leftOut => item'[i].leftOut
    <3>1. ~item[i].closed /\ blocks' = Repaired(i)
      BY <1>3 DEF ItemDelete, PressClose, OffersDelete, OffersClose, Settled
    <3>2. PICK m : /\ item' = [item EXCEPT ![i] = m]
                   /\ m.closed /\ m.made = item[i].made
                   /\ item[i].leftOut => m.leftOut
      <4>1. CASE ItemDelete(i)
        <5> DEFINE m == [item[i] EXCEPT !.closed = TRUE, !.leftOut = TRUE]
        <5>1. m.closed /\ m.made = item[i].made /\ m.leftOut
          BY <1>1 DEF ItemRecord
        <5>2. item' = [item EXCEPT ![i] = m]
          BY <4>1 DEF ItemDelete, Becomes
        <5> HIDE DEF m
        <5> QED
          BY <5>1, <5>2
      <4>2. CASE PressClose(i)
        <5> DEFINE m == [item[i] EXCEPT !.closed = TRUE]
        <5>1. m.closed /\ m.made = item[i].made /\ m.leftOut = item[i].leftOut
          BY <1>1 DEF ItemRecord
        <5>2. item' = [item EXCEPT ![i] = m]
          BY <4>2 DEF PressClose, LandsOn, Lands
        <5> HIDE DEF m
        <5> QED
          BY <5>1, <5>2
      <4> QED
        BY <1>3, <4>1, <4>2
    <3> QED
      BY <1>1, <3>1, <3>2
  <2>2. NothingGoesRound'
    BY <2>1, RepairMakesNoCircle DEF Rounds
  <2>3. Made' = Made
    BY <2>1 DEF Made
  <2>4. \A x \in Item : blocks'[x] \subseteq Made
    BY <1>1, <2>1 DEF Rounds, Repaired
  <2>5. \A x \in Item : item'[x].leftOut => item'[x].closed
    BY <2>1 DEF Rounds
  <2> QED
    BY <2>2, <2>3, <2>4, <2>5 DEF Rounds
<1>4. ASSUME NEW i \in Made, NEW j \in Made, Block(i, j)
      PROVE  Rounds'
  <2>1. NothingGoesRound'
    BY <1>1, <1>4, BlockMakesNoCircle DEF Rounds
  <2>2. item' = item /\ Made' = Made /\ blocks' = [blocks EXCEPT ![i] = @ \cup {j}]
    BY <1>4 DEF Block, Made
  <2> QED
    BY <1>1, <2>1, <2>2 DEF Rounds
<1>5. ASSUME NEW i \in Made, NEW j \in Made, Unblock(i, j)
      PROVE  Rounds'
  <2>1. item' = item /\ Made' = Made /\ \A x \in Item : blocks'[x] \subseteq blocks[x]
    BY <1>1, <1>5 DEF Unblock, Made
  <2>2. ASSUME NEW x \in Item, NEW S \in SUBSET Item, Clear(x, S)
        PROVE  Clear(x, S)'
    BY <2>1, <2>2 DEF Clear
  <2>3. NothingGoesRound'
    BY <2>1, <2>2, ClearIsNoCircle DEF Rounds
  <2> QED
    BY <2>1, <2>3 DEF Rounds
<1>6. ASSUME \A i \in Item : Kept(item[i], item'[i]), blocks' = blocks
      PROVE  Rounds'
  <2>1. Made' = Made
    BY <1>6 DEF Made, Kept
  <2>2. ASSUME NEW x \in Item, NEW S \in SUBSET Item, Clear(x, S)
        PROVE  Clear(x, S)'
    BY <1>6, <2>2 DEF Clear, Kept
  <2>3. NothingGoesRound'
    BY <1>6, <2>2, ClearIsNoCircle DEF Rounds, Kept
  <2> QED
    BY <1>6, <2>1, <2>3 DEF Rounds, Kept
<1>7. CASE UNCHANGED deskVars
  <2>1. \A i \in Item : Kept(item[i], item'[i])
    BY <1>7 DEF deskVars, Kept
  <2> QED
    BY <1>6, <1>7, <2>1 DEF deskVars
<1>8. CASE Next
  BY <1>1, <1>2, <1>3, <1>4, <1>5, <1>6, <1>8, StepLeaves DEF AllKept
<1> QED
  BY <1>7, <1>8

(* While nobody takes back the closing of a deleted item, no item waits    *)
(* for itself, in any number of items and steps (desk.js, blockWhy and     *)
(* repairBlocks).                                                          *)
THEOREM NothingEverGoesRound ==
    ASSUME "deleted" \notin Press
    PROVE  DeskSpec => []NothingGoesRound
<1>1. Init => Rounds
  <2> SUFFICES ASSUME Init
               PROVE  Rounds
    OBVIOUS
  <2>1. \A i \in Item : blocks[i] = {} /\ ~item[i].leftOut
    BY DEF Init, Blank
  <2>2. \A i \in Item : ~Reaches(i, i)
    <3>1. \A i \in Item : blocks[i] \subseteq {} /\ i \notin {} /\ {} \in SUBSET Item
      BY <2>1
    <3> QED
      BY <3>1 DEF Reaches
  <2> QED
    BY <2>1, <2>2 DEF Rounds, NothingGoesRound
<1>2. IInv /\ Rounds /\ [Next]_deskVars => Rounds'
  BY RoundsStep
<1>3. Rounds => NothingGoesRound
  BY DEF Rounds
<1> QED
  BY <1>1, <1>2, <1>3, AlwaysIInv, PTL DEF DeskSpec
=============================================================================
