------------------------------- MODULE MCDesk -------------------------------
(* The desk with a few items and agents.                                   *)
EXTENDS Desk, TLC

ItemSymmetry == Permutations(Item)
AgentSymmetry == Permutations(Agent)

(* Without agents no guard reads what is about the phases, nor the goal's  *)
(* flags but its design and whether it is over.                            *)
BlocksView ==
    <<goal.design, goal.done \/ goal.closed, blocks,
      [i \in Item |-> <<item[i].made, item[i].design, item[i].go, item[i].done,
                        item[i].closed, item[i].leftOut>>]>>

(* With one item nothing blocks and nothing is a second task, so who       *)
(* claimed it is not asked; what is verified and whether the goal is empty *)
(* is only shown.                                                          *)
WorkView ==
    <<goal.design, live, included,
      [i \in Item |->
        LET m == item[i]
        IN  <<m.made, m.design, m.go, m.done, m.closed, m.leftOut, m.code,
              m.waived, m.claims = {}, m.redClaimed, m.with, m.phaseWith,
              m.phase, m.red, m.builder, m.verifier>>]>>
=============================================================================
