--------------------------- MODULE StreamContract ---------------------------
(***************************************************************************)
(* What whoever asks for a stream may rely on, whatever the network does   *)
(* (src/spirit/run/spirit/sseClient.js, connect): the callbacks take turns,*)
(* a stream that was closed stays closed, and one that was not is open     *)
(* again whenever the relay can be had.                                    *)
(***************************************************************************)
VARIABLES
    state,      \* "away" (not open, and being dialled), "open", or "over"
    reachable   \* the relay takes streams now

contractVars == <<state, reachable>>

Init == state = "away" /\ reachable \in BOOLEAN

Opens == state = "away" /\ reachable /\ state' = "open" /\ UNCHANGED reachable
Ends  == state = "open" /\ state' = "away" /\ UNCHANGED reachable
Stops == state \in {"away", "open"} /\ state' = "over" /\ UNCHANGED reachable
World == reachable' # reachable /\ UNCHANGED state

Next == Opens \/ Ends \/ Stops \/ World

Safe == Init /\ [][Next]_contractVars

(* A relay that stays reachable is reached.                                *)
Returns == (<>[]reachable) => []<>(state # "away")

Spec == Safe /\ Returns
=============================================================================
