------------------------------ MODULE Delivery ------------------------------
(***************************************************************************)
(* What a node promises of the messages it is asked to post, whatever      *)
(* becomes of relays, streams, timers and the node's own process           *)
(* (src/spirit/run/spirit/peerPost.js): every message ends, once, and how  *)
(* it ended is true.                                                       *)
(***************************************************************************)
CONSTANTS Post, Hash, HashOf

VARIABLES
    fate,       \* message -> what its asker was told
    tried,      \* messages that were sent at least once
    replied     \* requests that their target answered

deliveryVars == <<fate, tried, replied>>

Ending == {"answered", "refused", "noAnswer", "gaveUp"}

Init ==
    /\ fate = [m \in Post |-> "unposted"]
    /\ tried = {}
    /\ replied = {}

(* Any number of messages end together, some are asked, some are sent.     *)
(* One may be refused as soon as it is asked.                              *)
Step ==
    /\ tried \subseteq tried' /\ replied \subseteq replied'
    /\ DOMAIN fate' = Post
    /\ \A m \in Post :
        \/ fate'[m] = fate[m]
        \/ fate[m] = "unposted" /\ fate'[m] \in {"open", "refused"}
        \/ fate[m] = "open" /\ fate'[m] = "answered" /\ HashOf[m] \in replied
        \/ fate[m] = "open" /\ fate'[m] \in {"noAnswer", "gaveUp"} /\ m \in tried
        \/ fate[m] = "open" /\ fate'[m] = "refused"
    /\ \A m \in tried' \ tried : fate[m] # "unposted" \/ fate'[m] = "open"

Safe == Init /\ [][Step]_deliveryVars

(* Every message ends.                                                     *)
AllEnd == \A m \in Post : fate[m] = "open" ~> fate[m] \in Ending

Spec == Safe /\ AllEnd
=============================================================================
