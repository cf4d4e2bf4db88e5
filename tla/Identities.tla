----------------------------- MODULE Identities -----------------------------
(***************************************************************************)
(* The public keys that a relay deals with: its own, its owner's, those of *)
(* its members and those of strangers.                                     *)
(***************************************************************************)
CONSTANTS
    Id,         \* every identity
    SelfKey,    \* the relay's own key, which holds no stream and no row
    Owner       \* the owner, named by owner.json before the relay serves

ASSUME IdentityAssumption ==
    /\ SelfKey \in Id
    /\ Owner \in Id \ {SelfKey}

Person == Id \ {SelfKey}
=============================================================================
