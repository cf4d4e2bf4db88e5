--------------------------- MODULE MCPresenceNode ---------------------------
(* One relay and two contacts, or two relays and one contact.              *)
EXTENDS PresenceNode

CONSTANTS u1, u2, k1, k2
=============================================================================
