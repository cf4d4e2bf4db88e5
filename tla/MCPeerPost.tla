----------------------------- MODULE MCPeerPost -----------------------------
(* Small sets of messages: two to one peer and one to another.             *)
EXTENDS PeerPost

CONSTANTS m1, m2, m3, r1, p1, p2, h1, h2, h3

MCRelayOf == [m \in Post |-> r1]
MCPeerOf == [m \in Post |-> IF m = m3 THEN p2 ELSE p1]
MCHashOf == [m \in Post |-> IF m = m1 THEN h1 ELSE IF m = m2 THEN h2 ELSE h3]
(* Two posts with one text to one peer within one minute are one request.  *)
MCOneHash == [m \in Post |-> h1]
MCPatience == [m \in Post |-> IF m = m1 THEN 3 ELSE IF m = m2 THEN 1 ELSE 0]
=============================================================================
