----------------------------- MODULE MCSseClient ----------------------------
(* Distances of 2, 4 and 8; a relay names none, shorter and longer ones.   *)
EXTENDS SseClient
=============================================================================
