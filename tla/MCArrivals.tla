------------------------------ MODULE MCArrivals ------------------------------
(* Two messages of one sender, and one that never reaches the front door.  *)
EXTENDS Arrivals

CONSTANTS m1, m2, m3, s1, p1

MCSenderOf == [m \in Message |-> s1]
MCAt == [m \in Message |-> IF m = m2 THEN 1 ELSE 0]
=============================================================================
