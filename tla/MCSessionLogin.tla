--------------------------- MODULE MCSessionLogin ---------------------------
(* The first request may come twice, the second one once.                  *)
EXTENDS SessionLogin

MCCopies == [n \in Runs |-> IF n = 1 THEN 2 ELSE 1]
=============================================================================
