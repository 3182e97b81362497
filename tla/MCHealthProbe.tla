--------------------------- MODULE MCHealthProbe ---------------------------
(* HealthProbe on small instances. *)
EXTENDS HealthProbe, TLC

CONSTANTS s1, quick, slow

OneService == [p \in Probe |-> s1]
FailSoon   == [r \in Rules |-> IF r = quick THEN 1 ELSE 2]
TwoPasses  == [r \in Rules |-> 2]

Symmetric == Permutations(Lease) \cup Permutations(Worker)
=============================================================================
