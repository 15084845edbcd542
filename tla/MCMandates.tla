----------------------------- MODULE MCMandates -----------------------------
(* Instances of Mandates for TLC: carts of 3 against an intent of 3. *)
EXTENDS Mandates, TLC

CONSTANTS p1, p2, r1, r2

MCLimit      == [i \in Intents |-> 3]
OneProcess   == [r \in Requests |-> p1]
TwoProcesses == [r \in Requests |-> IF r = r1 THEN p1 ELSE p2]

Symmetric == Permutations(Carts) \cup Permutations(Tenants)
=============================================================================
