----------------------------- MODULE MCJtiDedup -----------------------------
(* Instances of JtiDedup for TLC: one token expires before the other. *)
EXTENDS JtiDedup

CONSTANTS j1, j2

MCExpiry == [j \in Jtis |-> IF j = j1 THEN 1 ELSE 2]
=============================================================================
