--------------------------- MODULE MCDelegations ---------------------------
(***************************************************************************)
(* Instances of Delegations for TLC: three delegations that form a chain,  *)
(* a tree or a ring, the last one registered by either of two tenants.     *)
(***************************************************************************)
EXTENDS Delegations

CONSTANTS r1, r2, d1, d2, d3, t1, t2

Registers(d, t, parent) == [jti |-> d, tenant |-> t, parent |-> parent]

MCRegistrations ==
  {Registers(d1, t1, Absent), Registers(d1, t1, d2), Registers(d2, t1, d1),
   Registers(d3, t1, d2), Registers(d3, t1, d1), Registers(d3, t2, d1)}
=============================================================================
