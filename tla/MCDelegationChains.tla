------------------------- MODULE MCDelegationChains -------------------------
(* Instances of DelegationChains for TLC. *)
EXTENDS DelegationChains, TLC

CONSTANTS buy, pay, shop

S(actions, amount, merchants) ==
  [actions |-> actions, amount |-> amount, currency |-> "USD", merchants |-> merchants,
   categories |-> {}, limits |-> [n \in {"daily"} |-> 1], selectors |-> {}]

BindTable == {S({buy, pay}, 2, Anywhere)}
NarrowedTable == {S({}, 1, {shop})}
ForeignTable == {S({pay}, 3, Anywhere)}

\* TLC keeps the value of a definition, but not that of a substituted constant.
MCBindScopes == BindTable
MCNarrowed == NarrowedTable
MCForeign == ForeignTable

Symmetric == Permutations(Jtis)
=============================================================================
