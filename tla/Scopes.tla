------------------------------- MODULE Scopes -------------------------------
(***************************************************************************)
(* Delegation scopes: what a child scope may say of its parent's, and what *)
(* is left of both (sdk/python/tesht/delegation.py, and the backend's own  *)
(* copy in backend/api/routes/delegations.py).                             *)
(***************************************************************************)
EXTENDS Integers

CONSTANTS
  Actions, Merchants, Categories, Currencies, Selectors,
  DefaultCurrency,  \* "USD"
  Limits,      \* names of constraints
  Star,        \* "*", every merchant
  Unset        \* a key the scope does not have

ASSUME ScopeAssumption == 
  Star \notin Merchants /\ Unset \notin Int /\ DefaultCurrency \in Currencies

Anywhere == {Star}

\* The lists of merchants that callers write: some by name, or ["*"].
MerchantLists == (SUBSET Merchants) \cup {Anywhere}

Scope == [actions : SUBSET Actions, amount : Nat \cup {Unset}, currency : Currencies,
          merchants : MerchantLists, categories : SUBSET Categories,
          limits : [Limits -> Nat \cup {Unset}], selectors : SUBSET Selectors]

\* The scope of a credential that has none.
EmptyScope ==
  [actions |-> {}, amount |-> Unset, currency |-> DefaultCurrency, merchants |-> {},
   categories |-> {}, limits |-> [n \in Limits |-> Unset], selectors |-> {}]

Amount(s) == IF s.amount = Unset THEN 0 ELSE s.amount

\* An empty list in the child stands for the parent's.
SubsetOrEmpty(c, p) == c = {} \/ c \subseteq p

\* validate_scope_narrowing raises nothing.
Narrows(p, c) ==
  /\ SubsetOrEmpty(c.actions, p.actions)
  /\ Amount(c) <= Amount(p)
  /\ c.currency = p.currency
  /\ p.merchants = Anywhere \/ SubsetOrEmpty(c.merchants, p.merchants)
  /\ SubsetOrEmpty(c.categories, p.categories)

\* The backend compares attestation selectors too, when both scopes have some.
BackendNarrows(p, c) ==
  /\ Narrows(p, c)
  /\ p.selectors = {} \/ SubsetOrEmpty(c.selectors, p.selectors)

Common(p, c) == IF c = {} THEN p ELSE p \cap c

LeastAmount(p, c) ==
  IF c.amount # Unset /\ c.amount < Amount(p) THEN c.amount ELSE Amount(p)

CommonMerchants(p, c) ==
  IF p = Anywhere THEN c ELSE IF c = Anywhere THEN p ELSE p \cap c

\* Broken variant: what the child says goes.
IntersectTrusting(p, c) == [c EXCEPT !.selectors = {}]

\* intersect_scopes: a child's limit replaces its parent's, selectors are left out.
Intersect(p, c) ==
  [actions |-> Common(p.actions, c.actions),
   amount |-> LeastAmount(p, c),
   currency |-> p.currency,
   merchants |-> CommonMerchants(p.merchants, c.merchants),
   categories |-> Common(p.categories, c.categories),
   limits |-> [n \in Limits |-> IF c.limits[n] # Unset THEN c.limits[n] ELSE p.limits[n]],
   selectors |-> {}]

\* The backend's copy keeps the child's selectors, or else the parent's.
BackendIntersect(p, c) ==
  [Intersect(p, c) EXCEPT !.selectors =
     IF c.selectors # {} THEN c.selectors ELSE p.selectors]

-----------------------------------------------------------------------------
\* Scope s permits nothing that scope t does not (limits and selectors aside).
Within(s, t) ==
  /\ s.actions \subseteq t.actions
  /\ Amount(s) <= Amount(t)
  /\ s.currency = t.currency
  /\ t.merchants = Anywhere \/ s.merchants \subseteq t.merchants
  /\ s.categories \subseteq t.categories
=============================================================================
