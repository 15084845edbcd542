------------------------- MODULE DelegationProofs -------------------------
(* What delegation chains, the bridge's credentials and the delegation     *)
(* registry guarantee for every value of the constants: any scopes,        *)
(* lifetimes, depths and numbers of links, users, verifiers and restarts,  *)
(* and any registrations and revocations beside each other.                *)
EXTENDS DelegationChains, Delegations, SequenceTheorems, FiniteSetTheorems, NaturalsInduction,
        WellFoundedInduction, TLAPS

(***************************************************************************)
(* Induction and recursive functions.                                      *)
(***************************************************************************)

\* A set of numbers that is not empty has a least element.
LEMMA Least ==
  ASSUME NEW T, T \subseteq Nat, T # {}
  PROVE  \E n \in T : \A m \in T : n <= m
<1> DEFINE R == {ss \in Nat \X Nat : ss[1] < ss[2]}
<1>1. IsWellFoundedOn(R, Nat)
  BY NatLessThanWellFounded DEF OpToRel
<1>2. PICK n \in T : \A m \in T : <<m, n>> \notin R
  <2> HIDE DEF R
  <2> QED
    BY <1>1, WFMin
<1>3. ASSUME NEW m \in Nat, m < n PROVE <<m, n>> \in R
  <2>1. <<m, n>> \in Nat \X Nat /\ <<m, n>>[1] < <<m, n>>[2]
    BY <1>3
  <2> QED
    BY <2>1, Zenon
<1> HIDE DEF R
<1>4. ASSUME NEW m \in T PROVE n <= m
  <2>1. m \in Nat /\ n \in Nat
    OBVIOUS
  <2>2. ~(m < n)
    BY <2>1, <1>2, <1>3, Zenon
  <2> QED
    BY <2>1, <2>2
<1> QED
  BY <1>4

\* Induction, over a set in place of a predicate.
LEMMA Induction ==
  ASSUME NEW S, 0 \in S, \A n \in Nat : n \in S => n + 1 \in S
  PROVE  Nat \subseteq S
<1> DEFINE T == Nat \ S
<1> SUFFICES ASSUME T # {} PROVE FALSE
  OBVIOUS
<1>1. PICK n \in T : \A m \in T : n <= m
  BY Least
<1>2. n \in Nat \ {0} /\ n - 1 \in Nat /\ n - 1 \notin T
  BY <1>1
<1> QED
  BY <1>1, <1>2

Iterates(f, V, base, step, K) ==
  f \in [0..K -> V] /\ f[0] = base /\ \A n \in 1..K : f[n] = step[n][f[n - 1]]

\* A function is defined by its value at 0 and a step from each number to the next.
LEMMA Recursion ==
  ASSUME NEW V, NEW base \in V, NEW step \in [Nat -> [V -> V]], NEW K \in Nat
  PROVE  \E f : Iterates(f, V, base, step, K)
<1> DEFINE Upto(f, m) == Iterates(f, V, base, step, m)
           S == {m \in Nat : \E f : Upto(f, m)}
<1>1. 0 \in S
  <2>1. Upto([n \in 0..0 |-> base], 0)
    BY DEF Iterates
  <2> QED
    BY <2>1
<1>2. ASSUME NEW m \in Nat, m \in S PROVE m + 1 \in S
  <2>1. PICK f : Upto(f, m)
    BY <1>2
  <2> DEFINE g == [n \in 0..m + 1 |-> IF n = m + 1 THEN step[m + 1][f[m]] ELSE f[n]]
  <2>2. f[m] \in V /\ step[m + 1][f[m]] \in V
    <3>1. m \in 0..m /\ m + 1 \in Nat
      OBVIOUS
    <3>2. f[m] \in V
      BY <2>1, <3>1 DEF Iterates
    <3>3. step[m + 1] \in [V -> V]
      BY <3>1
    <3> QED
      BY <3>2, <3>3
  <2>3. g \in [0..m + 1 -> V]
    <3>1. \A n \in 0..m + 1 : n # m + 1 => n \in 0..m
      OBVIOUS
    <3> QED
      BY <2>1, <2>2, <3>1 DEF Iterates
  <2>4. ASSUME NEW n \in 1..m + 1 PROVE g[n] = step[n][g[n - 1]]
    <3>0. n \in 0..m + 1 /\ n - 1 \in 0..m + 1 /\ n - 1 # m + 1
      OBVIOUS
    <3>1. g[n - 1] = f[n - 1]
      BY <3>0
    <3>2. CASE n = m + 1
      BY <3>0, <3>1, <3>2
    <3>3. CASE n # m + 1
      <4>1. n \in 1..m /\ g[n] = f[n]
        BY <3>0, <3>3
      <4> QED
        BY <2>1, <3>1, <4>1 DEF Iterates
    <3> QED
      BY <3>2, <3>3
  <2>5. g[0] = base
    BY <2>1 DEF Iterates
  <2>6. Upto(g, m + 1)
    <3> HIDE DEF g
    <3> QED
      BY <2>3, <2>4, <2>5 DEF Iterates
  <2> HIDE DEF Upto
  <2> QED
    BY <2>6
<1> HIDE DEF Upto
<1>3. Nat \subseteq S
  <2> HIDE DEF S
  <2> QED
    BY <1>1, <1>2, Induction
<1> QED
  BY <1>3 DEF Upto

(***************************************************************************)
(* Scopes.                                                                 *)
(***************************************************************************)

\* What the assumptions on the constants say, as the proofs use it.
LEMMA Assumptions ==
  /\ Star \notin Merchants /\ Unset \notin Int /\ DefaultCurrency \in Currencies
  /\ BindScopes \subseteq Scope /\ NarrowedScopes \subseteq Scope /\ ForeignScopes \subseteq Scope
  /\ ListSize \in Nat /\ TokenTtl \in Nat /\ Ttl \in Nat /\ MaxDepth \in Nat
  /\ MaxTime \in Nat /\ MaxBoots \in Nat /\ JwksLifespan \in Nat /\ MaxRecursion \in Nat
  /\ None \notin Jtis /\ None \notin Int /\ IdpKeys \subseteq Nat /\ FailClosed \in BOOLEAN
BY ScopeAssumption, BridgeAssumption, ChainAssumption

\* A scope without an amount allows nothing to be spent.
LEMMA AmountType ==
  ASSUME NEW s \in Scope
  PROVE  Amount(s) \in Nat /\ (s.amount # Unset => Amount(s) = s.amount /\ s.amount \in Nat)
BY DEF Amount, Scope

\* The least amount is no more than either, and a number.
LEMMA LeastIsLess ==
  ASSUME NEW p \in Scope, NEW c \in Scope
  PROVE  /\ LeastAmount(p, c) \in Nat /\ LeastAmount(p, c) <= Amount(p)
         /\ c.amount # Unset => LeastAmount(p, c) <= c.amount
BY AmountType DEF LeastAmount

\* The merchants of both are among those of a list that the first is among.
LEMMA MerchantsNarrow ==
  ASSUME NEW p \in MerchantLists, NEW c \in MerchantLists, NEW t \in MerchantLists,
         t = Anywhere \/ p \subseteq t
  PROVE  /\ CommonMerchants(p, c) \in MerchantLists
         /\ t = Anywhere \/ CommonMerchants(p, c) \subseteq t
<1>1. ASSUME t # Anywhere PROVE p # Anywhere
  BY <1>1, Assumptions DEF MerchantLists, Anywhere
<1>2. CommonMerchants(p, c) \in MerchantLists
  BY DEF CommonMerchants, MerchantLists, Anywhere
<1> QED
  BY <1>1, <1>2 DEF CommonMerchants

\* Other selectors change nothing else of a scope.
LEMMA SelectorsApart ==
  ASSUME NEW x \in Scope, NEW q \in SUBSET Selectors
  PROVE  LET y == [x EXCEPT !.selectors = q] IN
         /\ y \in Scope
         /\ y.actions = x.actions /\ y.amount = x.amount /\ y.currency = x.currency
         /\ y.merchants = x.merchants /\ y.categories = x.categories
BY DEF Scope

\* Combining two scopes (intersect_scopes, in the SDK and in the backend) gives a scope
\* that is within whatever the first is within, and within the second but for the lists
\* that the second leaves empty.
LEMMA IntersectNarrows ==
  ASSUME NEW p \in Scope, NEW c \in Scope,
         NEW s, s = Intersect(p, c) \/ s = BackendIntersect(p, c)
  PROVE  /\ s \in Scope
         /\ s.actions \subseteq p.actions
         /\ s.actions \subseteq c.actions \/ c.actions = {}
         /\ Amount(s) <= Amount(p)
         /\ c.amount # Unset => Amount(s) <= c.amount
         /\ \A t \in Scope : Within(p, t) => Within(s, t)
<1>1. /\ p.merchants \in MerchantLists /\ c.merchants \in MerchantLists
      /\ p.actions \subseteq Actions /\ c.actions \subseteq Actions
      /\ p.categories \subseteq Categories /\ c.categories \subseteq Categories
      /\ p.currency \in Currencies /\ p.selectors \subseteq Selectors /\ c.selectors \subseteq Selectors
      /\ p.limits \in [Limits -> Nat \cup {Unset}] /\ c.limits \in [Limits -> Nat \cup {Unset}]
  BY DEF Scope
<1>3. CommonMerchants(p.merchants, c.merchants) \in MerchantLists
  BY <1>1, MerchantsNarrow, Assumptions DEF MerchantLists, Anywhere, CommonMerchants
<1>4. Intersect(p, c) \in Scope
  BY <1>1, <1>3, LeastIsLess DEF Intersect, Scope, Common
<1>5. s = Intersect(p, c)
      \/ \E q \in SUBSET Selectors : s = [Intersect(p, c) EXCEPT !.selectors = q]
  BY <1>1 DEF BackendIntersect
<1>a. s \in Scope
  BY <1>4, <1>5, SelectorsApart
<1>2. /\ s.actions = Common(p.actions, c.actions) /\ s.amount = LeastAmount(p, c)
      /\ s.currency = p.currency /\ s.merchants = CommonMerchants(p.merchants, c.merchants)
      /\ s.categories = Common(p.categories, c.categories)
  <2>1. LET i == Intersect(p, c) IN
        /\ i.actions = Common(p.actions, c.actions) /\ i.amount = LeastAmount(p, c)
        /\ i.currency = p.currency /\ i.merchants = CommonMerchants(p.merchants, c.merchants)
        /\ i.categories = Common(p.categories, c.categories)
    BY DEF Intersect
  <2>2. CASE s = Intersect(p, c)
    BY <2>1, <2>2
  <2>3. CASE \E q \in SUBSET Selectors : s = [Intersect(p, c) EXCEPT !.selectors = q]
    <3>1. PICK q \in SUBSET Selectors : s = [Intersect(p, c) EXCEPT !.selectors = q]
      BY <2>3
    <3> DEFINE i == Intersect(p, c)
    <3>2. /\ s.actions = i.actions /\ s.amount = i.amount /\ s.currency = i.currency
          /\ s.merchants = i.merchants /\ s.categories = i.categories
      BY <1>4, <3>1, SelectorsApart
    <3> QED
      BY <2>1, <3>2
  <2> QED
    BY <1>5, <2>2, <2>3
<1>6. Amount(s) = LeastAmount(p, c)
  BY <1>2, <1>a, AmountType, LeastIsLess, Assumptions
<1>7. ASSUME NEW t \in Scope, Within(p, t) PROVE Within(s, t)
  <2>1. t.merchants \in MerchantLists /\ Amount(t) \in Nat
    BY AmountType DEF Scope
  <2>2. t.merchants = Anywhere \/ s.merchants \subseteq t.merchants
    BY <1>1, <1>2, <1>7, <2>1, MerchantsNarrow DEF Within
  <2>3. Amount(s) <= Amount(t)
    BY <1>6, <1>7, <2>1, LeastIsLess, AmountType DEF Within
  <2> QED
    BY <1>2, <1>7, <2>2, <2>3 DEF Within, Common
<1> QED
  BY <1>2, <1>a, <1>6, <1>7, LeastIsLess DEF Common

(***************************************************************************)
(* Trust.  A cached key set is one that the identity provider published    *)
(* when it was fetched, so a key in it was withdrawn later, if at all.     *)
(***************************************************************************)
Provider ==
  /\ now \in Nat /\ signing \in Nat
  /\ DOMAIN retired = 0..(signing - 1) /\ \A k \in DOMAIN retired : retired[k] \in Nat

Cached ==
  jwks # None =>
    /\ jwks.at \in Nat /\ jwks.at <= now
    /\ jwks.kid \in DOMAIN retired => jwks.at <= retired[jwks.kid]

TrustInv == Provider /\ Cached /\ IssuedOnTrust

\* A token that is validated is signed with a key that may be trusted.
LEMMA ValidIsTrusted ==
  ASSUME Provider, Cached, NEW t, NEW reachable \in BOOLEAN, Valid(t, reachable)
  PROVE  Trusted(t)
<1> SUFFICES ASSUME t.kid \in DOMAIN retired PROVE now <= retired[t.kid] + JwksLifespan
  BY DEF Trusted
<1>1. retired[t.kid] \in Nat /\ t.kid # signing
  BY DEF Provider
<1>2. CachedKey(t.kid)
  BY <1>1 DEF Valid, KeysAfter, Fetched
<1>3. jwks # None /\ now <= jwks.at + JwksLifespan /\ jwks.kid = t.kid
  BY <1>2 DEF CachedKey
<1> QED
  BY <1>1, <1>3, Assumptions DEF Cached, Provider

\* Whatever comes of a validation, the key set in the cache was fetched or kept.
LEMMA KeysAreCached ==
  ASSUME Provider, Cached, NEW kid, NEW reachable \in BOOLEAN,
         jwks' = KeysAfter(kid, reachable), UNCHANGED <<now, provider>>
  PROVE  Provider' /\ Cached'
<1>1. UNCHANGED <<now, signing, retired>>
  BY DEF provider
<1>2. Provider'
  BY <1>1 DEF Provider
<1>3. CASE jwks' = jwks
  BY <1>1, <1>2, <1>3 DEF Cached
<1>4. CASE jwks' = None
  BY <1>2, <1>4 DEF Cached
<1>5. CASE jwks' = [kid |-> signing, at |-> now]
  BY <1>1, <1>2, <1>5 DEF Cached, Provider
<1> QED
  BY <1>2, <1>3, <1>4, <1>5 DEF KeysAfter, Fetched

\* A new key of the identity provider withdraws the one before, which may be cached.
LEMMA RotationTrust ==
  ASSUME TrustInv, RotateIdpKey
  PROVE  TrustInv'
<1>1. /\ signing' = signing + 1 /\ now' = now /\ jwks' = jwks /\ issued' = issued
      /\ retired' = [k \in 0..signing |-> IF k = signing THEN now ELSE retired[k]]
  BY DEF RotateIdpKey, bridge
<1>2. /\ now \in Nat /\ signing \in Nat /\ signing + 1 \in Nat /\ (signing + 1) - 1 = signing
      /\ DOMAIN retired = 0..(signing - 1)
      /\ \A k \in 0..signing : k = signing \/ k \in DOMAIN retired
  BY DEF TrustInv, Provider
<1>5. /\ DOMAIN retired' = 0..signing
      /\ \A k \in 0..signing : retired'[k] = IF k = signing THEN now ELSE retired[k]
  BY <1>1
<1>6. \A k \in DOMAIN retired' : retired'[k] \in Nat
  BY <1>2, <1>5 DEF TrustInv, Provider
<1>3. Provider'
  BY <1>1, <1>2, <1>5, <1>6 DEF Provider
<1>4. Cached'
  <2> SUFFICES ASSUME jwks # None
               PROVE  /\ jwks.at \in Nat /\ jwks.at <= now
                      /\ jwks.kid \in DOMAIN retired' => jwks.at <= retired'[jwks.kid]
    BY <1>1 DEF Cached
  <2>1. jwks.at \in Nat /\ jwks.at <= now
        /\ (jwks.kid \in DOMAIN retired => jwks.at <= retired[jwks.kid])
    BY DEF TrustInv, Cached
  <2> QED
    BY <1>2, <1>5, <2>1
<1> QED
  BY <1>1, <1>3, <1>4 DEF TrustInv, IssuedOnTrust

\* Every step of the bridge, the identity provider and the agents keeps the trust.
LEMMA StepTrust == TrustInv /\ [Next]_chainVars => TrustInv'
<1> SUFFICES ASSUME TrustInv, [Next]_chainVars PROVE TrustInv'
  OBVIOUS
<1>a. ASSUME UNCHANGED <<now, signing, retired, jwks>>, IssuedOnTrust' PROVE TrustInv'
  BY <1>a DEF TrustInv, Provider, Cached
<1>b. ASSUME UNCHANGED <<now, signing, retired, jwks, issued>> PROVE TrustInv'
  BY <1>a, <1>b DEF TrustInv, IssuedOnTrust
<1>1. CASE UNCHANGED chainVars
  BY <1>1, <1>b DEF chainVars, bridgeVars, bridge, provider
<1>2. CASE Tick
  BY <1>2 DEF Tick, bridge, provider, TrustInv, Provider, Cached, IssuedOnTrust
<1>3. CASE Restart
  BY <1>3 DEF Restart, provider, TrustInv, Provider, Cached, IssuedOnTrust
<1>4. ASSUME NEW j \in Jtis, Revoke(j) PROVE TrustInv'
  BY <1>4, <1>b DEF Revoke, provider
<1>5. ASSUME NEW t \in Tokens, NEW reachable \in BOOLEAN,
             AttestRefused(t, reachable) \/ AttestFull(t, reachable)
      PROVE  TrustInv'
  BY <1>5, KeysAreCached DEF AttestRefused, AttestFull, TrustInv, IssuedOnTrust
<1>6. ASSUME NEW t \in Tokens, NEW reachable \in BOOLEAN, NEW j \in Jtis, NEW next,
             AttestIssued(t, reachable, j, next)
      PROVE  TrustInv'
  <2>1. Trusted(t) = TRUE
    BY <1>6, ValidIsTrusted DEF AttestIssued, TrustInv, Trusted
  <2>2. \A i \in Jtis : issued'[i] = issued[i] \/ issued'[i].trusted = TRUE
    BY <1>6, <2>1 DEF AttestIssued, Issues, NewIdentity, Credential
  <2> QED
    BY <1>6, <2>2, KeysAreCached DEF AttestIssued, TrustInv, IssuedOnTrust
<1>7. ASSUME NEW reachable \in BOOLEAN, BindFails(reachable) PROVE TrustInv'
  BY <1>7, KeysAreCached DEF BindFails, TrustInv, IssuedOnTrust
<1>8. ASSUME NEW reachable \in BOOLEAN, NEW j \in Jtis,
             BindIssues(reachable, j) \/ \E k \in Jtis : BindWithVp(reachable, j, k)
      PROVE  TrustInv'
  <2>1. Valid(busy.token, reachable) /\ UNCHANGED <<now, provider>>
        /\ jwks' = KeysAfter(busy.token.kid, reachable)
    BY <1>8 DEF BindIssues, BindWithVp
  <2>2. Trusted(busy.token) = TRUE
    BY <2>1, ValidIsTrusted DEF TrustInv, Trusted
  <2>3. \A i \in Jtis : issued'[i] = issued[i] \/ issued'[i].trusted = TRUE
    <3>1. CASE BindIssues(reachable, j)
      BY <3>1, <2>2 DEF BindIssues, Issues, NewDelegation, Credential
    <3>2. ASSUME NEW k \in Jtis, BindWithVp(reachable, j, k)
          PROVE  \A i \in Jtis : issued'[i] = issued[i] \/ issued'[i].trusted = TRUE
      <4> DEFINE one == NewDelegation(busy.token, busy.scope)
                 two == Credential("agent", None, 0, 0, now + Ttl, None, None, Trusted(busy.token))
      <4>1. one.trusted = TRUE /\ two.trusted = TRUE
        BY <2>2 DEF NewDelegation, Credential
      <4>2. issued' = [issued EXCEPT ![j] = one, ![k] = two]
        BY <3>2 DEF BindWithVp
      <4> HIDE DEF one, two
      <4> DEFINE half == [issued EXCEPT ![j] = one]
      <4>3. \A i \in Jtis : half[i] = issued[i] \/ half[i].trusted = TRUE
        BY <4>1
      <4>4. issued' = [half EXCEPT ![k] = two]
        BY <4>2
      <4> HIDE DEF half
      <4>5. \A i \in Jtis : issued'[i] = half[i] \/ issued'[i].trusted = TRUE
        BY <4>1, <4>4
      <4> QED
        BY <4>3, <4>5
    <3> QED
      BY <1>8, <3>1, <3>2
  <2> QED
    BY <2>1, <2>3, KeysAreCached DEF TrustInv, IssuedOnTrust
<1>9. ASSUME NEW parent \in Jtis, NEW s \in NarrowedScopes, DelegateFurther(parent, s)
      PROVE  TrustInv'
  BY <1>9, <1>b DEF DelegateFurther, bridgeVars, bridge, provider
<1>10. CASE BoundTtl
  BY <1>10, <1>b DEF BoundTtl, bridgeVars, bridge, provider
<1>11. ASSUME NEW j \in Jtis, IssueChild(j) PROVE TrustInv'
  <2>1. \A i \in Jtis : issued'[i] = issued[i] \/ issued'[i].trusted = TRUE
    BY <1>11 DEF IssueChild, Credential
  <2>2. IssuedOnTrust'
    BY <2>1 DEF TrustInv, IssuedOnTrust
  <2> QED
    BY <1>11, <1>a, <2>2 DEF IssueChild, provider, bridge
<1>12. ASSUME NEW j \in Jtis, NEW parent \in Jtis, NEW s \in ForeignScopes,
              IssueForeign(j, parent, s)
       PROVE  TrustInv'
  <2>1. \A i \in Jtis : issued'[i] = issued[i] \/ issued'[i].trusted = TRUE
    BY <1>12 DEF IssueForeign, Credential
  <2>2. IssuedOnTrust'
    BY <2>1 DEF TrustInv, IssuedOnTrust
  <2> QED
    BY <1>12, <1>a, <2>2 DEF IssueForeign, provider, bridge
<1>13. ASSUME NEW v \in Verifiers,
              Work(v) \/ \E j \in Jtis, by \in {"sdk", "backend"} : Begin(v, j, by)
       PROVE  TrustInv'
  <2>1. UNCHANGED bridgeVars
    BY <1>13 DEF Work, Check, Combine, Answer, Begin, Go
  <2> QED
    BY <2>1, <1>b DEF bridgeVars, bridge, provider
<1> QED
  BY <1>1, <1>2, RotationTrust, <1>3, <1>4, <1>5, <1>6, <1>7, <1>8, <1>9, <1>10, <1>11, <1>12, <1>13
  DEF Next, BridgeNext

\* Whatever the bridge issues rests on a token whose key the identity provider published,
\* or had withdrawn no longer ago than key sets are cached for (validator.py), with
\* any number of key rotations, failing fetches and restarts.
THEOREM TrustedOnly == Spec => []IssuedOnTrust
<1>1. Init => TrustInv
  BY DEF Init, BridgeInit, TrustInv, Provider, Cached, IssuedOnTrust
<1>2. TrustInv => IssuedOnTrust
  BY DEF TrustInv
<1> QED
  BY <1>1, <1>2, StepTrust, PTL DEF Spec

(***************************************************************************)
(* Narrowing.  Credentials, once issued, do not change, and a delegation's *)
(* parent is there before it.  A verification has walked delegations only, *)
(* and what it combines is a scope.                                        *)
(***************************************************************************)
Draft == [pc : {"allowed", "bounded"}, parent : Jtis, scope : Scope, ttl : Nat]

Issuing ==
  /\ boot \in Nat
  /\ indexOf \in [Jtis -> Nat \cup {None}]
  /\ \A j \in Jtis : indexOf[j] # None => indexOf[j] < nextIndex
  /\ busy # None => busy.scope \in BindScopes
  /\ draft # None => draft \in Draft /\ draft.parent \in DelegationsIssued
  /\ \A j \in DelegationsIssued : issued[j].scope \in Scope

Walk(q) ==
  /\ q.pc # "resting" =>
       Len(q.path) >= 1 /\ \A n \in 1..Len(q.path) : q.path[n] \in DelegationsIssued
  /\ q.pc \in {"resting", "checking"} => q.pos = 0
  /\ q.pc \in {"combining", "verified"} => q.pos \in 1..Len(q.path) /\ q.eff \in Scope

Narrow(q) ==
  \A i \in 1..q.pos : LET s == issued[q.path[i]].scope IN
    /\ q.eff.actions \subseteq s.actions \/ s.actions = {}
    /\ s.amount # Unset => Amount(q.eff) <= s.amount
    /\ i = 1 => Within(q.eff, s)

Inv == TypeOK /\ Issuing /\ \A v \in Verifiers : Walk(verif[v]) /\ Narrow(verif[v])

\* The lengths and indexes are numbers.
LEMMA Numbers ==
  ASSUME Inv
  PROVE  /\ now \in Nat /\ nextIndex \in Nat /\ nextIndex <= ListSize
         /\ \A j \in Jtis : issued[j] # None => issued[j] \in Link
         /\ \A j \in DelegationsIssued : j \in Jtis /\ issued[j] \in Link /\ issued[j].scope \in Scope
                                   /\ issued[j].parent \in DelegationsIssued \cup {None}
         /\ DelegationsIssued \subseteq Jtis
BY Assumptions DEF Inv, TypeOK, Issuing, DelegationsIssued

\* An idle verifier has walked nothing.
LEMMA RestingType == Resting \in Verification /\ Walk(Resting) /\ Narrow(Resting)
<1>1. <<>> \in Seq(Jtis)
  BY EmptySeq
<1>2. Resting \in Verification /\ Resting.pos = 0 /\ Resting.pc = "resting"
  BY <1>1 DEF Resting, Verification
<1> QED
  BY <1>2 DEF Walk, Narrow

(***************************************************************************)
(* The bridge and the agents issue credentials.                            *)
(***************************************************************************)
Kept == \A j \in Jtis : issued[j] # None => issued'[j] = issued[j]

\* What verifiers have walked is there still.
LEMMA KeptWalks ==
  ASSUME Inv, Kept, verif' = verif
  PROVE  /\ DelegationsIssued \subseteq DelegationsIssued'
         /\ \A v \in Verifiers : Walk(verif[v])' /\ Narrow(verif[v])'
<1>1. DelegationsIssued \subseteq DelegationsIssued' /\ \A j \in DelegationsIssued : issued'[j] = issued[j]
  BY DEF Kept, DelegationsIssued
<1>2. ASSUME NEW v \in Verifiers PROVE Walk(verif[v])' /\ Narrow(verif[v])'
  <2> DEFINE q == verif[v]
  <2>1. q \in Verification /\ Walk(q) /\ Narrow(q) /\ verif'[v] = q
    BY DEF Inv, TypeOK
  <2>2. Walk(verif[v])'
    BY <1>1, <2>1 DEF Walk
  <2>3. \A i \in 1..q.pos : q.path[i] \in DelegationsIssued
    <3>1. CASE q.pc \in {"resting", "checking"}
      BY <2>1, <3>1 DEF Walk
    <3>2. CASE q.pc \in {"combining", "verified"}
      <4>1. Len(q.path) \in Nat /\ q.pos \in 1..Len(q.path)
        BY <2>1, <3>2, LenProperties DEF Walk, Verification
      <4>2. \A n \in 1..Len(q.path) : q.path[n] \in DelegationsIssued
        BY <2>1, <3>2 DEF Walk
      <4> QED
        BY <4>1, <4>2
    <3> QED
      BY <2>1, <3>1, <3>2 DEF Verification
  <2>4. \A i \in 1..q.pos : issued'[q.path[i]] = issued[q.path[i]]
    BY <1>1, <2>3
  <2>5. Narrow(verif[v])'
    BY <2>1, <2>4 DEF Narrow
  <2> QED
    BY <2>2, <2>5
<1> QED
  BY <1>1, <1>2

\* A credential with a fresh jti keeps the rest as it is.
LEMMA IssueInv ==
  ASSUME Inv, NEW j \in Jtis, Free(j), NEW c \in Link,
         issued' = [issued EXCEPT ![j] = c],
         c.kind = "delegation" => c.scope \in Scope /\ c.parent \in DelegationsIssued \cup {None},
         now' = now, verif' = verif
  PROVE  /\ Kept /\ issued' \in [Jtis -> Link \cup {None}]
         /\ DelegationsIssued \subseteq DelegationsIssued'
         /\ \A i \in DelegationsIssued' : issued'[i].scope \in Scope
                                    /\ issued'[i].parent \in DelegationsIssued' \cup {None}
         /\ \A v \in Verifiers : Walk(verif[v])' /\ Narrow(verif[v])'
<1>1. issued \in [Jtis -> Link \cup {None}]
  BY DEF Inv, TypeOK
<1>2. Kept /\ issued' \in [Jtis -> Link \cup {None}]
  BY <1>1 DEF Kept, Free
<1>3. DelegationsIssued \subseteq DelegationsIssued' /\ \A v \in Verifiers : Walk(verif[v])' /\ Narrow(verif[v])'
  BY <1>2, KeptWalks
<1>4. ASSUME NEW i \in DelegationsIssued'
      PROVE  (i = j /\ issued'[i] = c) \/ (i \in DelegationsIssued /\ issued'[i] = issued[i])
  <2>1. i \in Jtis /\ issued'[i] # None /\ issued'[i].kind = "delegation"
    BY DEF DelegationsIssued
  <2>2. issued'[i] = IF i = j THEN c ELSE issued[i]
    BY <1>1, <2>1
  <2> QED
    BY <2>1, <2>2 DEF DelegationsIssued
<1>5. \A i \in DelegationsIssued : issued[i].scope \in Scope /\ issued[i].parent \in DelegationsIssued \cup {None}
  BY Numbers
<1>6. \A i \in DelegationsIssued' : issued'[i].kind = "delegation"
  BY DEF DelegationsIssued
<1>7. ASSUME NEW i \in DelegationsIssued'
      PROVE  issued'[i].scope \in Scope /\ issued'[i].parent \in DelegationsIssued' \cup {None}
  BY <1>3, <1>4, <1>5, <1>6
<1> QED
  BY <1>2, <1>3, <1>7

\* A credential of the bridge takes the next entry of its list.
LEMMA IssuesInv ==
  ASSUME Inv, NEW j \in Jtis, NEW c \in Link, Issues(j, c), c.index = nextIndex,
         c.kind = "delegation" => c.scope \in Scope /\ c.parent \in DelegationsIssued \cup {None},
         busy' # None => busy'.scope \in BindScopes,
         UNCHANGED <<now, bits, boot, draft, verif>>
  PROVE  Inv'
<1>1. /\ Free(j) /\ issued' = [issued EXCEPT ![j] = c]
      /\ nextIndex < ListSize /\ nextIndex' = nextIndex + 1
      /\ indexOf' = [indexOf EXCEPT ![j] = nextIndex]
  BY DEF Issues
<1>2. /\ Kept /\ issued' \in [Jtis -> Link \cup {None}]
      /\ DelegationsIssued \subseteq DelegationsIssued'
      /\ \A i \in DelegationsIssued' : issued'[i].scope \in Scope
                                 /\ issued'[i].parent \in DelegationsIssued' \cup {None}
      /\ \A v \in Verifiers : Walk(verif[v])' /\ Narrow(verif[v])'
  BY <1>1, IssueInv
<1>3. nextIndex \in Nat /\ ListSize \in Nat /\ indexOf \in [Jtis -> Nat \cup {None}]
  BY Numbers, Assumptions DEF Inv, Issuing
<1>4. \A i \in Jtis : indexOf'[i] = IF i = j THEN nextIndex ELSE indexOf[i]
  BY <1>1, <1>3
<1>5. /\ indexOf' \in [Jtis -> Nat \cup {None}]
      /\ \A i \in Jtis : indexOf'[i] # None => indexOf'[i] < nextIndex'
  BY <1>1, <1>3, <1>4 DEF Inv, Issuing
<1>6. \A h, i \in Jtis : indexOf'[h] # None /\ indexOf'[h] = indexOf'[i] => h = i
  BY <1>1, <1>3, <1>4 DEF Inv, Issuing, TypeOK
<1>7. nextIndex' \in 0..ListSize /\ bits' \subseteq 0..(nextIndex' - 1)
  BY <1>1, <1>3 DEF Inv, TypeOK
<1>8. TypeOK'
  BY <1>2, <1>6, <1>7 DEF Inv, TypeOK
<1>9. Issuing'
  BY <1>2, <1>5 DEF Inv, Issuing
<1> QED
  BY <1>2, <1>8, <1>9 DEF Inv

\* Identities, delegations and agents that the bridge makes have their types.
LEMMA BridgeLinks ==
  ASSUME Inv, NEW t, NEW scope \in BindScopes
  PROVE  /\ NewIdentity(t) \in Link /\ NewIdentity(t).kind = "identity"
         /\ NewIdentity(t).index = nextIndex
         /\ NewDelegation(t, scope) \in Link /\ NewDelegation(t, scope).scope \in Scope
         /\ NewDelegation(t, scope).parent = None /\ NewDelegation(t, scope).index = nextIndex
         /\ Credential("agent", None, 0, 0, now + Ttl, None, None, Trusted(t)) \in Link
         /\ Credential("agent", None, 0, 0, now + Ttl, None, None, Trusted(t)).kind = "agent"
<1>1. Trusted(t) \in BOOLEAN
  BY DEF Trusted
<1>2. now + Ttl \in Nat /\ nextIndex \in Nat /\ MaxDepth \in Nat /\ scope \in Scope
  BY Numbers, Assumptions
<1> QED
  BY <1>1, <1>2 DEF NewIdentity, NewDelegation, Credential, Link

\* A step that issues nothing and leaves verifications alone.
LEMMA StillInv ==
  ASSUME Inv, UNCHANGED <<issued, verif>>, now' \in Nat, boot' \in Nat,
         nextIndex' \in 0..ListSize, bits' \subseteq 0..(nextIndex' - 1),
         indexOf' \in [Jtis -> Nat \cup {None}],
         \A j \in Jtis : indexOf'[j] # None => indexOf'[j] < nextIndex',
         \A i, j \in Jtis : indexOf'[i] # None /\ indexOf'[i] = indexOf'[j] => i = j,
         busy' # None => busy'.scope \in BindScopes,
         draft' # None => draft' \in Draft /\ draft'.parent \in DelegationsIssued
  PROVE  Inv'
<1>1. Kept /\ DelegationsIssued' = DelegationsIssued
  BY DEF Kept, DelegationsIssued
<1>2. \A v \in Verifiers : Walk(verif[v])' /\ Narrow(verif[v])'
  BY <1>1, KeptWalks
<1>3. TypeOK'
  BY <1>1 DEF Inv, TypeOK
<1>4. Issuing'
  BY <1>1 DEF Inv, Issuing
<1> QED
  BY <1>2, <1>3, <1>4 DEF Inv

\* As StillInv, where the status list and its indexes stay as they are.
LEMMA StillListed ==
  ASSUME Inv, UNCHANGED <<issued, verif, boot, nextIndex, bits, indexOf>>, now' \in Nat,
         busy' # None => busy'.scope \in BindScopes,
         draft' # None => draft' \in Draft /\ draft'.parent \in DelegationsIssued
  PROVE  Inv'
BY StillInv DEF Inv, TypeOK, Issuing

\* /bind-with-vp issues two credentials, of which one is listed.
LEMMA BindWithVpInv ==
  ASSUME Inv, NEW reachable \in BOOLEAN, NEW j \in Jtis, NEW k \in Jtis,
         BindWithVp(reachable, j, k), UNCHANGED <<draft, verif>>
  PROVE  Inv'
<1> DEFINE one == NewDelegation(busy.token, busy.scope)
           two == Credential("agent", None, 0, 0, now + Ttl, None, None, Trusted(busy.token))
<1>1. /\ j # k /\ Free(j) /\ Free(k) /\ nextIndex < ListSize /\ nextIndex' = nextIndex + 1
      /\ issued' = [issued EXCEPT ![j] = one, ![k] = two]
      /\ indexOf' = [indexOf EXCEPT ![j] = nextIndex]
      /\ busy # None /\ busy' = None /\ UNCHANGED <<now, bits, boot>>
  BY DEF BindWithVp
<1>2. /\ one \in Link /\ one.scope \in Scope /\ one.parent = None
      /\ two \in Link /\ two.kind = "agent"
  BY <1>1, BridgeLinks DEF Inv, Issuing
<1> HIDE DEF one, two
<1>3. issued \in [Jtis -> Link \cup {None}]
  BY DEF Inv, TypeOK
<1>4. \A i \in Jtis : issued'[i] = IF i = k THEN two ELSE IF i = j THEN one ELSE issued[i]
  BY <1>1, <1>3
<1>5. issued' \in [Jtis -> Link \cup {None}]
  BY <1>1, <1>2, <1>3
<1>6. Kept
  BY <1>1, <1>4 DEF Kept, Free
<1>7. DelegationsIssued \subseteq DelegationsIssued' /\ \A v \in Verifiers : Walk(verif[v])' /\ Narrow(verif[v])'
  BY <1>6, KeptWalks
<1>8. \A i \in DelegationsIssued' : (i = j /\ issued'[i] = one) \/ (i \in DelegationsIssued /\ issued'[i] = issued[i])
  BY <1>1, <1>2, <1>4 DEF DelegationsIssued
<1>9. ASSUME NEW i \in DelegationsIssued'
      PROVE  issued'[i].scope \in Scope /\ issued'[i].parent \in DelegationsIssued' \cup {None}
  BY <1>2, <1>7, <1>8, Numbers
<1>10. nextIndex \in Nat /\ ListSize \in Nat /\ indexOf \in [Jtis -> Nat \cup {None}]
  BY Numbers, Assumptions DEF Inv, Issuing
<1>11. \A i \in Jtis : indexOf'[i] = IF i = j THEN nextIndex ELSE indexOf[i]
  BY <1>1, <1>10
<1>12. /\ indexOf' \in [Jtis -> Nat \cup {None}]
       /\ \A i \in Jtis : indexOf'[i] # None => indexOf'[i] < nextIndex'
  BY <1>1, <1>10, <1>11 DEF Inv, Issuing
<1>13. \A h, i \in Jtis : indexOf'[h] # None /\ indexOf'[h] = indexOf'[i] => h = i
  BY <1>1, <1>10, <1>11 DEF Inv, Issuing, TypeOK
<1>14. nextIndex' \in 0..ListSize /\ bits' \subseteq 0..(nextIndex' - 1)
  BY <1>1, <1>10 DEF Inv, TypeOK
<1>15. TypeOK'
  BY <1>1, <1>5, <1>9, <1>13, <1>14 DEF Inv, TypeOK
<1>16. Issuing'
  BY <1>1, <1>7, <1>9, <1>12 DEF Inv, Issuing
<1> QED
  BY <1>7, <1>15, <1>16 DEF Inv

(***************************************************************************)
(* Verifiers walk chains and combine scopes.                               *)
(***************************************************************************)

\* A verifier that goes on with what it may hold keeps the invariant.
LEMMA GoInv ==
  ASSUME Inv, NEW v \in Verifiers, NEW next \in Verification, Walk(next), Narrow(next),
         Go(v, next)
  PROVE  Inv'
<1>1. UNCHANGED <<now, issued, nextIndex, bits, indexOf, busy, boot, draft>>
  BY DEF Go, bridgeVars, bridge
<1>2. DelegationsIssued' = DelegationsIssued
  BY <1>1 DEF DelegationsIssued
<1>3. verif \in [Verifiers -> Verification] /\ verif' = [verif EXCEPT ![v] = next]
  BY DEF Go, Inv, TypeOK
<1>4. /\ verif' \in [Verifiers -> Verification]
      /\ \A u \in Verifiers : verif'[u] = IF u = v THEN next ELSE verif[u]
  BY <1>3
<1>5. \A u \in Verifiers : Walk(verif'[u]) /\ Narrow(verif'[u])
  BY <1>4 DEF Inv
<1>6. ASSUME NEW u \in Verifiers PROVE Walk(verif[u])' /\ Narrow(verif[u])'
  BY <1>1, <1>2, <1>5 DEF Walk, Narrow
<1>7. TypeOK'
  BY <1>1, <1>2, <1>4 DEF Inv, TypeOK
<1>8. Issuing'
  BY <1>1, <1>2 DEF Inv, Issuing
<1> QED
  BY <1>6, <1>7, <1>8 DEF Inv

\* What a verifier at work has walked.
LEMMA Walked ==
  ASSUME Inv, NEW v \in Verifiers, verif[v].pc # "resting"
  PROVE  /\ verif[v] \in Verification /\ verif[v].path \in Seq(Jtis)
         /\ Len(verif[v].path) \in Nat \ {0} /\ verif[v].pos \in Nat
         /\ \A n \in 1..Len(verif[v].path) : verif[v].path[n] \in DelegationsIssued
         /\ Walk(verif[v]) /\ Narrow(verif[v])
<1>1. verif[v] \in Verification /\ Walk(verif[v]) /\ Narrow(verif[v])
  BY DEF Inv, TypeOK
<1>2. verif[v].path \in Seq(Jtis) /\ verif[v].pos \in Nat
  BY <1>1 DEF Verification
<1>3. Len(verif[v].path) \in Nat
  BY <1>2, LenProperties
<1> QED
  BY <1>1, <1>2, <1>3 DEF Walk

\* A verification begins with the delegation presented.
LEMMA BeginInv ==
  ASSUME Inv, NEW v \in Verifiers, NEW j \in Jtis, NEW by \in {"sdk", "backend"},
         Begin(v, j, by)
  PROVE  Inv'
<1> DEFINE whole == ChainOf(j) \cap RevokedNow = {}
           alive == \A i \in ChainOf(j) : ~Expired(i)
           next == [pc |-> "checking", by |-> by, path |-> <<j>>, pos |-> 0, eff |-> None,
                    whole |-> whole, alive |-> alive, boot |-> boot]
<1>1. j \in DelegationsIssued /\ Go(v, next)
  BY DEF Begin
<1>2. whole \in BOOLEAN /\ alive \in BOOLEAN /\ boot \in Nat
  BY DEF Inv, Issuing
<1> HIDE DEF whole, alive
<1>3. <<j>> \in Seq(Jtis) /\ Len(<<j>>) = 1 /\ <<j>>[1] = j
  OBVIOUS
<1>4. next \in Verification
  BY <1>2, <1>3 DEF Verification
<1>5. Walk(next)
  BY <1>1, <1>3 DEF Walk
<1>6. Narrow(next)
  BY DEF Narrow
<1> QED
  BY <1>1, <1>4, <1>5, <1>6, GoInv

\* The way up: one more parent, or the root and its scope.
LEMMA CheckInv ==
  ASSUME Inv, NEW v \in Verifiers, NEW readable \in BOOLEAN, Check(v, readable)
  PROVE  Inv'
<1> DEFINE me == verif[v]
           top == me.path[1]
<1>1. me.pc = "checking" /\ me.pc # "resting" /\ me.pos = 0
  BY DEF Check, Inv, Walk
<1>2. /\ me \in Verification /\ me.path \in Seq(Jtis) /\ Len(me.path) \in Nat \ {0}
      /\ \A n \in 1..Len(me.path) : me.path[n] \in DelegationsIssued
  BY <1>1, Walked
<1>3. top \in DelegationsIssued
  BY <1>2
<1>4. /\ issued[top].scope \in Scope /\ issued[top].parent \in DelegationsIssued \cup {None}
      /\ DelegationsIssued \subseteq Jtis
  BY <1>3, Numbers
<1>5. CASE Go(v, Resting)
  BY <1>5, RestingType, GoInv
<1>6. CASE issued[top].parent # None
           /\ Go(v, [me EXCEPT !.path = <<issued[top].parent>> \o @])
  <2> DEFINE parent == issued[top].parent
             path == <<parent>> \o me.path
             next == [me EXCEPT !.path = path]
  <2>1. parent \in DelegationsIssued /\ parent \in Jtis
    BY <1>4, <1>6
  <2>2. <<parent>> \in Seq(Jtis) /\ Len(<<parent>>) = 1 /\ <<parent>>[1] = parent
    BY <2>1
  <2>3. /\ path \in Seq(Jtis) /\ Len(path) = 1 + Len(me.path)
        /\ \A n \in 1..Len(path) : path[n] = IF n <= 1 THEN parent ELSE me.path[n - 1]
    BY <1>2, <2>2, ConcatProperties
  <2>4. \A n \in 1..Len(path) : path[n] \in DelegationsIssued
    BY <1>2, <2>1, <2>3
  <2> HIDE DEF path
  <2>5. next \in Verification /\ next.pc = "checking" /\ next.pos = 0 /\ next.path = path
    BY <1>1, <1>2, <2>3 DEF Verification
  <2>6. Walk(next)
    BY <1>2, <2>3, <2>4, <2>5 DEF Walk
  <2>7. Narrow(next)
    BY <2>5 DEF Narrow
  <2>8. Go(v, next)
    BY <1>6 DEF path
  <2> QED
    BY <2>5, <2>6, <2>7, <2>8, GoInv
<1>7. CASE Go(v, [me EXCEPT !.pc = "combining", !.pos = 1, !.eff = issued[top].scope])
  <2> DEFINE next == [me EXCEPT !.pc = "combining", !.pos = 1, !.eff = issued[top].scope]
  <2>1. /\ next \in Verification /\ next.pc = "combining" /\ next.pos = 1
        /\ next.eff = issued[top].scope /\ next.path = me.path
    BY <1>2, <1>4 DEF Verification
  <2>2. Walk(next)
    BY <1>2, <1>4, <2>1 DEF Walk
  <2>3. Within(issued[top].scope, issued[top].scope)
    BY <1>4, AmountType DEF Within
  <2>4. issued[top].scope.amount # Unset
        => Amount(issued[top].scope) <= issued[top].scope.amount
    BY <1>4, AmountType
  <2>5. \A i \in 1..next.pos : i = 1 /\ next.path[i] = top
    BY <2>1
  <2>6. Narrow(next)
    BY <2>1, <2>3, <2>4, <2>5 DEF Narrow
  <2> QED
    BY <1>7, <2>1, <2>2, <2>6, GoInv
<1> QED
  BY <1>5, <1>6, <1>7 DEF Check

\* The way back: the next scope is combined with what the links above it left.
LEMMA CombineInv ==
  ASSUME Inv, NEW v \in Verifiers, Combine(v)
  PROVE  Inv'
<1> DEFINE me == verif[v]
           child == issued[me.path[me.pos + 1]].scope
           eff == IF me.by = "backend" THEN BackendIntersect(me.eff, child)
                  ELSE Intersect(me.eff, child)
           next == [me EXCEPT !.pos = me.pos + 1, !.eff = eff]
<1>1. me.pc = "combining" /\ me.pc # "resting" /\ me.pos < Len(me.path)
      /\ (Go(v, Resting) \/ Go(v, next))
  BY DEF Combine
<1>2. /\ me \in Verification /\ me.path \in Seq(Jtis) /\ Len(me.path) \in Nat \ {0}
      /\ me.pos \in Nat /\ Walk(me) /\ Narrow(me)
      /\ \A n \in 1..Len(me.path) : me.path[n] \in DelegationsIssued
  BY <1>1, Walked
<1>3. me.pos \in 1..Len(me.path) /\ me.eff \in Scope
  BY <1>1, <1>2 DEF Walk
<1>4. me.pos + 1 \in 1..Len(me.path)
  BY <1>1, <1>2, <1>3
<1>5. child \in Scope
  BY <1>2, <1>4, Numbers
<1>6. /\ eff \in Scope /\ eff.actions \subseteq me.eff.actions
      /\ eff.actions \subseteq child.actions \/ child.actions = {}
      /\ Amount(eff) <= Amount(me.eff) /\ (child.amount # Unset => Amount(eff) <= child.amount)
      /\ \A t \in Scope : Within(me.eff, t) => Within(eff, t)
  <2>1. eff = Intersect(me.eff, child) \/ eff = BackendIntersect(me.eff, child)
    OBVIOUS
  <2> HIDE DEF eff, child
  <2> QED
    BY <1>3, <1>5, <2>1, IntersectNarrows
<1> HIDE DEF eff, child
<1>a. eff \in Scope /\ me.pos + 1 \in Nat
  BY <1>2, <1>6
<1>7. /\ next \in Verification /\ next.pc = "combining" /\ next.pos = me.pos + 1
      /\ next.eff = eff /\ next.path = me.path
  BY <1>1, <1>2, <1>a DEF Verification
<1> HIDE DEF next
<1>8. Walk(next)
  BY <1>2, <1>4, <1>a, <1>7 DEF Walk
<1>9. ASSUME NEW i \in 1..next.pos
      PROVE  LET s == issued[next.path[i]].scope IN
               /\ next.eff.actions \subseteq s.actions \/ s.actions = {}
               /\ s.amount # Unset => Amount(next.eff) <= s.amount
               /\ i = 1 => Within(next.eff, s)
  <2> DEFINE s == issued[me.path[i]].scope
  <2>1. i \in 1..Len(me.path) /\ (i = me.pos + 1 \/ i \in 1..me.pos)
    BY <1>2, <1>3, <1>4, <1>7
  <2>2. s \in Scope
    BY <1>2, <2>1, Numbers
  <2>3. CASE i = me.pos + 1
    <3>1. s = child /\ i # 1
      BY <1>3, <2>3 DEF child
    <3> HIDE DEF s
    <3> QED
      BY <1>6, <1>7, <3>1 DEF s
  <2>4. CASE i \in 1..me.pos
    <3>1. /\ me.eff.actions \subseteq s.actions \/ s.actions = {}
          /\ s.amount # Unset => Amount(me.eff) <= s.amount
          /\ i = 1 => Within(me.eff, s)
      BY <1>2, <2>4 DEF Narrow
    <3>2. s.amount # Unset => s.amount \in Nat
      BY <2>2 DEF Scope
    <3>3. Amount(eff) \in Nat /\ Amount(me.eff) \in Nat /\ Amount(eff) <= Amount(me.eff)
      BY <1>3, <1>6, AmountType
    <3> HIDE DEF s
    <3>4. s.amount # Unset => Amount(eff) <= s.amount
      BY <3>1, <3>2, <3>3
    <3>5. eff.actions \subseteq s.actions \/ s.actions = {}
      BY <1>6, <3>1
    <3>6. i = 1 => Within(eff, s)
      BY <1>6, <2>2, <3>1
    <3> QED
      BY <1>7, <3>4, <3>5, <3>6 DEF s
  <2> QED
    BY <2>1, <2>3, <2>4
<1>10. Narrow(next)
  BY <1>9 DEF Narrow
<1> QED
  BY <1>1, <1>7, <1>8, <1>10, RestingType, GoInv

\* The action asked for changes nothing of what was combined.
LEMMA AnswerInv ==
  ASSUME Inv, NEW v \in Verifiers, NEW action, Answer(v, action)
  PROVE  Inv'
<1> DEFINE me == verif[v]
           next == [me EXCEPT !.pc = "verified"]
<1>1. me.pc = "combining" /\ me.pc # "resting" /\ (Go(v, Resting) \/ Go(v, next))
  BY DEF Answer
<1>2. me \in Verification /\ Walk(me) /\ Narrow(me)
  BY <1>1, Walked
<1>3. /\ next \in Verification /\ next.pc = "verified" /\ next.pos = me.pos
      /\ next.eff = me.eff /\ next.path = me.path
  BY <1>2 DEF Verification
<1>4. Walk(next)
  BY <1>1, <1>2, <1>3 DEF Walk
<1>5. Narrow(next)
  BY <1>2, <1>3 DEF Narrow
<1> QED
  BY <1>1, <1>3, <1>4, <1>5, RestingType, GoInv

(***************************************************************************)
(* Every step.                                                             *)
(***************************************************************************)

\* The clock, the identity provider, refusals and revocations issue nothing.
LEMMA QuietInv ==
  ASSUME Inv, UNCHANGED <<draft, verif>>,
         \/ Tick \/ RotateIdpKey
         \/ \E j \in Jtis : Revoke(j)
         \/ \E t \in Tokens, reachable \in BOOLEAN :
              AttestRefused(t, reachable) \/ AttestFull(t, reachable)
         \/ \E reachable \in BOOLEAN : BindFails(reachable)
  PROVE  Inv'
<1>1. /\ busy # None => busy.scope \in BindScopes
      /\ draft # None => draft \in Draft /\ draft.parent \in DelegationsIssued
      /\ now \in Nat /\ nextIndex \in 0..ListSize /\ bits \subseteq 0..(nextIndex - 1)
      /\ indexOf \in [Jtis -> Nat \cup {None}]
      /\ \A j \in Jtis : indexOf[j] # None => indexOf[j] < nextIndex
  BY DEF Inv, TypeOK, Issuing
<1>2. CASE Tick
  BY <1>1, <1>2, StillListed DEF Tick, bridge
<1>3. CASE RotateIdpKey
  BY <1>1, <1>3, StillListed DEF RotateIdpKey, bridge
<1>4. ASSUME NEW j \in Jtis, Revoke(j) PROVE Inv'
  <2>1. /\ bits' = bits \cup {indexOf[j]} /\ indexOf[j] # None
        /\ UNCHANGED <<issued, verif, draft, now, boot, nextIndex, indexOf, busy>>
    BY <1>4 DEF Revoke
  <2>2. indexOf[j] \in 0..(nextIndex - 1) /\ nextIndex \in Nat
    BY <1>1, <2>1, Assumptions
  <2>3. bits' \subseteq 0..(nextIndex' - 1)
    BY <1>1, <2>1, <2>2
  <2>4. /\ nextIndex' \in 0..ListSize /\ now' \in Nat /\ boot' \in Nat
        /\ indexOf' \in [Jtis -> Nat \cup {None}]
        /\ \A i \in Jtis : indexOf'[i] # None => indexOf'[i] < nextIndex'
        /\ \A h, i \in Jtis : indexOf'[h] # None /\ indexOf'[h] = indexOf'[i] => h = i
    BY <2>1 DEF Inv, TypeOK, Issuing
  <2> QED
    BY <1>1, <2>1, <2>3, <2>4, StillInv
<1>5. ASSUME NEW t \in Tokens, NEW reachable \in BOOLEAN,
             AttestRefused(t, reachable) \/ AttestFull(t, reachable)
      PROVE  Inv'
  BY <1>1, <1>5, StillListed DEF AttestRefused, AttestFull
<1>6. ASSUME NEW reachable \in BOOLEAN, BindFails(reachable) PROVE Inv'
  BY <1>1, <1>6, StillListed DEF BindFails
<1> QED
  BY <1>2, <1>3, <1>4, <1>5, <1>6

\* A restarted bridge knows nothing of what it issued, and starts its list again.
LEMMA RestartInv == ASSUME Inv, UNCHANGED <<draft, verif>>, Restart PROVE Inv'
<1>1. /\ bits' = {} /\ nextIndex' = 0 /\ indexOf' = [j \in Jtis |-> None]
      /\ busy' = None /\ boot' = boot + 1 /\ UNCHANGED <<issued, now>>
  BY DEF Restart
<1>2. /\ boot' \in Nat /\ now' \in Nat /\ nextIndex' \in 0..ListSize
      /\ bits' \subseteq 0..(nextIndex' - 1)
      /\ draft' # None => draft' \in Draft /\ draft'.parent \in DelegationsIssued
  BY <1>1, Assumptions DEF Inv, TypeOK, Issuing
<1>3. /\ indexOf' \in [Jtis -> Nat \cup {None}] /\ \A j \in Jtis : indexOf'[j] = None
  BY <1>1
<1> QED
  BY <1>1, <1>2, <1>3, StillInv

\* The bridge's credentials: the identity, and then the delegation.
LEMMA BridgeIssueInv ==
  ASSUME Inv, UNCHANGED <<draft, verif>>, NEW reachable \in BOOLEAN, NEW j \in Jtis,
         \/ BindIssues(reachable, j)
         \/ \E t \in Tokens : AttestIssued(t, reachable, j, None)
         \/ \E t \in Tokens, scope \in BindScopes :
              AttestIssued(t, reachable, j, [token |-> t, scope |-> scope])
  PROVE  Inv'
<1>1. CASE BindIssues(reachable, j)
  <2> DEFINE c == NewDelegation(busy.token, busy.scope)
  <2>1. /\ busy # None /\ busy' = None /\ Issues(j, c)
        /\ UNCHANGED <<now, bits, boot>>
    BY <1>1 DEF BindIssues
  <2>2. c \in Link /\ c.scope \in Scope /\ c.parent = None /\ c.index = nextIndex
    BY <2>1, BridgeLinks DEF Inv, Issuing
  <2> HIDE DEF c
  <2> QED
    BY <2>1, <2>2, IssuesInv
<1>2. ASSUME NEW t \in Tokens, NEW next, AttestIssued(t, reachable, j, next),
             next # None => next.scope \in BindScopes
      PROVE  Inv'
  <2> DEFINE c == NewIdentity(t)
  <2>1. /\ busy' = next /\ Issues(j, c)
        /\ UNCHANGED <<now, bits, boot>>
    BY <1>2 DEF AttestIssued
  <2>2. c \in Link /\ c.kind = "identity" /\ c.index = nextIndex
    <3>1. Trusted(t) \in BOOLEAN
      BY DEF Trusted
    <3>2. now + Ttl \in Nat /\ nextIndex \in Nat
      BY Numbers, Assumptions
    <3> QED
      BY <3>1, <3>2 DEF NewIdentity, Credential, Link
  <2> HIDE DEF c
  <2> QED
    BY <1>2, <2>1, <2>2, IssuesInv
<1>3. ASSUME NEW t \in Tokens, NEW scope \in BindScopes,
             AttestIssued(t, reachable, j, [token |-> t, scope |-> scope])
      PROVE  Inv'
  <2> DEFINE next == [token |-> t, scope |-> scope]
  <2>1. next.scope \in BindScopes
    OBVIOUS
  <2> HIDE DEF next
  <2>2. AttestIssued(t, reachable, j, next)
    BY <1>3 DEF next
  <2> QED
    BY <1>2, <2>1, <2>2
<1> QED
  BY <1>1, <1>2, <1>3

\* delegate_further reads its parent and bounds the child's life.
LEMMA DraftInv ==
  ASSUME Inv,
         BoundTtl \/ \E parent \in Jtis, s \in NarrowedScopes : DelegateFurther(parent, s)
  PROVE  Inv'
<1>1. CASE BoundTtl
  <2> DEFINE left == issued[draft.parent].exp - now
  <2>1. /\ draft # None /\ UNCHANGED <<bridgeVars, verif>>
        /\ draft' = IF left <= 0 THEN None
                    ELSE [draft EXCEPT !.pc = "bounded", !.ttl = IF left < Ttl THEN left ELSE Ttl]
    BY <1>1 DEF BoundTtl
  <2>2. draft \in Draft /\ draft.parent \in DelegationsIssued
    BY <2>1 DEF Inv, Issuing
  <2>3. left \in Int /\ Ttl \in Nat
    BY <2>2, Numbers, Assumptions DEF Link
  <2> HIDE DEF left
  <2> DEFINE ttl == IF left < Ttl THEN left ELSE Ttl
             bounded == [draft EXCEPT !.pc = "bounded", !.ttl = ttl]
  <2>4. ~(left <= 0) => ttl \in Nat
    BY <2>3
  <2>5. draft' = IF left <= 0 THEN None ELSE bounded
    BY <2>1
  <2> HIDE DEF ttl
  <2>6. ~(left <= 0) => bounded \in Draft /\ bounded.parent \in DelegationsIssued
    BY <2>2, <2>4 DEF Draft
  <2> HIDE DEF bounded
  <2>7. draft' # None => draft' \in Draft /\ draft'.parent \in DelegationsIssued
    BY <2>5, <2>6
  <2>8. UNCHANGED <<issued, verif, boot, nextIndex, bits, indexOf, now, busy>>
    BY <2>1 DEF bridgeVars, bridge
  <2>9. now' \in Nat /\ (busy' # None => busy'.scope \in BindScopes)
    BY <2>8 DEF Inv, TypeOK, Issuing
  <2> QED
    BY <2>7, <2>8, <2>9, StillListed
<1>2. ASSUME NEW parent \in Jtis, NEW s \in NarrowedScopes, DelegateFurther(parent, s)
      PROVE  Inv'
  <2>1. /\ draft' = [pc |-> "allowed", parent |-> parent, scope |-> s, ttl |-> Ttl]
        /\ parent \in DelegationsIssued /\ UNCHANGED <<bridgeVars, verif>>
    BY <1>2 DEF DelegateFurther
  <2>2. draft' \in Draft /\ draft'.parent \in DelegationsIssued
    BY <2>1, Assumptions DEF Draft
  <2>3. UNCHANGED <<issued, verif, boot, nextIndex, bits, indexOf, now, busy>>
    BY <2>1 DEF bridgeVars, bridge
  <2>4. now' \in Nat /\ (busy' # None => busy'.scope \in BindScopes)
    BY <2>3 DEF Inv, TypeOK, Issuing
  <2> QED
    BY <2>2, <2>3, <2>4, StillListed
<1> QED
  BY <1>1, <1>2

\* Agents issue sub-delegations, with delegate_further or without, that have no entry.
LEMMA AgentInv ==
  ASSUME Inv, NEW j \in Jtis, NEW parent \in DelegationsIssued, NEW scope \in Scope, NEW ttl \in Nat,
         Free(j),
         issued' = [issued EXCEPT ![j] =
           Credential("delegation", scope, issued[parent].depth + 1, issued[parent].max,
                      now + ttl, None, parent, TRUE)],
         UNCHANGED <<now, bridge, verif>>, draft' \in {draft, None}
  PROVE  Inv'
<1> DEFINE c == Credential("delegation", scope, issued[parent].depth + 1, issued[parent].max,
                           now + ttl, None, parent, TRUE)
<1>1. issued[parent] \in Link /\ parent \in Jtis /\ now \in Nat
  BY Numbers
<1>2. issued[parent].depth + 1 \in Nat /\ issued[parent].max \in Nat /\ now + ttl \in Nat
  BY <1>1 DEF Link
<1>3. c \in Link /\ c.scope \in Scope /\ c.parent \in DelegationsIssued
  BY <1>1, <1>2 DEF Credential, Link
<1>4. issued' = [issued EXCEPT ![j] = c]
  OBVIOUS
<1> HIDE DEF c
<1>5. /\ Kept /\ issued' \in [Jtis -> Link \cup {None}]
      /\ DelegationsIssued \subseteq DelegationsIssued'
      /\ \A i \in DelegationsIssued' : issued'[i].scope \in Scope
                                 /\ issued'[i].parent \in DelegationsIssued' \cup {None}
      /\ \A v \in Verifiers : Walk(verif[v])' /\ Narrow(verif[v])'
  BY <1>3, <1>4, IssueInv
<1>6. UNCHANGED <<now, nextIndex, bits, indexOf, busy, boot, verif>>
  BY DEF bridge
<1>7. TypeOK'
  BY <1>5, <1>6 DEF Inv, TypeOK
<1>8. draft' # None => draft' \in Draft /\ draft'.parent \in DelegationsIssued'
  BY <1>5 DEF Inv, Issuing
<1>9. Issuing'
  BY <1>5, <1>6, <1>8 DEF Inv, Issuing
<1> QED
  BY <1>5, <1>7, <1>9 DEF Inv

\* In the initial state there is no credential and no verification.
LEMMA InitInv == Init => Inv
<1> SUFFICES ASSUME Init PROVE Inv
  OBVIOUS
<1>1. DelegationsIssued = {}
  BY DEF Init, BridgeInit, DelegationsIssued
<1>2. /\ \A v \in Verifiers : Walk(verif[v]) /\ Narrow(verif[v])
      /\ verif \in [Verifiers -> Verification]
  BY RestingType DEF Init
<1>3. /\ indexOf \in [Jtis -> Nat \cup {None}] /\ issued \in [Jtis -> Link \cup {None}]
      /\ \A j \in Jtis : indexOf[j] = None
  BY DEF Init, BridgeInit
<1>4. TypeOK
  BY <1>1, <1>2, <1>3, Assumptions DEF Init, BridgeInit, TypeOK
<1>5. Issuing
  BY <1>1, <1>3 DEF Init, BridgeInit, Issuing
<1> QED
  BY <1>2, <1>4, <1>5 DEF Inv

\* Every step of the bridge, the agents and the verifiers keeps the invariant.
LEMMA StepInv == Inv /\ [Next]_chainVars => Inv'
<1> SUFFICES ASSUME Inv, [Next]_chainVars PROVE Inv'
  OBVIOUS
<1>1. CASE UNCHANGED chainVars
  <2>1. UNCHANGED <<issued, verif, draft, now, boot, nextIndex, bits, indexOf, busy>>
    BY <1>1 DEF chainVars, bridgeVars, bridge
  <2>2. now' \in Nat /\ (busy' # None => busy'.scope \in BindScopes)
        /\ (draft' # None => draft' \in Draft /\ draft'.parent \in DelegationsIssued)
    BY <2>1 DEF Inv, TypeOK, Issuing
  <2> QED
    BY <2>1, <2>2, StillListed
<1>2. CASE BridgeNext /\ UNCHANGED <<draft, verif>>
  <2>1. ASSUME NEW reachable \in BOOLEAN, NEW j \in Jtis, NEW k \in Jtis,
               BindWithVp(reachable, j, k)
        PROVE  Inv'
    BY <1>2, <2>1, BindWithVpInv
  <2> QED
    BY <1>2, <2>1, QuietInv, RestartInv, BridgeIssueInv DEF BridgeNext
<1>3. CASE BoundTtl \/ \E parent \in Jtis, s \in NarrowedScopes : DelegateFurther(parent, s)
  BY <1>3, DraftInv
<1>4. ASSUME NEW j \in Jtis, IssueChild(j) PROVE Inv'
  <2>1. draft \in Draft /\ draft.parent \in DelegationsIssued
    BY <1>4 DEF IssueChild, Inv, Issuing
  <2>2. draft.scope \in Scope /\ draft.ttl \in Nat
    BY <2>1 DEF Draft
  <2>3. /\ Free(j) /\ draft' = None /\ UNCHANGED <<now, bridge, verif>>
        /\ issued' = [issued EXCEPT ![j] =
             Credential("delegation", draft.scope, issued[draft.parent].depth + 1,
                        issued[draft.parent].max, now + draft.ttl, None, draft.parent, TRUE)]
    BY <1>4 DEF IssueChild
  <2> QED
    BY <2>1, <2>2, <2>3, AgentInv
<1>5. ASSUME NEW j \in Jtis, NEW parent \in Jtis, NEW s \in ForeignScopes,
             IssueForeign(j, parent, s)
      PROVE  Inv'
  <2>1. /\ Free(j) /\ parent \in DelegationsIssued /\ UNCHANGED <<now, bridge, verif, draft>>
        /\ issued' = [issued EXCEPT ![j] =
             Credential("delegation", s, issued[parent].depth + 1, issued[parent].max,
                        now + Ttl, None, parent, TRUE)]
    BY <1>5 DEF IssueForeign
  <2>2. s \in Scope /\ Ttl \in Nat
    BY Assumptions
  <2> QED
    BY <2>1, <2>2, AgentInv
<1>6. ASSUME NEW v \in Verifiers,
             Work(v) \/ \E j \in Jtis, by \in {"sdk", "backend"} : Begin(v, j, by)
      PROVE  Inv'
  BY <1>6, BeginInv, CheckInv, CombineInv, AnswerInv DEF Work
<1> QED
  BY <1>1, <1>2, <1>3, <1>4, <1>5, <1>6 DEF Next

\* Whatever a chain's links say of each other, what a verifier combines is within the
\* root's scope and, but for empty lists, within every link's, and no two credentials of
\* one run of the bridge share a status entry.
THEOREM ChainsNarrow == Spec => []ScopesAreSound
<1>1. Inv => ScopesAreSound
  <2> SUFFICES ASSUME Inv PROVE ScopesAreSound
    OBVIOUS
  <2>1. ASSUME NEW v \in Verifiers PROVE Narrow(verif[v])
    BY DEF Inv
  <2> QED
    BY <2>1 DEF Inv, ScopesAreSound, EffectiveNarrows, Narrow
<1> QED
  BY <1>1, InitInv, StepInv, PTL DEF Spec

(***************************************************************************)
(* Validity.  While a verification is on its way up a chain that was not   *)
(* whole when it began, there is a link it has still to check - the one it *)
(* has reached, or one above it - that will stop it: what is revoked or    *)
(* expired stays so.  A set of links is closed if it has the parent of     *)
(* each; a link is at or above another if no closed set has only the other.*)
(***************************************************************************)
Closed(S) ==
  \A k \in S : issued[k] # None /\ issued[k].parent # None => issued[k].parent \in S

AtOrAbove(i, j) == \A S \in SUBSET Jtis : Closed(S) /\ j \in S => i \in S

\* The bridge looks up the entry that it has given to a credential.
Indexed ==
  \A j \in Jtis : indexOf[j] # None => issued[j] # None /\ issued[j].index = indexOf[j]

\* The list is asked for and believed.
Believed(q) == q.by = "sdk" /\ q.boot = boot /\ FailClosed

Suspects(q) ==
  /\ ~q.alive => \E i \in DelegationsIssued : AtOrAbove(i, q.path[1]) /\ Expired(i)
  /\ Believed(q) /\ ~q.whole =>
       \E i \in DelegationsIssued \cap RevokedNow : AtOrAbove(i, q.path[1])

Sound(q) ==
  /\ q.boot \in 0..boot
  /\ q.pc = "checking" => Suspects(q)
  /\ q.pc \in {"combining", "verified"} => q.alive /\ (Believed(q) => q.whole)

ValidInv == Indexed /\ \A v \in Verifiers : Sound(verif[v])

\* Credentials stay, the clock goes on, and what is revoked stays revoked while the
\* bridge runs.
Advance ==
  /\ Kept /\ now' \in Nat /\ now' >= now
  /\ (boot' = boot /\ RevokedNow \subseteq RevokedNow') \/ boot' = boot + 1

\* A link above another is above its parent.
LEMMA FurtherUp ==
  ASSUME NEW i, NEW j \in Jtis, AtOrAbove(i, j), i # j, issued[j] # None
  PROVE  /\ issued[j].parent # None
         /\ AtOrAbove(i, issued[j].parent)
<1>1. issued[j].parent # None
  <2> SUFFICES ASSUME issued[j].parent = None PROVE FALSE
    OBVIOUS
  <2>1. Closed({j})
    BY DEF Closed
  <2> QED
    BY <2>1 DEF AtOrAbove
<1>2. ASSUME NEW S \in SUBSET Jtis, Closed(S), issued[j].parent \in S PROVE i \in S
  <2>1. Closed(S \cup {j}) /\ S \cup {j} \in SUBSET Jtis
    BY <1>2 DEF Closed
  <2> QED
    BY <2>1 DEF AtOrAbove
<1> QED
  BY <1>1, <1>2 DEF AtOrAbove

\* The links of a chain are delegations, each at or above the one it was walked from.
LEMMA ChainIsAbove ==
  ASSUME Inv, NEW j \in DelegationsIssued
  PROVE  \A i \in ChainOf(j) : i \in DelegationsIssued /\ AtOrAbove(i, j)
<1>0. /\ \A k \in DelegationsIssued : issued[k].parent \in DelegationsIssued \cup {None}
      /\ DelegationsIssued \subseteq Jtis
  BY Numbers
<1>1. ASSUME NEW D \in SUBSET DelegationsIssued, Closed(D), j \in D PROVE ChainOf(j) \subseteq D
  <2> DEFINE K == Cardinality(Jtis)
             V == SUBSET D
             Up(x) == x \cup ({issued[i].parent : i \in x} \ {None})
             Def(g) == g = [n \in 0..K |-> IF n = 0 THEN {j} ELSE Up(g[n - 1])]
             step == [n \in Nat |-> [x \in V |-> Up(x)]]
  <2>0. K \in Nat
    BY ChainAssumption, FS_CardinalityType
  <2>1. ASSUME NEW x \in V PROVE Up(x) \in V
    <3>1. \A i \in x : issued[i] # None /\ i \in D
      BY DEF DelegationsIssued
    <3> QED
      BY <1>1, <3>1 DEF Closed
  <2>2. {j} \in V
    BY <1>1
  <2> HIDE DEF K, V, Up
  <2>3. PICK f : Iterates(f, V, {j}, step, K)
    <3>1. step \in [Nat -> [V -> V]]
      BY <2>1
    <3> HIDE DEF step
    <3> QED
      BY <2>0, <2>2, <3>1, Recursion
  <2>4. Def(f)
    <3>1. ASSUME NEW n \in 0..K PROVE f[n] = IF n = 0 THEN {j} ELSE Up(f[n - 1])
      <4>1. CASE n # 0
        <5>1. n \in 1..K /\ n - 1 \in 0..K /\ n \in Nat
          BY <2>0, <4>1
        <5>2. f[n] = step[n][f[n - 1]] /\ f[n - 1] \in V
          BY <5>1, <2>3 DEF Iterates
        <5> QED
          BY <5>1, <5>2, <4>1
      <4> QED
        BY <4>1, <2>3 DEF Iterates
    <3> QED
      BY <2>3, <3>1 DEF Iterates
  <2>5. Def(CHOOSE g : Def(g))
    <3> HIDE DEF Def
    <3> QED
      BY <2>4, Zenon
  <2> DEFINE up == CHOOSE g : Def(g)
             M == {n \in Nat : n <= K => up[n] \in V}
  <2>6. ChainOf(j) = up[K]
    BY Zenon DEF ChainOf, Def, Up, K
  <2>7. up = [n \in 0..K |-> IF n = 0 THEN {j} ELSE Up(up[n - 1])]
    BY <2>5
  <2> HIDE DEF up
  <2>8. 0 \in M
    <3>1. 0 \in 0..K
      BY <2>0
    <3> QED
      BY <2>2, <2>7, <3>1
  <2>9. ASSUME NEW n \in Nat, n \in M PROVE n + 1 \in M
    <3> SUFFICES ASSUME n + 1 <= K PROVE up[n + 1] \in V
      OBVIOUS
    <3>1. n + 1 \in 0..K /\ n + 1 # 0 /\ up[n] \in V /\ (n + 1) - 1 = n
      BY <2>0, <2>9
    <3>2. up[n + 1] = Up(up[n])
      BY <2>7, <3>1
    <3> QED
      BY <2>1, <3>1, <3>2
  <2>10. K \in M
    <3> HIDE DEF M
    <3> QED
      BY <2>0, <2>8, <2>9, Induction
  <2> QED
    BY <2>0, <2>6, <2>10 DEF V
<1>2. ChainOf(j) \subseteq DelegationsIssued
  <2>1. Closed(DelegationsIssued)
    BY <1>0 DEF Closed
  <2> QED
    BY <1>1, <2>1
<1>3. ASSUME NEW i \in ChainOf(j), NEW S \in SUBSET Jtis, Closed(S), j \in S PROVE i \in S
  <2>1. Closed(S \cap DelegationsIssued)
    BY <1>0, <1>3 DEF Closed
  <2>2. ChainOf(j) \subseteq S \cap DelegationsIssued
    BY <1>1, <1>3, <2>1
  <2> QED
    BY <1>3, <2>2
<1> QED
  BY <1>2, <1>3 DEF AtOrAbove

\* A verification that rests while the others go on stays sound.
LEMMA StillSound ==
  ASSUME Inv, Advance, NEW v \in Verifiers, verif'[v] = verif[v], Sound(verif[v])
  PROVE  Sound(verif[v])'
<1> DEFINE q == verif[v]
<1>0. boot \in Nat /\ q.boot \in 0..boot /\ now \in Nat
  BY Numbers DEF Sound, Inv, Issuing
<1>1. q'.boot \in 0..boot'
  BY <1>0 DEF Advance
<1>2. Believed(q)' => Believed(q) /\ boot' = boot /\ RevokedNow \subseteq RevokedNow'
  BY <1>0 DEF Believed, Advance
<1>3. DelegationsIssued \subseteq DelegationsIssued'
  BY DEF Advance, Kept, DelegationsIssued
<1>4. ASSUME NEW i, AtOrAbove(i, q.path[1]) PROVE AtOrAbove(i, q.path[1])'
  <2>1. \A S \in SUBSET Jtis : Closed(S)' => Closed(S)
    BY DEF Closed, Advance, Kept
  <2> QED
    BY <1>4, <2>1 DEF AtOrAbove
<1>5. ASSUME NEW i \in DelegationsIssued, Expired(i) PROVE Expired(i)'
  <2>1. issued[i] \in Link /\ issued'[i] = issued[i]
    BY Numbers DEF Advance, Kept, DelegationsIssued
  <2>2. issued[i].exp \in Nat
    BY <2>1 DEF Link
  <2> QED
    BY <1>0, <1>5, <2>1, <2>2 DEF Expired, Advance
<1>6. q.pc = "checking" => Suspects(q)'
  <2> SUFFICES ASSUME q.pc = "checking" PROVE Suspects(q)'
    OBVIOUS
  <2>1. Suspects(q)
    BY DEF Sound
  <2>2. ASSUME ~q.alive PROVE \E i \in DelegationsIssued' : AtOrAbove(i, q.path[1])' /\ Expired(i)'
    <3>1. PICK i \in DelegationsIssued : AtOrAbove(i, q.path[1]) /\ Expired(i)
      BY <2>1, <2>2 DEF Suspects
    <3> QED
      BY <1>3, <1>4, <1>5, <3>1
  <2>3. ASSUME Believed(q)', ~q.whole
        PROVE  \E i \in DelegationsIssued' \cap RevokedNow' : AtOrAbove(i, q.path[1])'
    <3>1. PICK i \in DelegationsIssued \cap RevokedNow : AtOrAbove(i, q.path[1])
      BY <1>2, <2>1, <2>3 DEF Suspects
    <3> QED
      BY <1>2, <1>3, <1>4, <2>3, <3>1
  <2> QED
    BY <2>2, <2>3 DEF Suspects
<1> QED
  BY <1>1, <1>2, <1>6 DEF Sound

\* A credential with an entry of the status list.
LEMMA IssuesAdvance ==
  ASSUME Inv, Indexed, NEW j \in Jtis, NEW c \in Link, Issues(j, c), c.index = nextIndex,
         UNCHANGED <<now, bits, boot>>
  PROVE  Advance /\ Indexed'
<1>1. /\ issued[j] = None /\ issued' = [issued EXCEPT ![j] = c]
      /\ indexOf' = [indexOf EXCEPT ![j] = nextIndex]
  BY DEF Issues, Free
<1>2. /\ issued'[j] = c /\ indexOf'[j] = nextIndex /\ c # None
      /\ \A i \in Jtis : i # j => issued'[i] = issued[i] /\ indexOf'[i] = indexOf[i]
  BY <1>1, LinkAssumption DEF Inv, TypeOK, Issuing
<1>3. indexOf[j] = None /\ now \in Nat
  BY <1>1, Numbers DEF Indexed
<1>4. Kept
  BY <1>1, <1>2 DEF Kept
<1>5. RevokedNow \subseteq RevokedNow'
  BY <1>2, <1>3 DEF RevokedNow
<1>6. Indexed'
  BY <1>2 DEF Indexed
<1> QED
  BY <1>3, <1>4, <1>5, <1>6 DEF Advance

\* One that no list has.
LEMMA UnlistedAdvance ==
  ASSUME Inv, Indexed, NEW j \in Jtis, Free(j), NEW c, issued' = [issued EXCEPT ![j] = c],
         UNCHANGED <<now, bits, boot, indexOf>>
  PROVE  Advance /\ Indexed'
<1>1. \A i \in Jtis : i # j => issued'[i] = issued[i]
  BY DEF Inv, TypeOK
<1>2. indexOf[j] = None /\ issued[j] = None /\ now \in Nat
  BY Numbers DEF Indexed, Free
<1>3. Kept /\ RevokedNow' = RevokedNow /\ Indexed'
  BY <1>1, <1>2 DEF Kept, RevokedNow, Indexed
<1> QED
  BY <1>2, <1>3 DEF Advance

\* Steps that issue nothing.
LEMMA NothingIssued ==
  ASSUME Inv, Indexed, UNCHANGED <<issued, indexOf, boot>>, now' = now \/ now' = now + 1,
         bits \subseteq bits'
  PROVE  Advance /\ Indexed'
<1>1. Kept /\ RevokedNow \subseteq RevokedNow' /\ Indexed'
  BY DEF Kept, RevokedNow, Indexed
<1>2. now \in Nat
  BY Numbers
<1>3. now' \in Nat /\ now' >= now
  BY <1>2
<1> QED
  BY <1>1, <1>3 DEF Advance

\* Both credentials of /bind-with-vp.
LEMMA BindWithVpAdvance ==
  ASSUME Inv, Indexed, NEW reachable \in BOOLEAN, NEW j \in Jtis, NEW k \in Jtis,
         BindWithVp(reachable, j, k)
  PROVE  Advance /\ Indexed'
<1> DEFINE one == NewDelegation(busy.token, busy.scope)
           two == Credential("agent", None, 0, 0, now + Ttl, None, None, Trusted(busy.token))
<1>1. /\ busy # None /\ j # k /\ Free(j) /\ Free(k) /\ UNCHANGED <<now, bits, boot>>
      /\ issued' = [issued EXCEPT ![j] = one, ![k] = two]
      /\ indexOf' = [indexOf EXCEPT ![j] = nextIndex]
  BY DEF BindWithVp
<1>2. one \in Link /\ one.index = nextIndex
  BY <1>1, BridgeLinks DEF Inv, Issuing
<1> HIDE DEF one, two
<1>3. /\ issued'[j] = one /\ indexOf'[j] = nextIndex /\ one # None
      /\ \A i \in Jtis : i # j => indexOf'[i] = indexOf[i]
      /\ \A i \in Jtis : i # j /\ i # k => issued'[i] = issued[i]
  BY <1>1, <1>2, LinkAssumption DEF Inv, TypeOK, Issuing
<1>4. indexOf[j] = None /\ indexOf[k] = None /\ issued[j] = None /\ issued[k] = None /\ now \in Nat
  BY <1>1, Numbers DEF Indexed, Free
<1>5. Kept
  BY <1>3, <1>4 DEF Kept
<1>6. RevokedNow \subseteq RevokedNow'
  BY <1>1, <1>3, <1>4 DEF RevokedNow
<1>7. Indexed'
  BY <1>1, <1>2, <1>3, <1>4 DEF Indexed
<1> QED
  BY <1>1, <1>4, <1>5, <1>6, <1>7 DEF Advance

\* Every step advances.
LEMMA StepAdvance ==
  ASSUME Inv, Indexed, [Next]_chainVars
  PROVE  Advance /\ Indexed'
<1>1. CASE UNCHANGED chainVars
  BY <1>1, NothingIssued DEF chainVars, bridgeVars, bridge
<1>2. CASE Tick \/ RotateIdpKey
  BY <1>2, NothingIssued DEF Tick, RotateIdpKey, bridge
<1>3. CASE Restart
  <2>1. /\ \A j \in Jtis : indexOf'[j] = None
        /\ boot' = boot + 1 /\ UNCHANGED <<issued, now>>
    BY <1>3 DEF Restart
  <2>2. now \in Nat
    BY Numbers
  <2> QED
    BY <2>1, <2>2 DEF Advance, Kept, Indexed
<1>4. ASSUME NEW j \in Jtis, Revoke(j) PROVE Advance /\ Indexed'
  BY <1>4, NothingIssued DEF Revoke
<1>5. ASSUME NEW reachable \in BOOLEAN,
             BindFails(reachable) \/ \E t \in Tokens : \/ AttestRefused(t, reachable)
                                                       \/ AttestFull(t, reachable)
      PROVE  Advance /\ Indexed'
  BY <1>5, NothingIssued DEF BindFails, AttestRefused, AttestFull
<1>6. ASSUME NEW t \in Tokens, NEW reachable \in BOOLEAN, NEW j \in Jtis, NEW next,
             AttestIssued(t, reachable, j, next)
      PROVE  Advance /\ Indexed'
  <2> DEFINE c == NewIdentity(t)
  <2>1. Issues(j, c) /\ UNCHANGED <<now, bits, boot>>
    BY <1>6 DEF AttestIssued
  <2>2. c \in Link /\ c.index = nextIndex
    <3>1. Trusted(t) \in BOOLEAN
      BY DEF Trusted
    <3>2. now + Ttl \in Nat /\ nextIndex \in Nat
      BY Numbers, Assumptions
    <3> QED
      BY <3>1, <3>2 DEF NewIdentity, Credential, Link
  <2> HIDE DEF c
  <2> QED
    BY <2>1, <2>2, IssuesAdvance
<1>7. ASSUME NEW reachable \in BOOLEAN, NEW j \in Jtis, BindIssues(reachable, j)
      PROVE  Advance /\ Indexed'
  <2> DEFINE c == NewDelegation(busy.token, busy.scope)
  <2>1. busy # None /\ Issues(j, c) /\ UNCHANGED <<now, bits, boot>>
    BY <1>7 DEF BindIssues
  <2>2. c \in Link /\ c.index = nextIndex
    BY <2>1, BridgeLinks DEF Inv, Issuing
  <2> HIDE DEF c
  <2> QED
    BY <2>1, <2>2, IssuesAdvance
<1>8. CASE BoundTtl \/ \E parent \in Jtis, s \in NarrowedScopes : DelegateFurther(parent, s)
  BY <1>8, NothingIssued DEF BoundTtl, DelegateFurther, bridgeVars, bridge
<1>9. ASSUME NEW j \in Jtis, IssueChild(j) PROVE Advance /\ Indexed'
  <2> DEFINE c == Credential("delegation", draft.scope, issued[draft.parent].depth + 1,
                             issued[draft.parent].max, now + draft.ttl, None, draft.parent, TRUE)
  <2>1. Free(j) /\ issued' = [issued EXCEPT ![j] = c] /\ UNCHANGED <<now, bits, boot, indexOf>>
    BY <1>9 DEF IssueChild, bridge
  <2> HIDE DEF c
  <2> QED
    BY <2>1, UnlistedAdvance
<1>10. ASSUME NEW j \in Jtis, NEW parent \in Jtis, NEW s \in ForeignScopes,
              IssueForeign(j, parent, s)
       PROVE  Advance /\ Indexed'
  <2> DEFINE c == Credential("delegation", s, issued[parent].depth + 1,
                             issued[parent].max, now + Ttl, None, parent, TRUE)
  <2>1. Free(j) /\ issued' = [issued EXCEPT ![j] = c] /\ UNCHANGED <<now, bits, boot, indexOf>>
    BY <1>10 DEF IssueForeign, bridge
  <2> HIDE DEF c
  <2> QED
    BY <2>1, UnlistedAdvance
<1>11. ASSUME NEW v \in Verifiers,
              Work(v) \/ \E j \in Jtis, by \in {"sdk", "backend"} : Begin(v, j, by)
       PROVE  Advance /\ Indexed'
  <2>1. UNCHANGED bridgeVars
    BY <1>11 DEF Work, Check, Combine, Answer, Begin, Go
  <2> QED
    BY <2>1, NothingIssued DEF bridgeVars, bridge
<1>12. ASSUME NEW reachable \in BOOLEAN, NEW j \in Jtis, NEW k \in Jtis,
              BindWithVp(reachable, j, k)
       PROVE  Advance /\ Indexed'
  BY <1>12, BindWithVpAdvance
<1> QED
  BY <1>1, <1>2, <1>3, <1>4, <1>5, <1>6, <1>7, <1>8, <1>9, <1>10, <1>11, <1>12
  DEF Next, BridgeNext

\* A verification goes on.
LEMMA GoSound ==
  ASSUME Inv, ValidInv, NEW v \in Verifiers, NEW next, Go(v, next), Sound(next)
  PROVE  \A w \in Verifiers : Sound(verif[w])'
<1>1. UNCHANGED <<issued, indexOf, bits, boot, now>> /\ verif' = [verif EXCEPT ![v] = next]
  BY DEF Go, bridgeVars, bridge
<1>2. ASSUME NEW w \in Verifiers PROVE Sound(verif[w])'
  <2> DEFINE q == IF w = v THEN next ELSE verif[w]
  <2>1. verif'[w] = q
    BY <1>1 DEF Inv, TypeOK
  <2>2. Sound(q)
    BY DEF ValidInv
  <2> HIDE DEF q
  <2>3. Suspects(q) <=> Suspects(verif[w])'
    BY <1>1, <2>1
    DEF Suspects, Believed, AtOrAbove, Closed, DelegationsIssued, Expired, RevokedNow
  <2> QED
    BY <1>1, <2>1, <2>2, <2>3 DEF Sound, Believed
<1> QED
  BY <1>2

\* The links of the chain are where the verification looks for them.
LEMMA BeginSound ==
  ASSUME Inv, ValidInv, NEW v \in Verifiers, NEW j \in Jtis, NEW by, Begin(v, j, by)
  PROVE  \A w \in Verifiers : Sound(verif[w])'
<1> DEFINE whole == ChainOf(j) \cap RevokedNow = {}
           alive == \A i \in ChainOf(j) : ~Expired(i)
           next == [pc |-> "checking", by |-> by, path |-> <<j>>, pos |-> 0, eff |-> None,
                    whole |-> whole, alive |-> alive, boot |-> boot]
<1>1. j \in DelegationsIssued /\ Go(v, next)
  BY DEF Begin
<1>2. \A i \in ChainOf(j) : i \in DelegationsIssued /\ AtOrAbove(i, j)
  BY <1>1, ChainIsAbove
<1>3. ~whole => \E i \in DelegationsIssued \cap RevokedNow : AtOrAbove(i, j)
  BY <1>2
<1>4. ~alive => \E i \in DelegationsIssued : AtOrAbove(i, j) /\ Expired(i)
  BY <1>2
<1> HIDE DEF whole, alive
<1>5. /\ next.path[1] = j /\ next.pc = "checking" /\ next.whole = whole /\ next.alive = alive
      /\ next.boot = boot
  OBVIOUS
<1>6. boot \in 0..boot
  BY DEF Inv, Issuing
<1> HIDE DEF next
<1>7. Suspects(next)
  BY <1>3, <1>4, <1>5 DEF Suspects
<1>8. Sound(next)
  BY <1>5, <1>6, <1>7 DEF Sound
<1> QED
  BY <1>1, <1>8, GoSound

\* A verifier that gives up has found nothing to be valid.
LEMMA RestingSound ==
  ASSUME Inv PROVE Sound(Resting)
<1>1. Resting.pc = "resting" /\ Resting.boot = 0
  BY DEF Resting
<1>2. 0 \in 0..boot
  BY DEF Inv, Issuing
<1> QED
  BY <1>1, <1>2 DEF Sound

\* A link that passes the check is not the one under suspicion, which is above it.
LEMMA CheckSound ==
  ASSUME Inv, ValidInv, NEW v \in Verifiers, NEW readable \in BOOLEAN, Check(v, readable)
  PROVE  \A w \in Verifiers : Sound(verif[w])'
<1> DEFINE me == verif[v]
           top == me.path[1]
           parent == issued[top].parent
<1>1. CASE Go(v, Resting)
  BY <1>1, RestingSound, GoSound
<1>2. CASE ~Go(v, Resting)
  <2>1. me.pc = "checking" /\ me.pc # "resting" /\ ~Revoked(top, me.by, readable) /\ ~Expired(top)
    BY <1>2 DEF Check
  <2>2. me \in Verification /\ me.path \in Seq(Jtis) /\ Len(me.path) \in Nat \ {0}
        /\ top \in DelegationsIssued
    BY <2>1, Walked
  <2>3. top \in Jtis /\ issued[top] # None
    BY <2>2, Numbers DEF DelegationsIssued
  <2>4. Sound(me) /\ Suspects(me) /\ me.boot \in 0..boot
    BY <2>1 DEF ValidInv, Sound
  <2>5. ~me.alive => \E i \in DelegationsIssued : parent # None /\ AtOrAbove(i, parent) /\ Expired(i)
    <3> SUFFICES ASSUME ~me.alive
                 PROVE \E i \in DelegationsIssued : parent # None /\ AtOrAbove(i, parent) /\ Expired(i)
      OBVIOUS
    <3>1. PICK i \in DelegationsIssued : AtOrAbove(i, top) /\ Expired(i)
      BY <2>4 DEF Suspects
    <3>2. i # top
      BY <2>1, <3>1
    <3> HIDE DEF top
    <3> QED
      BY <2>3, <3>1, <3>2, FurtherUp
  <2>6. Believed(me) /\ ~me.whole
        => \E i \in DelegationsIssued \cap RevokedNow : parent # None /\ AtOrAbove(i, parent)
    <3> SUFFICES ASSUME Believed(me), ~me.whole
                 PROVE \E i \in DelegationsIssued \cap RevokedNow : parent # None /\ AtOrAbove(i, parent)
      OBVIOUS
    <3>1. PICK i \in DelegationsIssued \cap RevokedNow : AtOrAbove(i, top)
      BY <2>4 DEF Suspects
    <3>2. i # top
      <4> SUFFICES ASSUME top \in RevokedNow PROVE FALSE
        OBVIOUS
      <4>1. issued[top].index # None /\ issued[top].index \in bits
        BY <2>3 DEF RevokedNow, ValidInv, Indexed
      <4> QED
        BY <2>1, <4>1 DEF Revoked, Believed
    <3> HIDE DEF top
    <3> QED
      BY <2>3, <3>1, <3>2, FurtherUp
  <2>7. CASE parent # None /\ Go(v, [me EXCEPT !.path = <<parent>> \o @])
    <3> DEFINE path == <<parent>> \o me.path
               next == [me EXCEPT !.path = path]
    <3>1. path[1] = parent
      <4>1. parent \in Jtis
        BY <2>2, <2>7, Numbers
      <4>2. <<parent>> \in Seq(Jtis) /\ Len(<<parent>>) = 1 /\ <<parent>>[1] = parent
        BY <4>1
      <4>3. /\ Len(path) = 1 + Len(me.path)
            /\ \A n \in 1..Len(path) : path[n] = IF n <= 1 THEN parent ELSE me.path[n - 1]
        BY <2>2, <4>2, ConcatProperties
      <4> HIDE DEF path
      <4> QED
        BY <2>2, <4>3
    <3>2. Go(v, next)
      BY <2>7
    <3> HIDE DEF path, parent, top
    <3>3. /\ next.path = path /\ next.by = me.by /\ next.boot = me.boot /\ next.pc = me.pc
          /\ next.whole = me.whole /\ next.alive = me.alive
      BY <2>2 DEF Verification
    <3> HIDE DEF next
    <3>4. Believed(next) <=> Believed(me)
      BY <3>3 DEF Believed
    <3>5. Suspects(next)
      BY <2>5, <2>6, <3>1, <3>3, <3>4 DEF Suspects
    <3>6. Sound(next)
      BY <2>1, <2>4, <3>3, <3>5 DEF Sound
    <3> QED
      BY <3>2, <3>6, GoSound
  <2>8. CASE parent = None
             /\ Go(v, [me EXCEPT !.pc = "combining", !.pos = 1, !.eff = issued[top].scope])
    <3> DEFINE next == [me EXCEPT !.pc = "combining", !.pos = 1, !.eff = issued[top].scope]
    <3>1. /\ next.by = me.by /\ next.boot = me.boot /\ next.pc = "combining"
          /\ next.whole = me.whole /\ next.alive = me.alive /\ Go(v, next)
      BY <2>2, <2>8 DEF Verification
    <3> HIDE DEF next
    <3>2. me.whole \in BOOLEAN /\ me.alive \in BOOLEAN
      BY <2>2 DEF Verification
    <3>3. Sound(next)
      BY <2>4, <2>5, <2>6, <2>8, <3>1, <3>2 DEF Sound, Believed
    <3> QED
      BY <3>1, <3>3, GoSound
  <2> QED
    BY <1>2, <2>1, <2>7, <2>8 DEF Check
<1> QED
  BY <1>1, <1>2

\* On the way back nothing of this changes.
LEMMA BackSound ==
  ASSUME Inv, ValidInv, NEW v \in Verifiers,
         Combine(v) \/ \E action \in Actions \cup {None} : Answer(v, action)
  PROVE  \A w \in Verifiers : Sound(verif[w])'
<1> DEFINE me == verif[v]
<1>1. CASE Go(v, Resting)
  BY <1>1, RestingSound, GoSound
<1>2. CASE ~Go(v, Resting)
  <2>1. me.pc = "combining"
    BY DEF Combine, Answer
  <2>2. me \in Verification /\ Sound(me)
    BY DEF Inv, TypeOK, ValidInv
  <2>3. PICK pos, eff, pc : /\ Go(v, [me EXCEPT !.pc = pc, !.pos = pos, !.eff = eff])
                            /\ pc \in {"combining", "verified"}
    <3>1. ASSUME NEW pos, NEW eff, Go(v, [me EXCEPT !.pos = pos, !.eff = eff])
          PROVE  Go(v, [me EXCEPT !.pc = "combining", !.pos = pos, !.eff = eff])
      <4>1. [me EXCEPT !.pos = pos, !.eff = eff]
            = [me EXCEPT !.pc = "combining", !.pos = pos, !.eff = eff]
        BY <2>1, <2>2 DEF Verification
      <4> QED
        BY <3>1, <4>1
    <3>2. ASSUME Go(v, [me EXCEPT !.pc = "verified"])
          PROVE  Go(v, [me EXCEPT !.pc = "verified", !.pos = me.pos, !.eff = me.eff])
      <4>1. [me EXCEPT !.pc = "verified"]
            = [me EXCEPT !.pc = "verified", !.pos = me.pos, !.eff = me.eff]
        BY <2>2 DEF Verification
      <4> QED
        BY <3>2, <4>1
    <3>3. \/ \E pos, eff : Go(v, [me EXCEPT !.pos = pos, !.eff = eff])
          \/ Go(v, [me EXCEPT !.pc = "verified"])
      BY <1>2 DEF Combine, Answer
    <3> QED
      BY <3>1, <3>2, <3>3
  <2> DEFINE next == [me EXCEPT !.pc = pc, !.pos = pos, !.eff = eff]
  <2>4. /\ Go(v, next) /\ next.by = me.by /\ next.boot = me.boot /\ next.pc = pc
        /\ next.whole = me.whole /\ next.alive = me.alive
    BY <2>2, <2>3 DEF Verification
  <2> HIDE DEF next
  <2>5. Sound(next)
    BY <2>1, <2>2, <2>3, <2>4 DEF Sound, Believed
  <2> QED
    BY <2>4, <2>5, GoSound
<1> QED
  BY <1>1, <1>2

\* Every step keeps the verifications sound.
LEMMA ValidStep ==
  ASSUME Inv, ValidInv, [Next]_chainVars
  PROVE  ValidInv'
<1>1. Advance /\ Indexed'
  BY StepAdvance DEF ValidInv
<1>2. CASE verif' = verif
  BY <1>1, <1>2, StillSound DEF ValidInv
<1>3. ASSUME NEW v \in Verifiers,
             Work(v) \/ \E j \in Jtis, by \in {"sdk", "backend"} : Begin(v, j, by)
      PROVE  ValidInv'
  <2>1. \A w \in Verifiers : Sound(verif[w])'
    BY <1>3, BeginSound, CheckSound, BackSound DEF Work
  <2> QED
    BY <1>1, <2>1 DEF ValidInv
<1>4. verif' = verif
      \/ \E v \in Verifiers :
           Work(v) \/ \E j \in Jtis, by \in {"sdk", "backend"} : Begin(v, j, by)
  BY DEF Next, DelegateFurther, BoundTtl, IssueChild, IssueForeign, chainVars
<1> QED
  BY <1>2, <1>3, <1>4

\* A chain that a gateway which fails closed has verified was whole when the
\* verification began, although revocations, expiry and other links' issue go on
\* while its links are asked for one after the other.
THEOREM ChainsWereValid == Spec => []VerifiedWasValid
<1>1. Init => Inv /\ ValidInv
  <2> SUFFICES ASSUME Init PROVE Inv /\ ValidInv
    OBVIOUS
  <2>1. Inv
    BY InitInv
  <2>2. Indexed /\ \A v \in Verifiers : verif[v] = Resting
    BY DEF Init, BridgeInit, Indexed
  <2> QED
    BY <2>1, <2>2, RestingSound DEF ValidInv
<1>2. Inv /\ ValidInv /\ [Next]_chainVars => (Inv /\ ValidInv)'
  BY ValidStep, StepInv
<1>3. Inv /\ ValidInv => VerifiedWasValid
  BY DEF ValidInv, Sound, Believed, VerifiedWasValid
<1> QED
  BY <1>1, <1>2, <1>3, PTL DEF Spec

(***************************************************************************)
(* The registry.  Whatever a revocation has updated, is about to update or *)
(* has still to visit belongs to its tenant, and rows keep their tenant.   *)
(***************************************************************************)
OwnedBy(tenant) == {d \in Delegations : Owned(d, tenant)}

Revoking == {"updating", "setting", "fetching", "looping"}

Fields == {"pc", "target", "tenant", "parent", "cascade", "frames", "marked", "due"}

IsRequest(q) == q = [f \in Fields |-> q[f]]

ItsOwn(q) ==
  /\ IsRequest(q)
  /\ q.pc = "registering" => /\ q.target \in Delegations /\ q.tenant \in Tenants
                             /\ q.parent \in Delegations \cup {Absent}
  /\ q.pc \in Revoking => q.target \in OwnedBy(q.tenant)
  /\ q.marked \subseteq OwnedBy(q.tenant)
  /\ q.frames \in Seq(SUBSET OwnedBy(q.tenant))

RegistryInv ==
  /\ registry \in [Delegations -> Row \cup {Absent}]
  /\ req = [r \in Requests |-> req[r]]
  /\ \A r \in Requests : ItsOwn(req[r])

\* What the assumptions on the constants say, as the proofs use it.
LEMMA RegistryAssumptions == Registrations \subseteq Registration /\ Absent \notin Row
BY RegistryConstants

\* An idle request as a record.
LEMMA NoRequestFields ==
  /\ IsRequest(NoRequest) /\ NoRequest.pc = "idle"
  /\ NoRequest.marked = {} /\ NoRequest.frames = <<>>
BY DEF NoRequest, IsRequest, Fields

\* An idle request has nothing that could belong to another tenant.
LEMMA NoRequestIsIts == ItsOwn(NoRequest)
BY NoRequestFields, EmptySeq DEF ItsOwn, Revoking

Smaller == {ss \in Nat \X Nat : ss[1] < ss[2]}

\* The order of the naturals is well founded.
LEMMA SmallerEnds == IsWellFoundedOn(Smaller, Nat)
BY NatLessThanWellFounded DEF OpToRel, Smaller

\* A non-empty set of numbers up to n has a largest member.
LEMMA Largest ==
  ASSUME NEW n \in Nat, NEW S, S \subseteq 0..n, S # {}
  PROVE  \E m \in S : \A k \in S : k <= m
<1>1. \A k \in S : k \in Nat /\ k <= n /\ n - k \in Nat
  OBVIOUS
<1> DEFINE T == {n - k : k \in S}
<1>2. T \subseteq Nat
  BY <1>1
<1>3. T # {}
  OBVIOUS
<1>4. PICK t \in T : \A u \in T : ~(<<u, t>> \in Smaller)
  BY <1>2, <1>3, SmallerEnds, WFMin
<1>5. PICK m \in S : t = n - m
  OBVIOUS
<1>6. ASSUME NEW k \in S PROVE k <= m
  <2>1. n - k \in T /\ n - k \in Nat /\ t \in Nat
    BY <1>1, <1>2
  <2>2. ~(n - k < t)
    BY <1>4, <2>1 DEF Smaller
  <2> QED
    BY <1>1, <1>5, <2>1, <2>2
<1> QED
  BY <1>6

\* Calls that return leave the others as they are.
LEMMA ReturnedType ==
  ASSUME NEW S, NEW frames \in Seq(S)
  PROVE  Returned(frames) \in Seq(S)
<1> DEFINE live == {n \in DOMAIN frames : frames[n] # {}}
           last == CHOOSE n \in live \cup {0} : \A m \in live : m <= n
<1>1. Len(frames) \in Nat /\ DOMAIN frames = 1..Len(frames)
      /\ \A n \in 1..Len(frames) : frames[n] \in S
  BY LenProperties, ElementOfSeq
<1>2. live \cup {0} \subseteq 0..Len(frames)
  BY <1>1
<1>3. \E m \in live \cup {0} : \A k \in live \cup {0} : k <= m
  BY <1>1, <1>2, Largest
<1>4. last \in live \cup {0}
  BY <1>3
<1>5. last \in Int /\ \A n \in 1..last : frames[n] \in S
  <2>1. last \in 0..Len(frames)
    BY <1>2, <1>4
  <2> HIDE DEF last, live
  <2> QED
    BY <1>1, <2>1
<1> HIDE DEF live, last
<1>6. SubSeq(frames, 1, last) \in Seq(S)
  BY <1>5, SubSeqProperties
<1> QED
  BY <1>6 DEF Returned, live, last

\* Rows stay, and keep their tenant.
Keeps ==
  /\ registry' \in [Delegations -> Row \cup {Absent}]
  /\ \A d \in Delegations : Exists(d) => Exists(d)' /\ registry'[d].tenant = registry[d].tenant

\* What belongs to a request's tenant goes on doing so while rows keep their tenant.
LEMMA StaysIts ==
  ASSUME Keeps, NEW q, ItsOwn(q)
  PROVE  ItsOwn(q)'
<1>1. OwnedBy(q.tenant) \subseteq OwnedBy(q.tenant)'
  BY DEF Keeps, OwnedBy, Owned
<1>2. q.frames \in Seq(SUBSET OwnedBy(q.tenant)')
  <2>1. SUBSET OwnedBy(q.tenant) \subseteq SUBSET OwnedBy(q.tenant)'
    BY <1>1
  <2> QED
    BY <2>1, SeqMonotonic DEF ItsOwn
<1> QED
  BY <1>1, <1>2 DEF ItsOwn

\* A step of one request.
LEMMA TakesInv ==
  ASSUME RegistryInv, NEW r \in Requests, NEW next, Takes(r, next), Keeps, ItsOwn(next)
  PROVE  RegistryInv'
<1>1. \A q \in Requests : req'[q] = IF q = r THEN next ELSE req[q]
  BY DEF Takes, RegistryInv
<1>2. req' = [q \in Requests |-> req'[q]]
  BY DEF Takes, RegistryInv
<1>3. ASSUME NEW q \in Requests PROVE ItsOwn(req[q])'
  <2>1. PICK x : x = req'[q] /\ ItsOwn(x)
    BY <1>1 DEF RegistryInv
  <2>2. ItsOwn(x)'
    BY <2>1, StaysIts
  <2> QED
    BY <2>1, <2>2 DEF ItsOwn, IsRequest
<1> QED
  BY <1>2, <1>3 DEF RegistryInv, Keeps

\* An unchanged registry keeps every row's tenant.
LEMMA Still == ASSUME RegistryInv, UNCHANGED registry PROVE Keeps
BY DEF RegistryInv, Keeps, Exists

\* A registration that looks its jti up (register_delegation) keeps the invariant.
LEMMA RegisterInv ==
  ASSUME RegistryInv, NEW r \in Requests, NEW reg \in Registrations, RegisterLookup(r, reg)
  PROVE  RegistryInv'
<1> DEFINE next == [NoRequest EXCEPT !.pc = "registering", !.target = reg.jti,
                      !.tenant = reg.tenant, !.parent = reg.parent]
<1>1. reg.jti \in Delegations /\ reg.tenant \in Tenants /\ reg.parent \in Delegations \cup {Absent}
  BY RegistryAssumptions DEF Registration
<1>2. /\ IsRequest(next) /\ next.pc = "registering" /\ next.target = reg.jti
      /\ next.tenant = reg.tenant /\ next.parent = reg.parent
      /\ next.marked = {} /\ next.frames = <<>>
  BY NoRequestFields DEF IsRequest, Fields
<1>3. Takes(r, next) /\ UNCHANGED registry
  BY DEF RegisterLookup
<1> HIDE DEF next
<1>4. ItsOwn(next)
  BY <1>1, <1>2, EmptySeq DEF ItsOwn, Revoking
<1> QED
  BY <1>3, <1>4, Still, TakesInv

\* Inserting a registration's row keeps the invariant and every row that exists.
LEMMA InsertInv ==
  ASSUME RegistryInv, NEW r \in Requests, Insert(r)
  PROVE  RegistryInv' /\ \A d \in Delegations : Exists(d) => registry'[d] = registry[d]
<1> DEFINE t == req[r].target
<1>1. t \in Delegations /\ NewRow(r) \in Row /\ NewRow(r) # Absent
  <2>1. /\ t \in Delegations /\ req[r].tenant \in Tenants
        /\ req[r].parent \in Delegations \cup {Absent}
    BY DEF Insert, RegistryInv, ItsOwn
  <2>2. NewRow(r) \in Row
    BY <2>1 DEF NewRow, Row
  <2> QED
    BY <2>1, <2>2, RegistryAssumptions
<1>2. /\ registry' = [registry EXCEPT ![t] = IF registry[t] = Absent THEN NewRow(r) ELSE registry[t]]
      /\ Takes(r, NoRequest)
  BY <1>1 DEF Insert, RegistryInv
<1>3. \A d \in Delegations : Exists(d) => registry'[d] = registry[d]
  BY <1>1, <1>2 DEF Exists, RegistryInv
<1>4. registry' \in [Delegations -> Row \cup {Absent}]
  BY <1>1, <1>2 DEF RegistryInv
<1>5. Keeps
  BY <1>3, <1>4 DEF Keeps, Exists
<1> QED
  BY <1>2, <1>3, <1>5, NoRequestIsIts, TakesInv

\* A revocation begins with a target of its own tenant (revoke_delegation's look-up).
LEMMA RevokeInv ==
  ASSUME RegistryInv, NEW r \in Requests, NEW d \in Delegations, NEW tenant \in Tenants,
         NEW cascade \in BOOLEAN, RevokeLookup(r, d, tenant, cascade)
  PROVE  RegistryInv'
<1> DEFINE due  == Below(d, tenant, IF cascade THEN Guard + 1 ELSE 0)
           next == [NoRequest EXCEPT !.pc = "updating", !.target = d, !.tenant = tenant,
                      !.cascade = cascade, !.due = due]
<1>1. Owned(d, tenant) /\ Takes(r, next) /\ UNCHANGED registry
  BY DEF RevokeLookup
<1> HIDE DEF due
<1>2. /\ IsRequest(next) /\ next.pc = "updating" /\ next.target = d
      /\ next.tenant = tenant /\ next.marked = {} /\ next.frames = <<>>
  BY NoRequestFields DEF IsRequest, Fields
<1> HIDE DEF next
<1>3. ItsOwn(next)
  BY <1>1, <1>2, EmptySeq DEF ItsOwn, Revoking, OwnedBy
<1> QED
  BY <1>1, <1>3, Still, TakesInv

\* Marking the target (_revoke_single) marks a delegation of the request's tenant.
LEMMA UpdateInv == ASSUME RegistryInv, NEW r \in Requests, UpdateRow(r) PROVE RegistryInv'
<1> DEFINE next == [req[r] EXCEPT !.pc = "setting", !.marked = @ \cup {req[r].target}]
<1>1. req[r].pc = "updating" /\ Takes(r, next) /\ UNCHANGED registry /\ ItsOwn(req[r])
  BY DEF UpdateRow, RegistryInv
<1>2. /\ IsRequest(next) /\ next.pc = "setting" /\ next.target = req[r].target
      /\ next.tenant = req[r].tenant /\ next.marked = req[r].marked \cup {req[r].target}
      /\ next.frames = req[r].frames
  BY <1>1 DEF ItsOwn, IsRequest, Fields
<1> HIDE DEF next
<1>3. ItsOwn(next)
  BY <1>1, <1>2 DEF ItsOwn, Revoking
<1> QED
  BY <1>1, <1>3, Still, TakesInv

\* Setting a status-list bit touches nothing the invariant is about.
LEMMA SetInv == ASSUME RegistryInv, NEW r \in Requests, SetBit(r) PROVE RegistryInv'
<1> DEFINE next == [req[r] EXCEPT !.pc = IF req[r].cascade THEN "fetching" ELSE "looping"]
<1>1. req[r].pc = "setting" /\ Takes(r, next) /\ UNCHANGED registry /\ ItsOwn(req[r])
  BY DEF SetBit, RegistryInv
<1>2. /\ IsRequest(next) /\ next.pc \in {"fetching", "looping"} /\ next.target = req[r].target
      /\ next.tenant = req[r].tenant /\ next.marked = req[r].marked /\ next.frames = req[r].frames
  BY <1>1 DEF ItsOwn, IsRequest, Fields
<1> HIDE DEF next
<1>3. ItsOwn(next)
  BY <1>1, <1>2 DEF ItsOwn, Revoking
<1> QED
  BY <1>1, <1>3, Still, TakesInv

\* The children _cascade_revoke fetches are of the request's tenant.
LEMMA FetchInv == ASSUME RegistryInv, NEW r \in Requests, Fetch(r) PROVE RegistryInv'
<1> DEFINE own      == OwnedBy(req[r].tenant)
           children == IF Len(req[r].frames) > Guard THEN {}
                       ELSE Children(req[r].target, req[r].tenant)
           frames   == Returned(Append(req[r].frames, children))
           next     == [req[r] EXCEPT !.pc = "looping", !.frames = frames]
<1>1. req[r].pc = "fetching" /\ Takes(r, next) /\ UNCHANGED registry /\ ItsOwn(req[r])
  BY DEF Fetch, RegistryInv
<1>2. children \in SUBSET own
  BY DEF Children, OwnedBy
<1>3. frames \in Seq(SUBSET own)
  <2> HIDE DEF children, own
  <2>1. req[r].frames \in Seq(SUBSET own)
    BY <1>1 DEF ItsOwn, own
  <2>2. Append(req[r].frames, children) \in Seq(SUBSET own)
    BY <1>2, <2>1, AppendProperties
  <2> QED
    BY <2>2, ReturnedType
<1> HIDE DEF frames
<1>4. /\ IsRequest(next) /\ next.pc = "looping" /\ next.target = req[r].target
      /\ next.tenant = req[r].tenant /\ next.marked = req[r].marked /\ next.frames = frames
  BY <1>1 DEF ItsOwn, IsRequest, Fields
<1> HIDE DEF next
<1>5. ItsOwn(next)
  BY <1>1, <1>3, <1>4 DEF ItsOwn, Revoking
<1> QED
  BY <1>1, <1>5, Still, TakesInv

\* A visited child becomes the next target; it is of the request's tenant.
LEMMA VisitInv ==
  ASSUME RegistryInv, NEW r \in Requests, NEW c \in Delegations, Visit(r, c)
  PROVE  RegistryInv'
<1> DEFINE last   == Len(req[r].frames)
           own    == OwnedBy(req[r].tenant)
           frames == [req[r].frames EXCEPT ![last] = @ \ {c}]
           next   == [req[r] EXCEPT !.pc = "updating", !.target = c, !.frames = frames]
<1>1. /\ req[r].pc = "looping" /\ last > 0 /\ c \in req[r].frames[last]
      /\ UNCHANGED registry /\ ItsOwn(req[r])
  BY DEF Visit, RegistryInv
<1>2. Takes(r, next)
  BY DEF Visit
<1>3. req[r].frames \in Seq(SUBSET own) /\ last \in 1..Len(req[r].frames)
  BY <1>1, LenProperties DEF ItsOwn
<1>4. req[r].frames[last] \in SUBSET own
  BY <1>3, ElementOfSeq
<1>5. frames \in Seq(SUBSET own)
  <2>1. req[r].frames[last] \ {c} \in SUBSET own
    BY <1>4
  <2> HIDE DEF own
  <2> QED
    BY <1>3, <2>1, ExceptSeq
<1> HIDE DEF frames
<1>6. /\ IsRequest(next) /\ next.pc = "updating" /\ next.target = c
      /\ next.tenant = req[r].tenant /\ next.marked = req[r].marked /\ next.frames = frames
  BY <1>1 DEF ItsOwn, IsRequest, Fields
<1> HIDE DEF next
<1>7. ItsOwn(next)
  BY <1>1, <1>4, <1>5, <1>6 DEF ItsOwn, Revoking
<1> QED
  BY <1>1, <1>2, <1>7, Still, TakesInv

\* A commit revokes the marked rows, all of them the request's tenant's, and no others.
LEMMA CommitInv ==
  ASSUME RegistryInv, NEW r \in Requests, Commit(r)
  PROVE  /\ RegistryInv'
         /\ \A d \in Delegations : registry'[d] =
              IF d \in req[r].marked THEN [registry[d] EXCEPT !.revoked = TRUE] ELSE registry[d]
         /\ \A d \in Delegations : d \in req[r].marked => registry[d] \in Row /\ Owned(d, req[r].tenant)
<1>1. Takes(r, NoRequest)
  BY DEF Commit
<1>2. \A d \in Delegations : registry'[d] =
         IF d \in req[r].marked THEN [registry[d] EXCEPT !.revoked = TRUE] ELSE registry[d]
  BY DEF Commit
<1>3. \A d \in Delegations : d \in req[r].marked => registry[d] \in Row /\ Owned(d, req[r].tenant)
  BY DEF RegistryInv, ItsOwn, OwnedBy, Owned, Exists
<1>4. \A row \in Row : [row EXCEPT !.revoked = TRUE] \in Row
                        /\ [row EXCEPT !.revoked = TRUE].tenant = row.tenant
  BY DEF Row
<1>5. registry' \in [Delegations -> Row \cup {Absent}]
  <2>1. registry' = [d \in Delegations |->
          IF d \in req[r].marked THEN [registry[d] EXCEPT !.revoked = TRUE] ELSE registry[d]]
    BY DEF Commit
  <2> QED
    BY <1>3, <1>4, <2>1 DEF RegistryInv
<1>6. Keeps
  BY <1>2, <1>3, <1>4, <1>5, RegistryAssumptions DEF Keeps, Exists
<1> QED
  BY <1>1, <1>2, <1>3, <1>6, NoRequestIsIts, TakesInv

\* A request that dies or is rolled back leaves the registry as it was.
LEMMA DieInv == ASSUME RegistryInv, NEW r \in Requests, Die(r) PROVE RegistryInv'
BY NoRequestIsIts, Still, TakesInv DEF Die

\* Every step keeps the invariant.
LEMMA RegistryStepInv == RegistryInv /\ [RegistryNext]_vars => RegistryInv'
<1> SUFFICES ASSUME RegistryInv, [RegistryNext]_vars PROVE RegistryInv'
  OBVIOUS
<1>1. CASE UNCHANGED vars
  BY <1>1 DEF vars, RegistryInv, ItsOwn, IsRequest, OwnedBy, Owned, Exists
<1>2. ASSUME NEW r \in Requests, BreakDeadlock(r) PROVE RegistryInv'
  BY <1>2, DieInv DEF BreakDeadlock
<1> QED
  BY <1>1, <1>2, RegisterInv, InsertInv, RevokeInv, UpdateInv, SetInv, FetchInv, VisitInv,
     CommitInv, DieInv DEF RegistryNext, RegistryWork

\* A delegation is revoked by its own tenant's requests only, however deep the cascade
\* and whatever parents other tenants' rows name, and no registration brings it back.
THEOREM TenantsApart == RegistrySpec => RevokedByItsTenantForGood
<1> DEFINE A == \A d \in Delegations :
       /\ RowRevoked(d) => RowRevoked(d)'
       /\ ~RowRevoked(d) /\ RowRevoked(d)' =>
            \E r \in Requests : d \in req[r].marked /\ Owned(d, req[r].tenant)
<1>1. RegistryInit => RegistryInv
  BY NoRequestIsIts DEF RegistryInit, RegistryInv
<1>2. RegistryInv /\ [RegistryNext]_vars => [A]_vars
  <2> SUFFICES ASSUME RegistryInv, RegistryNext, NEW d \in Delegations
               PROVE  /\ RowRevoked(d) => RowRevoked(d)'
                      /\ ~RowRevoked(d) /\ RowRevoked(d)' =>
                           \E r \in Requests : d \in req[r].marked /\ Owned(d, req[r].tenant)
    BY DEF vars
  <2>1. CASE registry' = registry
    BY <2>1 DEF RowRevoked, Exists
  <2>2. ASSUME NEW r \in Requests, Insert(r)
        PROVE  (RowRevoked(d) => RowRevoked(d)') /\ (RowRevoked(d)' => RowRevoked(d))
    <3>1. CASE Exists(d)
      BY <2>2, <3>1, InsertInv DEF RowRevoked, Exists
    <3>2. CASE ~Exists(d)
      <4>1. registry'[d] = Absent \/ registry'[d] = NewRow(r)
        BY <2>2, <3>2 DEF Insert, Exists, RegistryInv
      <4> QED
        BY <3>2, <4>1 DEF RowRevoked, Exists, NewRow
    <3> QED
      BY <3>1, <3>2
  <2>3. ASSUME NEW r \in Requests, Commit(r)
        PROVE  (RowRevoked(d) => RowRevoked(d)') /\ (~RowRevoked(d) /\ RowRevoked(d)' =>
                 d \in req[r].marked /\ Owned(d, req[r].tenant))
    <3>1. CASE d \in req[r].marked
      <4>1. registry[d] \in Row /\ Owned(d, req[r].tenant)
            /\ registry'[d] = [registry[d] EXCEPT !.revoked = TRUE]
        BY <2>3, <3>1, CommitInv
      <4>2. registry'[d] \in Row /\ registry'[d].revoked
        BY <4>1 DEF Row
      <4> QED
        BY <3>1, <4>1, <4>2, RegistryAssumptions DEF RowRevoked, Exists
    <3>2. CASE d \notin req[r].marked
      BY <2>3, <3>2, CommitInv DEF RowRevoked, Exists
    <3> QED
      BY <3>1, <3>2
  <2>4. \/ registry' = registry
        \/ \E r \in Requests : Insert(r) \/ Commit(r)
    BY DEF RegistryNext, RegistryWork, RegisterLookup, RevokeLookup, UpdateRow, SetBit, Fetch, Visit,
       BreakDeadlock, Die
  <2> QED
    BY <2>1, <2>2, <2>3, <2>4
<1> QED
  BY <1>1, <1>2, RegistryStepInv, PTL DEF RegistrySpec, RevokedByItsTenantForGood

(***************************************************************************)
(* What lies below a delegation.                                           *)
(***************************************************************************)

\* A function is defined once by its value at 0 and its steps.
LEMMA Unique ==
  ASSUME NEW V, NEW base, NEW step, NEW K \in Nat, NEW L \in Nat, K <= L,
         NEW f, Iterates(f, V, base, step, K), NEW g, Iterates(g, V, base, step, L)
  PROVE  \A n \in 0..K : f[n] = g[n]
<1> DEFINE S == {n \in Nat : n <= K => f[n] = g[n]}
<1>1. 0 \in S
  BY DEF Iterates
<1>2. ASSUME NEW n \in Nat, n \in S PROVE n + 1 \in S
  <2> SUFFICES ASSUME n + 1 <= K PROVE f[n + 1] = g[n + 1]
    OBVIOUS
  <2>1. n + 1 \in 1..K /\ n + 1 \in 1..L /\ (n + 1) - 1 = n /\ f[n] = g[n]
    BY <1>2
  <2> QED
    BY <2>1 DEF Iterates
<1>3. Nat \subseteq S
  <2> HIDE DEF S
  <2> QED
    BY <1>1, <1>2, Induction
<1> QED
  BY <1>3

(***************************************************************************)
(* The rows below a row.                                                   *)
(***************************************************************************)

\* Below, of any registry.
Mine(reg, c, tenant) == reg[c] # Absent /\ reg[c].tenant = tenant

WithChildren(reg, tenant, x) ==
  x \cup {c \in Delegations : Mine(reg, c, tenant) /\ reg[c].parent \in x}

BelowIn(reg, d, tenant, n) ==
  LET within[k \in 0..n] ==
        IF k = 0 THEN {d} ELSE WithChildren(reg, tenant, within[k - 1])
  IN  within[n]

\* One level more.
OneDown(reg, tenant) == [n \in Nat |-> [x \in SUBSET Delegations |-> WithChildren(reg, tenant, x)]]

\* What Below is defined by.
LEMMA BelowIterates ==
  ASSUME NEW reg, NEW d \in Delegations, NEW tenant, NEW n \in Nat
  PROVE  \E f : /\ Iterates(f, SUBSET Delegations, {d}, OneDown(reg, tenant), n)
                /\ BelowIn(reg, d, tenant, n) = f[n]
<1> DEFINE V == SUBSET Delegations
           Up(x) == WithChildren(reg, tenant, x)
           Def(g) == g = [k \in 0..n |-> IF k = 0 THEN {d} ELSE Up(g[k - 1])]
<1>0. ASSUME NEW x \in V PROVE Up(x) \in V
  BY DEF WithChildren
<1>1. {d} \in V
  OBVIOUS
<1>2. OneDown(reg, tenant) \in [Nat -> [V -> V]] /\ \A k \in Nat, x \in V : OneDown(reg, tenant)[k][x] = Up(x)
  BY <1>0 DEF OneDown
<1> HIDE DEF V
<1>3. PICK f : Iterates(f, V, {d}, OneDown(reg, tenant), n)
  BY <1>1, <1>2, Recursion
<1> HIDE DEF Up
<1>4. Def(f)
  <2>1. ASSUME NEW k \in 0..n PROVE f[k] = IF k = 0 THEN {d} ELSE Up(f[k - 1])
    <3>1. CASE k # 0
      <4>1. k \in 1..n /\ k - 1 \in 0..n /\ k \in Nat
        BY <3>1
      <4>2. f[k] = OneDown(reg, tenant)[k][f[k - 1]] /\ f[k - 1] \in V
        BY <4>1, <1>3 DEF Iterates
      <4> QED
        BY <1>2, <4>1, <4>2, <3>1
    <3> QED
      BY <3>1, <1>3 DEF Iterates
  <2> QED
    BY <1>3, <2>1 DEF Iterates
<1>5. Def(CHOOSE g : Def(g))
  <2> HIDE DEF Def
  <2> QED
    BY <1>4, Zenon
<1> DEFINE within == CHOOSE g : Def(g)
<1>6. BelowIn(reg, d, tenant, n) = within[n]
  BY Zenon DEF BelowIn, Def, Up
<1>7. within = [k \in 0..n |-> IF k = 0 THEN {d} ELSE Up(within[k - 1])]
  BY <1>5
<1> HIDE DEF within
<1>8. Iterates(within, V, {d}, OneDown(reg, tenant), n)
  <2> DEFINE M == {k \in Nat : k <= n => within[k] \in V}
  <2>1. 0 \in M
    BY <1>1, <1>7
  <2>2. ASSUME NEW k \in Nat, k \in M PROVE k + 1 \in M
    <3> SUFFICES ASSUME k + 1 <= n PROVE within[k + 1] \in V
      OBVIOUS
    <3>1. k + 1 \in 0..n /\ k + 1 # 0 /\ within[k] \in V /\ (k + 1) - 1 = k
      BY <2>2
    <3>2. within[k + 1] = Up(within[k])
      BY <1>7, <3>1
    <3> QED
      BY <1>0, <3>1, <3>2 DEF Up
  <2>3. Nat \subseteq M
    <3> HIDE DEF M
    <3> QED
      BY <2>1, <2>2, Induction
  <2>4. \A k \in 0..n : within[k] \in V
    BY <2>3
  <2>5. \A k \in 1..n : within[k] = OneDown(reg, tenant)[k][within[k - 1]]
    <3> SUFFICES ASSUME NEW k \in 1..n PROVE within[k] = OneDown(reg, tenant)[k][within[k - 1]]
      OBVIOUS
    <3>1. k \in 0..n /\ k - 1 \in 0..n /\ k \in Nat /\ k # 0
      OBVIOUS
    <3> QED
      BY <1>2, <1>7, <2>4, <3>1
  <2>6. within \in [0..n -> V] /\ within[0] = {d}
    <3>1. within = [k \in 0..n |-> within[k]]
      BY <1>7
    <3>2. 0 \in 0..n /\ within[0] = {d}
      BY <1>7
    <3> QED
      BY <2>4, <3>1, <3>2
  <2> QED
    BY <2>5, <2>6 DEF Iterates
<1> QED
  BY <1>6, <1>8 DEF V

\* Level by level.
LEMMA Levels ==
  ASSUME NEW reg, NEW d \in Delegations, NEW tenant
  PROVE  /\ BelowIn(reg, d, tenant, 0) = {d}
         /\ \A n \in Nat :
              /\ BelowIn(reg, d, tenant, n) \in SUBSET Delegations
              /\ BelowIn(reg, d, tenant, n + 1)
                   = WithChildren(reg, tenant, BelowIn(reg, d, tenant, n))
<1> DEFINE V == SUBSET Delegations
           Is(f, m) == Iterates(f, V, {d}, OneDown(reg, tenant), m)
<1>1. BelowIn(reg, d, tenant, 0) = {d}
  <2>0. 0 \in Nat
    OBVIOUS
  <2>1. PICK z : Is(z, 0) /\ BelowIn(reg, d, tenant, 0) = z[0]
    BY <2>0, BelowIterates
  <2> QED
    BY <2>1 DEF Iterates
<1>2. ASSUME NEW n \in Nat
      PROVE  /\ BelowIn(reg, d, tenant, n) \in SUBSET Delegations
             /\ BelowIn(reg, d, tenant, n + 1)
                  = WithChildren(reg, tenant, BelowIn(reg, d, tenant, n))
  <2>2. PICK f : Is(f, n) /\ BelowIn(reg, d, tenant, n) = f[n]
    BY BelowIterates
  <2>3. PICK g : Is(g, n + 1) /\ BelowIn(reg, d, tenant, n + 1) = g[n + 1]
    <3>1. n + 1 \in Nat
      OBVIOUS
    <3> QED
      BY <3>1, BelowIterates
  <2>4. f[n] = g[n]
    <3>1. n + 1 \in Nat /\ n <= n + 1 /\ n \in 0..n
      OBVIOUS
    <3> QED
      BY <2>2, <2>3, <3>1, Unique
  <2>5. g[n + 1] = OneDown(reg, tenant)[n + 1][g[n]] /\ g[n] \in V
    <3>1. n + 1 \in 1..(n + 1) /\ (n + 1) - 1 = n /\ n \in 0..(n + 1)
      OBVIOUS
    <3> QED
      BY <2>3, <3>1 DEF Iterates
  <2>6. n + 1 \in Nat
    OBVIOUS
  <2>7. OneDown(reg, tenant)[n + 1][g[n]] = WithChildren(reg, tenant, g[n])
    BY <2>5, <2>6 DEF OneDown
  <2> QED
    BY <2>2, <2>3, <2>4, <2>5, <2>7 DEF Iterates
<1> QED
  BY <1>1, <1>2

\* What is at most n + 1 levels below a row is the row, or at most n below a child.
LEMMA ThroughChild ==
  ASSUME NEW reg, NEW d \in Delegations, NEW tenant, NEW n \in Nat
  PROVE  \A e \in BelowIn(reg, d, tenant, n + 1) :
           \/ e = d
           \/ \E c \in Delegations : /\ Mine(reg, c, tenant) /\ reg[c].parent = d
                                     /\ e \in BelowIn(reg, c, tenant, n)
<1> DEFINE Kids == {c \in Delegations : Mine(reg, c, tenant) /\ reg[c].parent = d}
           P(m) == \A e \in BelowIn(reg, d, tenant, m + 1) :
                     e = d \/ \E c \in Kids : e \in BelowIn(reg, c, tenant, m)
           S == {m \in Nat : P(m)}
<1>1. 0 \in S
  <2>1. BelowIn(reg, d, tenant, 0 + 1) = WithChildren(reg, tenant, {d})
    <3>1. PICK z \in Nat : z = 0
      OBVIOUS
    <3>2. BelowIn(reg, d, tenant, z + 1) = WithChildren(reg, tenant, BelowIn(reg, d, tenant, z))
      BY Levels
    <3>3. BelowIn(reg, d, tenant, 0) = {d}
      BY Levels
    <3> QED
      BY <3>1, <3>2, <3>3, Zenon
  <2>2. \A c \in Kids : BelowIn(reg, c, tenant, 0) = {c}
    BY Levels
  <2> QED
    BY <2>1, <2>2 DEF WithChildren
<1>2. ASSUME NEW m \in Nat, m \in S PROVE m + 1 \in S
  <2>0. m + 1 \in Nat
    OBVIOUS
  <2>1. BelowIn(reg, d, tenant, (m + 1) + 1) = WithChildren(reg, tenant, BelowIn(reg, d, tenant, m + 1))
    BY <2>0, Levels
  <2>2. \A c \in Kids : /\ BelowIn(reg, c, tenant, m + 1)
                            = WithChildren(reg, tenant, BelowIn(reg, c, tenant, m))
                        /\ c \in BelowIn(reg, c, tenant, m + 1)
    <3> SUFFICES ASSUME NEW c \in Kids
                 PROVE /\ BelowIn(reg, c, tenant, m + 1)
                            = WithChildren(reg, tenant, BelowIn(reg, c, tenant, m))
                       /\ c \in BelowIn(reg, c, tenant, m + 1)
      OBVIOUS
    <3>1. \A k \in Nat : BelowIn(reg, c, tenant, k + 1) = WithChildren(reg, tenant, BelowIn(reg, c, tenant, k))
      BY Levels
    <3> DEFINE T == {k \in Nat : c \in BelowIn(reg, c, tenant, k)}
    <3>2. 0 \in T
      BY Levels
    <3>3. \A k \in Nat : k \in T => k + 1 \in T
      BY <3>1 DEF WithChildren
    <3>4. Nat \subseteq T
      <4> HIDE DEF T
      <4> QED
        BY <3>2, <3>3, Induction
    <3> QED
      BY <2>0, <3>1, <3>4
  <2> SUFFICES ASSUME NEW e \in BelowIn(reg, d, tenant, (m + 1) + 1), e # d
               PROVE  \E c \in Kids : e \in BelowIn(reg, c, tenant, m + 1)
    BY <2>0
  <2>3. CASE e \in BelowIn(reg, d, tenant, m + 1)
    BY <1>2, <2>2, <2>3 DEF WithChildren
  <2>4. CASE e \in Delegations /\ Mine(reg, e, tenant) /\ reg[e].parent \in BelowIn(reg, d, tenant, m + 1)
    <3>1. CASE reg[e].parent = d
      BY <2>2, <2>4, <3>1
    <3>2. CASE reg[e].parent # d
      <4>1. PICK c \in Kids : reg[e].parent \in BelowIn(reg, c, tenant, m)
        BY <1>2, <2>4, <3>2
      <4> QED
        BY <2>2, <2>4, <4>1 DEF WithChildren
    <3> QED
      BY <3>1, <3>2
  <2> QED
    BY <2>1, <2>3, <2>4 DEF WithChildren
<1>3. Nat \subseteq S
  <2> HIDE DEF S
  <2> QED
    BY <1>1, <1>2, Induction
<1> QED
  BY <1>3

\* Rows that stay, with their tenant and parent, stay below the rows above them.
LEMMA BelowGrows ==
  ASSUME NEW reg, NEW more, NEW d \in Delegations, NEW tenant, NEW n \in Nat,
         \A c \in Delegations : Mine(reg, c, tenant)
                                => Mine(more, c, tenant) /\ more[c].parent = reg[c].parent
  PROVE  BelowIn(reg, d, tenant, n) \subseteq BelowIn(more, d, tenant, n)
<1> DEFINE S == {m \in Nat : BelowIn(reg, d, tenant, m) \subseteq BelowIn(more, d, tenant, m)}
<1>1. 0 \in S
  BY Levels
<1>2. ASSUME NEW m \in Nat, m \in S PROVE m + 1 \in S
  <2>1. BelowIn(reg, d, tenant, m + 1) = WithChildren(reg, tenant, BelowIn(reg, d, tenant, m))
    BY Levels
  <2>2. BelowIn(more, d, tenant, m + 1) = WithChildren(more, tenant, BelowIn(more, d, tenant, m))
    BY Levels
  <2> QED
    BY <1>2, <2>1, <2>2 DEF WithChildren
<1>3. Nat \subseteq S
  <2> HIDE DEF S
  <2> QED
    BY <1>1, <1>2, Induction
<1> QED
  BY <1>3

\* The same of the registry at hand.
LEMMA BelowIsIn ==
  ASSUME NEW d, NEW tenant, NEW n
  PROVE  Below(d, tenant, n) = BelowIn(registry, d, tenant, n)
BY Zenon DEF Below, BelowIn, WithChildren, Mine, Owned, Exists

(***************************************************************************)
(* Completeness.  A row that is due when a revocation begins is updated,   *)
(* or it is still below the delegation at hand or below a child still to   *)
(* be visited, as many levels at most as the guard leaves from there.      *)
(***************************************************************************)
Depth(q) == IF q.cascade THEN Guard + 1 ELSE 0

Covers(q, e) ==
  \/ e \in q.marked
  \/ q.pc # "looping" /\ e \in Below(q.target, q.tenant, Depth(q) - Len(q.frames))
  \/ \E k \in DOMAIN q.frames : \E c \in q.frames[k] : e \in Below(c, q.tenant, Depth(q) - k)

Reach(q) ==
  /\ Len(q.frames) <= Depth(q)
  /\ q.pc \in {"setting", "fetching"} => q.target \in q.marked
  /\ q.pc = "fetching" => q.cascade
  /\ q.pc \in Revoking => \A e \in q.due : Covers(q, e)

Reaching == RegistryTypeOK /\ \A r \in Requests : Reach(req[r])

\* Rows stay, and keep their parent too.
Grows == Keeps /\ \A d \in Delegations : Exists(d) => registry'[d].parent = registry[d].parent

\* The depths are numbers, and frames are sets of delegations.
LEMMA Depths ==
  ASSUME NEW q, ItsOwn(q), q.cascade \in BOOLEAN
  PROVE  /\ Guard \in Nat /\ Depth(q) \in Nat /\ Len(q.frames) \in Nat
         /\ DOMAIN q.frames = 1..Len(q.frames)
         /\ \A k \in DOMAIN q.frames : q.frames[k] \in SUBSET OwnedBy(q.tenant)
         /\ OwnedBy(q.tenant) \subseteq Delegations
<1>1. Guard \in Nat
  BY RegistryConstants
<1>2. q.frames \in Seq(SUBSET OwnedBy(q.tenant))
  BY DEF ItsOwn
<1>3. Len(q.frames) \in Nat /\ DOMAIN q.frames = 1..Len(q.frames)
      /\ \A k \in 1..Len(q.frames) : q.frames[k] \in SUBSET OwnedBy(q.tenant)
  BY <1>2, LenProperties, ElementOfSeq
<1> QED
  BY <1>1, <1>3 DEF Depth, OwnedBy

\* What a request has reached stays below, as rows are inserted.
LEMMA StaysReach ==
  ASSUME Grows, NEW q, ItsOwn(q), q.cascade \in BOOLEAN, Reach(q)
  PROVE  Reach(q)'
<1>1. ASSUME NEW d \in Delegations, NEW n \in Nat
      PROVE  Below(d, q.tenant, n) \subseteq Below(d, q.tenant, n)'
  <2>1. Below(d, q.tenant, n) = BelowIn(registry, d, q.tenant, n)
    BY BelowIsIn
  <2>2. Below(d, q.tenant, n)' = BelowIn(registry', d, q.tenant, n)
    BY Zenon DEF Below, BelowIn, WithChildren, Mine, Owned, Exists
  <2>3. \A c \in Delegations : Mine(registry, c, q.tenant)
          => Mine(registry', c, q.tenant) /\ registry'[c].parent = registry[c].parent
    BY DEF Grows, Keeps, Mine, Exists
  <2> QED
    BY <2>1, <2>2, <2>3, BelowGrows
<1>2. ASSUME q.pc \in Revoking, NEW e \in q.due PROVE Covers(q, e)'
  <2>1. Covers(q, e) /\ q.target \in Delegations
    BY <1>2 DEF Reach, ItsOwn, OwnedBy
  <2>2. Depth(q) - Len(q.frames) \in Nat /\ \A k \in DOMAIN q.frames : Depth(q) - k \in Nat
    BY Depths DEF Reach
  <2>3. \A k \in DOMAIN q.frames : \A c \in q.frames[k] : c \in Delegations
    BY Depths
  <2>4. Depth(q)' = Depth(q)
    BY DEF Depth
  <2> QED
    BY <1>1, <2>1, <2>2, <2>3, <2>4 DEF Covers
<1> QED
  BY <1>2 DEF Reach, Depth

\* A step of one request.
LEMMA TakesReach ==
  ASSUME RegistryInv, Reaching, NEW r \in Requests, NEW next \in Request, Takes(r, next), Grows,
         ItsOwn(next), Reach(next),
         \A q \in Requests \ {r} : next.marked \cap req[q].marked = {}
  PROVE  Reaching'
<1>1. \A q \in Requests : req'[q] = IF q = r THEN next ELSE req[q]
  BY DEF Takes, RegistryInv
<1>2. req' \in [Requests -> Request]
  BY DEF Takes, Reaching, RegistryTypeOK
<1>3. ASSUME NEW q \in Requests PROVE Reach(req[q])' /\ Len(req'[q].frames) <= Guard + 1
  <2>1. PICK x : x = req'[q] /\ x \in Request /\ ItsOwn(x) /\ Reach(x)
    BY <1>1 DEF RegistryInv, Reaching, RegistryTypeOK
  <2>2. x.cascade \in BOOLEAN
    BY <2>1 DEF Request
  <2>3. Reach(x)'
    BY <2>1, <2>2, StaysReach
  <2>4. Len(x.frames) <= Guard + 1
    BY <2>1, <2>2, Depths DEF Reach, Depth
  <2> QED
    BY <2>1, <2>3, <2>4 DEF Reach, Covers, Depth
<1>4. \A p, q \in Requests : p # q => req'[p].marked \cap req'[q].marked = {}
  BY <1>1 DEF Reaching, RegistryTypeOK
<1>5. registry' \in [Delegations -> Row \cup {Absent}]
  BY DEF Grows, Keeps
<1> QED
  BY <1>2, <1>3, <1>4, <1>5 DEF Reaching, RegistryTypeOK

\* An idle request has its type, and nothing is due.
LEMMA IdleReach == NoRequest \in Request /\ Reach(NoRequest)
<1>1. <<>> \in Seq(SUBSET Delegations) /\ Len(<<>>) = 0
  BY EmptySeq
<1>2. NoRequest \in Request
  BY <1>1 DEF NoRequest, Request, Steps
<1>3. NoRequest.pc = "idle" /\ NoRequest.frames = <<>> /\ NoRequest.cascade = FALSE
  BY DEF NoRequest
<1> QED
  BY <1>1, <1>2, <1>3 DEF Reach, Depth, Revoking

\* An unchanged registry grows, trivially.
LEMMA StillGrows == ASSUME RegistryInv, UNCHANGED registry PROVE Grows
BY Still DEF Grows

\* A request that ends, or begins to register, has nothing to reach.
LEMMA EndReach ==
  ASSUME RegistryInv, Reaching, NEW r \in Requests, Takes(r, NoRequest), Grows
  PROVE  Reaching'
<1>1. NoRequest.marked = {}
  BY DEF NoRequest
<1> QED
  BY <1>1, IdleReach, NoRequestIsIts, TakesReach

\* A registration that has looked its jti up (register_delegation).
LEMMA RegisterReach ==
  ASSUME RegistryInv, Reaching, NEW r \in Requests, NEW reg \in Registrations, RegisterLookup(r, reg)
  PROVE  Reaching'
<1> DEFINE next == [NoRequest EXCEPT !.pc = "registering", !.target = reg.jti,
                      !.tenant = reg.tenant, !.parent = reg.parent]
<1>1. reg.jti \in Delegations /\ reg.tenant \in Tenants /\ reg.parent \in Delegations \cup {Absent}
  BY RegistryAssumptions DEF Registration
<1>2. /\ IsRequest(next) /\ next.pc = "registering" /\ next.target = reg.jti
      /\ next.tenant = reg.tenant /\ next.parent = reg.parent
      /\ next.marked = {} /\ next.frames = <<>>
  BY NoRequestFields DEF IsRequest, Fields
<1>3. next \in Request
  BY <1>1, IdleReach DEF Request, Steps
<1>4. Takes(r, next) /\ UNCHANGED registry
  BY DEF RegisterLookup
<1> HIDE DEF next
<1>5. ItsOwn(next)
  BY <1>1, <1>2, EmptySeq DEF ItsOwn, Revoking
<1>6. Reach(next)
  <2>1. Len(next.frames) = 0 /\ next.cascade \in BOOLEAN
    BY <1>2, <1>3 DEF Request
  <2>2. Depth(next) \in Nat
    BY <1>5, <2>1, Depths
  <2> QED
    BY <1>2, <2>1, <2>2 DEF Reach, Revoking
<1> QED
  BY <1>2, <1>3, <1>4, <1>5, <1>6, StillGrows, TakesReach

\* A revocation begins: what is due is below its target.
LEMMA RevokeReach ==
  ASSUME RegistryInv, Reaching, NEW r \in Requests, NEW d \in Delegations, NEW tenant \in Tenants,
         NEW cascade \in BOOLEAN, RevokeLookup(r, d, tenant, cascade)
  PROVE  Reaching'
<1> DEFINE depth == IF cascade THEN Guard + 1 ELSE 0
           due  == Below(d, tenant, depth)
           next == [NoRequest EXCEPT !.pc = "updating", !.target = d, !.tenant = tenant,
                      !.cascade = cascade, !.due = due]
<1>1. Owned(d, tenant) /\ Takes(r, next) /\ UNCHANGED registry
  BY DEF RevokeLookup
<1>2. depth \in Nat
  BY RegistryConstants
<1> HIDE DEF depth
<1>3. due \in SUBSET Delegations
  BY <1>2, BelowIsIn, Levels
<1> HIDE DEF due
<1>4. next \in Request
  BY <1>3, IdleReach DEF Request, Steps
<1>5. /\ IsRequest(next) /\ next.pc = "updating" /\ next.target = d /\ next.cascade = cascade
      /\ next.tenant = tenant /\ next.marked = {} /\ next.frames = <<>> /\ next.due = due
  BY NoRequestFields DEF IsRequest, Fields
<1> HIDE DEF next
<1>6. ItsOwn(next)
  BY <1>1, <1>5, EmptySeq DEF ItsOwn, Revoking, OwnedBy
<1>7. Reach(next)
  <2>1. Depth(next) = depth /\ Len(next.frames) = 0 /\ depth - 0 = depth
    BY <1>2, <1>5 DEF Depth, depth
  <2>2. \A e \in next.due : Covers(next, e)
    BY <1>5, <2>1 DEF Covers, due
  <2> QED
    BY <1>2, <1>5, <2>1, <2>2 DEF Reach
<1> QED
  BY <1>1, <1>4, <1>5, <1>6, <1>7, StillGrows, TakesReach

\* What a revocation at work has.
LEMMA AtWork ==
  ASSUME RegistryInv, Reaching, NEW r \in Requests, req[r].pc \in Revoking
  PROVE  /\ req[r] \in Request /\ ItsOwn(req[r]) /\ Reach(req[r])
         /\ req[r].target \in OwnedBy(req[r].tenant)
         /\ req[r].target \in Delegations /\ req[r].marked \in SUBSET Delegations
         /\ req[r].cascade \in BOOLEAN /\ req[r].frames \in Seq(SUBSET OwnedBy(req[r].tenant))
         /\ \A e \in req[r].due : Covers(req[r], e)
BY DEF RegistryInv, Reaching, RegistryTypeOK, ItsOwn, Request, Reach, OwnedBy

\* The row at hand is updated (_revoke_single).
LEMMA UpdateReach == ASSUME RegistryInv, Reaching, NEW r \in Requests, UpdateRow(r) PROVE Reaching'
<1> DEFINE me == req[r]
           marked == me.marked \cup {me.target}
           next == [me EXCEPT !.pc = "setting", !.marked = marked]
<1>1. me.pc = "updating" /\ me.pc \in Revoking /\ Takes(r, next) /\ UNCHANGED registry
      /\ \A q \in Requests \ {r} : me.target \notin req[q].marked
  BY DEF UpdateRow, Revoking
<1>2. /\ me \in Request /\ ItsOwn(me) /\ Reach(me) /\ me.target \in OwnedBy(me.tenant)
      /\ me.target \in Delegations /\ me.marked \in SUBSET Delegations
      /\ \A e \in me.due : Covers(me, e)
  BY <1>1, AtWork
<1>3. marked \in SUBSET Delegations /\ me.marked \subseteq marked /\ me.target \in marked
      /\ marked \subseteq OwnedBy(me.tenant)
  BY <1>2 DEF ItsOwn
<1>4. \A q \in Requests \ {r} : marked \cap req[q].marked = {}
  BY <1>1 DEF Reaching, RegistryTypeOK
<1> HIDE DEF marked
<1>5. next \in Request
  BY <1>2, <1>3 DEF Request, Steps
<1>6. /\ IsRequest(next) /\ next.pc = "setting" /\ next.target = me.target
      /\ next.tenant = me.tenant /\ next.marked = marked /\ next.frames = me.frames
      /\ next.cascade = me.cascade /\ next.due = me.due
  BY <1>2 DEF ItsOwn, IsRequest, Fields
<1> HIDE DEF next
<1>7. ItsOwn(next)
  BY <1>2, <1>3, <1>6 DEF ItsOwn, Revoking
<1>8. Reach(next)
  <2>1. Depth(next) = Depth(me)
    BY <1>6 DEF Depth
  <2>2. \A e \in next.due : Covers(next, e)
    BY <1>1, <1>2, <1>3, <1>6, <2>1 DEF Covers
  <2> QED
    BY <1>2, <1>3, <1>6, <2>1, <2>2 DEF Reach
<1> QED
  BY <1>1, <1>4, <1>5, <1>6, <1>7, <1>8, StillGrows, TakesReach

\* Without cascade the row at hand is all that is due.
LEMMA SetReach == ASSUME RegistryInv, Reaching, NEW r \in Requests, SetBit(r) PROVE Reaching'
<1> DEFINE me == req[r]
           pc == IF me.cascade THEN "fetching" ELSE "looping"
           next == [me EXCEPT !.pc = pc]
<1>1. me.pc = "setting" /\ me.pc \in Revoking /\ Takes(r, next) /\ UNCHANGED registry
  BY DEF SetBit, Revoking
<1>2. /\ me \in Request /\ ItsOwn(me) /\ Reach(me) /\ me.target \in Delegations
      /\ me.target \in OwnedBy(me.tenant) /\ me.cascade \in BOOLEAN
      /\ \A e \in me.due : Covers(me, e)
  BY <1>1, AtWork
<1>3. pc \in {"fetching", "looping"} /\ (pc = "fetching" <=> me.cascade)
  OBVIOUS
<1> HIDE DEF pc
<1>4. next \in Request
  BY <1>2, <1>3 DEF Request, Steps
<1>5. /\ IsRequest(next) /\ next.pc = pc /\ next.target = me.target
      /\ next.tenant = me.tenant /\ next.marked = me.marked /\ next.frames = me.frames
      /\ next.cascade = me.cascade /\ next.due = me.due
  BY <1>2 DEF ItsOwn, IsRequest, Fields
<1>6. \A q \in Requests \ {r} : me.marked \cap req[q].marked = {}
  BY DEF Reaching, RegistryTypeOK
<1> HIDE DEF next
<1>7. ItsOwn(next)
  BY <1>2, <1>3, <1>5 DEF ItsOwn, Revoking
<1>8. Reach(next)
  <2>1. Depth(next) = Depth(me) /\ me.target \in me.marked
    BY <1>1, <1>2, <1>5 DEF Depth, Reach
  <2>2. ASSUME NEW e \in me.due PROVE Covers(next, e)
    <3>1. CASE me.cascade
      BY <1>1, <1>2, <1>3, <1>5, <2>1, <3>1 DEF Covers
    <3>2. CASE ~me.cascade
      <4>1. Len(me.frames) = 0 /\ Depth(me) = 0 /\ DOMAIN me.frames = 1..Len(me.frames)
        BY <1>2, <3>2, Depths DEF Reach, Depth
      <4>2. Below(me.target, me.tenant, 0) = {me.target}
        BY <1>2, BelowIsIn, Levels
      <4>3. Depth(me) - Len(me.frames) = 0 /\ DOMAIN me.frames = {}
        BY <4>1
      <4>4. e \in me.marked
        BY <1>2, <2>1, <4>2, <4>3 DEF Covers
      <4> QED
        BY <1>5, <4>4 DEF Covers
    <3> QED
      BY <3>1, <3>2
  <2> QED
    BY <1>2, <1>3, <1>5, <2>1, <2>2 DEF Reach
<1> QED
  BY <1>1, <1>4, <1>5, <1>6, <1>7, <1>8, StillGrows, TakesReach

\* Calls that return had no child left.
LEMMA ReturnedKeeps ==
  ASSUME NEW S, NEW frames \in Seq(S)
  PROVE  /\ Len(Returned(frames)) \in 0..Len(frames)
         /\ Len(frames) > 0 /\ frames[Len(frames)] = {} => Len(Returned(frames)) < Len(frames)
         /\ \A k \in DOMAIN frames : frames[k] # {}
              => k \in DOMAIN Returned(frames) /\ Returned(frames)[k] = frames[k]
<1> DEFINE live == {n \in DOMAIN frames : frames[n] # {}}
           last == CHOOSE n \in live \cup {0} : \A m \in live : m <= n
<1>1. Len(frames) \in Nat /\ DOMAIN frames = 1..Len(frames)
      /\ \A n \in 1..Len(frames) : frames[n] \in S
  BY LenProperties, ElementOfSeq
<1>2. live \cup {0} \subseteq 0..Len(frames)
  BY <1>1
<1>3. \E m \in live \cup {0} : \A k \in live \cup {0} : k <= m
  BY <1>1, <1>2, Largest
<1>4. last \in live \cup {0} /\ \A m \in live : m <= last
  BY <1>3
<1>5. last \in 0..Len(frames)
  BY <1>2, <1>4
<1>6. \A k \in DOMAIN frames : frames[k] # {} => k \in 1..last
  <2> HIDE DEF last
  <2> QED
    BY <1>1, <1>4, <1>5
<1>a. Len(frames) > 0 /\ frames[Len(frames)] = {} => last # Len(frames)
  <2> HIDE DEF last
  <2> QED
    BY <1>4
<1> HIDE DEF last, live
<1>7. /\ Len(SubSeq(frames, 1, last)) = last
      /\ SubSeq(frames, 1, last) \in Seq(S)
      /\ \A k \in 1..last : SubSeq(frames, 1, last)[k] = frames[k]
  <2>1. last \in Int /\ 1 \in Int /\ \A k \in 1..last : frames[k] \in S
    BY <1>1, <1>5
  <2>2. /\ SubSeq(frames, 1, last) \in Seq(S)
        /\ Len(SubSeq(frames, 1, last)) = IF 1 <= last THEN last - 1 + 1 ELSE 0
        /\ \A k \in 1 .. last - 1 + 1 : SubSeq(frames, 1, last)[k] = frames[1 + k - 1]
    BY <2>1, SubSeqProperties
  <2>3. last - 1 + 1 = last /\ \A k \in 1..last : 1 + k - 1 = k
    BY <1>5
  <2> QED
    BY <1>5, <2>2, <2>3
<1>8. Returned(frames) = SubSeq(frames, 1, last)
  BY DEF Returned, live, last
<1>9. DOMAIN SubSeq(frames, 1, last) = 1..last
  BY <1>7, LenProperties
<1> QED
  <2>1. Len(Returned(frames)) = last /\ DOMAIN Returned(frames) = 1..last
        /\ \A k \in 1..last : Returned(frames)[k] = frames[k]
    BY <1>7, <1>8, <1>9
  <2>2. last # Len(frames) => last < Len(frames)
    <3>1. \A b \in Nat : \A a \in 0..b : a # b => a < b
      OBVIOUS
    <3>2. Len(frames) \in Nat
      BY <1>1
    <3> QED
      BY <1>5, <3>1, <3>2, Zenon
  <2> QED
    BY <1>5, <1>6, <1>a, <2>1, <2>2

\* _cascade_revoke fetches the children: what is due below the delegation at hand is
\* that, or is due below one of them.
LEMMA FetchReach == ASSUME RegistryInv, Reaching, NEW r \in Requests, Fetch(r) PROVE Reaching'
<1> DEFINE me == req[r]
           own == OwnedBy(me.tenant)
           L == Len(me.frames)
           children == IF L > Guard THEN {} ELSE Children(me.target, me.tenant)
           full == Append(me.frames, children)
           frames == Returned(full)
           next == [me EXCEPT !.pc = "looping", !.frames = frames]
<1>1. me.pc = "fetching" /\ me.pc \in Revoking /\ Takes(r, next) /\ UNCHANGED registry
  BY DEF Fetch, Revoking
<1>2. /\ me \in Request /\ ItsOwn(me) /\ Reach(me) /\ me.target \in Delegations
      /\ me.target \in own /\ me.frames \in Seq(SUBSET own)
      /\ \A e \in me.due : Covers(me, e)
  BY <1>1, AtWork
<1>3. me.cascade = TRUE /\ me.target \in me.marked /\ L <= Depth(me)
  BY <1>1, <1>2 DEF Reach, Request
<1>4. /\ Guard \in Nat /\ L \in Nat /\ DOMAIN me.frames = 1..L /\ Depth(me) = Guard + 1
      /\ own \subseteq Delegations /\ L <= Guard + 1
  BY <1>2, <1>3, Depths DEF Depth
<1>5. children \in SUBSET own
  BY DEF Children, OwnedBy
<1>6. L > Guard => children = {}
  OBVIOUS
<1>7. L <= Guard => children = Children(me.target, me.tenant)
  BY <1>4
<1> HIDE DEF children
<1>8. /\ full \in Seq(SUBSET own) /\ Len(full) = L + 1
      /\ \A k \in 1..L : full[k] = me.frames[k]
      /\ full[L + 1] = children
  <2> HIDE DEF own
  <2> QED
    BY <1>2, <1>4, <1>5, AppendProperties
<1>9. DOMAIN full = 1..(L + 1)
  BY <1>8, LenProperties
<1>10. /\ frames \in Seq(SUBSET own) /\ Len(frames) \in 0..(L + 1)
       /\ \A k \in 1..(L + 1) : full[k] # {} => k \in DOMAIN frames /\ frames[k] = full[k]
  <2> HIDE DEF own, full
  <2> QED
    BY <1>8, <1>9, ReturnedType, ReturnedKeeps
<1>11. Len(frames) <= Guard + 1
  <2>1. L = Guard + 1 => full[L + 1] = {}
    BY <1>4, <1>6, <1>8
  <2>2. full[L + 1] = {} => Len(frames) < L + 1
    <3> HIDE DEF full, own
    <3> QED
      BY <1>4, <1>8, ReturnedKeeps
  <2> HIDE DEF full, frames
  <2> QED
    BY <1>4, <1>10, <2>1, <2>2
<1> HIDE DEF full, frames
<1>12. frames \in Seq(SUBSET Delegations)
  <2>1. SUBSET own \subseteq SUBSET Delegations
    BY <1>4
  <2> QED
    BY <1>10, <2>1, SeqMonotonic
<1>13. next \in Request
  BY <1>2, <1>12 DEF Request, Steps
<1>14. /\ IsRequest(next) /\ next.pc = "looping" /\ next.target = me.target
       /\ next.tenant = me.tenant /\ next.marked = me.marked /\ next.frames = frames
       /\ next.cascade = me.cascade /\ next.due = me.due
  BY <1>2 DEF ItsOwn, IsRequest, Fields
<1>15. \A q \in Requests \ {r} : me.marked \cap req[q].marked = {}
  BY DEF Reaching, RegistryTypeOK
<1> HIDE DEF next
<1>16. ItsOwn(next)
  BY <1>2, <1>10, <1>14 DEF ItsOwn, Revoking
<1>17. ASSUME NEW e \in me.due PROVE Covers(next, e)
  <2>0. Depth(next) = Depth(me)
    BY <1>14 DEF Depth
  <2>1. CASE e \in me.marked
    BY <1>14, <2>1 DEF Covers
  <2>2. CASE e # me.target /\ e \in Below(me.target, me.tenant, Depth(me) - L)
    <3>1. L <= Guard
      <4> SUFFICES ASSUME L = Guard + 1 PROVE FALSE
        BY <1>4
      <4>1. Depth(me) - L = 0
        BY <1>4
      <4>2. Below(me.target, me.tenant, 0) = {me.target}
        BY <1>2, BelowIsIn, Levels
      <4> QED
        BY <2>2, <4>1, <4>2
    <3>2. PICK n \in Nat : n = Guard - L
      <4>1. Guard \in Nat /\ L \in Nat
        BY <1>4
      <4> HIDE DEF L
      <4>2. Guard - L \in Nat
        BY <3>1, <4>1
      <4> QED
        BY <4>2
    <3>3. Depth(me) - L = n + 1 /\ Depth(me) - (L + 1) = n
      BY <1>4, <3>2
    <3>4. e \in BelowIn(registry, me.target, me.tenant, n + 1)
      BY <2>2, <3>3, BelowIsIn
    <3>5. PICK c \in Delegations : /\ Mine(registry, c, me.tenant) /\ registry[c].parent = me.target
                                   /\ e \in BelowIn(registry, c, me.tenant, n)
      BY <1>2, <2>2, <3>4, ThroughChild
    <3>6. c \in children
      BY <1>7, <3>1, <3>5 DEF Children, Owned, Exists, Mine
    <3>7. L + 1 \in DOMAIN frames /\ frames[L + 1] = children
      <4>1. L + 1 \in 1..(L + 1)
        BY <1>4
      <4> QED
        BY <1>8, <1>10, <3>6, <4>1
    <3>8. e \in Below(c, me.tenant, Depth(me) - (L + 1))
      BY <3>3, <3>5, BelowIsIn
    <3> QED
      BY <1>14, <2>0, <3>6, <3>7, <3>8 DEF Covers
  <2>3. CASE \E k \in DOMAIN me.frames : \E c \in me.frames[k] :
               e \in Below(c, me.tenant, Depth(me) - k)
    <3>0. PICK k \in 1..L : \E c \in me.frames[k] : e \in Below(c, me.tenant, Depth(me) - k)
      BY <1>4, <2>3
    <3>1. PICK c \in me.frames[k] : e \in Below(c, me.tenant, Depth(me) - k)
      BY <3>0
    <3>2. k \in 1..(L + 1) /\ full[k] = me.frames[k]
      BY <1>4, <1>8
    <3>3. k \in DOMAIN frames /\ frames[k] = me.frames[k]
      BY <1>10, <3>1, <3>2
    <3> QED
      BY <1>14, <2>0, <3>1, <3>3 DEF Covers
  <2> QED
    BY <1>2, <1>3, <2>1, <2>2, <2>3 DEF Covers
<1>18. Reach(next)
  <2>1. Depth(next) = Depth(me)
    BY <1>14 DEF Depth
  <2> QED
    BY <1>3, <1>4, <1>11, <1>14, <1>17, <2>1 DEF Reach
<1> QED
  BY <1>1, <1>13, <1>14, <1>15, <1>16, <1>18, StillGrows, TakesReach

\* The next child becomes the delegation at hand.
LEMMA VisitReach ==
  ASSUME RegistryInv, Reaching, NEW r \in Requests, NEW c \in Delegations, Visit(r, c)
  PROVE  Reaching'
<1> DEFINE me == req[r]
           own == OwnedBy(me.tenant)
           L == Len(me.frames)
           rest == me.frames[L] \ {c}
           frames == [me.frames EXCEPT ![L] = rest]
           next == [me EXCEPT !.pc = "updating", !.target = c, !.frames = frames]
<1>1. me.pc = "looping" /\ me.pc \in Revoking /\ UNCHANGED registry
      /\ L > 0 /\ c \in me.frames[L]
  BY DEF Visit, Revoking
<1>2. Takes(r, next)
  BY DEF Visit
<1>3. /\ me \in Request /\ ItsOwn(me) /\ Reach(me) /\ me.frames \in Seq(SUBSET own)
      /\ me.cascade \in BOOLEAN /\ \A e \in me.due : Covers(me, e)
  BY <1>1, AtWork
<1>4. /\ L \in 1..Len(me.frames) /\ DOMAIN me.frames = 1..L /\ own \subseteq Delegations
      /\ me.frames[L] \in SUBSET own /\ Depth(me) \in Nat /\ L <= Depth(me) /\ L \in Nat
  BY <1>1, <1>3, Depths DEF Reach
<1>5. rest \in SUBSET own /\ c \in own
  BY <1>1, <1>4
<1>6. /\ frames \in Seq(SUBSET own) /\ Len(frames) = L
      /\ \A k \in 1..L : frames[k] = IF k = L THEN rest ELSE me.frames[k]
  <2> HIDE DEF own, rest
  <2> QED
    BY <1>3, <1>4, <1>5, ExceptSeq
<1> HIDE DEF frames
<1>7. DOMAIN frames = 1..L
  BY <1>6, LenProperties
<1>8. frames \in Seq(SUBSET Delegations)
  <2>1. SUBSET own \subseteq SUBSET Delegations
    BY <1>4
  <2> QED
    BY <1>6, <2>1, SeqMonotonic
<1>9. next \in Request
  BY <1>3, <1>8 DEF Request, Steps
<1>10. /\ IsRequest(next) /\ next.pc = "updating" /\ next.target = c
       /\ next.tenant = me.tenant /\ next.marked = me.marked /\ next.frames = frames
       /\ next.cascade = me.cascade /\ next.due = me.due
  BY <1>3 DEF ItsOwn, IsRequest, Fields
<1>11. \A q \in Requests \ {r} : me.marked \cap req[q].marked = {}
  BY DEF Reaching, RegistryTypeOK
<1> HIDE DEF next
<1>12. ItsOwn(next)
  BY <1>3, <1>5, <1>6, <1>10 DEF ItsOwn, Revoking
<1>13. ASSUME NEW e \in me.due PROVE Covers(next, e)
  <2>0. Depth(next) = Depth(me)
    BY <1>10 DEF Depth
  <2>1. CASE e \in me.marked
    BY <1>10, <2>1 DEF Covers
  <2>2. CASE \E k \in DOMAIN me.frames : \E d \in me.frames[k] :
               e \in Below(d, me.tenant, Depth(me) - k)
    <3>0. PICK k \in 1..L : \E d \in me.frames[k] : e \in Below(d, me.tenant, Depth(me) - k)
      BY <1>4, <2>2
    <3>1. PICK d \in me.frames[k] : e \in Below(d, me.tenant, Depth(me) - k)
      BY <3>0
    <3>2. CASE k = L /\ d = c
      BY <1>6, <1>10, <2>0, <3>1, <3>2 DEF Covers
    <3>3. CASE ~(k = L /\ d = c)
      <4>1. d \in frames[k]
        BY <1>6, <3>1, <3>3
      <4> QED
        BY <1>7, <1>10, <2>0, <3>1, <4>1 DEF Covers
    <3> QED
      BY <3>2, <3>3
  <2> QED
    BY <1>1, <1>3, <2>1, <2>2 DEF Covers
<1>14. Reach(next)
  <2>1. Depth(next) = Depth(me)
    BY <1>10 DEF Depth
  <2> QED
    BY <1>4, <1>6, <1>10, <1>13, <2>1 DEF Reach
<1> QED
  BY <1>1, <1>2, <1>9, <1>10, <1>11, <1>12, <1>14, StillGrows, TakesReach

\* A row that is there stays as it is when another is inserted.
LEMMA InsertReach == ASSUME RegistryInv, Reaching, NEW r \in Requests, Insert(r) PROVE Reaching'
<1>1. RegistryInv' /\ \A d \in Delegations : Exists(d) => registry'[d] = registry[d]
  BY InsertInv
<1>2. Grows
  BY <1>1 DEF Grows, Keeps, Exists, RegistryInv
<1>3. Takes(r, NoRequest)
  BY DEF Insert
<1> QED
  BY <1>2, <1>3, EndReach

\* A commit changes what rows say of their revocation only.
LEMMA CommitReach == ASSUME RegistryInv, Reaching, NEW r \in Requests, Commit(r) PROVE Reaching'
<1>1. /\ RegistryInv'
      /\ \A d \in Delegations : registry'[d] =
           IF d \in req[r].marked THEN [registry[d] EXCEPT !.revoked = TRUE] ELSE registry[d]
      /\ \A d \in Delegations : d \in req[r].marked => registry[d] \in Row
  BY CommitInv
<1>2. \A row \in Row : /\ [row EXCEPT !.revoked = TRUE] \in Row
                       /\ [row EXCEPT !.revoked = TRUE].tenant = row.tenant
                       /\ [row EXCEPT !.revoked = TRUE].parent = row.parent
  BY DEF Row
<1>3. registry' \in [Delegations -> Row \cup {Absent}]
  BY <1>1 DEF RegistryInv
<1>4. Grows
  BY <1>1, <1>2, <1>3, RegistryAssumptions DEF Grows, Keeps, Exists
<1>5. Takes(r, NoRequest)
  BY DEF Commit
<1> QED
  BY <1>4, <1>5, EndReach

\* Every step of every request.
LEMMA StepReach == RegistryInv /\ Reaching /\ [RegistryNext]_vars => Reaching'
<1> SUFFICES ASSUME RegistryInv, Reaching, [RegistryNext]_vars PROVE Reaching'
  OBVIOUS
<1>1. CASE UNCHANGED vars
  <2>1. registry' = registry /\ req' = req
    BY <1>1 DEF vars
  <2>2. Grows
    BY <2>1, StillGrows
  <2>3. ASSUME NEW r \in Requests PROVE Reach(req[r])'
    <3>1. PICK x : x = req[r] /\ x \in Request /\ ItsOwn(x) /\ Reach(x)
      BY DEF RegistryInv, Reaching, RegistryTypeOK
    <3>2. x.cascade \in BOOLEAN
      BY <3>1 DEF Request
    <3>3. Reach(x)'
      BY <2>2, <3>1, <3>2, StaysReach
    <3> QED
      BY <2>1, <3>1, <3>3 DEF Reach, Covers, Depth
  <2> QED
    BY <2>1, <2>3 DEF Reaching, RegistryTypeOK
<1>2. ASSUME NEW r \in Requests, Die(r) \/ BreakDeadlock(r) PROVE Reaching'
  BY <1>2, EndReach, StillGrows DEF BreakDeadlock, Die
<1> QED
  BY <1>1, <1>2, RegisterReach, InsertReach, RevokeReach, UpdateReach, SetReach, FetchReach,
     VisitReach, CommitReach DEF RegistryNext, RegistryWork

\* At first there is no row and no request.
LEMMA InitReach == RegistryInit => RegistryInv /\ Reaching
<1> SUFFICES ASSUME RegistryInit PROVE RegistryInv /\ Reaching
  OBVIOUS
<1>1. RegistryInv
  BY NoRequestIsIts DEF RegistryInit, RegistryInv
<1>2. NoRequest.marked = {} /\ Len(NoRequest.frames) = 0 /\ Guard \in Nat
  BY NoRequestFields, EmptySeq, RegistryConstants
<1>3. Reaching
  BY <1>2, IdleReach DEF RegistryInit, Reaching, RegistryTypeOK
<1> QED
  BY <1>1, <1>3

\* Rows and requests keep their types, a cascade is never deeper than its guard allows,
\* and no row is updated by two open transactions.
THEOREM Typed == RegistrySpec => []RegistryTypeOK
<1>1. RegistryInv /\ Reaching => RegistryTypeOK
  BY DEF Reaching
<1> QED
  BY <1>1, InitReach, RegistryStepInv, StepReach, PTL DEF RegistrySpec

\* A cascade that commits has revoked every descendant registered when it began, down to
\* the depth of its guard, for any number of delegations, tenants and requests, parents
\* that form trees, chains or rings, and any order in which the children come.
THEOREM CascadesComplete == RegistrySpec => CascadeIsComplete
<1> DEFINE A == \A r \in Requests : Commit(r) => \A d \in req[r].due : RowRevoked(d)'
<1>1. RegistryInv /\ Reaching => [A]_vars
  <2> SUFFICES ASSUME RegistryInv, Reaching, NEW r \in Requests, Commit(r), NEW d \in req[r].due
               PROVE  RowRevoked(d)'
    OBVIOUS
  <2>1. req[r].pc = "looping" /\ req[r].frames = <<>> /\ req[r].pc \in Revoking
    BY DEF Commit, Revoking
  <2>2. Covers(req[r], d) /\ req[r].marked \in SUBSET Delegations
    BY <2>1, AtWork
  <2>3. d \in req[r].marked
    BY <2>1, <2>2, EmptySeq DEF Covers
  <2>4. registry[d] \in Row /\ registry'[d] = [registry[d] EXCEPT !.revoked = TRUE]
    BY <2>2, <2>3, CommitInv
  <2>5. registry'[d] \in Row /\ registry'[d].revoked
    BY <2>4 DEF Row
  <2> QED
    BY <2>5, RegistryAssumptions DEF RowRevoked, Exists
<1> QED
  BY <1>1, InitReach, RegistryStepInv, StepReach, PTL DEF RegistrySpec, CascadeIsComplete
=============================================================================
