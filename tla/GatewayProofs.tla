---------------------------- MODULE GatewayProofs ----------------------------
(* What the gateway and its detectors guarantee for every value of the      *)
(* constants: any agents, presentations, policies, thresholds and numbers   *)
(* of calls, workers and attempts.                                          *)
EXTENDS Detection, GatewayAudit, SequenceTheorems, FiniteSetTheorems, NaturalsInduction,
        WellFoundedInduction, TLAPS

(***************************************************************************)
(* Induction and recursive functions.  A property to be shown for all      *)
(* numbers is given as the set of the numbers that have it.                *)
(***************************************************************************)

\* A set of numbers that is not empty has a least element.
LEMMA Least ==
  ASSUME NEW T, T \subseteq Nat, T # {}
  PROVE  \E n \in T : \A m \in T : n <= m
<1> DEFINE R == {ss \in Nat \X Nat : ss[1] < ss[2]}
<1>1. IsWellFoundedOn(R, Nat)
  BY NatLessThanWellFounded DEF OpToRel
<1>2. PICK n \in T : \A m \in T : <<m, n>> \notin R
  <2> HIDE DEF R
  <2> QED
    BY <1>1, WFMin
<1>3. ASSUME NEW m \in Nat, m < n PROVE <<m, n>> \in R
  <2>1. <<m, n>> \in Nat \X Nat /\ <<m, n>>[1] < <<m, n>>[2]
    BY <1>3
  <2> QED
    BY <2>1, Zenon
<1> HIDE DEF R
<1>4. ASSUME NEW m \in T PROVE n <= m
  <2>1. m \in Nat /\ n \in Nat
    OBVIOUS
  <2>2. ~(m < n)
    BY <2>1, <1>2, <1>3, Zenon
  <2> QED
    BY <2>1, <2>2
<1> QED
  BY <1>4

\* Induction, over a set in place of a predicate.
LEMMA Induction ==
  ASSUME NEW S, 0 \in S, \A n \in Nat : n \in S => n + 1 \in S
  PROVE  Nat \subseteq S
<1> DEFINE T == Nat \ S
<1> SUFFICES ASSUME T # {} PROVE FALSE
  OBVIOUS
<1>1. PICK n \in T : \A m \in T : n <= m
  BY Least
<1>2. n \in Nat \ {0} /\ n - 1 \in Nat /\ n - 1 \notin T
  BY <1>1
<1> QED
  BY <1>1, <1>2

Iterates(f, V, base, step, K) ==
  f \in [0..K -> V] /\ f[0] = base /\ \A n \in 1..K : f[n] = step[n][f[n - 1]]

\* A function is defined by its value at 0 and a step from each number to the next.
LEMMA Recursion ==
  ASSUME NEW V, NEW base \in V, NEW step \in [Nat -> [V -> V]], NEW K \in Nat
  PROVE  \E f : Iterates(f, V, base, step, K)
<1> DEFINE Upto(f, m) == Iterates(f, V, base, step, m)
           S == {m \in Nat : \E f : Upto(f, m)}
<1>1. 0 \in S
  <2>1. Upto([n \in 0..0 |-> base], 0)
    BY DEF Iterates
  <2> QED
    BY <2>1
<1>2. ASSUME NEW m \in Nat, m \in S PROVE m + 1 \in S
  <2>1. PICK f : Upto(f, m)
    BY <1>2
  <2> DEFINE g == [n \in 0..m + 1 |-> IF n = m + 1 THEN step[m + 1][f[m]] ELSE f[n]]
  <2>2. f[m] \in V /\ step[m + 1][f[m]] \in V
    <3>1. m \in 0..m /\ m + 1 \in Nat
      OBVIOUS
    <3>2. f[m] \in V
      BY <2>1, <3>1 DEF Iterates
    <3>3. step[m + 1] \in [V -> V]
      BY <3>1
    <3> QED
      BY <3>2, <3>3
  <2>3. g \in [0..m + 1 -> V]
    <3>1. \A n \in 0..m + 1 : n # m + 1 => n \in 0..m
      OBVIOUS
    <3> QED
      BY <2>1, <2>2, <3>1 DEF Iterates
  <2>4. ASSUME NEW n \in 1..m + 1 PROVE g[n] = step[n][g[n - 1]]
    <3>0. n \in 0..m + 1 /\ n - 1 \in 0..m + 1 /\ n - 1 # m + 1
      OBVIOUS
    <3>1. g[n - 1] = f[n - 1]
      BY <3>0
    <3>2. CASE n = m + 1
      BY <3>0, <3>1, <3>2
    <3>3. CASE n # m + 1
      <4>1. n \in 1..m /\ g[n] = f[n]
        BY <3>0, <3>3
      <4> QED
        BY <2>1, <3>1, <4>1 DEF Iterates
    <3> QED
      BY <3>2, <3>3
  <2>5. g[0] = base
    BY <2>1 DEF Iterates
  <2>6. Upto(g, m + 1)
    <3> HIDE DEF g
    <3> QED
      BY <2>3, <2>4, <2>5 DEF Iterates
  <2> HIDE DEF Upto
  <2> QED
    BY <2>6
<1> HIDE DEF Upto
<1>3. Nat \subseteq S
  <2> HIDE DEF S
  <2> QED
    BY <1>1, <1>2, Induction
<1> QED
  BY <1>3 DEF Upto

(***************************************************************************)
(* Chains and scopes.                                                      *)
(***************************************************************************)

\* The scope that is left of two scopes is a scope, and it has only actions that both
\* have, a list that is empty standing for the other.
LEMMA IntersectType ==
  ASSUME NEW p \in Scope, NEW c \in Scope
  PROVE  /\ Intersect(p, c) \in Scope
         /\ Intersect(p, c).actions = Common(p.actions, c.actions)
<1>1. /\ p.merchants \in MerchantLists /\ c.merchants \in MerchantLists
      /\ p.actions \subseteq Actions /\ c.actions \subseteq Actions
      /\ p.categories \subseteq Categories /\ c.categories \subseteq Categories
      /\ p.currency \in Currencies /\ p.amount \in Nat \cup {Unset} /\ c.amount \in Nat \cup {Unset}
      /\ p.limits \in [Limits -> Nat \cup {Unset}] /\ c.limits \in [Limits -> Nat \cup {Unset}]
  BY DEF Scope
<1>2. CommonMerchants(p.merchants, c.merchants) \in MerchantLists
  <2>1. CASE p.merchants = Anywhere \/ c.merchants = Anywhere
    BY <1>1, <2>1 DEF CommonMerchants
  <2>2. CASE p.merchants # Anywhere /\ c.merchants # Anywhere
    BY <1>1, <2>2 DEF CommonMerchants, MerchantLists
  <2> QED
    BY <2>1, <2>2
<1>3. LeastAmount(p, c) \in Nat
  BY <1>1 DEF LeastAmount, Amount
<1>4. Common(p.actions, c.actions) \in SUBSET Actions
      /\ Common(p.categories, c.categories) \in SUBSET Categories
  BY <1>1 DEF Common
<1>5. [n \in Limits |-> IF c.limits[n] # Unset THEN c.limits[n] ELSE p.limits[n]]
        \in [Limits -> Nat \cup {Unset}]
  BY <1>1
<1> QED
  BY <1>1, <1>2, <1>3, <1>4, <1>5 DEF Intersect, Scope

\* The scope of a credential is a scope.
LEMMA ScopeOfType ==
  ASSUME NEW c \in Creds
  PROVE  ScopeOf(c) \in Scope
<1>1. EmptyScope \in Scope
  BY ScopeAssumption DEF EmptyScope, Scope, MerchantLists
<1>2. Cred[c].scope \in Scope \cup {None}
  BY PresentationAssumption DEF CredentialRecord
<1> QED
  BY <1>1, <1>2 DEF ScopeOf

\* The credentials from the root of a chain to c.
LEMMA PathToType ==
  ASSUME NEW c \in Creds
  PROVE  PathTo(c) \in Seq(Creds) /\ PathTo(c) # <<>>
<1> DEFINE K == MaxRecursion + 1
           V == Seq(Creds) \ {<<>>}
           Up(s) == IF Cred[s[1]].parent = None THEN s ELSE <<Cred[s[1]].parent>> \o s
           Def(g) == g = [n \in 0..K |-> IF n = 0 THEN <<c>> ELSE Up(g[n - 1])]
           step == [n \in Nat |-> [s \in V |-> Up(s)]]
<1>0. K \in Nat
  BY PresentationAssumption
<1>1. ASSUME NEW s \in V PROVE Up(s) \in V
  <2>1. s[1] \in Creds
    OBVIOUS
  <2>2. Cred[s[1]].parent \in Creds \cup {None}
    BY <2>1, PresentationAssumption DEF CredentialRecord
  <2> QED
    BY <2>2
<1>2. PICK f : Iterates(f, V, <<c>>, step, K)
  <2>1. <<c>> \in V
    OBVIOUS
  <2>2. step \in [Nat -> [V -> V]]
    BY <1>1
  <2> HIDE DEF V, step, K
  <2> QED
    BY <1>0, <2>1, <2>2, Recursion
<1> HIDE DEF V, Up, K
<1>3. Def(f)
  <2>1. ASSUME NEW n \in 0..K PROVE f[n] = IF n = 0 THEN <<c>> ELSE Up(f[n - 1])
    <3>1. CASE n # 0
      <4>1. n \in 1..K /\ n - 1 \in 0..K /\ n \in Nat
        BY <1>0, <3>1
      <4>2. f[n] = step[n][f[n - 1]] /\ f[n - 1] \in V
        BY <4>1, <1>2 DEF Iterates
      <4> QED
        BY <4>1, <4>2, <3>1
    <3> QED
      BY <3>1, <1>2 DEF Iterates
  <2> QED
    BY <1>2, <2>1 DEF Iterates
<1>4. Def(CHOOSE g : Def(g))
  <2> HIDE DEF Def
  <2> QED
    BY <1>3, Zenon
<1> DEFINE up == CHOOSE g : Def(g)
<1>5. PathTo(c) = up[K]
  BY Zenon DEF PathTo, Def, Up, K
<1> DEFINE S == {n \in Nat : n <= K => up[n] \in V}
<1>6. up = [n \in 0..K |-> IF n = 0 THEN <<c>> ELSE Up(up[n - 1])]
  BY <1>4
<1> HIDE DEF up
<1>7. 0 \in S
  <2>1. 0 \in 0..K /\ <<c>> \in V
    BY <1>0 DEF V
  <2> QED
    BY <1>6, <2>1
<1>8. ASSUME NEW n \in Nat, n \in S PROVE n + 1 \in S
  <2> SUFFICES ASSUME n + 1 <= K PROVE up[n + 1] \in V
    OBVIOUS
  <2>1. n + 1 \in 0..K /\ n + 1 # 0 /\ up[n] \in V /\ (n + 1) - 1 = n
    BY <1>0, <1>8
  <2>2. up[n + 1] = Up(up[n])
    BY <1>6, <2>1
  <2> QED
    BY <1>1, <2>1, <2>2
<1>9. K \in S
  <2> HIDE DEF S
  <2> QED
    BY <1>0, <1>7, <1>8, Induction
<1> QED
  BY <1>0, <1>5, <1>9 DEF V

\* The scope that a chain leaves its last link is a scope, and it has an action only if
\* every link of the chain has it or says nothing of actions.
LEMMA EffectiveActions ==
  ASSUME NEW c \in Creds
  PROVE  /\ EffectiveScope(c) \in Scope
         /\ \A a \in EffectiveScope(c).actions, i \in 1..Len(PathTo(c)) :
              ScopeOf(PathTo(c)[i]).actions = {} \/ a \in ScopeOf(PathTo(c)[i]).actions
<1> DEFINE path == PathTo(c)
           L == Len(path)
           Meet(s, i) == Intersect(s, ScopeOf(path[i]))
           Def(g) == g = [i \in 1..L |-> IF i = 1 THEN ScopeOf(path[1]) ELSE Meet(g[i - 1], i)]
           step == [n \in Nat |-> [s \in Scope |-> IF n + 1 <= L THEN Meet(s, n + 1) ELSE s]]
<1>0. L \in Nat \ {0} /\ path \in Seq(Creds) /\ \A i \in 1..L : path[i] \in Creds
  BY PathToType
<1>1. ASSUME NEW s \in Scope, NEW i \in 1..L
      PROVE  Meet(s, i) \in Scope /\ Meet(s, i).actions = Common(s.actions, ScopeOf(path[i]).actions)
  BY <1>0, ScopeOfType, IntersectType
<1>a. ScopeOf(path[1]) \in Scope
  BY <1>0, ScopeOfType
<1> HIDE DEF path, L, Meet
<1>2. PICK f : Iterates(f, Scope, ScopeOf(path[1]), step, L - 1)
  <2>1. step \in [Nat -> [Scope -> Scope]]
    <3>1. ASSUME NEW n \in Nat, NEW s \in Scope
          PROVE  (IF n + 1 <= L THEN Meet(s, n + 1) ELSE s) \in Scope
      BY <1>0, <1>1
    <3> QED
      BY <3>1
  <2>2. L - 1 \in Nat
    BY <1>0
  <2> HIDE DEF step
  <2> QED
    BY <1>a, <2>1, <2>2, Recursion
<1> DEFINE g == [i \in 1..L |-> f[i - 1]]
<1>3. Def(g)
  <2>1. ASSUME NEW i \in 1..L
        PROVE  g[i] = IF i = 1 THEN ScopeOf(path[1]) ELSE Meet(g[i - 1], i)
    <3>1. CASE i # 1
      <4>1. i - 1 \in 1..L - 1 /\ i - 1 \in 1..L /\ i - 1 \in Nat /\ (i - 1) - 1 \in 0..L - 1 /\ (i - 1) + 1 = i /\ i <= L
        BY <1>0, <3>1
      <4>2. f[i - 1] = step[i - 1][f[(i - 1) - 1]] /\ f[(i - 1) - 1] \in Scope
        BY <4>1, <1>2 DEF Iterates
      <4>3. g[i - 1] = f[(i - 1) - 1] /\ g[i] = f[i - 1]
        BY <4>1
      <4>4. step[i - 1] = [s \in Scope |-> IF (i - 1) + 1 <= L THEN Meet(s, (i - 1) + 1) ELSE s]
        BY <4>1
      <4>5. f[i - 1] = Meet(f[(i - 1) - 1], i)
        BY <4>1, <4>2, <4>4
      <4> HIDE DEF g
      <4> QED
        BY <4>3, <4>5, <3>1
    <3> QED
      BY <3>1, <1>2 DEF Iterates
  <2> QED
    BY <2>1
<1>4. Def(CHOOSE h : Def(h))
  <2> HIDE DEF Def
  <2> QED
    BY <1>3, Zenon
<1> DEFINE down == CHOOSE h : Def(h)
<1>5. EffectiveScope(c) = down[L]
  BY Zenon DEF EffectiveScope, Def, Meet, L, path
<1>6. down = [i \in 1..L |-> IF i = 1 THEN ScopeOf(path[1]) ELSE Meet(down[i - 1], i)]
  BY <1>4
<1> HIDE DEF down
<1> DEFINE Covers(n) ==
             /\ down[n] \in Scope
             /\ \A a \in down[n].actions, i \in 1..n :
                  ScopeOf(path[i]).actions = {} \/ a \in ScopeOf(path[i]).actions
           S == {n \in Nat : n + 1 <= L => Covers(n + 1)}
<1>7. 0 \in S
  <2>1. 1 \in 1..L /\ \A i \in 1..1 : i = 1
    BY <1>0
  <2>2. down[1] = ScopeOf(path[1])
    BY <1>6, <2>1
  <2> QED
    BY <1>a, <2>1, <2>2
<1>8. ASSUME NEW n \in Nat, n \in S PROVE n + 1 \in S
  <2> SUFFICES ASSUME (n + 1) + 1 <= L PROVE Covers((n + 1) + 1)
    OBVIOUS
  <2> DEFINE m == n + 1
  <2> HIDE DEF Covers
  <2>a. Covers(n + 1)
    BY <1>0, <1>8
  <2>b. m \in Nat /\ m + 1 \in 1..L /\ m + 1 # 1 /\ (m + 1) - 1 = m
    BY <1>0
  <2>1. m \in Nat /\ m + 1 \in 1..L /\ m + 1 # 1 /\ (m + 1) - 1 = m /\ Covers(m)
    BY <2>a, <2>b
  <2> HIDE DEF m
  <2>2. down[m + 1] = Meet(down[m], m + 1)
    BY <1>6, <2>1
  <2>3. down[m + 1] \in Scope
        /\ down[m + 1].actions = Common(down[m].actions, ScopeOf(path[m + 1]).actions)
    BY <1>1, <2>1, <2>2 DEF Covers
  <2>4. ASSUME NEW a \in down[m + 1].actions, NEW i \in 1..m + 1
        PROVE  ScopeOf(path[i]).actions = {} \/ a \in ScopeOf(path[i]).actions
    <3>1. CASE i = m + 1
      BY <2>3, <3>1 DEF Common
    <3>2. CASE i # m + 1
      <4>1. i \in 1..m
        BY <2>1, <3>2
      <4>2. CASE ScopeOf(path[m + 1]).actions = {}
        BY <2>1, <2>3, <4>1, <4>2 DEF Common, Covers
      <4>3. CASE ScopeOf(path[m + 1]).actions # {}
        <5>1. a \in down[m].actions
          BY <2>3, <4>3 DEF Common
        <5> QED
          BY <2>1, <4>1, <5>1 DEF Covers
      <4> QED
        BY <4>2, <4>3
    <3> QED
      BY <3>1, <3>2
  <2>5. Covers(m + 1)
    BY <2>3, <2>4 DEF Covers
  <2> QED
    BY <2>5 DEF m
<1>9. L - 1 \in S
  <2> HIDE DEF S
  <2> QED
    BY <1>0, <1>7, <1>8, Induction
<1>10. Covers(L)
  <2> HIDE DEF Covers
  <2>1. (L - 1) + 1 = L
    BY <1>0
  <2> QED
    BY <2>1, <1>9
<1> QED
  BY <1>0, <1>5, <1>10 DEF path, L

\* The delegation of a presentation is one of its credentials, if it has one.
LEMMA DelegationType ==
  ASSUME NEW v \in Vps
  PROVE  DelegationOf(v) \in Creds \cup {None}
<1> DEFINE s == Vp[v].creds
           hits == {i \in 1..Len(s) : IsDelegation(s[i])}
<1>0. s \in Seq(Creds)
  BY PresentationAssumption DEF VpRecord
<1>1. DelegationOf(v) = IF hits = {} THEN None ELSE s[CHOOSE i \in hits : \A j \in hits : i <= j]
  BY DEF DelegationOf, First
<1>2. ASSUME hits # {} PROVE \E i \in hits : \A j \in hits : i <= j
  <2>1. hits \subseteq Nat
    BY <1>0
  <2> HIDE DEF hits
  <2> QED
    BY <1>2, <2>1, Least
<1>3. ASSUME hits # {} PROVE (CHOOSE i \in hits : \A j \in hits : i <= j) \in hits
  <2> HIDE DEF hits
  <2> QED
    BY <1>2, <1>3
<1>4. \A i \in hits : s[i] \in Creds
  BY <1>0
<1> HIDE DEF hits, s
<1> QED
  BY <1>1, <1>3, <1>4

\* A chain in which verify_delegation_chain finds no fault has none in any of its links.
LEMMA NoFault ==
  ASSUME NEW c \in Creds, NEW at, NEW dead, ChainFault(c, at, dead) = None
  PROVE  \A i \in 1..Len(PathTo(c)) : VcFault(PathTo(c)[i], at, dead) = None
<1> DEFINE path == PathTo(c)
           L == Len(path)
           bad == {i \in 1..L : L - i <= MaxRecursion /\ VcFault(path[i], at, dead) # None}
           deepest == CHOOSE i \in bad : \A j \in bad : j <= i
<1>0. L \in Nat /\ MaxRecursion \in Nat
  BY PathToType, PresentationAssumption
<1>1. None = IF bad # {} THEN VcFault(path[deepest], at, dead)
             ELSE IF L > MaxRecursion + 1 THEN "recursion" ELSE None
  BY Zenon DEF ChainFault
<1> HIDE DEF L, path
<1>2. bad = {}
  <2> SUFFICES ASSUME bad # {} PROVE FALSE
    OBVIOUS
  <2> DEFINE above == {L - i : i \in bad}
  <2>1. PICK n \in above : \A m \in above : n <= m
    <3>1. above \subseteq Nat /\ above # {}
      BY <1>0
    <3> HIDE DEF above
    <3> QED
      BY <3>1, Least
  <2>2. PICK i \in bad : n = L - i
    BY <2>1
  <2>3. \A j \in bad : j <= i
    BY <1>0, <2>1, <2>2
  <2>4. deepest \in bad
    <3> HIDE DEF bad
    <3> QED
      BY <2>2, <2>3
  <2> HIDE DEF deepest
  <2> QED
    BY <1>1, <2>4
<1>3. L <= MaxRecursion + 1
  <2>1. "recursion" # None
    BY PresentationAssumption DEF Faults
  <2> QED
    BY <1>0, <1>1, <1>2, <2>1
<1>4. ASSUME NEW i \in 1..L PROVE VcFault(path[i], at, dead) = None
  BY <1>0, <1>2, <1>3
<1> QED
  BY <1>4 DEF L, path

\* What verify_request says of a presentation that it accepts.
LEMMA Verified ==
  ASSUME NEW v \in Vps \cup {None}, NEW at, NEW dead, VerifyRequest(v, at, dead).ok
  PROVE  /\ v \in Vps /\ DelegationOf(v) \in Creds
         /\ VpFault(v, at, dead) = None /\ ChainFault(DelegationOf(v), at, dead) = None
         /\ VerifyRequest(v, at, dead) =
              [ok |-> TRUE, reason |-> None, agent |-> Vp[v].holder,
               delegator |-> IF DelegatorCredential(v, DelegationOf(v)) # None
                             THEN RootDelegator(DelegationOf(v)) ELSE None,
               scope |-> EffectiveScope(DelegationOf(v)),
               blended |-> DelegatorCredential(v, DelegationOf(v)) # None,
               depth |-> Len(PathTo(DelegationOf(v)))]
<1> DEFINE c == DelegationOf(v)
           vpFault == VpFault(v, at, dead)
           fault == IF vpFault # None THEN vpFault ELSE PolicyFault(v, c, at, dead)
           blended == DelegatorCredential(v, c) # None
           answer == [ok |-> TRUE, reason |-> None, agent |-> Vp[v].holder,
                      delegator |-> IF blended THEN RootDelegator(c) ELSE None,
                      scope |-> EffectiveScope(c), blended |-> blended,
                      depth |-> Len(PathTo(c))]
<1>1. VerifyRequest(v, at, dead) = IF v = None THEN Refusal("no header")
                                   ELSE IF fault # None THEN Refusal(fault) ELSE answer
  BY Zenon DEF VerifyRequest
<1>2. \A x : ~Refusal(x).ok
  BY DEF Refusal
<1> HIDE DEF answer
<1>3. v # None /\ fault = None /\ VerifyRequest(v, at, dead) = answer
  <2> HIDE DEF fault
  <2> QED
    BY <1>1, <1>2
<1>4. vpFault = None /\ PolicyFault(v, c, at, dead) = None
  BY <1>3
<1>5. v \in Vps /\ c \in Creds \cup {None}
  BY <1>3, DelegationType
<1>6. c # None /\ ChainFault(c, at, dead) = None
  <2> DEFINE held == {Vp[v].creds[i] : i \in 1..Len(Vp[v].creds)}
             foreign == TrustedIssuers # {} /\ \E d \in held : Cred[d].issuer \notin TrustedIssuers
             lacking == ~(RequiredTypes \subseteq {Cred[d].type : d \in held})
             chainFault == ChainFault(c, at, dead)
             rest == IF ~(RequiredActions \subseteq EffectiveScope(c).actions) THEN "action"
                     ELSE IF RequireDelegatorIdentity /\ DelegatorCredential(v, c) = None
                     THEN "no delegator"
                     ELSE IF DelegatorTypes # {} /\ DelegatorCredential(v, c) # None
                             /\ Cred[DelegatorCredential(v, c)].type \notin DelegatorTypes
                     THEN "delegator type" ELSE None
  <2>1. PolicyFault(v, c, at, dead) =
          IF foreign THEN "untrusted" ELSE IF lacking THEN "missing type"
          ELSE IF c = None THEN "no delegation"
          ELSE IF chainFault # None THEN chainFault ELSE rest
    BY Zenon DEF PolicyFault
  <2> HIDE DEF foreign, lacking, c, chainFault, rest
  <2>2. "untrusted" # None /\ "missing type" # None /\ "no delegation" # None
    BY PresentationAssumption DEF Faults
  <2>3. c # None /\ chainFault = None
    BY <1>4, <2>1, <2>2
  <2> QED
    BY <2>3 DEF chainFault
<1> QED
  BY <1>3, <1>4, <1>5, <1>6 DEF answer

(***************************************************************************)
(* Entries of the trust cache.                                             *)
(***************************************************************************)

\* The requests of an entry that count for its rate are a sequence of times.
LEMMA RecentType ==
  ASSUME NEW e, e.stamps \in Seq(Nat)
  PROVE  Recent(e) \in Seq(Nat)
<1> DEFINE s == e.stamps
           K == Len(s)
           V == Seq(Nat)
           Keep(t, n) == IF now - s[n] < Window THEN Append(t, s[n]) ELSE t
           Def(g) == g = [n \in 0..K |-> IF n = 0 THEN <<>>
                                         ELSE IF now - s[n] < Window THEN Append(g[n - 1], s[n])
                                         ELSE g[n - 1]]
           step == [n \in Nat |-> [t \in V |-> IF n \in 1..K THEN Keep(t, n) ELSE t]]
<1>0. K \in Nat /\ <<>> \in V /\ \A n \in 1..K : s[n] \in Nat
  OBVIOUS
<1>1. ASSUME NEW t \in V, NEW n \in 1..K PROVE Keep(t, n) \in V
  BY <1>0
<1>a. \A g, n : Keep(g[n - 1], n) =
                IF now - s[n] < Window THEN Append(g[n - 1], s[n]) ELSE g[n - 1]
  OBVIOUS
<1> HIDE DEF s, K, V, Keep
<1>2. PICK f : Iterates(f, V, <<>>, step, K)
  <2>1. step \in [Nat -> [V -> V]]
    BY <1>1
  <2> HIDE DEF step
  <2> QED
    BY <1>0, <2>1, Recursion
<1>3. Def(f)
  <2>1. ASSUME NEW n \in 0..K PROVE f[n] = IF n = 0 THEN <<>> ELSE Keep(f[n - 1], n)
    <3>1. CASE n # 0
      <4>1. n \in 1..K /\ n - 1 \in 0..K /\ n \in Nat
        BY <1>0, <3>1
      <4>2. f[n] = step[n][f[n - 1]] /\ f[n - 1] \in V
        BY <4>1, <1>2 DEF Iterates
      <4> QED
        BY <4>1, <4>2, <3>1
    <3> QED
      BY <3>1, <1>2 DEF Iterates
  <2> QED
    BY <1>2, <2>1, <1>a DEF Iterates
<1>4. Def(CHOOSE g : Def(g))
  <2> HIDE DEF Def
  <2> QED
    BY <1>3, Zenon
<1> DEFINE kept == CHOOSE g : Def(g)
           S == {n \in Nat : n <= K => kept[n] \in V}
<1>5. Recent(e) = kept[K]
  BY Zenon DEF Recent, Def, K, s
<1>6. kept = [n \in 0..K |-> IF n = 0 THEN <<>> ELSE Keep(kept[n - 1], n)]
  BY <1>4, <1>a
<1> HIDE DEF kept
<1>7. 0 \in S
  <2>1. 0 \in 0..K
    BY <1>0
  <2> QED
    BY <1>0, <1>6, <2>1
<1>8. ASSUME NEW n \in Nat, n \in S PROVE n + 1 \in S
  <2> SUFFICES ASSUME n + 1 <= K PROVE kept[n + 1] \in V
    OBVIOUS
  <2>1. n + 1 \in 1..K /\ n + 1 \in 0..K /\ n + 1 # 0 /\ kept[n] \in V /\ (n + 1) - 1 = n
    BY <1>0, <1>8
  <2>2. kept[n + 1] = Keep(kept[n], n + 1)
    BY <1>6, <2>1
  <2> QED
    BY <1>1, <2>1, <2>2
<1>9. K \in S
  <2> HIDE DEF S
  <2> QED
    BY <1>0, <1>7, <1>8, Induction
<1> QED
  BY <1>0, <1>5, <1>9 DEF V

\* Assigning to fields of an entry gives an entry, and leaves its other fields alone.
LEMMA SetViolations ==
  ASSUME NEW e \in Entry, NEW n \in Nat
  PROVE  LET x == [e EXCEPT !.violations = n] IN
         /\ x \in Entry /\ x.violations = n
         /\ x.penalty = e.penalty /\ x.since = e.since /\ x.vp = e.vp
BY DEF Entry

\* The same for the times of its requests.
LEMMA SetStamps ==
  ASSUME NEW e \in Entry, NEW s \in Seq(Nat)
  PROVE  LET x == [e EXCEPT !.stamps = s] IN
         /\ x \in Entry /\ x.violations = e.violations
         /\ x.penalty = e.penalty /\ x.since = e.since /\ x.vp = e.vp
BY DEF Entry

\* The same for what the cold path assigns to.
LEMMA SetBase ==
  ASSUME NEW e \in Entry, NEW base \in 0..100, NEW n \in Nat
  PROVE  LET x == [e EXCEPT !.base = base, !.at = n] IN
         /\ x \in Entry /\ x.violations = e.violations
         /\ x.penalty = e.penalty /\ x.since = e.since /\ x.vp = e.vp
BY DEF Entry

\* The same for the presentation.
LEMMA SetVp ==
  ASSUME NEW e \in Entry, NEW vp \in Vps \cup {Absent}
  PROVE  LET x == [e EXCEPT !.vp = vp] IN
         /\ x \in Entry /\ x.violations = e.violations
         /\ x.penalty = e.penalty /\ x.since = e.since /\ x.vp = vp
BY DEF Entry

\* What a new presentation makes of an entry.
LEMMA RestoreType ==
  ASSUME NEW e \in Entry, NEW vp \in Vps \cup {Absent}, NEW from \in Nat
  PROVE  LET x == Restore(e, vp, from) IN
         /\ x \in Entry
         /\ Fresh(e, vp) => /\ x.penalty >= e.penalty - 20 /\ x.vp = vp
                            /\ x.violations = 0 /\ x.since = from
         /\ ~Fresh(e, vp) => /\ x.penalty = e.penalty
                             /\ x.violations = e.violations /\ x.since = e.since
<1>0. e.penalty \in Nat
  BY DEF Entry
<1>1. CASE Fresh(e, vp)
  <2> DEFINE p == IF e.penalty > 20 THEN e.penalty - 20 ELSE 0
  <2>1. p \in Nat /\ p >= e.penalty - 20
    BY <1>0
  <2>2. Restore(e, vp, from) = [e EXCEPT !.penalty = p, !.violations = 0, !.novel = 0,
                                          !.vp = vp, !.since = from]
    BY <1>1 DEF Restore, Fresh
  <2> HIDE DEF p
  <2> DEFINE x == [e EXCEPT !.penalty = p, !.violations = 0, !.novel = 0,
                            !.vp = vp, !.since = from]
  <2>3. x \in Entry /\ x.violations = 0 /\ x.penalty = p /\ x.since = from /\ x.vp = vp
    BY <2>1 DEF Entry
  <2> HIDE DEF x
  <2> QED
    BY <1>1, <2>1, <2>2, <2>3 DEF x
<1>2. CASE ~Fresh(e, vp)
  <2>1. Restore(e, vp, from) = e \/ Restore(e, vp, from) = [e EXCEPT !.vp = vp]
    BY <1>2 DEF Restore
  <2> DEFINE x == [e EXCEPT !.vp = vp]
  <2>2. /\ x \in Entry /\ x.violations = e.violations
        /\ x.penalty = e.penalty /\ x.since = e.since
    BY SetVp
  <2>3. Restore(e, vp, from) = e \/ Restore(e, vp, from) = x
    BY <2>1
  <2> HIDE DEF x
  <2> QED
    BY <1>2, <2>2, <2>3
<1> QED
  BY <1>1, <1>2

\* The penalties of an evaluation are no rewards.
LEMMA PenaltiesType ==
  ASSUME NEW r \in Entry, NEW tool
  PROVE  ToolPenalty(r, tool) \in Nat /\ VelocityPenalty(r) \in Nat /\ ProbePenalty(r) \in Nat
<1>1. r.novel \in Nat /\ r.violations \in Nat
  BY DEF Entry
<1>2. ToolPenalty(r, tool) \in Nat
  <2> DEFINE n == IF r.novel < 2 THEN r.novel + 1 ELSE 3
  <2>1. n \in 1..3
    BY <1>1
  <2>2. <<5, 10, 15>>[n] \in Nat
    BY <2>1
  <2> QED
    BY <2>2 DEF ToolPenalty
<1>3. VelocityPenalty(r) \in Nat
  BY DEF VelocityPenalty
<1>4. ProbePenalty(r) \in Nat
  <2> DEFINE n == IF r.violations < 3 THEN r.violations ELSE 3
  <2>1. r.violations # 0 => n \in 1..3
    BY <1>1
  <2>2. r.violations # 0 => <<5, 15, 25>>[n] \in Nat
    BY <2>1
  <2> QED
    BY <2>2 DEF ProbePenalty
<1> QED
  BY <1>2, <1>3, <1>4

\* An evaluation adds penalties only; it forgives and starts counting violations anew for
\* a fresh presentation and for nothing else.
LEMMA EvaluatedType ==
  ASSUME NEW e \in Entry, NEW tool, NEW vp \in Vps \cup {Absent}, NEW from \in Nat, now \in Nat
  PROVE  LET x == Evaluated(e, tool, vp, from) IN
         /\ x \in Entry
         /\ Fresh(e, vp) => /\ x.penalty >= e.penalty - 20 /\ x.vp = vp
                            /\ x.violations = 0 /\ x.since = from
         /\ ~Fresh(e, vp) => /\ x.penalty >= e.penalty
                             /\ x.violations = e.violations /\ x.since = e.since
<1> DEFINE y == Restore(e, vp, from)
           stamps == Append(y.stamps, now)
           r == [y EXCEPT !.stamps = stamps]
           a == ToolPenalty(r, tool)
           b == VelocityPenalty(r)
           d == ProbePenalty(r)
           recent == Recent(r)
           novel == IF IsNovel(r, tool) THEN r.novel + 1 ELSE r.novel
           penalty == r.penalty + a + b + d
           x == [r EXCEPT !.stamps = recent, !.novel = novel, !.penalty = penalty]
<1>1. /\ y \in Entry
      /\ Fresh(e, vp) => /\ y.penalty >= e.penalty - 20 /\ y.vp = vp
                         /\ y.violations = 0 /\ y.since = from
      /\ ~Fresh(e, vp) => /\ y.penalty = e.penalty
                          /\ y.violations = e.violations /\ y.since = e.since
  BY RestoreType
<1>2. Evaluated(e, tool, vp, from) =
        LET q == [y EXCEPT !.stamps = Append(@, now)] IN
        [q EXCEPT !.stamps = Recent(q),
                  !.novel = IF IsNovel(q, tool) THEN @ + 1 ELSE @,
                  !.penalty = @ + ToolPenalty(q, tool) + VelocityPenalty(q) + ProbePenalty(q)]
  BY Zenon DEF Evaluated
<1> HIDE DEF y
<1>3. stamps \in Seq(Nat) /\ [y EXCEPT !.stamps = Append(@, now)] = r
  <2>1. y.stamps \in Seq(Nat)
    BY <1>1 DEF Entry
  <2>2. DOMAIN y = DOMAIN r
    BY <1>1 DEF Entry
  <2> QED
    BY <1>1, <2>1 DEF Entry
<1> HIDE DEF stamps
<1>4. /\ r \in Entry /\ r.penalty = y.penalty /\ r.vp = y.vp
      /\ r.violations = y.violations /\ r.since = y.since
  BY <1>1, <1>3, SetStamps
<1>5. Evaluated(e, tool, vp, from) =
        [r EXCEPT !.stamps = Recent(r),
                  !.novel = IF IsNovel(r, tool) THEN @ + 1 ELSE @,
                  !.penalty = @ + ToolPenalty(r, tool) + VelocityPenalty(r) + ProbePenalty(r)]
  <2> HIDE DEF r
  <2> QED
    BY <1>2, <1>3
<1> HIDE DEF r
<1>6. Evaluated(e, tool, vp, from) = x
  <2>1. r \in Entry
    BY <1>4
  <2> HIDE DEF recent
  <2> QED
    BY <1>5, <2>1 DEF Entry, recent
<1>7. r.novel \in Nat /\ r.penalty \in Nat /\ r.stamps \in Seq(Nat)
  BY <1>4 DEF Entry
<1>8. a \in Nat /\ b \in Nat /\ d \in Nat
  BY <1>4, PenaltiesType
<1> HIDE DEF a, b, d
<1>9. penalty \in Nat /\ penalty >= r.penalty /\ novel \in Nat
  BY <1>7, <1>8
<1>10. recent \in Seq(Nat)
  BY <1>7, RecentType
<1> HIDE DEF penalty, novel, recent
<1>11. /\ x \in Entry /\ x.penalty = penalty /\ x.vp = r.vp
       /\ x.violations = r.violations /\ x.since = r.since
  BY <1>4, <1>9, <1>10 DEF Entry
<1> HIDE DEF x
<1>12. e.penalty \in Nat /\ y.penalty \in Nat
  BY <1>1 DEF Entry
<1> DEFINE z == Evaluated(e, tool, vp, from)
<1>13. /\ z \in Entry /\ z.penalty \in Nat /\ z.penalty >= y.penalty /\ z.vp = y.vp
       /\ z.violations = y.violations /\ z.since = y.since
  BY <1>4, <1>6, <1>9, <1>11
<1> HIDE DEF z
<1>14. /\ z \in Entry
       /\ Fresh(e, vp) => /\ z.penalty >= e.penalty - 20 /\ z.vp = vp
                          /\ z.violations = 0 /\ z.since = from
       /\ ~Fresh(e, vp) => /\ z.penalty >= e.penalty
                           /\ z.violations = e.violations /\ z.since = e.since
  BY <1>1, <1>12, <1>13
<1> QED
  BY <1>14 DEF z

\* Counting a request and recording a violation change nothing else of an entry that
\* matters to what a call is answered.
LEMMA CountedType ==
  ASSUME NEW e \in Entry \cup {Absent}, NEW tool \in Tools \cup {Absent}, now \in Nat
  PROVE  LET x == Counted(e, tool) IN
         /\ x \in Entry \cup {Absent} /\ (e = Absent => x = Absent)
         /\ e # Absent => x \in Entry /\ x.penalty = e.penalty
                          /\ x.violations = e.violations /\ x.since = e.since /\ x.vp = e.vp
<1>1. CASE e = Absent
  BY <1>1 DEF Counted
<1>2. CASE e # Absent
  <2> DEFINE n == e.count + 1
             s == Append(e.stamps, now)
             t == e.tools \cup ({tool} \ {Absent})
             x == [e EXCEPT !.count = n, !.stamps = s, !.tools = t]
  <2>1. e \in Entry
    BY <1>2
  <2>2. n \in Nat /\ s \in Seq(Nat) /\ t \in SUBSET Tools
    BY <2>1 DEF Entry
  <2>3. Counted(e, tool) = x
    BY <1>2, <2>1 DEF Counted, Entry
  <2> HIDE DEF n, s, t
  <2>4. /\ x \in Entry /\ x.violations = e.violations
        /\ x.penalty = e.penalty /\ x.since = e.since /\ x.vp = e.vp
    BY <2>1, <2>2 DEF Entry
  <2> HIDE DEF x
  <2> QED
    BY <1>2, <2>3, <2>4
<1> QED
  BY <1>1, <1>2

\* A denial adds one violation.
LEMMA ViolatedType ==
  ASSUME NEW e \in Entry \cup {Absent}
  PROVE  LET x == Violated(e) IN
         /\ x \in Entry \cup {Absent} /\ (e = Absent => x = Absent)
         /\ e # Absent => x \in Entry /\ x.penalty = e.penalty
                          /\ x.violations = e.violations + 1 /\ x.since = e.since
<1>1. CASE e = Absent
  BY <1>1 DEF Violated
<1>2. CASE e # Absent
  <2> DEFINE n == e.violations + 1
             x == [e EXCEPT !.violations = n]
  <2>1. e \in Entry
    BY <1>2
  <2>2. n \in Nat
    BY <2>1 DEF Entry
  <2>3. Violated(e) = x
    BY <1>2, <2>1 DEF Violated, Entry
  <2>4. n = e.violations + 1
    OBVIOUS
  <2> HIDE DEF n
  <2>5. /\ x \in Entry /\ x.violations = n
        /\ x.penalty = e.penalty /\ x.since = e.since
    BY <2>1, <2>2, SetViolations
  <2> HIDE DEF x
  <2> QED
    BY <1>2, <2>3, <2>4, <2>5
<1> QED
  BY <1>1, <1>2

\* A full score changes the base of an entry and its age.
LEMMA WithFullScoreType ==
  ASSUME NEW e \in Entry, NEW score \in FullScores, now \in Nat
  PROVE  LET x == WithFullScore(e, score) IN
         /\ x \in Entry /\ x.penalty = e.penalty
         /\ x.violations = e.violations /\ x.since = e.since
<1> DEFINE base == Clamp(score)
           x == [e EXCEPT !.base = base, !.at = now]
<1>1. base \in 0..100
  BY TrustAssumption DEF Clamp
<1>2. WithFullScore(e, score) = x
  BY DEF WithFullScore
<1> HIDE DEF base
<1>3. /\ x \in Entry /\ x.violations = e.violations
      /\ x.penalty = e.penalty /\ x.since = e.since
  BY <1>1, SetBase
<1> HIDE DEF x
<1> QED
  BY <1>2, <1>3

\* An entry made for a call that was authenticated.
LEMMA NewEntryType ==
  ASSUME NEW depth \in Nat, NEW blended \in BOOLEAN, NEW vp \in Vps, NEW from \in Nat, now \in Nat
  PROVE  LET x == NewEntry(InstantScore(TRUE, depth, blended), vp, from) IN
         x \in Entry /\ x.violations = 0 /\ x.since = from
<1> DEFINE base == InstantScore(TRUE, depth, blended)
<1>1. base \in 0..100
  BY DEF InstantScore, Clamp
<1> HIDE DEF base
<1>2. LET x == NewEntry(base, vp, from) IN x \in Entry /\ x.violations = 0 /\ x.since = from
  BY <1>1 DEF NewEntry, Entry
<1> QED
  BY <1>2 DEF base

(***************************************************************************)
(* The strengthening.  SoundCall says what a call carries at each point of *)
(* its way.  PoolInv says that a refresh is queued once or with a worker,  *)
(* never both.  LogInv relates an event to the call it is about, and the   *)
(* last three relate counters to what they count.                          *)
(***************************************************************************)
Working == {"body", "storing", "forwarding"}

Decisions == {"blocked_auth", "blocked_scope", "blocked_trust", "step_up", "allowed"}

Auths ==
  {Refusal(None)} \cup
  {VerifyRequest(v, at, dead) : v \in Vps \cup {None}, at \in 0..MaxTime, dead \in SUBSET Listed}

CallRecord ==
  [pc : Working \cup {"new", "ended", "unlogged"}, agent : Agents \cup {None},
   vp : Vps \cup {None}, auth : Auths, tool : Tools \cup {Absent}, dead : SUBSET Listed]

\* verify_request accepted the presentation when nothing more was revoked than is said
\* to have been, if the gateway fails closed.
Authentic(c) ==
  \E at \in 0..MaxTime, dead \in SUBSET Listed :
    /\ c.auth = VerifyRequest(c.vp, at, dead) /\ c.auth.ok
    /\ FailClosed => c.dead \subseteq dead

SoundCall ==
  {c \in CallRecord :
     /\ c.pc = "new" => c.agent = None
     /\ c.pc \in Working => Authentic(c) /\ c.agent \in Agents /\ c.vp \in Vps
     /\ c.pc \in {"storing", "forwarding"} /\ c.tool # Absent =>
          Required[c.tool] # None /\ Required[c.tool] \in c.auth.scope.actions}

CallInv ==
  /\ now \in 0..MaxTime /\ revoked \in SUBSET Listed
  /\ call \in [Calls -> SoundCall]
  /\ loop \in Calls \cup {None}
  /\ \A r \in Calls : call[r].pc = "storing" <=> loop = r

Jobs == [pc : {"asking", "ending"}, tries : Nat]

Queued == {queue[n] : n \in DOMAIN queue}

PoolInv ==
  /\ pool \in [Agents -> Jobs \cup {Absent}] /\ queue \in Seq(Agents)
  /\ \A m, n \in DOMAIN queue : queue[m] = queue[n] => m = n
  /\ \A n \in DOMAIN queue : pool[queue[n]] = Absent
  /\ inflight = Running \cup Queued
  /\ Cardinality(Running) <= Workers

Events ==
  [call : Calls, agent : Agents \cup {None}, decision : Decisions,
   reason : {None} \cup {a.reason : a \in Auths}]

LogInv ==
  /\ log \in Seq(Events)
  /\ \A i \in DOMAIN log :
       /\ call[log[i].call].pc = "ended" /\ call[log[i].call].agent = log[i].agent
       /\ log[i].decision = "blocked_auth" <=> log[i].agent = None
  /\ \A i, j \in DOMAIN log : log[i].call = log[j].call => i = j
  /\ \A r \in Calls : call[r].pc = "ended" => \E i \in DOMAIN log : log[i].call = r

CallsOf(a) == {r \in Calls : call[r].agent = a}

Refused == {i \in DOMAIN log : log[i].decision = "blocked_auth"}

\* The inventory counts the calls of an agent, and has an attempt for every refusal.
KnownInv ==
  /\ known \in [Agents -> Nat]
  /\ \A a \in Agents : IsFiniteSet(CallsOf(a)) /\ known[a] = Cardinality(CallsOf(a))

ShadowInv == shadows \in Seq(Nat) /\ Len(shadows) = Cardinality(Refused)

CacheType == cache \in [Agents -> Entry \cup {Absent}]

\* An entry counts the denials since it was made or restored.
CacheInv ==
  /\ CacheType
  /\ \A a \in Agents : cache[a] # Absent =>
       /\ cache[a].since <= Len(log)
       /\ cache[a].violations = Cardinality(DenialsSince(a, cache[a].since))

GatewayInv == CallInv /\ PoolInv /\ LogInv /\ KnownInv /\ ShadowInv /\ CacheInv

(***************************************************************************)
(* What a step does to the calls, the log and the inventory: nothing, or   *)
(* it ends one call, lets one in, or moves one on.                         *)
(***************************************************************************)

\* No other call keeps the event loop waiting.
Looped(r) ==
  /\ loop \in {None, r} /\ loop' \in {None, r}
  /\ call'[r].pc = "storing" <=> loop' = r

Quiet == UNCHANGED <<call, loop, known, shadows, log>>

EndsCall(r) ==
  \E d \in Decisions, x \in {None} \cup {a.reason : a \in Auths} :
    /\ call[r].pc \in Working \cup {"new"} /\ (call[r].pc = "new" <=> d = "blocked_auth")
    /\ log' = Append(log, Event(r, call[r].agent, d, x)) /\ Go(r, Ended(call[r].agent))
    /\ shadows' = (IF d = "blocked_auth" THEN Append(shadows, now) ELSE shadows)
    /\ UNCHANGED known

LetsIn(r) ==
  \E c \in SoundCall :
    /\ call[r].pc = "new" /\ c.pc = "body" /\ Go(r, c)
    /\ known' = [known EXCEPT ![c.agent] = @ + 1] /\ UNCHANGED <<log, shadows>>

MovesOn(r) ==
  \E c \in SoundCall :
    /\ call[r].pc \in Working /\ c.pc \in Working \cup {"unlogged"} /\ c.agent = call[r].agent
    /\ Go(r, c) /\ UNCHANGED <<log, shadows, known>>

Clocked == now' \in 0..MaxTime /\ revoked' \in SUBSET Listed

Effect ==
  Clocked /\ (Quiet \/ \E r \in Calls : Looped(r) /\ (EndsCall(r) \/ LetsIn(r) \/ MovesOn(r)))

\* What the assumptions on None and the agents say, as the proofs use it.
LEMMA Assumptions ==
  /\ None \notin Calls \cup Agents \cup Vps /\ MaxTime \in Nat /\ Embedded \subseteq Agents
  /\ \A v \in Vps : Vp[v].holder \in Agents
  /\ IsFiniteSet(Agents) /\ Absent \notin Jobs /\ Workers \in Nat
BY PresentationAssumption, TrustAssumption, GatewayAssumption DEF Jobs

\* What verify_request says of a presentation that it refuses.
LEMMA RefusedAgent ==
  ASSUME NEW v, NEW at, NEW dead, ~VerifyRequest(v, at, dead).ok
  PROVE  VerifyRequest(v, at, dead).agent = None
<1> DEFINE c == DelegationOf(v)
           fault == IF VpFault(v, at, dead) # None THEN VpFault(v, at, dead)
                    ELSE PolicyFault(v, c, at, dead)
           blended == DelegatorCredential(v, c) # None
           answer == [ok |-> TRUE, reason |-> None, agent |-> Vp[v].holder,
                      delegator |-> IF blended THEN RootDelegator(c) ELSE None,
                      scope |-> EffectiveScope(c), blended |-> blended,
                      depth |-> Len(PathTo(c))]
<1>1. VerifyRequest(v, at, dead) = IF v = None THEN Refusal("no header")
                                   ELSE IF fault # None THEN Refusal(fault) ELSE answer
  BY Zenon DEF VerifyRequest
<1>2. answer.ok
  OBVIOUS
<1>3. \A x : Refusal(x).agent = None
  BY DEF Refusal
<1> HIDE DEF answer, fault
<1> QED
  BY <1>1, <1>2, <1>3

\* The table of answers holds what verify_request says.
LEMMA AnswerIs ==
  ASSUME NEW v \in Vps \cup {None}, NEW at \in 0..MaxTime, NEW dead \in SUBSET Listed
  PROVE  Answers[<<v, at, dead>>] = VerifyRequest(v, at, dead)
BY DEF Answers

\* What the status checker reports, in the state the call arrives in.
LEMMA ReportedType ==
  ASSUME revoked \in SUBSET Listed, NEW readable \in BOOLEAN
  PROVE  Reported(readable) \in SUBSET Listed /\ (FailClosed => revoked \subseteq Reported(readable))
BY DEF Reported

\* Calls that end are sound.
LEMMA EndedSound ==
  ASSUME NEW a \in Agents \cup {None}
  PROVE  /\ Ended(a) \in SoundCall /\ Ended(a).pc = "ended" /\ Ended(a).agent = a
         /\ Unlogged(a) \in SoundCall /\ Unlogged(a).pc = "unlogged" /\ Unlogged(a).agent = a
<1>1. Refusal(None) \in Auths
  BY DEF Auths
<1>2. NewCall \in CallRecord
  BY <1>1 DEF NewCall, CallRecord
<1>3. /\ Ended(a) \in CallRecord /\ Ended(a).pc = "ended" /\ Ended(a).agent = a
      /\ Unlogged(a) \in CallRecord /\ Unlogged(a).pc = "unlogged" /\ Unlogged(a).agent = a
  BY <1>2 DEF Ended, Unlogged, CallRecord
<1> QED
  BY <1>3 DEF SoundCall, Working

\* What is authenticated: the agent, its presentation and its scope.
LEMMA AuthenticCall ==
  ASSUME NEW c \in CallRecord, c.vp \in Vps, Authentic(c)
  PROVE  /\ c.auth.ok = TRUE /\ c.auth.agent = Vp[c.vp].holder
         /\ c.auth.scope = EffectiveScope(DelegationOf(c.vp))
         /\ c.auth.depth \in Nat /\ c.auth.blended \in BOOLEAN
<1>1. PICK at \in 0..MaxTime, dead \in SUBSET Listed :
        c.auth = VerifyRequest(c.vp, at, dead) /\ c.auth.ok
  BY DEF Authentic
<1> DEFINE d == DelegationOf(c.vp)
<1>2. d \in Creds
  BY <1>1, Verified
<1>3. VerifyRequest(c.vp, at, dead) =
              [ok |-> TRUE, reason |-> None, agent |-> Vp[c.vp].holder,
               delegator |-> IF DelegatorCredential(c.vp, d) # None THEN RootDelegator(d) ELSE None,
               scope |-> EffectiveScope(d), blended |-> DelegatorCredential(c.vp, d) # None,
               depth |-> Len(PathTo(d))]
  BY <1>1, Verified
<1>4. Len(PathTo(d)) \in Nat
  BY <1>2, PathToType
<1> QED
  BY <1>1, <1>3, <1>4

\* A call that is refused ends, with an event and an attempt.
LEMMA RefuseEffect ==
  ASSUME CallInv, NEW r \in Calls, NEW v \in Vps \cup {None}, NEW readable \in BOOLEAN,
         Refuse(r, v, readable)
  PROVE  Effect
<1> DEFINE dead == Reported(readable)
           auth == VerifyRequest(v, now, dead)
<1>1. dead \in SUBSET Listed /\ now \in 0..MaxTime
  BY ReportedType DEF CallInv
<1>2. Answers[<<v, now, dead>>] = auth
  BY <1>1, AnswerIs
<1> HIDE DEF dead
<1>3. /\ Arrives(r) /\ ~auth.ok /\ shadows' = Append(shadows, now)
      /\ log' = Append(log, Event(r, auth.agent, "blocked_auth", auth.reason))
      /\ Go(r, Ended(None)) /\ UNCHANGED <<trustVars, revoked, loop, known, asked>>
  BY <1>2 DEF Refuse, RecordsAttempt, dead
<1>a. auth.agent = None
  BY <1>3, RefusedAgent
<1>b. auth \in Auths
  BY <1>1 DEF Auths
<1>4. auth.agent = None /\ auth \in Auths
  BY <1>a, <1>b
<1> HIDE DEF auth
<1>5. call[r].pc = "new" /\ call[r].agent = None /\ loop = None
  BY <1>3 DEF Arrives, CallInv, SoundCall
<1>6. call'[r].pc = "ended"
  BY <1>3, EndedSound DEF Go, CallInv
<1>7. Looped(r)
  BY <1>3, <1>5, <1>6, Assumptions DEF Looped
<1>8. EndsCall(r)
  BY <1>3, <1>4, <1>5 DEF EndsCall, Decisions, Working
<1>9. Clocked
  BY <1>3 DEF Clocked, CallInv, trustVars
<1> QED
  BY <1>7, <1>8, <1>9 DEF Effect

\* A call that is authenticated is let in, and carries what was authenticated.
LEMMA AuthenticateEffect ==
  ASSUME CallInv, NEW r \in Calls, NEW v \in Vps \cup {None}, NEW readable \in BOOLEAN,
         Authenticate(r, v, readable)
  PROVE  Effect
<1> DEFINE dead == Reported(readable)
           auth == VerifyRequest(v, now, dead)
           c == [NewCall EXCEPT !.pc = "body", !.agent = auth.agent, !.vp = v, !.auth = auth,
                                !.dead = revoked]
<1>1. dead \in SUBSET Listed /\ now \in 0..MaxTime /\ (FailClosed => revoked \subseteq dead)
  BY ReportedType DEF CallInv
<1>2. Answers[<<v, now, dead>>] = auth
  BY <1>1, AnswerIs
<1> HIDE DEF dead
<1>3. /\ Arrives(r) /\ auth.ok /\ known' = [known EXCEPT ![auth.agent] = @ + 1] /\ Go(r, c)
      /\ UNCHANGED <<trustVars, revoked, loop, shadows, log, asked>>
  BY <1>2 DEF Authenticate, Registers, dead
<1>4. v \in Vps /\ auth.agent = Vp[v].holder /\ auth \in Auths
  BY <1>1, <1>3, Verified DEF Auths
<1>a. auth.agent \in Agents
  BY <1>4, Assumptions
<1>5. Refusal(None) \in Auths
  BY DEF Auths
<1>6. /\ c \in CallRecord /\ c.pc = "body" /\ c.agent = auth.agent /\ c.vp = v /\ c.auth = auth
      /\ c.dead = revoked
  <2> HIDE DEF auth
  <2>1. revoked \in SUBSET Listed
    BY DEF CallInv
  <2>2. NewCall \in CallRecord
    BY <1>5 DEF NewCall, CallRecord
  <2> DEFINE agent == auth.agent
  <2>3. agent \in Agents
    BY <1>a
  <2> HIDE DEF agent
  <2>4. LET x == [NewCall EXCEPT !.pc = "body", !.agent = agent, !.vp = v, !.auth = auth,
                                 !.dead = revoked]
        IN /\ x \in CallRecord /\ x.pc = "body" /\ x.agent = agent /\ x.vp = v /\ x.auth = auth
           /\ x.dead = revoked
    BY <1>4, <2>1, <2>2, <2>3 DEF CallRecord, Working
  <2> QED
    BY <2>4 DEF agent
<1> HIDE DEF c
<1>7. Authentic(c)
  BY <1>1, <1>3, <1>6 DEF Authentic
<1> HIDE DEF auth
<1>8. c \in SoundCall
  BY <1>a, <1>4, <1>6, <1>7 DEF SoundCall
<1>9. call[r].pc = "new" /\ loop = None
  BY <1>3 DEF Arrives
<1>10. call'[r] = c
  BY <1>3 DEF Go, CallInv
<1>11. Looped(r)
  BY <1>3, <1>6, <1>9, <1>10, Assumptions DEF Looped
<1>12. LetsIn(r)
  BY <1>3, <1>6, <1>8, <1>9 DEF LetsIn
<1>13. Clocked
  BY <1>3 DEF Clocked, CallInv, trustVars
<1> QED
  BY <1>11, <1>12, <1>13 DEF Effect

\* A call at work.
LEMMA AtWork ==
  ASSUME CallInv, NEW r \in Calls, call[r].pc \in Working
  PROVE  /\ call[r] \in CallRecord /\ call[r].agent \in Agents /\ call[r].vp \in Vps
         /\ Authentic(call[r]) /\ call[r].agent # None
BY Assumptions DEF CallInv, SoundCall

\* A call whose tool is in scope goes on with it.
LEMMA GoesOn ==
  ASSUME CallInv, NEW r \in Calls, call[r].pc \in Working, NEW tool \in Tools \cup {Absent},
         NEW pc \in {"storing", "forwarding"}, InScope(r, tool)
  PROVE  LET c == [call[r] EXCEPT !.pc = pc, !.tool = tool] IN
         /\ c \in SoundCall /\ c.pc = pc /\ c.agent = call[r].agent
<1> DEFINE b == call[r]
           c == [b EXCEPT !.pc = pc, !.tool = tool]
<1>1. b \in CallRecord /\ b.agent \in Agents /\ b.vp \in Vps /\ Authentic(b)
  BY AtWork
<1>2. tool # Absent => Required[tool] # None /\ Required[tool] \in b.auth.scope.actions
  BY DEF InScope
<1> HIDE DEF b
<1>3. /\ c \in CallRecord /\ c.pc = pc /\ c.tool = tool /\ c.agent = b.agent /\ c.vp = b.vp
      /\ c.auth = b.auth /\ c.dead = b.dead
  BY <1>1 DEF CallRecord, Working
<1> HIDE DEF c
<1>4. Authentic(c)
  BY <1>1, <1>3 DEF Authentic
<1>5. c \in SoundCall
  BY <1>1, <1>2, <1>3, <1>4 DEF SoundCall
<1>6. c \in SoundCall /\ c.pc = pc /\ c.agent = b.agent
  BY <1>3, <1>5
<1> QED
  BY <1>6 DEF b, c

\* A call whose body is bad ends without an event.
LEMMA BodyFailsEffect ==
  ASSUME CallInv, NEW r \in Calls, BodyFails(r)
  PROVE  Effect
<1> DEFINE c == Unlogged(call[r].agent)
<1>1. call[r].pc = "body" /\ loop = None /\ call[r].agent \in Agents
  BY AtWork DEF BodyFails, Working
<1>2. c \in SoundCall /\ c.pc = "unlogged" /\ c.agent = call[r].agent
  BY <1>1, EndedSound
<1> HIDE DEF c
<1>3. Go(r, c) /\ UNCHANGED <<trustVars, revoked, loop, known, shadows, log, asked>>
  BY DEF BodyFails, c
<1>4. call'[r] = c
  BY <1>3 DEF Go, CallInv
<1>5. Looped(r)
  BY <1>1, <1>2, <1>3, <1>4, Assumptions DEF Looped
<1>6. MovesOn(r)
  BY <1>1, <1>2, <1>3 DEF MovesOn, Working
<1>7. Clocked
  BY <1>3 DEF Clocked, CallInv, trustVars
<1> QED
  BY <1>5, <1>6, <1>7 DEF Effect

\* A call at work that is answered and logged.
LEMMA AnsweredEffect ==
  ASSUME CallInv, NEW r \in Calls, call[r].pc \in Working, loop \in {None, r}, loop' = None,
         NEW d \in Decisions, d # "blocked_auth",
         log' = Append(log, Event(r, call[r].agent, d, None)), Go(r, Ended(call[r].agent)),
         UNCHANGED <<now, revoked, shadows, known>>
  PROVE  Effect
<1>1. call[r].agent \in Agents
  BY AtWork
<1>2. call'[r].pc = "ended"
  BY <1>1, EndedSound DEF Go, CallInv
<1>3. Looped(r)
  BY <1>2, Assumptions DEF Looped
<1>4. EndsCall(r)
  BY DEF EndsCall, Working
<1>5. Clocked
  BY DEF Clocked, CallInv
<1> QED
  BY <1>3, <1>4, <1>5 DEF Effect

\* A call for a tool out of scope ends.
LEMMA DenyScopeEffect ==
  ASSUME CallInv, NEW r \in Calls, NEW tool \in Tools \cup {Absent}, DenyScope(r, tool)
  PROVE  Effect
<1>1. /\ call[r].pc \in Working /\ loop = None /\ loop' = None
      /\ log' = Append(log, Event(r, call[r].agent, "blocked_scope", None))
      /\ Go(r, Ended(call[r].agent)) /\ UNCHANGED <<now, revoked, shadows, known>>
  BY DEF DenyScope, Deny, Working
<1>2. "blocked_scope" \in Decisions
  BY DEF Decisions
<1> QED
  BY <1>1, <1>2, AnsweredEffect

\* A call that was forwarded ends.
LEMMA ForwardedEffect ==
  ASSUME CallInv, NEW r \in Calls, Forwarded(r)
  PROVE  Effect
<1>1. /\ call[r].pc \in Working /\ loop = None /\ loop' = None
      /\ log' = Append(log, Event(r, call[r].agent, "allowed", None))
      /\ Go(r, Ended(call[r].agent)) /\ UNCHANGED <<now, revoked, shadows, known>>
  BY DEF Forwarded, Working
<1>2. "allowed" \in Decisions
  BY DEF Decisions
<1> QED
  BY <1>1, <1>2, AnsweredEffect

\* A call whose agent has been evaluated is denied or goes on to the server.
LEMMA DecidedEffect ==
  ASSUME CallInv, NEW r \in Calls, call[r].pc \in Working, loop \in {None, r}, loop' = None,
         NEW entry, NEW tool \in Tools \cup {Absent}, Decided(r, entry, tool),
         InScope(r, tool), UNCHANGED <<now, revoked, shadows, known>>
  PROVE  Effect
<1> DEFINE c == [call[r] EXCEPT !.pc = "forwarding", !.tool = tool]
<1>1. \/ Deny(r, entry, tool, "blocked_trust") \/ Deny(r, entry, tool, "step_up")
      \/ Go(r, c) /\ UNCHANGED log
  BY DEF Decided
<1>2. CASE Deny(r, entry, tool, "blocked_trust") \/ Deny(r, entry, tool, "step_up")
  BY <1>2, AnsweredEffect DEF Deny, Decisions
<1>3. CASE Go(r, c) /\ UNCHANGED log
  <2>1. c \in SoundCall /\ c.pc = "forwarding" /\ c.agent = call[r].agent
    BY GoesOn
  <2> HIDE DEF c
  <2>2. call'[r] = c
    BY <1>3 DEF Go, CallInv
  <2>3. Looped(r)
    BY <2>1, <2>2, Assumptions DEF Looped
  <2>4. MovesOn(r)
    BY <1>3, <2>1 DEF MovesOn, Working
  <2>5. Clocked
    BY DEF Clocked, CallInv
  <2> QED
    BY <2>3, <2>4, <2>5 DEF Effect
<1> QED
  BY <1>1, <1>2, <1>3

\* A call whose agent has a live entry is denied or forwarded.
LEMMA EvaluateHitEffect ==
  ASSUME CallInv, NEW r \in Calls, NEW tool \in Tools \cup {Absent}, EvaluateHit(r, tool)
  PROVE  Effect
<1> DEFINE entry == Evaluated(cache[call[r].agent], tool, call[r].vp, Len(log))
<1>1. /\ call[r].pc \in Working /\ loop = None /\ loop' = None /\ InScope(r, tool)
      /\ Decided(r, entry, tool) /\ UNCHANGED <<now, revoked, shadows, known>>
  BY DEF EvaluateHit, Working
<1> HIDE DEF entry
<1> QED
  BY <1>1, DecidedEffect

\* A call whose agent has none waits to store one.
LEMMA EvaluateMissEffect ==
  ASSUME CallInv, NEW r \in Calls, NEW tool \in Tools \cup {Absent}, EvaluateMiss(r, tool)
  PROVE  Effect
<1> DEFINE c == [call[r] EXCEPT !.pc = "storing", !.tool = tool]
<1>1. /\ call[r].pc \in Working /\ loop = None /\ loop' = r /\ Go(r, c) /\ InScope(r, tool)
      /\ UNCHANGED <<trustVars, revoked, known, shadows, log, asked>>
  BY DEF EvaluateMiss, Working
<1>2. c \in SoundCall /\ c.pc = "storing" /\ c.agent = call[r].agent
  BY <1>1, GoesOn
<1> HIDE DEF c
<1>3. call'[r] = c
  BY <1>1 DEF Go, CallInv
<1>4. Looped(r)
  BY <1>1, <1>2, <1>3, Assumptions DEF Looped
<1>5. MovesOn(r)
  BY <1>1, <1>2 DEF MovesOn, Working
<1>6. Clocked
  BY <1>1 DEF Clocked, CallInv, trustVars
<1> QED
  BY <1>4, <1>5, <1>6 DEF Effect

\* What becomes of it then.
LEMMA StoreEffect ==
  ASSUME CallInv, NEW r \in Calls, Store(r)
  PROVE  Effect
<1> DEFINE entry == NewEntry(InstantScore(call[r].auth.ok, call[r].auth.depth, call[r].auth.blended),
                             call[r].vp, Len(log))
           tool == call[r].tool
<1>1. /\ call[r].pc = "storing" /\ loop' = None /\ Decided(r, entry, tool)
      /\ UNCHANGED <<now, revoked, shadows, known>>
  BY DEF Store
<1>2. loop = r
  BY <1>1 DEF CallInv
<1>3. /\ tool \in Tools \cup {Absent}
      /\ tool # Absent => Required[tool] # None /\ Required[tool] \in call[r].auth.scope.actions
  BY <1>1 DEF CallInv, SoundCall, CallRecord
<1>4. InScope(r, tool)
  BY <1>3 DEF InScope
<1>5. call[r].pc \in Working
  BY <1>1 DEF Working
<1> HIDE DEF entry, tool
<1> QED
  BY <1>1, <1>2, <1>3, <1>4, <1>5, DecidedEffect

\* Steps around the pipeline leave calls, log and inventory alone.
LEMMA QuietEffect ==
  ASSUME CallInv, Quiet, revoked' \in SUBSET Listed, now' = now \/ Tick
  PROVE  Effect
<1>1. now' \in 0..MaxTime
  BY Assumptions DEF CallInv, Tick
<1> QED
  BY <1>1 DEF Effect, Clocked

\* Every step has one of the effects.
LEMMA StepEffect ==
  ASSUME CallInv, [Next]_gatewayVars
  PROVE  Effect
<1>0. revoked \in SUBSET Listed
  BY DEF CallInv
<1>1. CASE \E r \in Calls : Handle(r)
  BY <1>1, DenyScopeEffect, EvaluateHitEffect, EvaluateMissEffect, BodyFailsEffect,
     StoreEffect, ForwardedEffect DEF Handle
<1>2. CASE \E r \in Calls, v \in Vps \cup {None}, readable \in BOOLEAN :
             Refuse(r, v, readable) \/ Authenticate(r, v, readable)
  BY <1>2, RefuseEffect, AuthenticateEffect
<1>3. CASE \E a \in Embedded : RequestRefresh(a) \/ InvalidateEntry(a)
  <2>1. Quiet /\ revoked' = revoked /\ now' = now
    BY <1>3 DEF RequestRefresh, InvalidateEntry, Invalidate, Quiet
  <2> QED
    BY <1>0, <2>1, QuietEffect
<1>4. CASE \E a \in Agents : Refresh(a) /\ Around
  <2>1. Quiet /\ revoked' = revoked /\ now' = now
    BY <1>4 DEF Refresh, Around, Quiet, StartRefresh, RefreshFails, RetryRefresh, DropMarker,
                Refreshed
  <2> QED
    BY <1>0, <2>1, QuietEffect
<1>5. CASE \E c \in Creds : Revoke(c)
  <2>1. Quiet /\ revoked' \in SUBSET Listed /\ now' = now
    BY <1>0, <1>5 DEF Revoke, Quiet, trustVars
  <2> QED
    BY <2>1, QuietEffect
<1>6. CASE Shutdown
  <2>1. Quiet /\ revoked' = revoked /\ now' = now
    BY <1>6 DEF Shutdown, Close, Quiet
  <2> QED
    BY <1>0, <2>1, QuietEffect
<1>7. CASE Tick /\ Around
  <2>1. Quiet /\ revoked' = revoked
    BY <1>7 DEF Around, Quiet
  <2> QED
    BY <1>0, <1>7, <2>1, QuietEffect
<1>8. CASE UNCHANGED gatewayVars
  <2>1. Quiet /\ revoked' = revoked /\ now' = now
    BY <1>8 DEF gatewayVars, trustVars, Quiet
  <2> QED
    BY <1>0, <2>1, QuietEffect
<1> QED
  BY <1>1, <1>2, <1>3, <1>4, <1>5, <1>6, <1>7, <1>8 DEF Next

\* What calls carry stays sound.
LEMMA CallStep ==
  ASSUME CallInv, Effect
  PROVE  CallInv'
<1>1. now' \in 0..MaxTime /\ revoked' \in SUBSET Listed
  BY DEF Effect, Clocked
<1>2. CASE Quiet
  BY <1>1, <1>2 DEF Quiet, CallInv
<1>3. CASE \E r \in Calls : Looped(r) /\ (EndsCall(r) \/ LetsIn(r) \/ MovesOn(r))
  <2>1. PICK r \in Calls : Looped(r) /\ (EndsCall(r) \/ LetsIn(r) \/ MovesOn(r))
    BY <1>3
  <2>2. \E c \in SoundCall : call' = [call EXCEPT ![r] = c]
    <3>1. call[r].agent \in Agents \cup {None}
      BY DEF CallInv, SoundCall, CallRecord
    <3> QED
      BY <2>1, <3>1, EndedSound DEF EndsCall, LetsIn, MovesOn, Go
  <2>3. PICK c \in SoundCall : call' = [call EXCEPT ![r] = c]
    BY <2>2
  <2>4. call' \in [Calls -> SoundCall]
    BY <2>3 DEF CallInv
  <2>5. ASSUME NEW q \in Calls PROVE call'[q].pc = "storing" <=> loop' = q
    <3>1. CASE q = r
      BY <2>1, <3>1 DEF Looped
    <3>2. CASE q # r
      <4>1. call'[q] = call[q]
        BY <2>3, <3>2 DEF CallInv
      <4>2. loop # q /\ loop' # q
        BY <2>1, <3>2, Assumptions DEF Looped
      <4> QED
        BY <4>1, <4>2 DEF CallInv
    <3> QED
      BY <3>1, <3>2
  <2>6. loop' \in Calls \cup {None}
    BY <2>1 DEF Looped
  <2> QED
    BY <1>1, <2>4, <2>5, <2>6 DEF CallInv
<1> QED
  BY <1>2, <1>3 DEF Effect

\* An event more.
LEMMA LongerLog ==
  ASSUME log \in Seq(Events), NEW e \in Events, log' = Append(log, e)
  PROVE  /\ log' \in Seq(Events) /\ Len(log') = Len(log) + 1 /\ Len(log) \in Nat
         /\ DOMAIN log = 1..Len(log) /\ DOMAIN log' = DOMAIN log \cup {Len(log) + 1}
         /\ Len(log) + 1 \notin DOMAIN log /\ log'[Len(log) + 1] = e
         /\ \A i \in DOMAIN log : log'[i] = log[i]
OBVIOUS

\* A call that has ended, and no other, keeps one event, about its agent.
LEMMA LogStep ==
  ASSUME CallInv, LogInv, Effect
  PROVE  LogInv'
<1>1. CASE Quiet
  BY <1>1 DEF Quiet, LogInv
<1>2. ASSUME NEW r \in Calls, EndsCall(r) PROVE LogInv'
  <2> DEFINE a == call[r].agent
             n == Len(log) + 1
  <2>1. PICK d \in Decisions, x \in {None} \cup {b.reason : b \in Auths} :
          /\ call[r].pc \in Working \cup {"new"} /\ (call[r].pc = "new" <=> d = "blocked_auth")
          /\ log' = Append(log, Event(r, a, d, x)) /\ call' = [call EXCEPT ![r] = Ended(a)]
    BY <1>2 DEF EndsCall, Go
  <2>2. a \in Agents \cup {None} /\ (a = None <=> call[r].pc = "new")
    BY <2>1, Assumptions DEF CallInv, SoundCall, CallRecord
  <2>3. Ended(a).pc = "ended" /\ Ended(a).agent = a
    BY <2>2, EndedSound
  <2> DEFINE e == Event(r, a, d, x)
  <2>4. e \in Events /\ e.call = r /\ e.agent = a /\ e.decision = d
    BY <2>2 DEF Event, Events
  <2> HIDE DEF e
  <2>5. log \in Seq(Events) /\ log' = Append(log, e)
    BY <2>1 DEF LogInv, e
  <2>6. /\ log' \in Seq(Events) /\ DOMAIN log' = DOMAIN log \cup {n}
        /\ n \notin DOMAIN log /\ log'[n] = e /\ \A i \in DOMAIN log : log'[i] = log[i]
        /\ \A i \in DOMAIN log : log[i] \in Events
    BY <2>4, <2>5, LongerLog
  <2> HIDE DEF a, n
  <2>7. /\ \A q \in Calls : q # r => call'[q] = call[q]
        /\ call'[r].pc = "ended" /\ call'[r].agent = a
    BY <2>1, <2>3 DEF CallInv
  <2>8. \A i \in DOMAIN log : log[i].call \in Calls /\ log[i].call # r
    <3>1. \A i \in DOMAIN log : log[i].call \in Calls /\ call[log[i].call].pc = "ended"
      BY <2>6 DEF LogInv, Events
    <3>2. call[r].pc # "ended"
      BY <2>1 DEF Working
    <3> QED
      BY <3>1, <3>2
  <2>9. ASSUME NEW i \in DOMAIN log'
        PROVE  /\ call'[log'[i].call].pc = "ended" /\ call'[log'[i].call].agent = log'[i].agent
               /\ log'[i].decision = "blocked_auth" <=> log'[i].agent = None
    <3>1. CASE i = n
      BY <2>1, <2>2, <2>4, <2>6, <2>7, <3>1
    <3>2. CASE i # n
      BY <2>6, <2>7, <2>8, <3>2 DEF LogInv
    <3> QED
      BY <3>1, <3>2
  <2>10. ASSUME NEW i \in DOMAIN log', NEW j \in DOMAIN log', log'[i].call = log'[j].call
         PROVE  i = j
    <3>1. CASE i = n \/ j = n
      BY <2>4, <2>6, <2>8, <2>10, <3>1
    <3>2. CASE i # n /\ j # n
      BY <2>6, <2>10, <3>2 DEF LogInv
    <3> QED
      BY <3>1, <3>2
  <2>11. ASSUME NEW q \in Calls, call'[q].pc = "ended"
         PROVE  \E i \in DOMAIN log' : log'[i].call = q
    <3>1. CASE q = r
      BY <2>4, <2>6, <3>1
    <3>2. CASE q # r
      <4>1. \E i \in DOMAIN log : log[i].call = q
        BY <2>7, <2>11, <3>2 DEF LogInv
      <4> QED
        BY <2>6, <4>1
    <3> QED
      BY <3>1, <3>2
  <2> QED
    BY <2>6, <2>9, <2>10, <2>11 DEF LogInv
<1>3. ASSUME NEW r \in Calls, LetsIn(r) \/ MovesOn(r) PROVE LogInv'
  <2>1. PICK c \in SoundCall : call' = [call EXCEPT ![r] = c] /\ c.pc # "ended" /\ call[r].pc # "ended"
    BY <1>3 DEF LetsIn, MovesOn, Go, Working
  <2>2. log' = log
    BY <1>3 DEF LetsIn, MovesOn
  <2>3. /\ \A q \in Calls : q # r => call'[q] = call[q]
        /\ call'[r].pc # "ended"
    BY <2>1 DEF CallInv
  <2>4. \A i \in DOMAIN log : log[i].call \in Calls /\ log[i].call # r
    <3>1. \A i \in DOMAIN log : log[i] \in Events
      BY DEF LogInv
    <3> QED
      BY <2>1, <3>1 DEF LogInv, Events
  <2>5. \A q \in Calls : call'[q].pc = "ended" => call[q].pc = "ended"
    BY <2>3
  <2> QED
    BY <2>2, <2>3, <2>4, <2>5 DEF LogInv
<1> QED
  BY <1>1, <1>2, <1>3 DEF Effect

\* The inventory goes on counting the calls of an agent.
LEMMA KnownStep ==
  ASSUME CallInv, KnownInv, Effect
  PROVE  KnownInv'
<1>1. ASSUME UNCHANGED known, \A q \in Calls : call'[q].agent = call[q].agent
      PROVE  KnownInv'
  <2>1. \A a \in Agents : CallsOf(a)' = CallsOf(a)
    BY <1>1 DEF CallsOf
  <2> QED
    BY <1>1, <2>1 DEF KnownInv
<1>2. CASE Quiet
  BY <1>1, <1>2 DEF Quiet
<1>3. ASSUME NEW r \in Calls, EndsCall(r) \/ MovesOn(r) PROVE KnownInv'
  <2>1. call[r].agent \in Agents \cup {None}
    BY DEF CallInv, SoundCall, CallRecord
  <2>2. PICK c : call' = [call EXCEPT ![r] = c] /\ c.agent = call[r].agent
    BY <1>3, <2>1, EndedSound DEF EndsCall, MovesOn, Go
  <2>3. \A q \in Calls : call'[q].agent = call[q].agent
    BY <2>2 DEF CallInv
  <2>4. UNCHANGED known
    BY <1>3 DEF EndsCall, MovesOn
  <2> QED
    BY <1>1, <2>3, <2>4
<1>4. ASSUME NEW r \in Calls, LetsIn(r) PROVE KnownInv'
  <2>1. PICK c \in SoundCall : /\ call[r].pc = "new" /\ c.pc = "body" /\ Go(r, c)
                               /\ known' = [known EXCEPT ![c.agent] = @ + 1]
    BY <1>4 DEF LetsIn
  <2>2. c.agent \in Agents /\ call[r].agent = None
    BY <2>1 DEF SoundCall, CallInv, Working
  <2>3. ASSUME NEW a \in Agents
        PROVE  CallsOf(a)' = IF a = c.agent THEN CallsOf(a) \cup {r} ELSE CallsOf(a)
    <3>1. /\ \A q \in Calls : q # r => call'[q] = call[q]
          /\ call'[r] = c
      BY <2>1 DEF CallInv, Go
    <3>2. CASE a = c.agent
      BY <3>1, <3>2 DEF CallsOf
    <3>3. CASE a # c.agent
      BY <2>2, <3>1, <3>3, Assumptions DEF CallsOf
    <3> QED
      BY <3>2, <3>3
  <2>4. r \notin CallsOf(c.agent)
    BY <2>2, Assumptions DEF CallsOf
  <2>5. ASSUME NEW a \in Agents
        PROVE  IsFiniteSet(CallsOf(a)') /\ known'[a] = Cardinality(CallsOf(a)')
    <3>1. IsFiniteSet(CallsOf(a)) /\ known[a] = Cardinality(CallsOf(a)) /\ known[a] \in Nat
      BY DEF KnownInv
    <3>2. CASE a = c.agent
      <4>1. IsFiniteSet(CallsOf(a) \cup {r})
            /\ Cardinality(CallsOf(a) \cup {r}) = Cardinality(CallsOf(a)) + 1
        BY <2>4, <3>1, <3>2, FS_AddElement
      <4>2. known'[a] = known[a] + 1
        BY <2>1, <3>2 DEF KnownInv
      <4> QED
        BY <2>3, <3>1, <3>2, <4>1, <4>2
    <3>3. CASE a # c.agent
      <4>1. known'[a] = known[a]
        BY <2>1, <3>3 DEF KnownInv
      <4> QED
        BY <2>3, <3>1, <3>3, <4>1
    <3> QED
      BY <3>2, <3>3
  <2>6. known' \in [Agents -> Nat]
    BY <2>1, <2>2 DEF KnownInv
  <2> QED
    BY <2>5, <2>6 DEF KnownInv
<1> QED
  BY <1>2, <1>3, <1>4 DEF Effect

\* Attempts and refusals stay as many.
LEMMA ShadowStep ==
  ASSUME CallInv, LogInv, ShadowInv, Effect
  PROVE  ShadowInv'
<1>1. ASSUME UNCHANGED <<shadows, log>> PROVE ShadowInv'
  BY <1>1 DEF ShadowInv, Refused
<1>2. ASSUME NEW r \in Calls, EndsCall(r) PROVE ShadowInv'
  <2> DEFINE n == Len(log) + 1
             a == call[r].agent
  <2>1. PICK d \in Decisions, x \in {None} \cup {b.reason : b \in Auths} :
          /\ log' = Append(log, Event(r, a, d, x))
          /\ shadows' = IF d = "blocked_auth" THEN Append(shadows, now) ELSE shadows
    BY <1>2 DEF EndsCall
  <2> DEFINE e == Event(r, a, d, x)
  <2>2. a \in Agents \cup {None}
    BY DEF CallInv, SoundCall, CallRecord
  <2>3. e \in Events /\ e.decision = d
    BY <2>2 DEF Event, Events
  <2>4. log \in Seq(Events) /\ log' = Append(log, e)
    BY <2>1 DEF LogInv
  <2> HIDE DEF e
  <2>5. /\ DOMAIN log' = DOMAIN log \cup {n} /\ n \notin DOMAIN log /\ log'[n] = e
        /\ \A i \in DOMAIN log : log'[i] = log[i]
    BY <2>3, <2>4, LongerLog
  <2>6. IsFiniteSet(Refused) /\ Cardinality(Refused) \in Nat
    <3>1. Len(log) \in Nat /\ DOMAIN log = 1..Len(log)
      BY <2>4
    <3>2. IsFiniteSet(1..Len(log))
      BY <3>1, FS_Interval
    <3> QED
      BY <3>1, <3>2, FS_Subset, FS_CardinalityType DEF Refused
  <2> HIDE DEF n
  <2>7. now \in Nat /\ shadows \in Seq(Nat) /\ Len(shadows) = Cardinality(Refused)
    BY DEF CallInv, ShadowInv
  <2>8. CASE d = "blocked_auth"
    <3>1. Refused' = Refused \cup {n} /\ n \notin Refused
      BY <2>3, <2>5, <2>8 DEF Refused
    <3>2. Cardinality(Refused') = Cardinality(Refused) + 1
      BY <2>6, <3>1, FS_AddElement
    <3>3. shadows' = Append(shadows, now)
      BY <2>1, <2>8
    <3>4. shadows' \in Seq(Nat) /\ Len(shadows') = Len(shadows) + 1
      BY <2>7, <3>3
    <3> QED
      BY <2>7, <3>2, <3>4 DEF ShadowInv
  <2>9. CASE d # "blocked_auth"
    <3>1. Refused' = Refused
      BY <2>3, <2>5, <2>9 DEF Refused
    <3> QED
      BY <2>1, <2>7, <2>9, <3>1 DEF ShadowInv
  <2> QED
    BY <2>8, <2>9
<1> QED
  BY <1>1, <1>2 DEF Effect, Quiet, LetsIn, MovesOn

(***************************************************************************)
(* Refreshes.                                                              *)
(***************************************************************************)

\* What a step does to the refreshes.
PoolEffect ==
  \/ UNCHANGED <<inflight, queue, pool>>
  \/ \E a \in Agents :
       \/ Schedules(a) /\ UNCHANGED pool
       \/ StartRefresh(a) \/ RefreshFails(a) \/ RetryRefresh(a) \/ DropMarker(a)
       \/ \E score \in FullScores : Refreshed(a, score)

\* Every step has one of these effects on the refreshes.
LEMMA StepPoolEffect == [Next]_gatewayVars => PoolEffect
<1> SUFFICES ASSUME [Next]_gatewayVars PROVE PoolEffect
  OBVIOUS
<1>1. CASE \E r \in Calls : Handle(r)
  BY <1>1 DEF PoolEffect, Handle, DenyScope, EvaluateHit, EvaluateMiss, BodyFails, Store,
              Forwarded, trustVars
<1>2. CASE \E r \in Calls, v \in Vps \cup {None}, readable \in BOOLEAN :
             Refuse(r, v, readable) \/ Authenticate(r, v, readable)
  BY <1>2 DEF PoolEffect, Refuse, Authenticate, trustVars
<1>3. CASE \E a \in Embedded : RequestRefresh(a) \/ InvalidateEntry(a)
  BY <1>3, Assumptions DEF PoolEffect, RequestRefresh, InvalidateEntry, Invalidate
<1>4. CASE \E a \in Agents : Refresh(a) /\ Around
  BY <1>4 DEF PoolEffect, Refresh
<1>5. CASE (\E c \in Creds : Revoke(c)) \/ Shutdown \/ (Tick /\ Around) \/ UNCHANGED gatewayVars
  BY <1>5 DEF PoolEffect, Revoke, Shutdown, Close, Tick, trustVars, gatewayVars
<1> QED
  BY <1>1, <1>2, <1>3, <1>4, <1>5 DEF Next

\* A refresh stays in one place, and workers to their bound.
LEMMA PoolStep ==
  ASSUME PoolInv, PoolEffect
  PROVE  PoolInv'
<1>0. /\ pool \in [Agents -> Jobs \cup {Absent}] /\ queue \in Seq(Agents)
      /\ \A m, n \in DOMAIN queue : queue[m] = queue[n] => m = n
      /\ \A n \in DOMAIN queue : pool[queue[n]] = Absent
      /\ inflight = Running \cup Queued /\ Cardinality(Running) <= Workers
      /\ Len(queue) \in Nat /\ DOMAIN queue = 1..Len(queue)
  BY DEF PoolInv
<1>a. IsFiniteSet(Running) /\ Cardinality(Running) \in Nat
  BY Assumptions, FS_Subset, FS_CardinalityType DEF Running
<1>1. CASE UNCHANGED <<inflight, queue, pool>>
  BY <1>1 DEF PoolInv, Running, Queued
<1>2. ASSUME NEW a \in Agents, Schedules(a), UNCHANGED pool PROVE PoolInv'
  <2>1. CASE UNCHANGED <<inflight, queue>>
    BY <1>1, <1>2, <2>1
  <2>2. CASE a \notin inflight /\ inflight' = inflight \cup {a} /\ queue' = Append(queue, a)
    <3> DEFINE k == Len(queue) + 1
    <3>1. /\ queue' \in Seq(Agents) /\ DOMAIN queue' = DOMAIN queue \cup {k} /\ queue'[k] = a
          /\ k \notin DOMAIN queue /\ \A n \in DOMAIN queue : queue'[n] = queue[n]
      BY <1>0, <2>2
    <3> HIDE DEF k
    <3>2. pool[a] = Absent /\ \A n \in DOMAIN queue : queue[n] # a
      BY <1>0, <2>2 DEF Running, Queued
    <3>3. \A m, n \in DOMAIN queue' : queue'[m] = queue'[n] => m = n
      BY <1>0, <3>1, <3>2
    <3>4. \A n \in DOMAIN queue' : pool'[queue'[n]] = Absent
      BY <1>0, <1>2, <3>1, <3>2
    <3>5. Queued' = Queued \cup {a} /\ Running' = Running
      BY <1>2, <3>1 DEF Queued, Running
    <3> QED
      BY <1>0, <1>2, <2>2, <3>1, <3>3, <3>4, <3>5 DEF PoolInv
  <2> QED
    BY <1>2, <2>1, <2>2 DEF Schedules
<1>3. ASSUME NEW a \in Agents, StartRefresh(a) PROVE PoolInv'
  <2> DEFINE job == [pc |-> "asking", tries |-> 0]
  <2>1. /\ queue # <<>> /\ Head(queue) = a /\ Cardinality(Running) < Workers
        /\ queue' = Tail(queue) /\ pool' = [pool EXCEPT ![a] = job] /\ UNCHANGED inflight
    BY <1>3 DEF StartRefresh
  <2>2. job \in Jobs /\ job # Absent
    BY Assumptions DEF Jobs
  <2> HIDE DEF job
  <2>3. /\ queue' \in Seq(Agents) /\ Len(queue') = Len(queue) - 1 /\ Len(queue) > 0
        /\ queue[1] = a /\ \A n \in 1..Len(queue') : queue'[n] = queue[n + 1]
    BY <1>0, <2>1
  <2>4. DOMAIN queue' = 1..Len(queue')
    BY <2>3
  <2>5. \A n \in DOMAIN queue' : /\ n + 1 \in DOMAIN queue /\ n + 1 # 1 /\ 1 \in DOMAIN queue
                                 /\ n \in Nat /\ queue'[n] = queue[n + 1]
    BY <1>0, <2>3, <2>4
  <2>6. \A m, n \in DOMAIN queue' : queue'[m] = queue'[n] => m = n
    <3> SUFFICES ASSUME NEW m \in DOMAIN queue', NEW n \in DOMAIN queue', queue'[m] = queue'[n]
                 PROVE  m = n
      OBVIOUS
    <3>1. m + 1 = n + 1
      BY <1>0, <2>5
    <3> QED
      BY <2>5, <3>1
  <2>7. \A n \in DOMAIN queue' : queue'[n] # a
    BY <1>0, <2>3, <2>5
  <2>8. \A n \in DOMAIN queue' : queue'[n] \in Agents /\ pool'[queue'[n]] = Absent
    <3> SUFFICES ASSUME NEW n \in DOMAIN queue'
                 PROVE  queue'[n] \in Agents /\ pool'[queue'[n]] = Absent
      OBVIOUS
    <3>1. queue'[n] \in Agents /\ pool[queue'[n]] = Absent /\ queue'[n] # a
      BY <1>0, <2>5, <2>7
    <3> QED
      BY <1>0, <2>1, <3>1
  <2>9. Running' = Running \cup {a} /\ a \notin Running
    <3>1. pool[a] = Absent
      BY <1>0, <2>3
    <3>2. \A b \in Agents : pool'[b] = IF b = a THEN job ELSE pool[b]
      BY <1>0, <2>1
    <3> QED
      BY <2>2, <3>1, <3>2 DEF Running
  <2>10. Queued = Queued' \cup {a}
    <3>1. ASSUME NEW b \in Queued PROVE b \in Queued' \cup {a}
      <4>1. PICK n \in DOMAIN queue : b = queue[n]
        BY <3>1 DEF Queued
      <4>2. CASE n = 1
        BY <2>3, <4>1, <4>2
      <4>3. CASE n # 1
        <5>1. n - 1 \in DOMAIN queue' /\ (n - 1) + 1 = n
          BY <1>0, <2>3, <2>4, <4>3
        <5>2. queue'[n - 1] = b
          BY <2>5, <4>1, <5>1
        <5> QED
          BY <5>1, <5>2 DEF Queued
      <4> QED
        BY <4>2, <4>3
    <3>2. ASSUME NEW b \in Queued' PROVE b \in Queued
      <4>1. PICK n \in DOMAIN queue' : b = queue'[n]
        BY <3>2 DEF Queued
      <4> QED
        BY <2>5, <4>1 DEF Queued
    <3>3. a \in Queued
      <4>1. 1 \in DOMAIN queue
        BY <1>0, <2>3
      <4> QED
        BY <2>3, <4>1 DEF Queued
    <3> QED
      BY <3>1, <3>2, <3>3
  <2>11. Cardinality(Running') = Cardinality(Running) + 1
    BY <1>a, <2>9, FS_AddElement
  <2>12. Cardinality(Running') <= Workers
    BY <1>a, <2>1, <2>11, Assumptions
  <2>13. inflight' = Running' \cup Queued'
    BY <1>0, <2>1, <2>9, <2>10
  <2>14. pool' \in [Agents -> Jobs \cup {Absent}]
    BY <1>0, <2>1, <2>2
  <2> QED
    BY <2>3, <2>6, <2>8, <2>12, <2>13, <2>14 DEF PoolInv
<1>4. ASSUME NEW a \in Agents, NEW job \in Jobs, pool[a] # Absent,
             pool' = [pool EXCEPT ![a] = job], UNCHANGED <<inflight, queue>>
      PROVE  PoolInv'
  <2>1. \A b \in Agents : pool'[b] = IF b = a THEN job ELSE pool[b]
    BY <1>0, <1>4
  <2>2. Running' = Running
    BY <1>4, <2>1, Assumptions DEF Running
  <2>3. \A n \in DOMAIN queue : pool'[queue[n]] = Absent
    BY <1>0, <1>4, <2>1
  <2>4. Queued' = Queued
    BY <1>4 DEF Queued
  <2>5. pool' \in [Agents -> Jobs \cup {Absent}]
    BY <1>0, <1>4
  <2> QED
    BY <1>0, <1>4, <2>2, <2>3, <2>4, <2>5 DEF PoolInv
<1>5. ASSUME NEW a \in Agents, RefreshFails(a) \/ \E score \in FullScores : Refreshed(a, score)
      PROVE  PoolInv'
  <2>1. pool[a] # Absent /\ pool[a] \in Jobs
    BY <1>0, <1>5 DEF RefreshFails, Refreshed
  <2> DEFINE job == [pool[a] EXCEPT !.pc = "ending"]
  <2>2. job \in Jobs
    BY <2>1 DEF Jobs
  <2>3. pool' = [pool EXCEPT ![a] = job] /\ UNCHANGED <<inflight, queue>>
    BY <1>5 DEF RefreshFails, Refreshed
  <2> HIDE DEF job
  <2> QED
    BY <1>4, <2>1, <2>2, <2>3
<1>6. ASSUME NEW a \in Agents, RetryRefresh(a) PROVE PoolInv'
  <2>1. pool[a] # Absent /\ pool[a] \in Jobs
    BY <1>0, <1>6 DEF RetryRefresh
  <2> DEFINE n == pool[a].tries + 1
             job == [pool[a] EXCEPT !.tries = n]
  <2>2. n \in Nat
    BY <2>1 DEF Jobs
  <2>3. pool' = [pool EXCEPT ![a] = job] /\ UNCHANGED <<inflight, queue>>
    BY <1>0, <1>6, <2>1 DEF RetryRefresh, Jobs
  <2> HIDE DEF n
  <2>4. job \in Jobs
    BY <2>1, <2>2 DEF Jobs
  <2> HIDE DEF job
  <2> QED
    BY <1>4, <2>1, <2>3, <2>4
<1>7. ASSUME NEW a \in Agents, DropMarker(a) PROVE PoolInv'
  <2>1. /\ pool[a] # Absent /\ inflight' = inflight \ {a} /\ pool' = [pool EXCEPT ![a] = Absent]
        /\ UNCHANGED queue
    BY <1>7 DEF DropMarker
  <2>2. \A b \in Agents : pool'[b] = IF b = a THEN Absent ELSE pool[b]
    BY <1>0, <2>1
  <2>3. Running' = Running \ {a} /\ a \notin Queued
    BY <1>0, <2>1, <2>2 DEF Running, Queued
  <2>4. Cardinality(Running') <= Cardinality(Running) /\ Cardinality(Running') \in Nat
    BY <1>a, <2>3, FS_Subset, FS_CardinalityType
  <2>5. Queued' = Queued
    BY <2>1 DEF Queued
  <2>6. inflight' = Running' \cup Queued'
    BY <1>0, <2>1, <2>3, <2>5
  <2>7. \A n \in DOMAIN queue : pool'[queue[n]] = Absent
    BY <1>0, <2>2
  <2>8. pool' \in [Agents -> Jobs \cup {Absent}]
    BY <1>0, <2>1
  <2>9. Cardinality(Running') <= Workers
    BY <1>0, <1>a, <2>4, Assumptions
  <2> QED
    BY <1>0, <2>1, <2>6, <2>7, <2>8, <2>9 DEF PoolInv
<1> QED
  BY <1>1, <1>2, <1>3, <1>5, <1>6, <1>7 DEF PoolEffect

(***************************************************************************)
(* Violations and penalties.                                               *)
(***************************************************************************)

IsDenial(e, a) == e.agent = a /\ e.decision = "blocked_scope"

Denied(a) == \E e \in Events : log' = Append(log, e) /\ IsDenial(e, a)

NotDenied(a) ==
  UNCHANGED log \/ \E e \in Events : log' = Append(log, e) /\ ~IsDenial(e, a)

\* What a step does to the entry of an agent: it is gone, it is kept, with its penalty
\* or a greater one, a denial is counted, a fresh presentation restores it, or a call
\* that was waiting for the lock stores a new one.
EntryEffect(a) ==
  \/ cache'[a] = Absent
  \/ /\ cache[a] # Absent /\ cache'[a].since = cache[a].since
     /\ cache'[a].penalty >= cache[a].penalty
     /\ \/ cache'[a].violations = cache[a].violations /\ NotDenied(a)
        \/ cache'[a].violations = cache[a].violations + 1 /\ Denied(a)
  \/ /\ cache[a] # Absent /\ Fresh(cache[a], cache'[a].vp)
     /\ cache'[a].penalty >= cache[a].penalty - 20
     /\ cache'[a].violations = 0 /\ cache'[a].since = Len(log) /\ NotDenied(a)
  \/ /\ cache'[a].violations = 0 /\ cache'[a].since = Len(log) /\ NotDenied(a)
     /\ \E r \in Calls : loop = r /\ call[r].agent = a

CacheEffect == CacheType' /\ \A a \in Agents : EntryEffect(a)

\* An entry that a step does not touch.
LEMMA Untouched ==
  ASSUME CacheType, NEW a \in Agents, cache'[a] = cache[a], NotDenied(a)
  PROVE  EntryEffect(a)
<1>1. CASE cache[a] = Absent
  BY <1>1 DEF EntryEffect
<1>2. CASE cache[a] # Absent
  <2>1. cache[a] \in Entry
    BY <1>2 DEF CacheType
  <2>2. cache[a].penalty \in Nat
    BY <2>1 DEF Entry
  <2> QED
    BY <1>2, <2>2 DEF EntryEffect
<1> QED
  BY <1>1, <1>2

\* An event that is no denial for want of scope.
LEMMA OtherEvent ==
  ASSUME NEW r \in Calls, NEW b \in Agents \cup {None}, NEW d \in Decisions \ {"blocked_scope"},
         NEW x \in {None} \cup {y.reason : y \in Auths}, log' = Append(log, Event(r, b, d, x))
  PROVE  \A a \in Agents : NotDenied(a)
<1>1. Event(r, b, d, x) \in Events /\ Event(r, b, d, x).decision # "blocked_scope"
  BY DEF Event, Events
<1> QED
  BY <1>1 DEF NotDenied, IsDenial

\* What is in the cache after an evaluation.
LEMMA DecidedCache ==
  ASSUME CacheType, now \in Nat, NEW r \in Calls, call[r].agent \in Agents,
         NEW entry \in Entry, NEW tool \in Tools \cup {Absent}, Decided(r, entry, tool)
  PROVE  /\ \A a \in Agents : NotDenied(a)
         /\ \E f \in Entry \cup {Absent} :
              /\ cache' = [cache EXCEPT ![call[r].agent] = f]
              /\ f # Absent => /\ f.penalty = entry.penalty /\ f.violations = entry.violations
                               /\ f.since = entry.since /\ f.vp = entry.vp
<1> DEFINE b == call[r].agent
           f == Counted(entry, tool)
<1>1. \/ \E d \in {"blocked_trust", "step_up"} :
           cache' = [cache EXCEPT ![b] = f] /\ log' = Append(log, Event(r, b, d, None))
      \/ cache' = [cache EXCEPT ![b] = entry] /\ UNCHANGED log
  BY DEF Decided, Deny
<1>2. f \in Entry \cup {Absent}
      /\ (f # Absent => /\ f.penalty = entry.penalty /\ f.violations = entry.violations
                        /\ f.since = entry.since /\ f.vp = entry.vp)
  <2>1. CASE entry = Absent
    BY <2>1, CountedType
  <2>2. CASE entry # Absent
    BY <2>2, CountedType
  <2> QED
    BY <2>1, <2>2
<1> HIDE DEF f
<1>3. CASE cache' = [cache EXCEPT ![b] = entry] /\ UNCHANGED log
  BY <1>3 DEF NotDenied
<1>4. ASSUME NEW d \in {"blocked_trust", "step_up"},
             cache' = [cache EXCEPT ![b] = f], log' = Append(log, Event(r, b, d, None))
      PROVE  \A a \in Agents : NotDenied(a)
  <2>1. d \in Decisions \ {"blocked_scope"}
    BY DEF Decisions
  <2> QED
    BY <1>4, <2>1, OtherEvent
<1>5. CASE \E d \in {"blocked_trust", "step_up"} :
             cache' = [cache EXCEPT ![b] = f] /\ log' = Append(log, Event(r, b, d, None))
  BY <1>2, <1>4, <1>5
<1> QED
  BY <1>1, <1>3, <1>5

\* What an evaluation of a live entry does to the cache.
LEMMA EvaluateHitCache ==
  ASSUME CallInv, CacheType, LogInv, NEW r \in Calls, NEW tool \in Tools \cup {Absent},
         EvaluateHit(r, tool)
  PROVE  CacheEffect
<1> DEFINE b == call[r].agent
           e == cache[b]
           vp == call[r].vp
           from == Len(log)
           entry == Evaluated(e, tool, vp, from)
<1>1. call[r].pc \in Working /\ Live(e) /\ Decided(r, entry, tool)
  BY DEF EvaluateHit, Working
<1>2. b \in Agents /\ vp \in Vps /\ now \in Nat /\ from \in Nat
  BY <1>1, AtWork DEF CallInv, LogInv
<1>3. e \in Entry /\ e # Absent
  BY <1>1, <1>2 DEF CacheType, Live
<1> HIDE DEF e, vp, from
<1>4. /\ entry \in Entry
      /\ Fresh(e, vp) => /\ entry.penalty >= e.penalty - 20 /\ entry.vp = vp
                         /\ entry.violations = 0 /\ entry.since = from
      /\ ~Fresh(e, vp) => /\ entry.penalty >= e.penalty
                          /\ entry.violations = e.violations /\ entry.since = e.since
  BY <1>2, <1>3, EvaluatedType
<1> HIDE DEF entry
<1>5. /\ \A a \in Agents : NotDenied(a)
      /\ \E f \in Entry \cup {Absent} :
           /\ cache' = [cache EXCEPT ![b] = f]
           /\ f # Absent => /\ f.penalty = entry.penalty /\ f.violations = entry.violations
                            /\ f.since = entry.since /\ f.vp = entry.vp
  BY <1>1, <1>2, <1>4, DecidedCache
<1>6. PICK f \in Entry \cup {Absent} :
           /\ cache' = [cache EXCEPT ![b] = f]
           /\ f # Absent => /\ f.penalty = entry.penalty /\ f.violations = entry.violations
                            /\ f.since = entry.since /\ f.vp = entry.vp
  BY <1>5
<1>7. cache' \in [Agents -> Entry \cup {Absent}] /\ cache'[b] = f
      /\ \A a \in Agents : a # b => cache'[a] = cache[a]
  BY <1>2, <1>6 DEF CacheType
<1>8. EntryEffect(b)
  <2>1. CASE f = Absent
    BY <1>7, <2>1 DEF EntryEffect
  <2>2. CASE f # Absent /\ Fresh(e, vp)
    BY <1>2, <1>3, <1>4, <1>5, <1>6, <1>7, <2>2 DEF EntryEffect, e, from
  <2>3. CASE f # Absent /\ ~Fresh(e, vp)
    BY <1>2, <1>3, <1>4, <1>5, <1>6, <1>7, <2>3 DEF EntryEffect, e
  <2> QED
    BY <2>1, <2>2, <2>3
<1> QED
  BY <1>5, <1>7, <1>8, Untouched DEF CacheEffect, CacheType

\* What storing a new entry does to it.
LEMMA StoreCache ==
  ASSUME CallInv, CacheType, LogInv, NEW r \in Calls, Store(r)
  PROVE  CacheEffect
<1> DEFINE auth == call[r].auth
           b == call[r].agent
           vp == call[r].vp
           from == Len(log)
           tool == call[r].tool
           entry == NewEntry(InstantScore(auth.ok, auth.depth, auth.blended), vp, from)
<1>1. call[r].pc = "storing" /\ Decided(r, entry, tool)
  BY DEF Store
<1>2. call[r].pc \in Working /\ loop = r
  BY <1>1 DEF Working, CallInv
<1>3. /\ b \in Agents /\ vp \in Vps /\ now \in Nat /\ from \in Nat /\ tool \in Tools \cup {Absent}
      /\ call[r] \in CallRecord /\ Authentic(call[r])
  BY <1>2, AtWork DEF CallInv, LogInv, CallRecord
<1>4. auth.ok = TRUE /\ auth.depth \in Nat /\ auth.blended \in BOOLEAN
  BY <1>3, AuthenticCall
<1> HIDE DEF auth, vp, from, tool
<1>5. entry \in Entry /\ entry.violations = 0 /\ entry.since = from
  BY <1>3, <1>4, NewEntryType
<1> HIDE DEF entry
<1>6. /\ \A a \in Agents : NotDenied(a)
      /\ \E f \in Entry \cup {Absent} :
           /\ cache' = [cache EXCEPT ![b] = f]
           /\ f # Absent => /\ f.penalty = entry.penalty /\ f.violations = entry.violations
                            /\ f.since = entry.since /\ f.vp = entry.vp
  BY <1>1, <1>3, <1>5, DecidedCache
<1>7. PICK f \in Entry \cup {Absent} :
           /\ cache' = [cache EXCEPT ![b] = f]
           /\ f # Absent => f.violations = entry.violations /\ f.since = entry.since
  BY <1>6
<1>8. cache' \in [Agents -> Entry \cup {Absent}] /\ cache'[b] = f
      /\ \A a \in Agents : a # b => cache'[a] = cache[a]
  BY <1>3, <1>7 DEF CacheType
<1>9. EntryEffect(b)
  BY <1>2, <1>3, <1>5, <1>6, <1>7, <1>8 DEF EntryEffect, from
<1> QED
  BY <1>6, <1>8, <1>9, Untouched DEF CacheEffect, CacheType

\* A denied call counts as a violation of the entry, if the agent has one.
LEMMA DenyScopeCache ==
  ASSUME CallInv, CacheType, LogInv, NEW r \in Calls, NEW tool \in Tools \cup {Absent},
         DenyScope(r, tool)
  PROVE  CacheEffect
<1> DEFINE b == call[r].agent
           x == Violated(cache[b])
           f == Counted(x, tool)
           e == Event(r, b, "blocked_scope", None)
<1>1. call[r].pc \in Working /\ cache' = [cache EXCEPT ![b] = f] /\ log' = Append(log, e)
  BY DEF DenyScope, Deny, Working
<1>2. b \in Agents /\ now \in Nat
  BY <1>1, AtWork DEF CallInv
<1>3. cache[b] \in Entry \cup {Absent}
  BY <1>2 DEF CacheType
<1>4. /\ x \in Entry \cup {Absent} /\ (cache[b] = Absent => x = Absent)
      /\ cache[b] # Absent => x \in Entry /\ x.penalty = cache[b].penalty
                              /\ x.violations = cache[b].violations + 1
                              /\ x.since = cache[b].since
  BY <1>3, ViolatedType
<1> HIDE DEF x
<1>5. /\ f \in Entry \cup {Absent} /\ (x = Absent => f = Absent)
      /\ x # Absent => f.penalty = x.penalty /\ f.violations = x.violations /\ f.since = x.since
  BY <1>2, <1>4, CountedType
<1> HIDE DEF f
<1>6. e \in Events /\ IsDenial(e, b) /\ \A a \in Agents : a # b => ~IsDenial(e, a)
  BY <1>2 DEF Event, Events, Decisions, IsDenial
<1> HIDE DEF e
<1>7. Denied(b) /\ \A a \in Agents : a # b => NotDenied(a)
  BY <1>1, <1>6 DEF Denied, NotDenied
<1>8. cache' \in [Agents -> Entry \cup {Absent}] /\ cache'[b] = f
      /\ \A a \in Agents : a # b => cache'[a] = cache[a]
  BY <1>1, <1>2, <1>5 DEF CacheType
<1>9. EntryEffect(b)
  <2>1. CASE f = Absent
    BY <1>8, <2>1 DEF EntryEffect
  <2>2. CASE f # Absent
    <3>1. x # Absent /\ cache[b] # Absent
      BY <1>4, <1>5, <2>2
    <3>2. cache[b].penalty \in Nat
      BY <1>3, <3>1 DEF Entry
    <3> QED
      BY <1>4, <1>5, <1>7, <1>8, <3>1, <3>2 DEF EntryEffect
  <2> QED
    BY <2>1, <2>2
<1> QED
  BY <1>7, <1>8, <1>9, Untouched DEF CacheEffect, CacheType

\* A forwarded call that is answered counts as a request and nothing else.
LEMMA ForwardedCache ==
  ASSUME CallInv, CacheType, LogInv, NEW r \in Calls, Forwarded(r)
  PROVE  CacheEffect
<1> DEFINE b == call[r].agent
           x == cache[b]
           tool == call[r].tool
           f == Counted(x, tool)
<1>1. call[r].pc \in Working /\ log' = Append(log, Event(r, b, "allowed", None))
  BY DEF Forwarded, Working
<1>2. b \in Agents /\ now \in Nat /\ tool \in Tools \cup {Absent}
  BY <1>1, AtWork DEF CallInv, CallRecord
<1>3. x \in Entry \cup {Absent} /\ cache' = [cache EXCEPT ![b] = f]
  BY <1>2 DEF CacheType, Forwarded
<1> HIDE DEF tool
<1>5. /\ f \in Entry \cup {Absent} /\ (x = Absent => f = Absent)
      /\ x # Absent => f.penalty = x.penalty /\ f.violations = x.violations /\ f.since = x.since
  BY <1>2, <1>3, CountedType
<1> HIDE DEF f
<1>6. \A a \in Agents : NotDenied(a)
  <2>1. "allowed" \in Decisions \ {"blocked_scope"}
    BY DEF Decisions
  <2> QED
    BY <1>1, <1>2, <2>1, OtherEvent
<1>8. cache' \in [Agents -> Entry \cup {Absent}] /\ cache'[b] = f
      /\ \A a \in Agents : a # b => cache'[a] = cache[a]
  BY <1>2, <1>3, <1>5 DEF CacheType
<1>9. EntryEffect(b)
  <2>1. CASE f = Absent
    BY <1>8, <2>1 DEF EntryEffect
  <2>2. CASE f # Absent
    <3>1. x # Absent
      BY <1>5, <2>2
    <3>2. x.penalty \in Nat
      BY <1>3, <3>1 DEF Entry
    <3> QED
      BY <1>2, <1>5, <1>6, <1>8, <3>1, <3>2 DEF EntryEffect
  <2> QED
    BY <2>1, <2>2
<1> QED
  BY <1>6, <1>8, <1>9, Untouched DEF CacheEffect, CacheType

\* A full score forgives nothing.
LEMMA RefreshedCache ==
  ASSUME CallInv, CacheType, NEW b \in Agents, NEW score \in FullScores, Refreshed(b, score),
         UNCHANGED log
  PROVE  CacheEffect
<1> DEFINE x == cache[b]
           f == IF x = Absent THEN Absent ELSE WithFullScore(x, score)
<1>1. now \in Nat /\ x \in Entry \cup {Absent} /\ cache' = [cache EXCEPT ![b] = f]
  BY DEF CallInv, CacheType, Refreshed
<1>2. /\ f \in Entry \cup {Absent} /\ (x = Absent => f = Absent)
      /\ x # Absent => f.penalty = x.penalty /\ f.violations = x.violations /\ f.since = x.since
  BY <1>1, WithFullScoreType
<1> HIDE DEF f
<1>3. \A a \in Agents : NotDenied(a)
  BY DEF NotDenied
<1>4. cache' \in [Agents -> Entry \cup {Absent}] /\ cache'[b] = f
      /\ \A a \in Agents : a # b => cache'[a] = cache[a]
  BY <1>1, <1>2 DEF CacheType
<1>5. EntryEffect(b)
  <2>1. CASE f = Absent
    BY <1>4, <2>1 DEF EntryEffect
  <2>2. CASE f # Absent
    <3>1. x # Absent
      BY <1>2, <2>2
    <3>2. x.penalty \in Nat
      BY <1>1, <3>1 DEF Entry
    <3> QED
      BY <1>2, <1>3, <1>4, <3>1, <3>2 DEF EntryEffect
  <2> QED
    BY <2>1, <2>2
<1> QED
  BY <1>3, <1>4, <1>5, Untouched DEF CacheEffect, CacheType

\* Steps that leave the cache alone, and log no denial.
LEMMA CacheUntouched ==
  ASSUME CacheType, cache' = cache, \A a \in Agents : NotDenied(a)
  PROVE  CacheEffect
BY Untouched DEF CacheEffect, CacheType

\* A refusal leaves the cache alone.
LEMMA RefuseCache ==
  ASSUME CallInv, CacheType, NEW r \in Calls, NEW v \in Vps \cup {None},
         NEW readable \in BOOLEAN, Refuse(r, v, readable)
  PROVE  CacheEffect
<1> DEFINE dead == Reported(readable)
           auth == VerifyRequest(v, now, dead)
<1>1. dead \in SUBSET Listed /\ now \in 0..MaxTime
  BY ReportedType DEF CallInv
<1>2. Answers[<<v, now, dead>>] = auth
  BY <1>1, AnswerIs
<1> HIDE DEF dead
<1>3. ~auth.ok /\ log' = Append(log, Event(r, auth.agent, "blocked_auth", auth.reason))
      /\ cache' = cache
  BY <1>2 DEF Refuse, trustVars, dead
<1>4. auth.agent = None
  BY <1>3, RefusedAgent
<1>5. auth \in Auths
  BY <1>1 DEF Auths
<1> HIDE DEF auth
<1>6. "blocked_auth" \in Decisions \ {"blocked_scope"}
      /\ auth.reason \in {None} \cup {y.reason : y \in Auths} /\ auth.agent \in Agents \cup {None}
  BY <1>4, <1>5 DEF Decisions
<1>7. \A a \in Agents : NotDenied(a)
  BY <1>3, <1>6, OtherEvent
<1> QED
  BY <1>3, <1>7, CacheUntouched

\* Every step has one of these effects on each entry.
LEMMA StepCacheEffect ==
  ASSUME CallInv, CacheType, LogInv, [Next]_gatewayVars
  PROVE  CacheEffect
<1>0. UNCHANGED log => \A a \in Agents : NotDenied(a)
  BY DEF NotDenied
<1>1. ASSUME NEW r \in Calls, Handle(r) PROVE CacheEffect
  <2>1. CASE BodyFails(r) \/ \E tool \in Tools \cup {Absent} : EvaluateMiss(r, tool)
    BY <1>0, <2>1, CacheUntouched DEF EvaluateMiss, BodyFails, trustVars
  <2> QED
    BY <1>1, <2>1, DenyScopeCache, EvaluateHitCache, StoreCache, ForwardedCache DEF Handle
<1>2. ASSUME NEW r \in Calls, NEW v \in Vps \cup {None}, NEW readable \in BOOLEAN,
             Refuse(r, v, readable) \/ Authenticate(r, v, readable)
      PROVE  CacheEffect
  BY <1>0, <1>2, RefuseCache, CacheUntouched DEF Authenticate, trustVars
<1>3. ASSUME NEW a \in Embedded, InvalidateEntry(a) PROVE CacheEffect
  <2>1. a \in Agents /\ cache' = [cache EXCEPT ![a] = Absent] /\ UNCHANGED log
    BY <1>3, Assumptions DEF InvalidateEntry, Invalidate
  <2>2. /\ cache' \in [Agents -> Entry \cup {Absent}] /\ cache'[a] = Absent
        /\ \A b \in Agents : b # a => cache'[b] = cache[b]
    BY <2>1 DEF CacheType
  <2>3. EntryEffect(a)
    BY <2>2 DEF EntryEffect
  <2> QED
    BY <1>0, <2>1, <2>2, <2>3, Untouched DEF CacheEffect, CacheType
<1>4. CASE \E a \in Embedded : RequestRefresh(a)
  BY <1>0, <1>4, CacheUntouched DEF RequestRefresh
<1>5. ASSUME NEW a \in Agents, Refresh(a), Around PROVE CacheEffect
  <2>1. UNCHANGED log
    BY <1>5 DEF Around
  <2>2. CASE StartRefresh(a) \/ RefreshFails(a) \/ RetryRefresh(a) \/ DropMarker(a)
    BY <1>0, <2>1, <2>2, CacheUntouched DEF StartRefresh, RefreshFails, RetryRefresh, DropMarker
  <2> QED
    BY <1>5, <2>1, <2>2, RefreshedCache DEF Refresh
<1>6. CASE (\E c \in Creds : Revoke(c)) \/ Shutdown \/ (Tick /\ Around) \/ UNCHANGED gatewayVars
  BY <1>0, <1>6, CacheUntouched DEF Revoke, Shutdown, Close, Tick, Around, gatewayVars, trustVars
<1> QED
  BY <1>1, <1>2, <1>3, <1>4, <1>5, <1>6 DEF Next

\* The denials of an agent are finite, and none are counted from the end of the log on.
LEMMA DenialsFinite ==
  ASSUME LogInv, NEW a, NEW n
  PROVE  /\ IsFiniteSet(DenialsSince(a, n)) /\ Cardinality(DenialsSince(a, n)) \in Nat
         /\ n = Len(log) => DenialsSince(a, n) = {}
<1>1. Len(log) \in Nat /\ DOMAIN log = 1..Len(log)
  BY DEF LogInv
<1>2. IsFiniteSet(DOMAIN log)
  BY <1>1, FS_Interval
<1>3. IsFiniteSet(DenialsSince(a, n)) /\ Cardinality(DenialsSince(a, n)) \in Nat
  BY <1>2, FS_Subset, FS_CardinalityType DEF DenialsSince
<1>4. n = Len(log) => DenialsSince(a, n) = {}
  BY <1>1 DEF DenialsSince
<1> QED
  BY <1>3, <1>4

\* An event changes the denials of an agent if it is one.
LEMMA DenialsStep ==
  ASSUME LogInv, NEW a \in Agents, NEW n \in Nat, n <= Len(log)
  PROVE  /\ NotDenied(a) => DenialsSince(a, n)' = DenialsSince(a, n) /\ Len(log) <= Len(log')
         /\ Denied(a) => /\ Cardinality(DenialsSince(a, n)') = Cardinality(DenialsSince(a, n)) + 1
                         /\ Len(log) <= Len(log')
<1>0. log \in Seq(Events) /\ Len(log) \in Nat
  BY DEF LogInv
<1>1. UNCHANGED log => DenialsSince(a, n)' = DenialsSince(a, n) /\ Len(log) <= Len(log')
  BY <1>0 DEF DenialsSince
<1>2. ASSUME NEW e \in Events, log' = Append(log, e)
      PROVE  /\ Len(log) <= Len(log')
             /\ DenialsSince(a, n)' = IF IsDenial(e, a) THEN DenialsSince(a, n) \cup {Len(log) + 1}
                                      ELSE DenialsSince(a, n)
             /\ Len(log) + 1 \notin DenialsSince(a, n)
  <2> DEFINE k == Len(log) + 1
  <2>1. /\ DOMAIN log' = DOMAIN log \cup {k} /\ k \notin DOMAIN log /\ log'[k] = e
        /\ \A i \in DOMAIN log : log'[i] = log[i]
        /\ Len(log') = k /\ DOMAIN log = 1..Len(log)
    BY <1>0, <1>2, LongerLog
  <2>2. k > n /\ Len(log) <= k
    BY <1>0
  <2> HIDE DEF k
  <2>3. DenialsSince(a, n)' = IF IsDenial(e, a) THEN DenialsSince(a, n) \cup {k}
                                      ELSE DenialsSince(a, n)
    <3>1. DenialsSince(a, n)' =
            {i \in DOMAIN log' : i > n /\ log'[i].agent = a /\ log'[i].decision = "blocked_scope"}
      BY DEF DenialsSince
    <3>2. CASE IsDenial(e, a)
      BY <2>1, <2>2, <3>1, <3>2 DEF DenialsSince, IsDenial
    <3>3. CASE ~IsDenial(e, a)
      BY <2>1, <2>2, <3>1, <3>3 DEF DenialsSince, IsDenial
    <3> QED
      BY <3>2, <3>3
  <2>4. k \notin DenialsSince(a, n)
    BY <2>1 DEF DenialsSince
  <2> QED
    BY <2>1, <2>2, <2>3, <2>4 DEF k
<1>4. ASSUME Denied(a)
      PROVE  /\ Cardinality(DenialsSince(a, n)') = Cardinality(DenialsSince(a, n)) + 1
             /\ Len(log) <= Len(log')
  <2>1. PICK e \in Events : log' = Append(log, e) /\ IsDenial(e, a)
    BY <1>4 DEF Denied
  <2>2. /\ Len(log) <= Len(log') /\ DenialsSince(a, n)' = DenialsSince(a, n) \cup {Len(log) + 1}
        /\ Len(log) + 1 \notin DenialsSince(a, n)
    BY <1>2, <2>1
  <2>3. IsFiniteSet(DenialsSince(a, n))
    BY DenialsFinite
  <2> QED
    BY <2>2, <2>3, FS_AddElement
<1>5. NotDenied(a) => DenialsSince(a, n)' = DenialsSince(a, n) /\ Len(log) <= Len(log')
  <2>1. CASE \E e \in Events : log' = Append(log, e) /\ ~IsDenial(e, a)
    BY <1>2, <2>1
  <2> QED
    BY <1>0, <1>1, <2>1 DEF NotDenied
<1> QED
  BY <1>4, <1>5

\* An entry goes on counting the denials since it was made or restored.
LEMMA CacheStep ==
  ASSUME CacheInv, LogInv, LogInv', CacheEffect
  PROVE  CacheInv'
<1> SUFFICES ASSUME NEW a \in Agents, cache'[a] # Absent
             PROVE  /\ cache'[a].since <= Len(log')
                    /\ cache'[a].violations = Cardinality(DenialsSince(a, cache[a].since))'
  BY DEF CacheInv, CacheEffect
<1>1. EntryEffect(a) /\ Len(log) \in Nat /\ Len(log') \in Nat
  BY DEF CacheEffect, LogInv
<1>2. PICK m \in Nat : m = cache'[a].since
  BY DEF CacheEffect, CacheType, Entry
<1>3. DenialsSince(a, cache[a].since)' = DenialsSince(a, m)'
  BY <1>2 DEF DenialsSince
<1>4. CASE /\ cache[a] # Absent /\ cache'[a].since = cache[a].since
           /\ \/ cache'[a].violations = cache[a].violations /\ NotDenied(a)
              \/ cache'[a].violations = cache[a].violations + 1 /\ Denied(a)
  <2>1. m <= Len(log) /\ cache[a].violations = Cardinality(DenialsSince(a, m))
    BY <1>2, <1>4 DEF CacheInv
  <2>2. /\ NotDenied(a) => DenialsSince(a, m)' = DenialsSince(a, m) /\ Len(log) <= Len(log')
        /\ Denied(a) => /\ Cardinality(DenialsSince(a, m)') = Cardinality(DenialsSince(a, m)) + 1
                        /\ Len(log) <= Len(log')
    BY <2>1, DenialsStep
  <2> QED
    BY <1>1, <1>2, <1>3, <1>4, <2>1, <2>2
<1>5. CASE cache'[a].violations = 0 /\ cache'[a].since = Len(log) /\ NotDenied(a)
  <2>1. m <= Len(log) /\ DenialsSince(a, m) = {}
    BY <1>1, <1>2, <1>5, DenialsFinite
  <2>2. DenialsSince(a, m)' = DenialsSince(a, m) /\ Len(log) <= Len(log')
    BY <1>5, <2>1, DenialsStep
  <2>3. Cardinality({}) = 0
    BY FS_EmptySet
  <2> QED
    BY <1>1, <1>2, <1>3, <1>5, <2>1, <2>2, <2>3
<1> QED
  BY <1>1, <1>4, <1>5 DEF EntryEffect

(***************************************************************************)
(* The strengthening is an invariant.                                      *)
(***************************************************************************)
LEMMA InitInv == Init => GatewayInv
<1> SUFFICES ASSUME Init PROVE GatewayInv
  OBVIOUS
<1>1. /\ now = 0 /\ cache = [a \in Agents |-> Absent] /\ inflight = {} /\ queue = <<>>
      /\ pool = [a \in Agents |-> Absent] /\ revoked = {} /\ call = [r \in Calls |-> NewCall]
      /\ loop = None /\ known = [a \in Agents |-> 0] /\ shadows = <<>> /\ log = <<>>
  BY DEF Init, TrustInit
<1>2. NewCall \in SoundCall /\ NewCall.pc = "new" /\ NewCall.agent = None
  <2>1. Refusal(None) \in Auths
    BY DEF Auths
  <2>2. NewCall \in CallRecord /\ NewCall.pc = "new" /\ NewCall.agent = None
    BY <2>1 DEF NewCall, CallRecord
  <2> QED
    BY <2>2 DEF SoundCall, Working
<1>3. CallInv
  BY <1>1, <1>2, Assumptions DEF CallInv
<1>4. PoolInv
  <2>1. Running = {} /\ Queued = {}
    BY <1>1 DEF Running, Queued
  <2>2. Cardinality({}) = 0
    BY FS_EmptySet
  <2> QED
    BY <1>1, <2>1, <2>2, Assumptions DEF PoolInv
<1>5. DOMAIN log = {} /\ Len(log) = 0
  BY <1>1
<1>6. LogInv
  BY <1>1, <1>2, <1>5 DEF LogInv
<1>7. KnownInv
  <2>1. \A a \in Agents : CallsOf(a) = {}
    BY <1>1, <1>2, Assumptions DEF CallsOf
  <2> QED
    BY <1>1, <2>1, FS_EmptySet DEF KnownInv
<1>8. ShadowInv
  <2>1. Refused = {}
    BY <1>5 DEF Refused
  <2> QED
    BY <1>1, <2>1, FS_EmptySet DEF ShadowInv
<1>9. CacheInv
  BY <1>1 DEF CacheInv, CacheType
<1> QED
  BY <1>3, <1>4, <1>6, <1>7, <1>8, <1>9 DEF GatewayInv

\* Every step keeps the strengthening.
LEMMA StepInv == GatewayInv /\ [Next]_gatewayVars => GatewayInv'
<1> SUFFICES ASSUME GatewayInv, [Next]_gatewayVars PROVE GatewayInv'
  OBVIOUS
<1>1. CallInv /\ PoolInv /\ LogInv /\ KnownInv /\ ShadowInv /\ CacheInv /\ CacheType
  BY DEF GatewayInv, CacheInv
<1>2. Effect
  BY <1>1, StepEffect
<1>3. CallInv' /\ LogInv' /\ KnownInv' /\ ShadowInv'
  BY <1>1, <1>2, CallStep, LogStep, KnownStep, ShadowStep
<1>4. PoolInv'
  BY <1>1, StepPoolEffect, PoolStep
<1>5. CacheInv'
  BY <1>1, <1>3, StepCacheEffect, CacheStep
<1> QED
  BY <1>3, <1>4, <1>5 DEF GatewayInv

\* The strengthening is an invariant of the gateway.
LEMMA Strengthened == Spec => []GatewayInv
BY InitInv, StepInv, PTL DEF Spec

(***************************************************************************)
(* The theorems.                                                           *)
(***************************************************************************)

\* An agent in the log is known.
LEMMA LoggedIsKnown ==
  ASSUME GatewayInv, NEW i \in DOMAIN log, NEW a \in Agents, log[i].agent = a
  PROVE  known[a] > 0
<1>1. log \in Seq(Events) /\ call[log[i].call].agent = a
  BY DEF GatewayInv, LogInv
<1>2. log[i].call \in Calls
  <2>1. log[i] \in Events
    BY <1>1
  <2> QED
    BY <2>1 DEF Events
<1>3. log[i].call \in CallsOf(a)
  BY <1>1, <1>2 DEF CallsOf
<1>4. IsFiniteSet(CallsOf(a)) /\ known[a] = Cardinality(CallsOf(a)) /\ known[a] \in Nat
  BY DEF GatewayInv, KnownInv
<1> QED
  BY <1>3, <1>4, FS_EmptySet

\* The log, the inventory and the trust cache of the gateway agree, however calls,
\* refreshes, revocations and the code around the gateway interleave.
THEOREM Records == Spec => []RecordsAreSound
<1>1. GatewayInv => RecordsAreSound
  <2> SUFFICES ASSUME GatewayInv PROVE RecordsAreSound
    OBVIOUS
  <2>1. CallInv /\ PoolInv /\ LogInv /\ KnownInv /\ ShadowInv /\ CacheInv
    BY DEF GatewayInv
  <2>2. TypeOK
    <3>1. Listed \subseteq Creds
      BY DEF Listed
    <3>2. {r \in Calls : call[r].pc = "storing"} = {loop} \ {None}
      BY <2>1, Assumptions DEF CallInv
    <3>3. /\ inflight = Running \cup {queue[n] : n \in DOMAIN queue}
          /\ Cardinality(Running) <= Workers
      BY <2>1 DEF PoolInv, Queued
    <3> QED
      BY <2>1, <3>1, <3>2, <3>3 DEF TypeOK, CallInv, KnownInv, CacheInv, CacheType
  <2>3. ASSUME NEW r \in Calls
        PROVE  Cardinality(EventsOf(r)) = IF call[r].pc = "ended" THEN 1 ELSE 0
    <3>1. CASE call[r].pc = "ended"
      <4>1. PICK i \in DOMAIN log : log[i].call = r
        BY <2>1, <3>1 DEF LogInv
      <4>2. EventsOf(r) = {i}
        BY <2>1, <4>1 DEF EventsOf, LogInv
      <4> QED
        BY <3>1, <4>2, FS_Singleton
    <3>2. CASE call[r].pc # "ended"
      <4>1. EventsOf(r) = {}
        BY <2>1, <3>2 DEF EventsOf, LogInv
      <4> QED
        BY <3>2, <4>1, FS_EmptySet
    <3> QED
      BY <3>1, <3>2
  <2>4. RecordsAgree
    BY <2>1, <2>3 DEF RecordsAgree, KnownInv, CallsOf, CacheInv, ShadowInv, Refused
  <2> QED
    BY <2>2, <2>4 DEF RecordsAreSound
<1> QED
  BY <1>1, Strengthened, PTL

\* A call that is being forwarded was authorised by every link of the delegation behind
\* it, whatever was revoked while it waited.
THEOREM Authorized == Spec => []ForwardedWasAuthorized
<1>1. GatewayInv => ForwardedWasAuthorized
  <2> SUFFICES ASSUME GatewayInv, NEW r \in Calls, call[r].pc = "forwarding",
                      NEW i \in 1..Len(Paths[call[r].vp])
               PROVE  LET path == Paths[call[r].vp] IN
                      /\ FailClosed => path[i] \notin call[r].dead
                      /\ call[r].tool # Absent =>
                           \/ ScopeOf(path[i]).actions = {}
                           \/ Required[call[r].tool] \in ScopeOf(path[i]).actions
    BY DEF ForwardedWasAuthorized
  <2> DEFINE c == call[r]
             d == DelegationOf(c.vp)
             path == PathTo(d)
  <2>1. /\ c \in CallRecord /\ c.vp \in Vps /\ Authentic(c) /\ c.dead \subseteq Listed
        /\ c.tool # Absent => Required[c.tool] \in c.auth.scope.actions
    BY DEF GatewayInv, CallInv, SoundCall, CallRecord, Working
  <2> HIDE DEF c
  <2>2. PICK at \in 0..MaxTime, dead \in SUBSET Listed :
          /\ c.auth = VerifyRequest(c.vp, at, dead) /\ c.auth.ok
          /\ FailClosed => c.dead \subseteq dead
    BY <2>1 DEF Authentic
  <2>3. d \in Creds /\ ChainFault(d, at, dead) = None
    BY <2>1, <2>2, Verified
  <2>4. d # None
    BY <2>3, PresentationAssumption
  <2>5. Paths[c.vp] = path
    BY <2>1, <2>4 DEF Paths
  <2>6. i \in 1..Len(path)
    BY <2>5 DEF c
  <2>7. VcFault(path[i], at, dead) = None
    BY <2>3, <2>6, NoFault
  <2>8. "revoked" # None /\ "signature" # None
    BY PresentationAssumption DEF Faults
  <2>9. ~(Cred[path[i]].listed /\ path[i] \in dead)
    BY <2>7, <2>8 DEF VcFault
  <2>10. FailClosed => path[i] \notin c.dead
    BY <2>1, <2>2, <2>9 DEF Listed
  <2>11. c.auth.scope = EffectiveScope(d)
    BY <2>1, AuthenticCall
  <2>12. c.tool # Absent => \/ ScopeOf(path[i]).actions = {}
                            \/ Required[c.tool] \in ScopeOf(path[i]).actions
    BY <2>1, <2>3, <2>6, <2>11, EffectiveActions
  <2> QED
    BY <2>5, <2>10, <2>12 DEF c
<1> QED
  BY <1>1, Strengthened, PTL

\* The two verifiers of the SDK agree about every presentation.
THEOREM Verifiers == Spec => []VerifiersAgree
<1>1. Disagreements = {}
  <2> SUFFICES ASSUME NEW x \in Vps \X (0..MaxTime) \X SUBSET Listed,
                      Answers[x].ok, Answers[x].blended,
                      BlendedDelegation(x[1]) = First(Vp[x[1]].creds, IsDelegation)
               PROVE  VerifyBlended(x[1], x[2], x[3]) = Answers[x]
    BY DEF Disagreements
  <2>1. PICK v \in Vps, at \in 0..MaxTime, dead \in SUBSET Listed : x = <<v, at, dead>>
    OBVIOUS
  <2>2. x[1] = v /\ x[2] = at /\ x[3] = dead
    BY <2>1
  <2>3. Answers[x] = VerifyRequest(v, at, dead)
    BY <2>1, AnswerIs
  <2> DEFINE d == DelegationOf(v)
  <2>4. /\ d \in Creds /\ VpFault(v, at, dead) = None /\ ChainFault(d, at, dead) = None
        /\ VerifyRequest(v, at, dead) =
              [ok |-> TRUE, reason |-> None, agent |-> Vp[v].holder,
               delegator |-> IF DelegatorCredential(v, d) # None THEN RootDelegator(d) ELSE None,
               scope |-> EffectiveScope(d), blended |-> DelegatorCredential(v, d) # None,
               depth |-> Len(PathTo(d))]
    BY <2>3, Verified
  <2>5. DelegatorCredential(v, d) # None
    <3> DEFINE blended == DelegatorCredential(v, d) # None
    <3>1. VerifyRequest(v, at, dead).blended = blended
      <4> HIDE DEF d, blended
      <4> QED
        BY <2>4 DEF blended
    <3> QED
      BY <2>3, <3>1
  <2>6. BlendedDelegation(v) = d /\ d # None
    BY <2>2, <2>4, PresentationAssumption DEF DelegationOf
  <2> HIDE DEF d
  <2>7. VerifyBlended(v, at, dead) =
          [ok |-> TRUE, reason |-> None, agent |-> Vp[v].holder,
           delegator |-> RootDelegator(d), scope |-> EffectiveScope(d),
           blended |-> DelegatorCredential(v, d) # None, depth |-> Len(PathTo(d))]
    BY <2>4, <2>6 DEF VerifyBlended
  <2> QED
    BY <2>2, <2>3, <2>4, <2>5, <2>7
<1>2. VerifiersAgree
  BY <1>1 DEF VerifiersAgree
<1> QED
  BY <1>2, PTL

\* Penalties are forgiven for a fresh presentation and for age only.
THEOREM Penalties == Spec => PenaltyForgiven
<1>1. ASSUME GatewayInv, [Next]_gatewayVars, NEW a \in Agents,
             cache[a] # Absent, cache'[a] # Absent, cache'[a].penalty < cache[a].penalty
      PROVE  \/ Fresh(cache[a], cache'[a].vp) /\ cache'[a].penalty >= cache[a].penalty - 20
             \/ \E r \in Calls : loop = r /\ call[r].agent = a
  <2>1. CacheEffect /\ CacheType
    BY <1>1, StepCacheEffect DEF GatewayInv, CacheInv
  <2>2. cache[a].penalty \in Nat /\ cache'[a].penalty \in Nat
    BY <1>1, <2>1 DEF CacheEffect, CacheType, Entry
  <2>3. EntryEffect(a)
    BY <2>1 DEF CacheEffect
  <2> QED
    BY <1>1, <2>2, <2>3 DEF EntryEffect
<1>2. GatewayInv /\ [Next]_gatewayVars =>
        [\A a \in Agents :
           cache[a] # Absent /\ cache'[a] # Absent /\ cache'[a].penalty < cache[a].penalty =>
             \/ Fresh(cache[a], cache'[a].vp) /\ cache'[a].penalty >= cache[a].penalty - 20
             \/ \E r \in Calls : loop = r /\ call[r].agent = a]_gatewayVars
  BY <1>1
<1> QED
  BY <1>2, Strengthened, PTL DEF Spec, PenaltyForgiven

\* Events that a scan reads are events of the log.
LEMMA LastEventsType ==
  ASSUME log \in Seq(Events)
  PROVE  \E k \in Nat : \A i \in DOMAIN LastEvents :
           /\ i \in Nat /\ i + k \in DOMAIN log /\ LastEvents[i] = log[i + k]
<1> DEFINE m == IF Len(log) > ScanDepth THEN Len(log) - ScanDepth + 1 ELSE 1
           s == SubSeq(log, m, Len(log))
<1>1. Len(log) \in Nat /\ m \in 1..Len(log) + 1 /\ LastEvents = s
  BY DetectionAssumption DEF LastEvents
<1> HIDE DEF m
<1>2. DOMAIN s = 1..Len(log) - m + 1 /\ \A i \in 1..Len(log) - m + 1 : s[i] = log[m + i - 1]
  BY <1>1
<1> HIDE DEF s
<1>3. ASSUME NEW i \in DOMAIN s
      PROVE  i \in Nat /\ i + (m - 1) \in DOMAIN log /\ s[i] = log[i + (m - 1)]
  <2>1. i \in Nat /\ i + (m - 1) = m + i - 1 /\ i + (m - 1) \in 1..Len(log)
    BY <1>1, <1>2, <1>3
  <2>2. DOMAIN log = 1..Len(log)
    OBVIOUS
  <2> QED
    BY <1>2, <1>3, <2>1, <2>2
<1>4. m - 1 \in Nat
  BY <1>1
<1> QED
  BY <1>1, <1>3, <1>4

\* An agent that is said to have probed was denied as often as its entry says.
LEMMA ProbersWereDenied ==
  ASSUME GatewayInv, NEW a \in Agents, cache[a] # Absent
  PROVE  /\ Denials(a) \in Nat /\ cache[a].violations \in Nat /\ cache[a].violations <= Denials(a)
         /\ cache[a].violations > 0 => known[a] > 0
<1> DEFINE all == {i \in DOMAIN log : log[i].agent = a /\ log[i].decision = "blocked_scope"}
           later == DenialsSince(a, cache[a].since)
<1>1. LogInv /\ cache[a].violations = Cardinality(later)
  BY DEF GatewayInv, CacheInv
<1>2. IsFiniteSet(all)
  <2>1. Len(log) \in Nat /\ DOMAIN log = 1..Len(log)
    BY <1>1 DEF LogInv
  <2>2. IsFiniteSet(DOMAIN log)
    BY <2>1, FS_Interval
  <2> QED
    BY <2>2, FS_Subset
<1>3. later \in SUBSET all
  BY DEF DenialsSince
<1>4. Denials(a) = Cardinality(all)
  BY DEF Denials, HowMany
<1>5. \A i \in all : known[a] > 0
  BY LoggedIsKnown
<1> HIDE DEF all, later
<1>6. /\ Cardinality(later) \in Nat /\ Cardinality(all) \in Nat /\ IsFiniteSet(later)
      /\ Cardinality(later) <= Cardinality(all)
  BY <1>2, <1>3, FS_Subset, FS_CardinalityType
<1>7. Cardinality(later) > 0 => later # {}
  BY <1>6, FS_EmptySet
<1> QED
  BY <1>1, <1>3, <1>4, <1>5, <1>6, <1>7

\* A class of refusals is critical when there were as many.
LEMMA ShadowsWereRefused ==
  ASSUME GatewayInv, NEW x \in ShadowAlerts(LastEvents), x.severity = "critical",
         x.about # "untrusted"
  PROVE  Len(shadows) >= 3
<1> DEFINE hits(k) == {i \in DOMAIN LastEvents : /\ LastEvents[i].decision = "blocked_auth"
                                                 /\ Category(LastEvents[i].reason) = k}
<1>1. PICK k \in {"no_creds", "untrusted", "expired", "invalid", "other"} :
        x = Alert("shadow_agent",
                  IF k = "untrusted" \/ (k # "other" /\ Cardinality(hits(k)) >= 3)
                  THEN "critical" ELSE "warning", k)
  BY DEF ShadowAlerts, HowMany
<1>2. Cardinality(hits(k)) >= 3
  BY <1>1 DEF Alert
<1> DEFINE H == hits(k)
<1>3. log \in Seq(Events) /\ Len(shadows) = Cardinality(Refused)
  BY DEF GatewayInv, LogInv, ShadowInv
<1>4. PICK n \in Nat : \A i \in DOMAIN LastEvents :
           /\ i \in Nat /\ i + n \in DOMAIN log /\ LastEvents[i] = log[i + n]
  BY <1>3, LastEventsType
<1> DEFINE f == [i \in H |-> i + n]
<1>5. f \in Injection(H, Refused)
  <2>1. \A i \in H : i \in Nat /\ i + n \in Refused
    BY <1>4 DEF Refused
  <2> HIDE DEF H
  <2>2. f \in [H -> Refused]
    BY <2>1
  <2>3. \A i, j \in H : f[i] = f[j] => i = j
    BY <2>1
  <2> HIDE DEF f
  <2> QED
    BY <2>2, <2>3 DEF Injection, IsInjective
<1>6. IsFiniteSet(Refused)
  <2>1. Len(log) \in Nat /\ DOMAIN log = 1..Len(log)
    BY <1>3
  <2>2. IsFiniteSet(DOMAIN log)
    BY <2>1, FS_Interval
  <2> QED
    BY <2>2, FS_Subset DEF Refused
<1> HIDE DEF H, f
<1>7. IsFiniteSet(H) /\ Cardinality(H) <= Cardinality(Refused)
  BY <1>5, <1>6, FS_Injection
<1>8. Cardinality(H) \in Nat /\ Cardinality(Refused) \in Nat
  BY <1>6, <1>7, FS_CardinalityType
<1>9. Cardinality(H) >= 3
  BY <1>2 DEF H
<1> QED
  BY <1>3, <1>7, <1>8, <1>9

\* The agents with a decision in the events a scan reads are known.
LEMMA DecidedAreKnown ==
  ASSUME GatewayInv, NEW d \in {"step_up", "blocked_trust"}
  PROVE  AgentsWith(LastEvents, d) \subseteq {a \in Agents : known[a] > 0}
<1>1. log \in Seq(Events)
  BY DEF GatewayInv, LogInv
<1>2. PICK n \in Nat : \A i \in DOMAIN LastEvents :
           /\ i \in Nat /\ i + n \in DOMAIN log /\ LastEvents[i] = log[i + n]
  BY <1>1, LastEventsType
<1>3. ASSUME NEW a \in AgentsWith(LastEvents, d) PROVE a \in Agents /\ known[a] > 0
  <2>1. a # None /\ \E i \in DOMAIN LastEvents : LastEvents[i].agent = a
    BY <1>3 DEF AgentsWith
  <2>2. PICK j \in DOMAIN log : log[j].agent = a
    BY <1>2, <2>1
  <2>3. log[j] \in Events
    BY <1>1
  <2>4. a \in Agents
    BY <2>1, <2>2, <2>3 DEF Events
  <2> QED
    BY <2>2, <2>4, LoggedIsKnown
<1> QED
  BY <1>3

\* What a scan reports, the audit log of all times bears out.
THEOREM Alerts == Spec => []AlertsAreFounded
<1>1. GatewayInv => AlertsAreFounded
  <2> SUFFICES ASSUME GatewayInv PROVE AlertsAreFounded
    OBVIOUS
  <2> DEFINE V == {a \in Agents : known[a] > 0}
  <2>0. IsFiniteSet(V) /\ Cardinality(V) \in Nat
    BY Assumptions, FS_Subset, FS_CardinalityType
  <2>1. \A a \in Probers : a \in Agents /\ Denials(a) >= 2
    <3> SUFFICES ASSUME NEW a \in Probers PROVE a \in Agents /\ Denials(a) >= 2
      OBVIOUS
    <3>1. a \in Agents /\ cache[a] # Absent /\ cache[a].violations >= 2
      BY DEF Probers, Cached
    <3>2. Denials(a) \in Nat /\ cache[a].violations \in Nat /\ cache[a].violations <= Denials(a)
      BY <3>1, ProbersWereDenied
    <3> QED
      BY <3>1, <3>2
  <2>2. ASSUME NEW a \in Agents, Alert("scope_probing", "critical", a) \in Scan
        PROVE  Denials(a) >= 2
    <3>1. a \in Probers
      BY <2>2 DEF Scan, ShadowAlerts, BehaviorAlerts, FleetAlerts, If, Alert
    <3> QED
      BY <2>1, <3>1
  <2>3. ASSUME Alert("fleet_threat", "critical", "probing") \in Scan
        PROVE  Cardinality({a \in Agents : Denials(a) >= 2}) >= 2
    <3> DEFINE D == {a \in Agents : Denials(a) >= 2}
    <3>1. Cardinality(Probers) >= 2
      BY <2>3 DEF Scan, ShadowAlerts, BehaviorAlerts, FleetAlerts, If, Alert
    <3>2. IsFiniteSet(D)
      BY Assumptions, FS_Subset
    <3>3. Probers \in SUBSET D
      BY <2>1
    <3> HIDE DEF D
    <3>4. /\ IsFiniteSet(Probers) /\ Cardinality(Probers) <= Cardinality(D)
          /\ Cardinality(D) \in Nat /\ Cardinality(Probers) \in Nat
      BY <3>2, <3>3, FS_Subset, FS_CardinalityType
    <3>5. Cardinality(D) >= 2
      BY <3>1, <3>4
    <3> QED
      BY <3>5 DEF D
  <2>4. ASSUME NEW x \in Scan, x.type = "shadow_agent", x.severity = "critical",
               x.about # "untrusted"
        PROVE  Len(shadows) >= 3
    <3>1. x \in ShadowAlerts(LastEvents)
      BY <2>4 DEF Scan, BehaviorAlerts, FleetAlerts, If, Alert
    <3> QED
      BY <2>4, <3>1, ShadowsWereRefused
  <2>5. FleetSummary.stepUp + FleetSummary.blocked <= 2 * FleetSummary.verified
    <3> DEFINE A == AgentsWith(LastEvents, "step_up")
               B == AgentsWith(LastEvents, "blocked_trust")
    <3>1. A \in SUBSET V /\ B \in SUBSET V
      BY DecidedAreKnown
    <3>2. FleetSummary.stepUp = Cardinality(A) /\ FleetSummary.blocked = Cardinality(B)
          /\ FleetSummary.verified = Cardinality(V)
      BY DEF FleetSummary
    <3> HIDE DEF A, B, V
    <3>3. /\ Cardinality(A) <= Cardinality(V) /\ Cardinality(A) \in Nat
          /\ Cardinality(B) <= Cardinality(V) /\ Cardinality(B) \in Nat
      BY <2>0, <3>1, FS_Subset, FS_CardinalityType
    <3> QED
      BY <2>0, <3>2, <3>3
  <2>6. FleetSummary.violating <= FleetSummary.verified
    <3> DEFINE W == {a \in Cached : cache[a].violations > 0}
    <3>1. W \in SUBSET V
      BY ProbersWereDenied DEF Cached
    <3>2. FleetSummary.violating = Cardinality(W) /\ FleetSummary.verified = Cardinality(V)
      BY DEF FleetSummary
    <3> HIDE DEF W, V
    <3> QED
      BY <2>0, <3>1, <3>2, FS_Subset
  <2> QED
    BY <2>2, <2>3, <2>4, <2>5, <2>6 DEF AlertsAreFounded
<1> QED
  BY <1>1, Strengthened, PTL

-----------------------------------------------------------------------------
(***************************************************************************)
(* The audit writer, which runs in a thread of its own and shares no       *)
(* variable with the calls.                                                *)
(***************************************************************************)

(***************************************************************************)
(* The strengthening.  The one worker chains to the newest row, which      *)
(* stays the newest until it inserts (Worker).  The queue holds the latest *)
(* events in order, the row of its head possibly written already (Order).  *)
(***************************************************************************)
WorkerReads ==
  /\ worker.pc \in {"read", "stamped"} => backlog # <<>> /\ worker.prev = Newest(rows)
  /\ worker.pc = "stamped" =>
       worker.at = clock /\ clock \in 1..MaxClock /\ \A r \in rows : r.at < clock
  /\ \A r \in rows : r.at <= clock
  /\ rows # {} => \E r \in rows : \A d \in rows : d.at <= r.at

InOrder ==
  /\ failures + Len(backlog) <= logged
  /\ \A n \in 1..Len(backlog) : backlog[n] = logged - Len(backlog) + n
  /\ \A r \in rows : recorded[r.at] <= logged
                     /\ (backlog # <<>> => recorded[r.at] <= logged - Len(backlog) + 1)
  /\ \A d, e \in rows : d.at < e.at => recorded[d.at] <= recorded[e.at]

LossCounted == Cardinality(Lost) <= failures

AuditInv == AuditTypeOK /\ ChainUnbroken /\ WorkerReads /\ InOrder

\* What the assumptions on the constants say, as the proofs use it.
LEMMA AuditConstants ==
  /\ MaxEvents \in Nat /\ MaxClock \in Nat /\ MaxRestarts \in Nat
  /\ WriteAttempts \in Nat \ {0} /\ Buffer \in Nat \ {0}
BY AuditAssumption

\* The counters, lengths and stamps are numbers.
LEMMA AuditNumbers ==
  ASSUME AuditTypeOK
  PROVE  /\ clock \in Nat /\ logged \in Nat /\ since \in Nat /\ failures \in Nat
         /\ Len(backlog) \in Nat /\ Len(buffer) \in Nat
         /\ \A r \in rows : r.at \in 1..MaxClock /\ r.at \in Nat /\ recorded[r.at] \in Nat
<1>1. \A r \in rows : r.at \in 1..MaxClock
  BY DEF AuditTypeOK, Rows
<1>2. clock \in Nat /\ logged \in Nat /\ since \in Nat /\ failures \in Nat
  BY AuditConstants DEF AuditTypeOK
<1> QED
  BY <1>1, <1>2, LenProperties, AuditConstants DEF AuditTypeOK

WaitingWorkers == [pc : {"waiting", "read", "stamped"}, attempt : 1..WriteAttempts,
                   prev : 0..MaxClock, at : 0..MaxClock]

\* The worker between two attempts has the worker's type.
LEMMA WaitingType ==
  /\ Waiting \in WaitingWorkers /\ Waiting.pc = "waiting"
BY AuditConstants DEF Waiting, WaitingWorkers, Genesis

\* The newest row's stamp is a time of the clock, or Genesis.
LEMMA NewestType ==
  ASSUME AuditTypeOK, WorkerReads
  PROVE  Newest(rows) \in 0..MaxClock
<1>1. CASE rows = {}
  BY <1>1, AuditConstants DEF Newest, Genesis
<1>2. CASE rows # {}
  <2>1. PICK r \in rows : \A d \in rows : d.at <= r.at
    BY <1>2 DEF WorkerReads
  <2>2. r.at \in {e.at : e \in rows} /\ \A e \in rows : r.at >= e.at
    BY <2>1, AuditNumbers
  <2>3. Newest(rows) \in {e.at : e \in rows}
    BY <1>2, <2>2 DEF Newest
  <2> QED
    BY <2>3, AuditNumbers
<1> QED
  BY <1>1, <1>2

\* The queue without its head.
LEMMA TailQueue ==
  ASSUME AuditTypeOK, InOrder, backlog # <<>>
  PROVE  /\ Head(backlog) \in 1..MaxEvents /\ Tail(backlog) \in Seq(1..MaxEvents)
         /\ Len(Tail(backlog)) = Len(backlog) - 1 /\ Len(backlog) >= 1
         /\ Head(backlog) = logged - Len(backlog) + 1
         /\ \A n \in 1..(Len(backlog) - 1) : Tail(backlog)[n] = backlog[n + 1]
<1>1. backlog \in Seq(1..MaxEvents) /\ Len(backlog) \in Nat
  BY AuditNumbers DEF AuditTypeOK
<1>2. Len(backlog) >= 1
  <2>1. Len(backlog) # 0
    BY <1>1, EmptySeq
  <2> QED
    BY <1>1, <2>1
<1>3. Head(backlog) \in 1..MaxEvents /\ Tail(backlog) \in Seq(1..MaxEvents)
      /\ Len(Tail(backlog)) = Len(backlog) - 1
      /\ \A n \in 1..(Len(backlog) - 1) : Tail(backlog)[n] = backlog[n + 1]
  BY <1>1, HeadTailProperties
<1>4. Head(backlog) = backlog[1] /\ 1 \in 1..Len(backlog)
  BY <1>1, <1>2
<1>5. backlog[1] = logged - Len(backlog) + 1
  BY <1>4 DEF InOrder
<1> QED
  BY <1>2, <1>3, <1>4, <1>5

\* Without its head the queue still holds the latest events in order.
LEMMA TailOrder ==
  ASSUME AuditTypeOK, InOrder, backlog # <<>>
  PROVE  \A n \in 1..Len(Tail(backlog)) : Tail(backlog)[n] = logged - Len(Tail(backlog)) + n
BY TailQueue, AuditNumbers DEF InOrder

\* The empty log satisfies the invariant.
LEMMA AuditInitInv == AuditInit => AuditInv
<1> SUFFICES ASSUME AuditInit PROVE AuditInv
  OBVIOUS
<1>1. buffer \in Seq(1..MaxEvents) /\ backlog \in Seq(1..MaxEvents) /\ Len(backlog) = 0 /\ Len(buffer) = 0
  BY EmptySeq DEF AuditInit
<1>2. AuditTypeOK
  BY <1>1, WaitingType, AuditConstants DEF AuditInit, AuditTypeOK, WaitingWorkers
<1>3. ChainUnbroken /\ WorkerReads /\ InOrder
  BY <1>1, WaitingType DEF AuditInit, ChainUnbroken, VerifyChain, WorkerReads, InOrder
<1> QED
  BY <1>2, <1>3 DEF AuditInv

\* Logging an event (log_request) keeps the invariant: it joins the end of the queue.
LEMMA LogRequestInv == ASSUME AuditInv, LogRequest PROVE AuditInv'
<1>1. /\ logged < MaxEvents /\ logged' = logged + 1 /\ backlog' = Append(backlog, logged + 1)
      /\ UNCHANGED <<clock, rows, recorded, since, restarts, worker, failures>>
  BY DEF LogRequest
<1>2. logged + 1 \in 1..MaxEvents /\ logged \in Nat /\ Len(backlog) \in Nat
      /\ backlog \in Seq(1..MaxEvents) /\ buffer \in Seq(1..MaxEvents) /\ failures \in Nat
  BY <1>1, AuditNumbers, AuditConstants DEF AuditInv, AuditTypeOK
<1>3. /\ backlog' \in Seq(1..MaxEvents) /\ Len(backlog') = Len(backlog) + 1
      /\ \A n \in 1..(Len(backlog) + 1) : backlog'[n] = IF n <= Len(backlog) THEN backlog[n] ELSE logged + 1
  BY <1>1, <1>2, AppendProperties
<1>4. buffer' \in Seq(1..MaxEvents) /\ Len(buffer') <= Buffer
  <2> DEFINE all == Append(buffer, logged + 1)
  <2>1. all \in Seq(1..MaxEvents) /\ Len(all) = Len(buffer) + 1 /\ Len(buffer) \in Nat
    BY <1>2, AppendProperties, AuditNumbers DEF AuditInv
  <2>2. buffer' = IF Len(all) > Buffer THEN Tail(all) ELSE all
    BY DEF LogRequest
  <2>3. all # <<>>
    BY <2>1, EmptySeq
  <2>4. Tail(all) \in Seq(1..MaxEvents) /\ Len(Tail(all)) = Len(all) - 1
    BY <2>1, <2>3, HeadTailProperties
  <2>5. Len(buffer) <= Buffer
    BY DEF AuditInv, AuditTypeOK
  <2> HIDE DEF all
  <2>6. CASE Len(all) > Buffer
    BY <2>1, <2>2, <2>4, <2>5, <2>6
  <2>7. CASE ~(Len(all) > Buffer)
    <3>1. buffer' = all /\ Len(all) \in Nat
      BY <2>1, <2>2, <2>7
    <3> QED
      BY <2>1, <2>7, <3>1, AuditConstants
  <2> QED
    BY <2>6, <2>7
<1>5. AuditTypeOK'
  <2>1. logged' \in 0..MaxEvents /\ since' \in 0..logged'
    BY <1>1, <1>2 DEF AuditInv, AuditTypeOK
  <2> QED
    BY <1>1, <1>3, <1>4, <2>1 DEF AuditInv, AuditTypeOK
<1>6. ChainUnbroken'
  BY <1>1 DEF AuditInv, ChainUnbroken, VerifyChain
<1>7. backlog' # <<>>
  BY <1>2, <1>3, EmptySeq
<1>8. WorkerReads'
  BY <1>1, <1>7 DEF AuditInv, WorkerReads
<1>9. InOrder'
  <2>1. failures' + Len(backlog') <= logged'
    BY <1>1, <1>2, <1>3 DEF AuditInv, InOrder
  <2>2. ASSUME NEW n \in 1..Len(backlog') PROVE backlog'[n] = logged' - Len(backlog') + n
    <3>1. /\ n \in 1..(Len(backlog) + 1) /\ Len(backlog') = Len(backlog) + 1 /\ logged' = logged + 1
          /\ backlog'[n] = IF n <= Len(backlog) THEN backlog[n] ELSE logged + 1
      BY <1>1, <1>3
    <3>2. n <= Len(backlog) => n \in 1..Len(backlog)
      BY <1>2, <3>1
    <3>3. n <= Len(backlog) => backlog[n] = logged - Len(backlog) + n
      BY <3>2 DEF AuditInv, InOrder
    <3> QED
      BY <1>2, <3>1, <3>3
  <2>3. ASSUME NEW r \in rows
        PROVE  recorded[r.at] <= logged' /\ recorded[r.at] <= logged' - Len(backlog') + 1
    <3>1. recorded[r.at] \in Nat /\ recorded[r.at] <= logged
      BY AuditNumbers DEF AuditInv, InOrder
    <3>2. CASE backlog = <<>>
      BY <1>1, <1>2, <1>3, <3>1, <3>2, EmptySeq
    <3>3. CASE backlog # <<>>
      BY <1>1, <1>2, <1>3, <3>1, <3>3 DEF AuditInv, InOrder
    <3> QED
      BY <3>2, <3>3
  <2> QED
    BY <1>1, <2>1, <2>2, <2>3 DEF AuditInv, InOrder
<1> QED
  BY <1>5, <1>6, <1>8, <1>9 DEF AuditInv

\* Reading the newest row and stamping the event.
LEMMA ReadInv == ASSUME AuditInv, ReadNewest PROVE AuditInv'
<1>1. /\ backlog # <<>> /\ worker' = [worker EXCEPT !.pc = "read", !.prev = Newest(rows)]
      /\ UNCHANGED <<clock, rows, recorded, logged, since, restarts, buffer, backlog, failures>>
  BY DEF ReadNewest
<1>2. worker' \in WaitingWorkers /\ worker'.pc = "read" /\ worker'.prev = Newest(rows)
  BY <1>1, NewestType DEF AuditInv, AuditTypeOK, WaitingWorkers
<1>3. AuditTypeOK'
  BY <1>1, <1>2 DEF AuditInv, AuditTypeOK, WaitingWorkers
<1> QED
  BY <1>1, <1>2, <1>3 DEF AuditInv, ChainUnbroken, VerifyChain, WorkerReads, InOrder

\* Stamping keeps the invariant: the clock moves past every row.
LEMMA StampInv == ASSUME AuditInv, Stamp PROVE AuditInv'
<1>1. /\ worker.pc = "read" /\ clock < MaxClock /\ clock' = clock + 1
      /\ worker' = [worker EXCEPT !.pc = "stamped", !.at = clock + 1]
      /\ UNCHANGED <<rows, recorded, logged, since, restarts, buffer, backlog, failures>>
  BY DEF Stamp
<1>2. clock \in Nat /\ clock + 1 \in 1..MaxClock
  BY <1>1, AuditNumbers, AuditConstants DEF AuditInv
<1>3. /\ worker' \in WaitingWorkers /\ worker'.pc = "stamped"
      /\ worker'.at = clock' /\ worker'.prev = worker.prev
  <2>1. worker \in WaitingWorkers /\ clock + 1 \in 0..MaxClock
    BY <1>2 DEF AuditInv, AuditTypeOK, WaitingWorkers
  <2> QED
    BY <1>1, <2>1 DEF WaitingWorkers
<1>4. AuditTypeOK'
  BY <1>1, <1>2, <1>3 DEF AuditInv, AuditTypeOK, WaitingWorkers
<1>5. \A r \in rows : r.at < clock'
  BY <1>1, <1>2, AuditNumbers DEF AuditInv, WorkerReads
<1>6. \A r \in rows : r.at <= clock'
  BY <1>2, <1>1, <1>5, AuditNumbers DEF AuditInv
<1>7. WorkerReads'
  BY <1>1, <1>2, <1>3, <1>5, <1>6 DEF AuditInv, WorkerReads
<1> QED
  BY <1>1, <1>4, <1>7 DEF AuditInv, ChainUnbroken, VerifyChain, InOrder

\* A row of the head of the queue is chained to the newest row and becomes the newest.
LEMMA InsertRow ==
  ASSUME AuditInv, worker.pc = "stamped", Insert, clock' = clock, logged' = logged
  PROVE  /\ rows' \subseteq Rows(1..MaxClock) /\ recorded' \in [1..MaxClock -> 0..MaxEvents]
         /\ ChainUnbroken'
         /\ \A r \in rows' : r.at <= clock
         /\ \E r \in rows' : \A d \in rows' : d.at <= r.at
         /\ \A d, e \in rows' : d.at < e.at => recorded'[d.at] <= recorded'[e.at]
         /\ \A r \in rows' : recorded'[r.at] <= logged
                             /\ recorded'[r.at] <= logged - Len(backlog) + 1
         /\ \A r \in rows : recorded'[r.at] = recorded[r.at]
         /\ \E r \in rows' : recorded'[r.at] = Head(backlog)
<1> DEFINE new == [at |-> worker.at, prev |-> worker.prev]
<1>1. /\ worker.at = clock /\ clock \in 1..MaxClock /\ backlog # <<>>
      /\ worker.prev = Newest(rows) /\ \A r \in rows : r.at < clock
  BY DEF AuditInv, WorkerReads
<1>2. new.at = clock /\ new.prev = Newest(rows) /\ rows' = rows \cup {new}
      /\ recorded' = [recorded EXCEPT ![clock] = Head(backlog)]
  BY <1>1 DEF Insert
<1>3. Newest(rows) \in 0..MaxClock /\ (rows = {} => Newest(rows) = Genesis)
  BY NewestType DEF Newest, AuditInv
<1>4. new \in Rows(1..MaxClock)
  BY <1>1, <1>3, AuditConstants DEF Rows, Genesis
<1> HIDE DEF new
<1>5. rows' \subseteq Rows(1..MaxClock) /\ recorded' \in [1..MaxClock -> 0..MaxEvents]
  <2>1. rows \subseteq Rows(1..MaxClock) /\ recorded \in [1..MaxClock -> 0..MaxEvents]
    BY DEF AuditInv, AuditTypeOK
  <2>2. Head(backlog) \in 1..MaxEvents
    BY <1>1, TailQueue DEF AuditInv
  <2>3. Head(backlog) \in 0..MaxEvents
    BY <2>2, AuditConstants
  <2> QED
    BY <1>1, <1>2, <1>4, <2>1, <2>3
<1>6. \A r \in rows : r.at \in Nat /\ r.at # clock /\ ~(clock < r.at) /\ r.at <= clock
  BY <1>1, AuditNumbers DEF AuditInv
<1>7. \A r \in rows : recorded'[r.at] = recorded[r.at]
  BY <1>2, <1>6, AuditNumbers DEF AuditInv, AuditTypeOK
<1>8. recorded'[clock] = Head(backlog)
  BY <1>1, <1>2 DEF AuditInv, AuditTypeOK
<1>9. VerifyChain'
  <2> SUFFICES ASSUME NEW r \in rows', {d \in rows' : d.at < r.at} # {}
               PROVE  r.prev = Newest({d \in rows' : d.at < r.at})
    BY DEF VerifyChain
  <2>1. CASE r \in rows
    <3>1. {d \in rows' : d.at < r.at} = {d \in rows : d.at < r.at}
      BY <1>2, <1>6, <2>1
    <3> QED
      BY <2>1, <3>1 DEF AuditInv, ChainUnbroken, VerifyChain
  <2>2. CASE r = new
    <3>1. {d \in rows' : d.at < r.at} = rows
      BY <1>1, <1>2, <2>2
    <3> QED
      BY <1>2, <2>2, <3>1
  <2> QED
    BY <1>2, <2>1, <2>2
<1>10. \E r \in rows' : r.prev = Genesis /\ \A d \in rows' : r.at <= d.at
  <2>1. CASE rows = {}
    <3>1. new.at <= new.at
      BY <1>1, <1>2
    <3> QED
      BY <1>2, <1>3, <2>1, <3>1
  <2>2. CASE rows # {}
    <3>1. PICK r \in rows : r.prev = Genesis /\ \A d \in rows : r.at <= d.at
      BY <2>2 DEF AuditInv, ChainUnbroken
    <3> QED
      BY <1>2, <1>6, <3>1
  <2> QED
    BY <2>1, <2>2
<1>11. \A r \in rows' : r.at <= clock
  BY <1>1, <1>2, <1>6
<1>12. \A r \in rows : recorded[r.at] \in Nat /\ recorded[r.at] <= logged - Len(backlog) + 1
                       /\ recorded[r.at] <= logged
  BY <1>1, AuditNumbers DEF AuditInv, InOrder
<1>13. Head(backlog) = logged - Len(backlog) + 1 /\ Head(backlog) <= logged /\ Head(backlog) \in Nat
  BY <1>1, TailQueue, AuditNumbers DEF AuditInv
<1>14. ASSUME NEW d \in rows', NEW e \in rows', d.at < e.at
       PROVE  recorded'[d.at] <= recorded'[e.at]
  <2>1. d \in rows
    BY <1>1, <1>2, <1>6, <1>14
  <2>2. CASE e \in rows
    BY <1>7, <1>14, <2>1, <2>2 DEF AuditInv, InOrder
  <2>3. CASE e = new
    BY <1>2, <1>7, <1>8, <1>12, <1>13, <2>1, <2>3
  <2> QED
    BY <1>2, <2>2, <2>3
<1>15. \A r \in rows' : recorded'[r.at] <= logged /\ recorded'[r.at] <= logged - Len(backlog) + 1
  BY <1>2, <1>7, <1>8, <1>12, <1>13
<1> QED
  BY <1>2, <1>5, <1>7, <1>8, <1>9, <1>10, <1>11, <1>14, <1>15 DEF ChainUnbroken

\* What the worker does after it has written a row, or failed to: it waits again, with
\* the event still at the head of the queue or with the event gone.
Goes ==
  /\ worker' \in WaitingWorkers /\ worker'.pc = "waiting"
  /\ \/ UNCHANGED <<backlog, failures>>
     \/ backlog' = Tail(backlog) /\ failures' \in {failures, failures + 1}
  /\ UNCHANGED <<clock, logged, since, restarts, buffer>>

\* An attempt that fails leaves the queue to the next attempt, or drops its head and counts it.
LEMMA GiveUpGoes ==
  ASSUME AuditInv, GiveUp, UNCHANGED <<clock, logged, since, restarts, buffer>>
  PROVE  Goes
<1>1. CASE worker.attempt < WriteAttempts
  <2>1. worker.attempt \in 1..WriteAttempts
    BY DEF AuditInv, AuditTypeOK
  <2>2. worker.attempt + 1 \in 1..WriteAttempts
    BY <1>1, <2>1, AuditConstants
  <2> QED
    BY <1>1, <2>2 DEF GiveUp, Goes, AuditInv, AuditTypeOK, WaitingWorkers
<1>2. CASE ~(worker.attempt < WriteAttempts)
  BY <1>2, WaitingType DEF GiveUp, Goes
<1> QED
  BY <1>1, <1>2

\* An attempt's end, with its row written or not, keeps the invariant.
LEMMA GoesInv ==
  ASSUME AuditInv, backlog # <<>>, Goes,
         \/ UNCHANGED <<rows, recorded>>
         \/ worker.pc = "stamped" /\ Insert
  PROVE  AuditInv'
<1>1. /\ rows' \subseteq Rows(1..MaxClock) /\ recorded' \in [1..MaxClock -> 0..MaxEvents]
      /\ ChainUnbroken'
      /\ \A r \in rows' : r.at <= clock
      /\ rows' # {} => \E r \in rows' : \A d \in rows' : d.at <= r.at
      /\ \A d, e \in rows' : d.at < e.at => recorded'[d.at] <= recorded'[e.at]
      /\ \A r \in rows' : recorded'[r.at] <= logged
                          /\ recorded'[r.at] <= logged - Len(backlog) + 1
  <2>1. CASE UNCHANGED <<rows, recorded>>
    BY <2>1 DEF AuditInv, AuditTypeOK, ChainUnbroken, VerifyChain, WorkerReads, InOrder
  <2>2. CASE worker.pc = "stamped" /\ Insert
    BY <2>2, InsertRow DEF Goes
  <2> QED
    BY <2>1, <2>2
<1>2. /\ backlog' \in Seq(1..MaxEvents) /\ failures' + Len(backlog') <= logged
      /\ \A n \in 1..Len(backlog') : backlog'[n] = logged - Len(backlog') + n
      /\ failures' \in Nat /\ Len(backlog') \in Nat
      /\ (backlog' # <<>> => logged - Len(backlog') + 1 >= logged - Len(backlog) + 1)
  <2>1. CASE UNCHANGED <<backlog, failures>>
    BY <2>1, AuditNumbers DEF AuditInv, AuditTypeOK, InOrder
  <2>2. CASE backlog' = Tail(backlog) /\ failures' \in {failures, failures + 1}
    <3>1. failures' + Len(backlog') <= logged
      BY <2>2, TailQueue, AuditNumbers DEF AuditInv, InOrder
    <3> QED
      BY <2>2, <3>1, TailQueue, TailOrder, AuditNumbers DEF AuditInv
  <2> QED
    BY <2>1, <2>2 DEF Goes
<1>3. failures' \in 0..MaxEvents
  BY <1>2, AuditConstants DEF AuditInv, AuditTypeOK
<1>4. AuditTypeOK'
  BY <1>1, <1>2, <1>3 DEF Goes, AuditInv, AuditTypeOK, WaitingWorkers
<1>5. WorkerReads'
  BY <1>1 DEF Goes, WorkerReads
<1>6. \A r \in rows' : recorded'[r.at] <= logged
                       /\ (backlog' # <<>> => recorded'[r.at] <= logged - Len(backlog') + 1)
  <2>1. \A r \in rows' : recorded'[r.at] \in Nat
    BY <1>1, AuditConstants DEF Rows
  <2> QED
    BY <1>1, <1>2, <2>1, AuditNumbers DEF AuditInv
<1>7. InOrder'
  BY <1>1, <1>2, <1>6 DEF Goes, InOrder
<1> QED
  BY <1>1, <1>4, <1>5, <1>7 DEF AuditInv

\* A restart, which empties buffer and queue, keeps the invariant.
LEMMA RestartInv == ASSUME AuditInv, Restart PROVE AuditInv'
<1>1. /\ restarts < MaxRestarts /\ restarts' = restarts + 1 /\ since' = logged
      /\ buffer' = <<>> /\ backlog' = <<>> /\ worker' = Waiting /\ failures' = 0
      /\ UNCHANGED <<clock, rows, recorded, logged>>
  BY DEF Restart
<1>2. buffer' \in Seq(1..MaxEvents) /\ Len(buffer') = 0 /\ backlog' \in Seq(1..MaxEvents)
      /\ Len(backlog') = 0 /\ restarts' \in 0..MaxRestarts /\ logged \in Nat
  BY <1>1, EmptySeq, AuditConstants, AuditNumbers DEF AuditInv, AuditTypeOK
<1>3. AuditTypeOK'
  BY <1>1, <1>2, WaitingType, AuditConstants DEF AuditInv, AuditTypeOK, WaitingWorkers
<1>4. WorkerReads' /\ ChainUnbroken'
  BY <1>1, WaitingType DEF AuditInv, WorkerReads, ChainUnbroken, VerifyChain
<1>5. InOrder'
  BY <1>1, <1>2 DEF AuditInv, InOrder
<1> QED
  BY <1>3, <1>4, <1>5 DEF AuditInv

\* What a step of the worker that ends its attempt is.
LEMMA EndsAttempt ==
  ASSUME AuditInv, Commit \/ WriteFails \/ AnswerLost
  PROVE  /\ backlog # <<>> /\ Goes
         /\ \/ UNCHANGED <<rows, recorded>>
            \/ worker.pc = "stamped" /\ Insert
<1>1. backlog # <<>>
  BY DEF Commit, WriteFails, AnswerLost, AuditInv, WorkerReads
<1>2. CASE Commit
  BY <1>1, <1>2, WaitingType DEF Commit, Goes
<1>3. CASE WriteFails
  BY <1>1, <1>3, GiveUpGoes DEF WriteFails
<1>4. CASE AnswerLost
  BY <1>1, <1>4, GiveUpGoes DEF AnswerLost
<1> QED
  BY <1>2, <1>3, <1>4

\* Every step keeps the invariant.
LEMMA AuditStepInv == AuditInv /\ [AuditNext]_auditVars => AuditInv'
<1> SUFFICES ASSUME AuditInv, [AuditNext]_auditVars PROVE AuditInv'
  OBVIOUS
<1>1. CASE UNCHANGED auditVars
  BY <1>1 DEF auditVars, AuditInv, AuditTypeOK, ChainUnbroken, VerifyChain, WorkerReads, InOrder
<1>2. CASE Commit \/ WriteFails \/ AnswerLost
  BY <1>2, EndsAttempt, GoesInv
<1> QED
  BY <1>1, <1>2, LogRequestInv, ReadInv, StampInv, RestartInv DEF AuditNext, Write

\* The invariant holds throughout: one worker chains each row to the newest, in order.
THEOREM AuditStrengthened == AuditSpec => []AuditInv
<1> QED
  BY AuditInitInv, AuditStepInv, PTL DEF AuditSpec

\* verify_chain accepts the gateway's log at all times, whatever fails, is retried or
\* loses its answer, and however often the process restarts (audit_pg.py).
THEOREM LogSound == AuditSpec => []LogIsSound
<1>1. AuditInv => LogIsSound
  BY DEF AuditInv, LogIsSound
<1> QED
  BY <1>1, AuditStrengthened, PTL

(***************************************************************************)
(* The losses.  An event leaves the queue with its row written, or with    *)
(* the failure counted; no row is ever overwritten, and what an earlier    *)
(* process had logged is no longer counted.                                *)
(***************************************************************************)
LossInv == IsFiniteSet(Lost) /\ LossCounted

\* A step that loses nothing and counts no fewer failures.
LEMMA FewerLost ==
  ASSUME LossInv, Lost' \subseteq Lost, failures' >= failures, failures \in Nat, failures' \in Nat
  PROVE  LossInv'
<1>1. IsFiniteSet(Lost') /\ Cardinality(Lost') <= Cardinality(Lost)
  BY FS_Subset DEF LossInv
<1>2. Cardinality(Lost) \in Nat /\ Cardinality(Lost') \in Nat
  BY <1>1, FS_CardinalityType DEF LossInv
<1> QED
  BY <1>1, <1>2 DEF LossInv, LossCounted

\* The row of the head of the queue is written: it alone stops being lost.
LEMMA InsertKeepsRecorded ==
  ASSUME AuditInv, worker.pc = "stamped", Insert, clock' = clock, logged' = logged
  PROVE  /\ \A e : IsRecorded(e) => IsRecorded(e)'
         /\ \E r \in rows' : recorded'[r.at] = Head(backlog)
<1>1. /\ \A r \in rows : recorded'[r.at] = recorded[r.at]
      /\ \E r \in rows' : recorded'[r.at] = Head(backlog)
  BY InsertRow
<1>2. rows \subseteq rows'
  BY DEF Insert
<1> QED
  BY <1>1, <1>2 DEF IsRecorded

\* An attempt's end loses no event that it does not count.
LEMMA GoesCounted ==
  ASSUME AuditInv, LossInv, backlog # <<>>, worker' \in WaitingWorkers,
         UNCHANGED <<clock, logged, since>>,
         \A e : IsRecorded(e) => IsRecorded(e)',
         \/ UNCHANGED <<backlog, failures>>
         \/ backlog' = Tail(backlog) /\ failures' = failures + 1
         \/ backlog' = Tail(backlog) /\ failures' = failures /\ \E r \in rows' : recorded'[r.at] = Head(backlog)
  PROVE  LossInv'
<1>0. failures \in Nat /\ failures + 1 \in Nat /\ Len(backlog) \in Nat
  BY AuditNumbers DEF AuditInv
<1>1. CASE UNCHANGED <<backlog, failures>>
  <2>1. Lost' \subseteq Lost
    BY <1>1 DEF Lost
  <2> QED
    BY <1>0, <1>1, <2>1, FewerLost
<1>2. ASSUME backlog' = Tail(backlog)
      PROVE  \A e \in Lost' : e \in Lost \/ e = Head(backlog)
  <2> SUFFICES ASSUME NEW e \in Lost', e # Head(backlog) PROVE e \in Lost
    OBVIOUS
  <2>1. e \in (since + 1)..logged /\ ~IsRecorded(e) /\ \A n \in DOMAIN Tail(backlog) : Tail(backlog)[n] # e
    BY <1>2 DEF Lost
  <2>2. ASSUME NEW n \in DOMAIN backlog PROVE backlog[n] # e
    <3>1. n \in 1..Len(backlog) /\ backlog[n] = logged - Len(backlog) + n
      BY LenProperties DEF AuditInv, AuditTypeOK, InOrder
    <3>2. CASE n = 1
      BY <1>0, <3>1, <3>2, TailQueue DEF AuditInv
    <3>3. CASE n # 1
      <4>1. n - 1 \in 1..(Len(backlog) - 1) /\ (n - 1) + 1 = n
        BY <1>0, <3>1, <3>3
      <4>2. Tail(backlog)[n - 1] = backlog[n] /\ n - 1 \in DOMAIN Tail(backlog)
        BY <4>1, TailQueue, LenProperties DEF AuditInv
      <4> QED
        BY <2>1, <4>2
    <3> QED
      BY <3>2, <3>3
  <2> QED
    BY <2>1, <2>2 DEF Lost
<1>3. CASE backlog' = Tail(backlog) /\ failures' = failures + 1
  <2>1. Lost' \subseteq Lost \cup {Head(backlog)}
    BY <1>2, <1>3
  <2>2. /\ IsFiniteSet(Lost \cup {Head(backlog)})
        /\ Cardinality(Lost \cup {Head(backlog)}) <= Cardinality(Lost) + 1
        /\ Cardinality(Lost) \in Nat /\ Cardinality(Lost \cup {Head(backlog)}) \in Nat
    <3>1. IsFiniteSet(Lost)
      BY DEF LossInv
    <3>2. IsFiniteSet(Lost \cup {Head(backlog)}) /\ Cardinality(Lost) \in Nat
          /\ Cardinality(Lost \cup {Head(backlog)}) =
               IF Head(backlog) \in Lost THEN Cardinality(Lost) ELSE Cardinality(Lost) + 1
      BY <3>1, FS_AddElement, FS_CardinalityType
    <3> QED
      BY <3>2
  <2>3. IsFiniteSet(Lost') /\ Cardinality(Lost') <= Cardinality(Lost \cup {Head(backlog)})
    BY <2>1, <2>2, FS_Subset
  <2>4. Cardinality(Lost') \in Nat
    BY <2>3, FS_CardinalityType
  <2> QED
    BY <1>0, <1>3, <2>2, <2>3, <2>4 DEF LossInv, LossCounted
<1>4. CASE backlog' = Tail(backlog) /\ failures' = failures /\ \E r \in rows' : recorded'[r.at] = Head(backlog)
  <2>1. Lost' \subseteq Lost
    BY <1>2, <1>4 DEF Lost, IsRecorded
  <2> QED
    BY <1>0, <1>4, <2>1, FewerLost
<1> QED
  BY <1>1, <1>3, <1>4

\* A logged event is in the queue, so nothing more is lost.
LEMMA LogCounted == ASSUME AuditInv, LossInv, LogRequest PROVE LossInv'
<1>1. /\ logged' = logged + 1 /\ backlog' = Append(backlog, logged + 1) /\ logged < MaxEvents
      /\ UNCHANGED <<rows, recorded, since, failures>>
  BY DEF LogRequest
<1>2. logged + 1 \in 1..MaxEvents /\ Len(backlog) \in Nat /\ backlog \in Seq(1..MaxEvents)
      /\ failures \in Nat /\ logged \in Nat /\ since \in Nat
  BY <1>1, AuditNumbers, AuditConstants DEF AuditInv, AuditTypeOK
<1>3. /\ DOMAIN backlog = 1..Len(backlog) /\ DOMAIN backlog' = 1..(Len(backlog) + 1)
      /\ backlog'[Len(backlog) + 1] = logged + 1 /\ \A n \in 1..Len(backlog) : backlog'[n] = backlog[n]
  <2>1. backlog' \in Seq(1..MaxEvents) /\ Len(backlog') = Len(backlog) + 1
        /\ backlog'[Len(backlog) + 1] = logged + 1 /\ \A n \in 1..Len(backlog) : backlog'[n] = backlog[n]
    BY <1>1, <1>2, AppendProperties
  <2> QED
    BY <1>2, <2>1, LenProperties
<1>4. ASSUME NEW e \in Lost' PROVE e \in Lost
  <2>1. e \in (since + 1)..(logged + 1) /\ ~IsRecorded(e) /\ \A n \in DOMAIN backlog' : backlog'[n] # e
    BY <1>1 DEF Lost, IsRecorded
  <2>2. e # logged + 1
    BY <1>2, <1>3, <2>1
  <2>3. e \in (since + 1)..logged
    BY <1>2, <2>1, <2>2
  <2>4. \A n \in DOMAIN backlog : backlog[n] # e
    BY <1>2, <1>3, <2>1
  <2> QED
    BY <2>1, <2>3, <2>4 DEF Lost
<1> QED
  BY <1>1, <1>2, <1>4, FewerLost

\* Every step counts what it loses.
LEMMA StepCounted == AuditInv /\ LossInv /\ [AuditNext]_auditVars => LossInv'
<1> SUFFICES ASSUME AuditInv, LossInv, [AuditNext]_auditVars PROVE LossInv'
  OBVIOUS
<1>1. CASE UNCHANGED auditVars \/ ReadNewest \/ Stamp
  BY <1>1 DEF auditVars, ReadNewest, Stamp, LossInv, LossCounted, Lost, IsRecorded
<1>2. CASE Restart
  <2>1. Lost' = {} /\ failures' = 0
    <3>1. (logged + 1)..logged = {}
      BY AuditNumbers DEF AuditInv
    <3> QED
      BY <1>2, <3>1 DEF Restart, Lost
  <2> QED
    BY <2>1, FS_EmptySet DEF LossInv, LossCounted
<1>3. CASE Commit
  <2>1. backlog # <<>> /\ Goes
    BY <1>3, EndsAttempt
  <2> QED
    BY <1>3, <2>1, InsertKeepsRecorded, GoesCounted DEF Commit, Goes
<1>4. CASE WriteFails \/ AnswerLost
  <2>1. backlog # <<>> /\ Goes
    BY <1>4, EndsAttempt
  <2>2. \/ UNCHANGED <<backlog, failures>>
        \/ backlog' = Tail(backlog) /\ failures' = failures + 1
    BY <1>4 DEF WriteFails, AnswerLost, GiveUp
  <2>3. \A e : IsRecorded(e) => IsRecorded(e)'
    <3>1. CASE WriteFails
      BY <3>1 DEF WriteFails, IsRecorded
    <3>2. CASE AnswerLost
      BY <3>2, InsertKeepsRecorded DEF AnswerLost
    <3> QED
      BY <1>4, <3>1, <3>2
  <2> QED
    BY <2>1, <2>2, <2>3, GoesCounted DEF Goes
<1> QED
  BY <1>1, <1>2, <1>3, <1>4, LogCounted DEF AuditNext, Write

\* The rows are in the order of the requests they are about, and what the running
\* process has logged is recorded, waiting or counted as lost (_write_to_pg's
\* retries and _write_failures).
THEOREM NothingLostInSilence == AuditSpec => []RecordedOrCounted
<1>1. AuditInit => LossInv
  <2> SUFFICES ASSUME AuditInit PROVE LossInv
    OBVIOUS
  <2>1. Lost = {} /\ failures = 0
    BY DEF AuditInit, Lost
  <2> QED
    BY <2>1, FS_EmptySet DEF LossInv, LossCounted
<1>2. AuditInv /\ LossInv => RecordedOrCounted
  BY DEF AuditInv, InOrder, LossInv, LossCounted, RecordedOrCounted
<1> QED
  BY <1>1, <1>2, StepCounted, AuditStrengthened, PTL DEF AuditSpec

=============================================================================
