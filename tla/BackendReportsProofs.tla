------------------------- MODULE BackendReportsProofs -------------------------
(* The backend's reports, its dashboard and its monitor give numbers that were *)
(* true while they were made, for every value of the constants.                *)
EXTENDS BackendTypesProofs

-----------------------------------------------------------------------------
(***************************************************************************)
(* Reports: what a tenant's rows are, and what a report has read of them.  *)
(***************************************************************************)

Rowed == {"agents", "creds"}
Evented == {"events", "trust", "delegations", "spends"}

LEMMA CountablesAre == Countables = Rowed \cup {"revoked"} \cup Evented
BY DEF Countables, Rowed, Evented

\* What a report is about: the resets so far, the rows of its tenant, the bits that are
\* set for good, set, or were ever set, and whether the chain was forked or torn.
View(t) == [resets |-> resets[t], truth |-> Truth(t, struck), rows |-> RowsOf(t),
            sure |-> Settled, bits |-> revoked, ever |-> struck, spoilt |-> t \in forked \cup torn]

Proper(e) ==
  /\ e.resets \in Nat /\ IsFiniteSet(e.rows) /\ \A x \in Countables : e.truth[x] \in Nat
  /\ e.sure \subseteq e.bits /\ e.bits \subseteq e.ever
  /\ e.truth["revoked"] = Cardinality(e.rows \cap e.ever)

\* Until the next reset, rows are added only.
Later(d, e) ==
  /\ d.resets <= e.resets /\ d.sure \subseteq e.sure /\ d.ever \subseteq e.ever /\ (d.spoilt => e.spoilt)
  /\ d.resets = e.resets => /\ d.rows \subseteq e.rows
                            /\ \A x \in Countables : d.truth[x] <= e.truth[x]

\* The numbers a report began with, and those it has.
Below(q, e, X) == \A x \in X : q.start[x] \in Nat /\ q.start[x] <= e.truth[x]
Between(q, e, X) ==
  \A x \in X : /\ q.start[x] \in Nat /\ q.tally[x] \in Nat
               /\ q.start[x] <= q.tally[x] /\ q.tally[x] <= e.truth[x]

\* Of the bits that were ever set, G were counted; those that were set for good when the
\* report began were counted or are yet to be.
BitsBelow(q, e) == \E H : H \subseteq e.rows \cap e.sure /\ Cardinality(H) = q.start["revoked"]
BitsBetween(q, e, rest) ==
  \E G, H : /\ rest \subseteq e.rows
            /\ G \subseteq e.rows \cap e.ever /\ G \cap rest = {} /\ H \subseteq G \cup (rest \cap e.sure)
            /\ Cardinality(G) = q.tally["revoked"] /\ Cardinality(H) = q.start["revoked"]

\* The script once the rows were counted and n credentials are yet to be looked up.
Lookups(n) ==
  [i \in 1..n + 3 |-> IF i <= n THEN "checkCred" ELSE IF i = n + 1 THEN "countEvents"
                      ELSE IF i = n + 2 THEN "walkChain" ELSE "reply"]

Begun(q, t, e) ==
  t = ComplianceReport /\ (q.since = e.resets => Below(q, e, Rowed \cup Evented) /\ BitsBelow(q, e))

Counting(q, t, e) ==
  \E n \in Nat :
    /\ t = Lookups(n) /\ q.seen \subseteq Creds /\ n = Cardinality(q.seen) /\ DOMAIN q.tally = Rowed \cup {"revoked"}
    /\ q.since = e.resets =>
         Between(q, e, Rowed) /\ Below(q, e, Evented) /\ BitsBetween(q, e, q.seen)

AllCounted(q, t, e) ==
  /\ t = <<"walkChain", "reply">> /\ DOMAIN q.tally = Countables
  /\ q.since = e.resets => Between(q, e, Countables)

Walked(q, t, e) ==
  /\ t = <<"reply">> /\ DOMAIN q.tally = Countables \cup {"valid"}
  /\ q.since = e.resets => Between(q, e, Countables)
  /\ q.tally["valid"] \/ e.spoilt

\* What a report knows with script t.
Reporting(q, t, e) ==
  q.kind = "report" =>
    /\ q.since \in Nat /\ q.since <= e.resets
    /\ Begun(q, t, e) \/ Counting(q, t, e) \/ AllCounted(q, t, e) \/ Walked(q, t, e)

\* What the dashboard and the monitor have read.
Boarding(q, t) ==
  q.kind = "board" => t \in {RiskDashboard, <<"readBoard", "reply">>} \/ (t = <<"reply">> /\ Agreed(q))

\* Numbers stay below what only grows, ...
LEMMA NumbersLater ==
  ASSUME NEW d, NEW e, Proper(d), Proper(e), Later(d, e), d.resets = e.resets,
         NEW q, NEW X \in SUBSET Countables
  PROVE  /\ Below(q, d, X) => Below(q, e, X)
         /\ Between(q, d, X) => Between(q, e, X)
<1>1. ASSUME NEW x \in X, NEW n \in Nat, n <= d.truth[x] PROVE n <= e.truth[x]
  <2>1. PICK a, b : a = d.truth[x] /\ b = e.truth[x]
    OBVIOUS
  <2>2. a \in Nat /\ b \in Nat /\ a <= b /\ n <= a
    BY <1>1, <2>1 DEF Proper, Later
  <2>3. n <= b
    BY <2>2
  <2> QED
    BY <2>1, <2>3
<1> QED
  BY <1>1 DEF Below, Between

\* ... and so do the bits.
LEMMA BitsLater ==
  ASSUME NEW d, NEW e, Later(d, e), d.resets = e.resets, NEW q, NEW S
  PROVE  /\ BitsBelow(q, d) => BitsBelow(q, e)
         /\ BitsBetween(q, d, S) => BitsBetween(q, e, S)
<1>1. /\ d.rows \subseteq e.rows /\ d.rows \cap d.sure \subseteq e.rows \cap e.sure
      /\ d.rows \cap d.ever \subseteq e.rows \cap e.ever /\ S \cap d.sure \subseteq S \cap e.sure
  BY DEF Later
<1>2. BitsBelow(q, d) => BitsBelow(q, e)
  BY <1>1 DEF BitsBelow
<1>3. ASSUME BitsBetween(q, d, S) PROVE BitsBetween(q, e, S)
  <2>1. PICK G, H : /\ S \subseteq d.rows
                    /\ G \subseteq d.rows \cap d.ever /\ G \cap S = {} /\ H \subseteq G \cup (S \cap d.sure)
                    /\ Cardinality(G) = q.tally["revoked"] /\ Cardinality(H) = q.start["revoked"]
    BY <1>3 DEF BitsBetween
  <2>2. S \subseteq e.rows /\ G \subseteq e.rows \cap e.ever /\ H \subseteq G \cup (S \cap e.sure)
    BY <1>1, <2>1
  <2> QED
    BY <2>1, <2>2 DEF BitsBetween
<1> QED
  BY <1>2, <1>3

\* So what a report knows it goes on knowing.
LEMMA ReportingLater ==
  ASSUME NEW d, NEW e, Proper(d), Proper(e), Later(d, e), NEW q, NEW t, Reporting(q, t, d)
  PROVE  Reporting(q, t, e)
<1> SUFFICES ASSUME q.kind = "report"
             PROVE  /\ q.since \in Nat /\ q.since <= e.resets
                    /\ Begun(q, t, e) \/ Counting(q, t, e) \/ AllCounted(q, t, e) \/ Walked(q, t, e)
  BY DEF Reporting
<1>1. q.since \in Nat /\ q.since <= d.resets
  BY DEF Reporting
<1>2. q.since <= e.resets /\ (q.since = e.resets => d.resets = e.resets /\ q.since = d.resets)
  <2>1. PICK a, b, s : a = d.resets /\ b = e.resets /\ s = q.since
    OBVIOUS
  <2>2. a \in Nat /\ b \in Nat /\ s \in Nat /\ a <= b /\ s <= a
    BY <1>1, <2>1 DEF Proper, Later
  <2>3. s <= b /\ (s = b => a = b /\ s = a)
    BY <2>2
  <2> QED
    BY <2>1, <2>3
<1>3. Rowed \cup Evented \subseteq Countables /\ Rowed \subseteq Countables /\ Evented \subseteq Countables
  BY CountablesAre
<1>4. ASSUME d.resets = e.resets
      PROVE  /\ \A X \in SUBSET Countables : (Below(q, d, X) => Below(q, e, X)) /\ (Between(q, d, X) => Between(q, e, X))
             /\ BitsBelow(q, d) => BitsBelow(q, e)
             /\ \A S : BitsBetween(q, d, S) => BitsBetween(q, e, S)
  BY <1>4, NumbersLater, BitsLater
<1>5. CASE Begun(q, t, d)
  <2>1. Begun(q, t, e)
    BY <1>2, <1>3, <1>4, <1>5 DEF Begun
  <2> QED
    BY <1>1, <1>2, <2>1
<1>6. CASE Counting(q, t, d)
  <2>1. Counting(q, t, e)
    BY <1>2, <1>3, <1>4, <1>6 DEF Counting
  <2> QED
    BY <1>1, <1>2, <2>1
<1>7. CASE AllCounted(q, t, d)
  <2>1. AllCounted(q, t, e)
    BY <1>2, <1>4, <1>7 DEF AllCounted
  <2> QED
    BY <1>1, <1>2, <2>1
<1>8. CASE Walked(q, t, d)
  <2>1. Walked(q, t, e)
    BY <1>2, <1>4, <1>8 DEF Walked, Later
  <2> QED
    BY <1>1, <1>2, <2>1
<1> QED
  BY <1>5, <1>6, <1>7, <1>8 DEF Reporting

\* Script and numbers are all that it takes.
LEMMA ReportingAlike ==
  ASSUME NEW q, NEW p, NEW t, NEW e, Reporting(q, t, e), p.kind = q.kind, p.since = q.since, p.start = q.start,
         p.tally = q.tally, p.seen = q.seen
  PROVE  Reporting(p, t, e)
<1> SUFFICES ASSUME p.kind = "report"
             PROVE  /\ p.since \in Nat /\ p.since <= e.resets
                    /\ Begun(p, t, e) \/ Counting(p, t, e) \/ AllCounted(p, t, e) \/ Walked(p, t, e)
  BY DEF Reporting
<1>1. /\ \A X : (Below(q, e, X) => Below(p, e, X)) /\ (Between(q, e, X) => Between(p, e, X))
      /\ BitsBelow(q, e) => BitsBelow(p, e)
      /\ \A S : BitsBetween(q, e, S) => BitsBetween(p, e, S)
  BY DEF Below, Between, BitsBelow, BitsBetween
<1>2. p.since \in Nat /\ p.since <= e.resets
  BY DEF Reporting
<1>3. Begun(q, t, e) => Begun(p, t, e)
  BY <1>1 DEF Begun
<1>4. Counting(q, t, e) => Counting(p, t, e)
  BY <1>1 DEF Counting
<1>5. (AllCounted(q, t, e) => AllCounted(p, t, e)) /\ (Walked(q, t, e) => Walked(p, t, e))
  BY <1>1 DEF AllCounted, Walked
<1> QED
  BY <1>2, <1>3, <1>4, <1>5 DEF Reporting

-----------------------------------------------------------------------------
(* What is counted is finite.                                              *)

LEMMA Smaller ==
  ASSUME NEW S, IsFiniteSet(S), NEW T, T \subseteq S
  PROVE  /\ IsFiniteSet(T) /\ Cardinality(T) \in Nat /\ Cardinality(S) \in Nat /\ Cardinality(T) <= Cardinality(S)
<1>1. IsFiniteSet(T) /\ Cardinality(T) <= Cardinality(S)
  BY FS_Subset
<1> QED
  BY <1>1, FS_CardinalityType

FiniteInv == IsFiniteSet(Known) /\ (\A t \in Tenants : IsFiniteSet(log[t])) /\ IsFiniteSet(spends)

LEMMA FiniteRows ==
  ASSUME RowsInv, StoredInv, FiniteInv, NEW t \in Tenants
  PROVE  /\ IsFiniteSet(AgentsOf(t)) /\ IsFiniteSet(RowsOf(t)) /\ IsFiniteSet(log[t])
         /\ IsFiniteSet(TrustOf(t)) /\ IsFiniteSet(SpendsOf(t))
<1>1. AgentsOf(t) \subseteq Known /\ SpendsOf(t) \subseteq spends /\ RowsOf(t) \subseteq Creds
  BY DEF AgentsOf, Registered, Known, SpendsOf, RowsOf
<1>2. TrustOf(t) \subseteq 1..Len(events) /\ Len(events) \in Nat
  BY DEF TrustOf, StoredInv
<1>3. IsFiniteSet(1..Len(events))
  BY <1>2, FS_Interval
<1> QED
  BY <1>1, <1>2, <1>3, Smaller, RegistryAssumption DEF FiniteInv

\* Not to unfold the numbers of a tenant every time.
LEMMA TruthIs ==
  ASSUME NEW t, NEW bits
  PROVE  /\ Truth(t, bits)["agents"] = Cardinality(AgentsOf(t)) /\ Truth(t, bits)["creds"] = Cardinality(RowsOf(t))
         /\ Truth(t, bits)["revoked"] = Cardinality(RowsOf(t) \cap bits)
         /\ Truth(t, bits)["events"] = Cardinality(log[t]) /\ Truth(t, bits)["trust"] = Cardinality(TrustOf(t))
         /\ Truth(t, bits)["delegations"] = delegations[t] /\ Truth(t, bits)["spends"] = Cardinality(SpendsOf(t))
BY DEF Truth

\* All but the revoked are numbers of rows, whatever the bits.
Fixed(t) ==
  [agents |-> Cardinality(AgentsOf(t)), creds |-> Cardinality(RowsOf(t)), events |-> Cardinality(log[t]),
   trust |-> Cardinality(TrustOf(t)), delegations |-> delegations[t], spends |-> Cardinality(SpendsOf(t))]

LEMMA TruthFixed ==
  ASSUME NEW t, NEW bits, NEW x \in Rowed \cup Evented
  PROVE  Truth(t, bits)[x] = Fixed(t)[x]
<1>1. CASE x = "agents"
  BY <1>1 DEF Truth, Fixed
<1>2. CASE x = "creds"
  BY <1>2 DEF Truth, Fixed
<1>3. CASE x = "events"
  BY <1>3 DEF Truth, Fixed
<1>4. CASE x = "trust"
  BY <1>4 DEF Truth, Fixed
<1>5. CASE x = "delegations"
  BY <1>5 DEF Truth, Fixed
<1>6. CASE x = "spends"
  BY <1>6 DEF Truth, Fixed
<1> QED
  BY <1>1, <1>2, <1>3, <1>4, <1>5, <1>6 DEF Rowed, Evented

LEMMA ViewIs ==
  ASSUME NEW t
  PROVE  /\ View(t).resets = resets[t] /\ View(t).truth = Truth(t, struck) /\ View(t).rows = RowsOf(t)
         /\ View(t).sure = Settled /\ View(t).bits = revoked /\ View(t).ever = struck
         /\ View(t).spoilt = (t \in forked \cup torn)
BY DEF View

LEMMA ViewProper ==
  ASSUME RowsInv, StoredInv, BitsInv, FiniteInv, NEW t \in Tenants
  PROVE  Proper(View(t))
<1>1. /\ IsFiniteSet(AgentsOf(t)) /\ IsFiniteSet(RowsOf(t)) /\ IsFiniteSet(log[t])
      /\ IsFiniteSet(TrustOf(t)) /\ IsFiniteSet(SpendsOf(t))
  BY FiniteRows
<1>2. IsFiniteSet(RowsOf(t) \cap struck)
  BY <1>1, Smaller
<1>3. delegations[t] \in Nat /\ resets[t] \in Nat
  BY DEF StoredInv, RowsInv
<1>4. \A S : IsFiniteSet(S) => Cardinality(S) \in Nat
  BY FS_CardinalityType
<1>5. \A x \in Countables : Truth(t, struck)[x] \in Nat
  <2> SUFFICES ASSUME NEW x \in Countables PROVE Truth(t, struck)[x] \in Nat
    OBVIOUS
  <2>1. x \in {"agents", "creds", "revoked", "events", "trust", "delegations", "spends"}
    BY DEF Countables
  <2> QED
    BY <1>1, <1>2, <1>3, <1>4, <2>1, TruthIs
<1>6. Settled \subseteq revoked /\ revoked \subseteq struck
  BY DEF Settled, BitsInv
<1> QED
  BY <1>1, <1>3, <1>5, <1>6, TruthIs, ViewIs DEF Proper

\* A step adds one agent, one event of the chain, one spend at most.
LEMMA KnownStep ==
  ASSUME RequestsInv, NEW r \in Jobs, Step(r)
  PROVE  \E a : Known' \subseteq Known \cup {a}
<1>1. CASE UNCHANGED agents
  BY <1>1 DEF Known
<1>2. ASSUME NEW a, NEW t, NEW s, Inserts(a, t, s) PROVE \E b : Known' \subseteq Known \cup {b}
  BY <1>2 DEF Inserts, Insert, Known
<1>3. ASSUME NEW t, Deletes(t) PROVE Known' \subseteq Known
  <2>1. \A a \in Agents : a \in AgentsOf(t) => agents[a] # None
    BY DEF AgentsOf, Registered
  <2>2. \A a \in Agents : a \notin AgentsOf(t) => agents'[a] = agents[a]
    BY <1>3 DEF Deletes
  <2> QED
    BY <2>1, <2>2 DEF Known
<1>4. CASE Calm(r)
  BY <1>1, <1>4 DEF Calm
<1>5. CASE Telling(r)
  <2>1. \/ UNCHANGED agents \/ (\E a, t, s : Inserts(a, t, s)) \/ (\E t : Deletes(t))
    BY <1>5, RowCases DEF InsertsNew, Rotates
  <2> QED
    BY <1>1, <1>2, <1>3, <2>1
<1> QED
  BY <1>4, <1>5, StepCases

LEMMA LogGrowth ==
  ASSUME RequestsInv, NEW r \in Jobs, Step(r), NEW t \in Tenants, DOMAIN log = Tenants
  PROVE  log'[t] = {} \/ \E e : log'[t] \subseteq log[t] \cup {e}
<1>1. CASE UNCHANGED log
  BY <1>1
<1>2. CASE ReadNewest(r) \/ Stamp(r)
  BY <1>2 DEF ReadNewest, Stamp
<1>3. CASE AppendEvent(r)
  <2>1. PICK u, e : log' = [log EXCEPT ![u] = @ \cup {e}]
    BY <1>3 DEF AppendEvent
  <2> QED
    BY <2>1
<1>4. CASE DeleteRest(r)
  <2>1. UNCHANGED log \/ \E u : log' = [log EXCEPT ![u] = {}]
    BY <1>4 DEF DeleteRest, auditVars
  <2> QED
    BY <2>1
<1> QED
  BY <1>1, <1>2, <1>3, <1>4, RowsTouched

LEMMA SpendsGrowth ==
  ASSUME NEW r \in Jobs, Step(r)
  PROVE  \E x : spends' = spends \/ spends' = spends \cup {x}
BY SideTouched DEF Spend

LEMMA FiniteStep ==
  ASSUME RequestsInv, EventsInv, FiniteInv, [Next]_vars
  PROVE  FiniteInv'
<1>1. ASSUME NEW r \in Jobs, Step(r) PROVE FiniteInv'
  <2>1. IsFiniteSet(Known')
    <3>1. PICK a : Known' \subseteq Known \cup {a}
      BY <1>1, KnownStep
    <3>2. IsFiniteSet(Known \cup {a})
      BY FS_AddElement DEF FiniteInv
    <3> QED
      BY <3>1, <3>2, Smaller
  <2>2. ASSUME NEW t \in Tenants PROVE IsFiniteSet(log'[t])
    <3>1. CASE log'[t] = {}
      BY <3>1, FS_EmptySet
    <3>2. ASSUME NEW e, log'[t] \subseteq log[t] \cup {e} PROVE IsFiniteSet(log'[t])
      <4>1. IsFiniteSet(log[t] \cup {e})
        BY FS_AddElement DEF FiniteInv
      <4> QED
        BY <3>2, <4>1, Smaller
    <3> QED
      BY <1>1, <3>1, <3>2, LogGrowth DEF EventsInv
  <2>3. IsFiniteSet(spends')
    BY <1>1, SpendsGrowth, FS_AddElement DEF FiniteInv
  <2> QED
    BY <2>1, <2>2, <2>3 DEF FiniteInv
<1>2. CASE UNCHANGED <<agents, log, spends>>
  BY <1>2 DEF FiniteInv, Known
<1>3. Tick \/ UNCHANGED vars \/ (\E r \in Jobs : Arrive(r)) => UNCHANGED <<agents, log, spends>>
  BY DEF Tick, Arrive, vars, registryVars, sideVars, seededVars, auditVars
<1> QED
  BY <1>1, <1>2, <1>3 DEF Next

LEMMA InitFinite ==
  ASSUME Init
  PROVE  FiniteInv
<1>1. Known \subseteq {1, StatusIssuer}
  BY DEF Init, Known
<1>2. IsFiniteSet({1, StatusIssuer})
  <2>1. {1, StatusIssuer} = {1} \cup {StatusIssuer}
    OBVIOUS
  <2>2. IsFiniteSet({1})
    BY FS_Singleton
  <2>3. IsFiniteSet({1} \cup {StatusIssuer})
    BY <2>2, FS_AddElement
  <2> QED
    BY <2>1, <2>3
<1>3. (\A t \in Tenants : log[t] = {}) /\ spends = {}
  BY DEF Init
<1> QED
  BY <1>1, <1>2, <1>3, Smaller, FS_EmptySet DEF FiniteInv

-----------------------------------------------------------------------------
(* Until its next reset a tenant only gets more rows.                      *)

LEMMA ResetsLater ==
  ASSUME RequestsInv, RowsInv, NEW r \in Jobs, Step(r), NEW t \in Tenants
  PROVE  /\ resets[t] <= resets'[t]
         /\ resets'[t] = resets[t] =>
              /\ ~(DeleteRest(r) /\ req[r].tenant = t /\ Deletes(t))
              /\ AgentsOf(t) \subseteq AgentsOf(t)'
<1>0. resets[t] \in Nat /\ DOMAIN resets = Tenants /\ agents \in [Agents -> Agent \cup {None}]
  BY DEF RowsInv
<1>1. ASSUME Deletes(t) PROVE resets[t] <= resets'[t] /\ resets'[t] # resets[t]
  <2>1. resets'[t] = resets[t] + 1
    BY <1>0, <1>1 DEF Deletes
  <2>2. PICK n \in Nat : n = resets[t]
    BY <1>0
  <2> QED
    BY <2>1, <2>2
<1>2. ASSUME UNCHANGED <<agents, resets>>
      PROVE  resets[t] <= resets'[t] /\ AgentsOf(t) \subseteq AgentsOf(t)'
  <2>1. AgentsOf(t)' = AgentsOf(t)
    BY <1>2 DEF AgentsOf, Registered
  <2> QED
    BY <1>0, <1>2, <2>1
<1>3. ASSUME NEW a \in Agents, a \notin Registered, NEW u, NEW s, Inserts(a, u, s)
      PROVE  resets[t] <= resets'[t] /\ AgentsOf(t) \subseteq AgentsOf(t)'
  <2>1. resets' = resets /\ \A b \in Agents \ {a} : agents'[b] = agents[b]
    BY <1>0, <1>3 DEF Inserts, Insert
  <2>2. AgentsOf(t) \subseteq AgentsOf(t)'
    BY <1>3, <2>1 DEF AgentsOf, Registered
  <2> QED
    BY <1>0, <2>1, <2>2
<1>4. ASSUME NEW u, u # t, Deletes(u)
      PROVE  resets[t] <= resets'[t] /\ AgentsOf(t) \subseteq AgentsOf(t)'
  <2>1. resets'[t] = resets[t]
    BY <1>0, <1>4 DEF Deletes
  <2>2. \A a \in Agents \ AgentsOf(u) : agents'[a] = agents[a]
    BY <1>4 DEF Deletes
  <2>3. AgentsOf(t) \cap AgentsOf(u) = {} /\ AgentsOf(t) \subseteq Agents
    BY <1>4 DEF AgentsOf, Registered
  <2>4. \A a \in AgentsOf(t) : agents'[a] = agents[a] /\ agents[a] # None /\ ~agents[a].deleted /\ agents[a].tenant = t
    BY <2>2, <2>3 DEF AgentsOf, Registered
  <2>5. AgentsOf(t) \subseteq AgentsOf(t)'
    BY <2>3, <2>4 DEF AgentsOf, Registered
  <2> QED
    BY <1>0, <2>1, <2>5
<1>5. CASE Calm(r)
  BY <1>1, <1>2, <1>5 DEF Calm
<1>6. CASE Telling(r)
  <2>1. CASE UNCHANGED <<agents, resets>>
    BY <1>1, <1>2, <2>1
  <2>2. CASE InsertsNew(r)
    <3>1. PICK a : a = Min(Unused)
      OBVIOUS
    <3>2. a \in Agents /\ agents[a] = None
      BY <2>2, <3>1, LeastUnused DEF InsertsNew, Unused
    <3>3. Inserts(a, req[r].tenant, req[r].spiffe)
      BY <2>2, <3>1 DEF InsertsNew
    <3>4. a \notin Registered
      BY <3>2 DEF Registered
    <3>5. ~Deletes(t) \/ resets'[t] # resets[t]
      BY <1>1
    <3> QED
      BY <1>3, <3>2, <3>3, <3>4, <3>5
  <2>3. CASE Inserts(StatusIssuer, DefaultTenant, None) /\ StatusIssuer \notin Registered
    BY <1>1, <1>3, <2>3, RegistryAssumption
  <2>4. CASE Rotates(r)
    BY <1>1, <1>2, <2>4 DEF Rotates
  <2>5. CASE Deletes(req[r].tenant) /\ DeleteRest(r)
    BY <1>1, <1>4, <2>5
  <2> QED
    BY <1>6, <2>1, <2>2, <2>3, <2>4, <2>5, RowCases
<1> QED
  BY <1>5, <1>6, StepCases

\* What demo_reset deletes is of one tenant.
LEMMA DeletesOne ==
  ASSUME RequestsInv, NEW r \in Jobs, DeleteRest(r)
  PROVE  \/ UNCHANGED <<registryVars, auditVars>>
         \/ /\ Deletes(req[r].tenant) /\ req[r].tenant \in Tenants
            /\ creds' = [c \in DOMAIN creds |->
                 IF c \in RowsOf(req[r].tenant) THEN [creds[c] EXCEPT !.stored = FALSE] ELSE creds[c]]
            /\ log' = [log EXCEPT ![req[r].tenant] = {}]
            /\ torn \subseteq torn' /\ forked' = forked
<1>1. req[r] # None
  BY DEF DeleteRest, Ready
<1>2. req[r].tenant \in Tenants
  BY <1>1 DEF RequestsInv, Request
<1> QED
  BY <1>2 DEF DeleteRest, Deletes, arrivalVars

LEMMA RowsLater ==
  ASSUME RequestsInv, KeysInv, AttestInv, CredsTyped, NEW r \in Jobs, Step(r), NEW t \in Tenants,
         ~(DeleteRest(r) /\ req[r].tenant = t /\ Deletes(t))
  PROVE  RowsOf(t) \subseteq RowsOf(t)'
<1>1. CASE UNCHANGED creds
  BY <1>1 DEF RowsOf
<1>2. CASE Sign(r)
  <2>1. CASE req[r].agent \notin Registered
    BY <1>1, <1>2, <2>1 DEF Sign, registryVars
  <2>2. CASE req[r].agent \in Registered
    <3>1. PICK c, x : c \in Unsigned /\ creds' = CredsWith(c, x)
      BY <1>2, <2>2, SignSound
    <3>2. DOMAIN creds \subseteq DOMAIN creds' /\ \A d \in DOMAIN creds : creds'[d] = creds[d]
      BY <3>1, WithCred DEF Unsigned
    <3> QED
      BY <3>2 DEF RowsOf
  <2> QED
    BY <2>1, <2>2
<1>3. CASE Store(r)
  <2>1. creds' = creds \/ creds' = [creds EXCEPT ![req[r].cred].stored = TRUE]
    BY <1>3 DEF Store, registryVars
  <2>2. PICK c : c = req[r].cred
    OBVIOUS
  <2>3. CASE creds' = [creds EXCEPT ![c].stored = TRUE]
    <3>1. DOMAIN creds' = DOMAIN creds /\ \A d \in DOMAIN creds : creds[d] \in Cred
      BY <2>3 DEF CredsTyped
    <3>2. \A d \in DOMAIN creds : creds'[d] = IF d = c THEN [creds[d] EXCEPT !.stored = TRUE] ELSE creds[d]
      BY <2>3
    <3>3. \A x \in Cred : [x EXCEPT !.stored = TRUE].stored /\ [x EXCEPT !.stored = TRUE].tenant = x.tenant
      BY DEF Cred
    <3>4. \A d \in DOMAIN creds : creds'[d].tenant = creds[d].tenant /\ (creds[d].stored => creds'[d].stored)
      BY <3>1, <3>2, <3>3
    <3> QED
      BY <3>1, <3>4 DEF RowsOf
  <2> QED
    BY <1>1, <2>1, <2>2, <2>3
<1>4. CASE DeleteRest(r)
  <2>1. CASE UNCHANGED creds
    BY <1>1, <2>1
  <2>2. CASE /\ Deletes(req[r].tenant)
             /\ creds' = [c \in DOMAIN creds |->
                  IF c \in RowsOf(req[r].tenant) THEN [creds[c] EXCEPT !.stored = FALSE] ELSE creds[c]]
    <3>1. PICK u : u = req[r].tenant
      OBVIOUS
    <3>2. u # t
      BY <1>4, <2>2, <3>1
    <3>3. DOMAIN creds' = DOMAIN creds /\ \A c \in DOMAIN creds \ RowsOf(u) : creds'[c] = creds[c]
      BY <2>2, <3>1
    <3>4. RowsOf(t) \cap RowsOf(u) = {} /\ RowsOf(t) \subseteq DOMAIN creds /\ RowsOf(t) \subseteq Creds
      BY <3>2 DEF RowsOf
    <3>5. \A c \in RowsOf(t) : creds'[c] = creds[c] /\ creds[c].stored /\ creds[c].tenant = t
      BY <3>3, <3>4 DEF RowsOf
    <3> QED
      BY <3>3, <3>4, <3>5 DEF RowsOf
  <2> QED
    BY <1>4, <2>1, <2>2, DeletesOne DEF registryVars
<1> QED
  BY <1>1, <1>2, <1>3, <1>4, RowsTouched

LEMMA LogLater ==
  ASSUME RequestsInv, EventsInv, NEW r \in Jobs, Step(r), NEW t \in Tenants
  PROVE  /\ forked \subseteq forked' /\ torn \subseteq torn'
         /\ ~(DeleteRest(r) /\ req[r].tenant = t /\ Deletes(t)) => log[t] \subseteq log'[t]
<1>0. DOMAIN log = Tenants
  BY DEF EventsInv
<1>1. CASE UNCHANGED auditVars
  BY <1>1 DEF auditVars
<1>2. CASE ReadNewest(r) \/ Stamp(r)
  BY <1>2 DEF ReadNewest, Stamp
<1>3. CASE AppendEvent(r)
  <2>1. /\ \E u, e : log' = [log EXCEPT ![u] = @ \cup {e}]
        /\ forked' = forked /\ torn' = torn
    BY <1>3 DEF AppendEvent
  <2> QED
    BY <1>0, <2>1
<1>4. CASE DeleteRest(r)
  <2>1. PICK u : u = req[r].tenant
    OBVIOUS
  <2>2. CASE Deletes(u) /\ log' = [log EXCEPT ![u] = {}] /\ torn \subseteq torn' /\ forked' = forked
    <3>1. u = t \/ log'[t] = log[t]
      BY <1>0, <2>2
    <3> QED
      BY <1>4, <2>1, <2>2, <3>1
  <2> QED
    BY <1>1, <1>4, <2>1, <2>2, DeletesOne
<1>5. Calm(r) \/ Telling(r)
  BY StepCases
<1>6. CASE Telling(r) /\ ~(ReadNewest(r) \/ Stamp(r) \/ AppendEvent(r) \/ DeleteRest(r))
  <2>1. UNCHANGED auditVars
    BY <1>6 DEF Telling, InsertAgent, ReadKeys, ReadBits, Rotate, FindHolder, Register, Refetch, Allocate,
                Sign, Store, MakeIssuer
  <2> QED
    BY <1>1, <2>1
<1> QED
  BY <1>1, <1>2, <1>3, <1>4, <1>5, <1>6 DEF Calm

\* Events in front of the others move their places.
LEMMA TrustAfter ==
  ASSUME NEW A, NEW x \in Seq(A), NEW y \in Seq(A), NEW t \in Tenants,
         NEW P, P = {i \in DOMAIN y : y[i].tenant = t},
         NEW Q, Q = {i \in DOMAIN (x \o y) : (x \o y)[i].tenant = t}
  PROVE  Cardinality(P) <= Cardinality(Q)
<1> DEFINE f == [i \in P |-> Len(x) + i]
<1>1. PICK m, n, w : m = Len(x) /\ n = Len(y) /\ w = x \o y
  OBVIOUS
<1>2. m \in Nat /\ n \in Nat /\ DOMAIN y = 1..n /\ DOMAIN w = 1..m + n /\ \A i \in 1..n : w[m + i] = y[i]
  BY <1>1, Concatenated
<1>3. Q = {i \in 1..m + n : w[i].tenant = t} /\ P = {i \in 1..n : y[i].tenant = t}
  BY <1>1, <1>2
<1>4. f = [i \in P |-> m + i]
  BY <1>1
<1> HIDE DEF f
<1>5. \A i \in P : m + i \in Q
  <2>1. \A i \in 1..n : m + i \in 1..m + n
    BY <1>2
  <2> QED
    BY <1>2, <1>3, <2>1
<1>6. \A i, j \in P : f[i] = f[j] => i = j
  <2>1. \A i, j \in 1..n : m + i = m + j => i = j
    BY <1>2
  <2> QED
    BY <1>3, <1>4, <2>1
<1>7. f \in Injection(P, Q)
  BY <1>4, <1>5, <1>6 DEF Injection, IsInjective
<1>8. IsFiniteSet(Q)
  <2>1. IsFiniteSet(1..m + n)
    BY <1>2, FS_Interval
  <2> QED
    BY <1>3, <2>1, Smaller
<1> QED
  BY <1>7, <1>8, FS_Injection

LEMMA TrustLater ==
  ASSUME RequestsInv, FitsInv, StoredInv, NEW r \in Jobs, Step(r), NEW t \in Tenants
  PROVE  Cardinality(TrustOf(t)) <= Cardinality(TrustOf(t)')
<1>0. events \in Seq(TrustEvent) /\ events' \in Seq(TrustEvent)
  BY EventsStep DEF StoredInv
<1>1. \A x \in Seq(TrustEvent) : IsFiniteSet({i \in DOMAIN x : x[i].tenant = t})
  <2> TAKE x \in Seq(TrustEvent)
  <2>1. DOMAIN x = 1..Len(x) /\ Len(x) \in Nat
    OBVIOUS
  <2>2. IsFiniteSet(1..Len(x))
    BY <2>1, FS_Interval
  <2> QED
    BY <2>1, <2>2, Smaller
<1>2. TrustOf(t) = {i \in DOMAIN events : events[i].tenant = t} /\ TrustOf(t)' = {i \in DOMAIN events' : events'[i].tenant = t}
  BY DEF TrustOf
<1>3. ASSUME TrustOf(t) \subseteq TrustOf(t)' PROVE Cardinality(TrustOf(t)) <= Cardinality(TrustOf(t)')
  BY <1>0, <1>1, <1>2, <1>3, Smaller
<1>4. CASE events' = events
  BY <1>2, <1>3, <1>4
<1>5. CASE Record(r)
  <2>1. PICK e : events' = Append(events, e)
    BY <1>5 DEF Record
  <2>2. DOMAIN events \subseteq DOMAIN events' /\ \A i \in DOMAIN events : events'[i] = events[i]
    BY <1>0, <2>1
  <2> QED
    BY <1>2, <1>3, <2>2
<1>6. CASE SeedTrustEvents(r)
  <2>1. PICK x : x = TrustEventsOf(req[r])
    OBVIOUS
  <2>2. events' = x \o events
    BY <1>6, <2>1 DEF SeedTrustEvents
  <2>3. x \in Seq(TrustEvent)
    BY <1>6, <2>1, TrustEventsAre
  <2>4. PICK y : y = events
    OBVIOUS
  <2>5. PICK P, Q : P = TrustOf(t) /\ Q = TrustOf(t)'
    OBVIOUS
  <2>6. P = {i \in DOMAIN y : y[i].tenant = t} /\ Q = {i \in DOMAIN (x \o y) : (x \o y)[i].tenant = t}
    BY <1>2, <2>2, <2>4, <2>5
  <2>7. PICK T : T = TrustEvent
    OBVIOUS
  <2>8. x \in Seq(T) /\ y \in Seq(T)
    BY <1>0, <2>3, <2>4, <2>7
  <2>9. Cardinality(P) <= Cardinality(Q)
    BY <2>6, <2>8, TrustAfter
  <2> QED
    BY <2>5, <2>9
<1> QED
  BY <1>4, <1>5, <1>6, SideTouched

\* After a step, too, what is counted is finite.
LEMMA FiniteAlways ==
  RowsInv /\ StoredInv /\ BitsInv /\ FiniteInv =>
    \A t \in Tenants : IsFiniteSet(AgentsOf(t)) /\ IsFiniteSet(RowsOf(t)) /\ IsFiniteSet(log[t]) /\ Proper(View(t))
BY FiniteRows, ViewProper

LEMMA FiniteNext ==
  (RowsInv /\ StoredInv /\ BitsInv /\ FiniteInv)' =>
    (\A t \in Tenants : IsFiniteSet(AgentsOf(t)) /\ IsFiniteSet(RowsOf(t)) /\ IsFiniteSet(log[t]) /\ Proper(View(t)))'
BY FiniteAlways, PTL

LEMMA SeededLater ==
  ASSUME StoredInv, FiniteInv, NEW r \in Jobs, Step(r), NEW t \in Tenants
  PROVE  delegations[t] <= delegations'[t] /\ Cardinality(SpendsOf(t)) <= Cardinality(SpendsOf(t)')
<1>1. delegations[t] <= delegations'[t]
  <2>1. delegations \in [Tenants -> Nat] /\ Len(Tree) \in Nat
    BY BackendAssumption DEF StoredInv
  <2>2. delegations' = delegations \/ \E u : delegations' = [delegations EXCEPT ![u] = @ + Len(Tree)]
    BY SideTouched DEF SeedTree
  <2>3. PICK m, n : m = delegations[t] /\ n = Len(Tree)
    OBVIOUS
  <2>4. delegations'[t] = m \/ delegations'[t] = m + n
    BY <2>1, <2>2, <2>3
  <2>5. m \in Nat /\ n \in Nat
    BY <2>1, <2>3
  <2>6. m <= m /\ m <= m + n
    BY <2>5
  <2> QED
    BY <2>3, <2>4, <2>6
<1>2. Cardinality(SpendsOf(t)) <= Cardinality(SpendsOf(t)')
  <2>1. PICK x : spends' = spends \/ spends' = spends \cup {x}
    BY SpendsGrowth
  <2>2. IsFiniteSet(spends')
    BY <2>1, FS_AddElement DEF FiniteInv
  <2>3. SpendsOf(t) \subseteq SpendsOf(t)' /\ SpendsOf(t)' \subseteq spends'
    BY <2>1 DEF SpendsOf
  <2> QED
    BY <2>2, <2>3, Smaller
<1> QED
  BY <1>1, <1>2

LEMMA StepLater ==
  ASSUME RequestsInv, KeysInv, AttestInv, FitsInv, StoredInv, BitsInv, FiniteInv, EventsInv,
         RowsInv', StoredInv', BitsInv', FiniteInv', NEW r \in Jobs, Step(r), NEW t \in Tenants
  PROVE  Later(View(t), View(t)')
<1>1. resets[t] <= resets'[t] /\ Settled \subseteq Settled' /\ struck \subseteq struck'
  <2>1. Settled \subseteq Settled'
    BY StepGrows DEF Grows
  <2>2. struck \subseteq struck'
    BY StepConfined, WriteTyped DEF Confined
  <2> QED
    BY <2>1, <2>2, ResetsLater DEF KeysInv
<1>2. t \in forked \cup torn => t \in forked' \cup torn'
  BY LogLater
<1>3. ASSUME resets'[t] = resets[t]
      PROVE  RowsOf(t) \subseteq RowsOf(t)' /\ \A x \in Countables : Truth(t, struck)[x] <= Truth(t, struck)'[x]
  <2>1. AgentsOf(t) \subseteq AgentsOf(t)' /\ ~(DeleteRest(r) /\ req[r].tenant = t /\ Deletes(t))
    BY <1>3, ResetsLater DEF KeysInv
  <2>2. RowsOf(t) \subseteq RowsOf(t)'
    BY <2>1, RowsLater DEF StoredInv
  <2>3. log[t] \subseteq log'[t]
    BY <2>1, LogLater
  <2>4. /\ IsFiniteSet(AgentsOf(t)') /\ IsFiniteSet(RowsOf(t)') /\ IsFiniteSet(log'[t])
    BY FiniteNext
  <2>5. RowsOf(t) \cap struck \subseteq RowsOf(t)' \cap struck' /\ IsFiniteSet(RowsOf(t)' \cap struck')
    BY <1>1, <2>2, <2>4, Smaller
  <2>6. /\ Cardinality(AgentsOf(t)) <= Cardinality(AgentsOf(t)') /\ Cardinality(RowsOf(t)) <= Cardinality(RowsOf(t)')
        /\ Cardinality(RowsOf(t) \cap struck) <= Cardinality(RowsOf(t)' \cap struck')
        /\ Cardinality(log[t]) <= Cardinality(log'[t])
    BY <2>1, <2>2, <2>3, <2>4, <2>5, Smaller
  <2>7. /\ Cardinality(TrustOf(t)) <= Cardinality(TrustOf(t)') /\ delegations[t] <= delegations'[t]
        /\ Cardinality(SpendsOf(t)) <= Cardinality(SpendsOf(t)')
    BY TrustLater, SeededLater
  <2>8. /\ Truth(t, struck)'["agents"] = Cardinality(AgentsOf(t)') /\ Truth(t, struck)'["creds"] = Cardinality(RowsOf(t)')
        /\ Truth(t, struck)'["revoked"] = Cardinality(RowsOf(t)' \cap struck') /\ Truth(t, struck)'["events"] = Cardinality(log'[t])
        /\ Truth(t, struck)'["trust"] = Cardinality(TrustOf(t)') /\ Truth(t, struck)'["delegations"] = delegations'[t]
        /\ Truth(t, struck)'["spends"] = Cardinality(SpendsOf(t)')
    BY DEF Truth
  <2>9. ASSUME NEW x \in Countables PROVE Truth(t, struck)[x] <= Truth(t, struck)'[x]
    <3>1. x \in {"agents", "creds", "revoked", "events", "trust", "delegations", "spends"}
      BY DEF Countables
    <3> QED
      BY <2>6, <2>7, <2>8, <3>1, TruthIs
  <2> QED
    BY <2>2, <2>9
<1>4. /\ View(t)'.resets = resets'[t] /\ View(t)'.truth = Truth(t, struck)' /\ View(t)'.rows = RowsOf(t)'
      /\ View(t)'.sure = Settled' /\ View(t)'.ever = struck' /\ View(t)'.spoilt = (t \in forked' \cup torn')
  BY DEF View
<1> QED
  BY <1>1, <1>2, <1>3, <1>4, ViewIs DEF Later

\* Arrivals and time leave the rows alone.
LEMMA OthersLater ==
  ASSUME RowsInv, StoredInv, BitsInv, FiniteInv, UNCHANGED <<registryVars, sideVars, auditVars>>,
         Settled \subseteq Settled', NEW t \in Tenants
  PROVE  Later(View(t), View(t)')
<1>1. UNCHANGED <<agents, creds, revoked, struck, resets, events, delegations, spends, log, forked, torn>>
  BY DEF registryVars, sideVars, seededVars, auditVars
<1>2. /\ AgentsOf(t)' = AgentsOf(t) /\ RowsOf(t)' = RowsOf(t) /\ TrustOf(t)' = TrustOf(t) /\ SpendsOf(t)' = SpendsOf(t)
  BY <1>1 DEF AgentsOf, Registered, RowsOf, TrustOf, SpendsOf
<1>3. Truth(t, struck)' = Truth(t, struck)
  BY <1>1, <1>2 DEF Truth
<1>4. /\ View(t)'.resets = resets[t] /\ View(t)'.truth = Truth(t, struck) /\ View(t)'.rows = RowsOf(t)
      /\ View(t)'.sure = Settled' /\ View(t)'.ever = struck /\ View(t)'.spoilt = (t \in forked \cup torn)
  BY <1>1, <1>2, <1>3 DEF View
<1>5. \A n \in Nat : n <= n
  OBVIOUS
<1>6. Proper(View(t))
  BY ViewProper
<1> QED
  BY <1>4, <1>5, <1>6, ViewIs DEF Later, Proper

-----------------------------------------------------------------------------
(* The steps of a report.                                                  *)

LEMMA LookupsAre ==
  ASSUME NEW n \in Nat
  PROVE  /\ Lookups(n) \in Seq(Steps) /\ Lookups(n) # <<>> /\ Len(Lookups(n)) = n + 3
         /\ n = 0 => Head(Lookups(n)) = "countEvents" /\ Tail(Lookups(n)) = <<"walkChain", "reply">>
         /\ n # 0 => Head(Lookups(n)) = "checkCred" /\ Tail(Lookups(n)) = Lookups(n - 1)
<1>1. Lookups(n) \in Seq(Steps) /\ Len(Lookups(n)) = n + 3
  BY DEF Lookups, Steps
<1>2. \A i \in 1..n + 3 : Lookups(n)[i] = IF i <= n THEN "checkCred" ELSE IF i = n + 1 THEN "countEvents"
                                         ELSE IF i = n + 2 THEN "walkChain" ELSE "reply"
  BY DEF Lookups
<1>3. PICK t : t = Lookups(n)
  OBVIOUS
<1>4. t \in Seq(Steps) /\ Len(t) = n + 3 /\ t # <<>>
  BY <1>1, <1>3
<1>5. Head(t) = t[1] /\ Tail(t) \in Seq(Steps) /\ Len(Tail(t)) = n + 2 /\ \A i \in 1..n + 2 : Tail(t)[i] = t[i + 1]
  BY <1>4
<1>6. CASE n = 0
  <2>1. t[1] = "countEvents" /\ t[2] = "walkChain" /\ t[3] = "reply"
    BY <1>2, <1>3, <1>6
  <2>2. Len(Tail(t)) = 2 /\ Tail(t)[1] = "walkChain" /\ Tail(t)[2] = "reply"
    <3>1. 1 \in 1..n + 2 /\ 2 \in 1..n + 2 /\ n + 2 = 2 /\ 1 + 1 = 2 /\ 2 + 1 = 3
      BY <1>6
    <3>2. Tail(t)[1] = t[1 + 1] /\ Tail(t)[2] = t[2 + 1]
      BY <1>5, <3>1
    <3> QED
      BY <1>5, <2>1, <3>1, <3>2
  <2>3. PICK v : v = <<"walkChain", "reply">>
    OBVIOUS
  <2>4. v \in Seq(Steps) /\ Len(v) = 2 /\ v[1] = "walkChain" /\ v[2] = "reply"
    <3>1. "walkChain" \in Steps /\ "reply" \in Steps
      BY DEF Steps
    <3> QED
      BY <2>3, <3>1
  <2>5. PICK u, S : u = Tail(t) /\ S = Steps
    OBVIOUS
  <2>6. u \in Seq(S) /\ v \in Seq(S) /\ Len(u) = Len(v) /\ Len(u) = 2 /\ u[1] = v[1] /\ u[2] = v[2]
    BY <1>5, <2>2, <2>4, <2>5
  <2>7. \A i \in 1..Len(u) : u[i] = v[i]
    BY <2>6
  <2>8. u = v
    BY <2>6, <2>7, SameMembers
  <2>9. Tail(t) = <<"walkChain", "reply">>
    BY <2>3, <2>5, <2>8
  <2> QED
    BY <1>3, <1>4, <1>5, <1>6, <2>1, <2>9
<1>7. CASE n # 0
  <2>1. n - 1 \in Nat /\ t[1] = "checkCred"
    BY <1>2, <1>3, <1>7
  <2>2. PICK u : u = Lookups(n - 1)
    OBVIOUS
  <2>3. u \in Seq(Steps) /\ Len(u) = n + 2
    BY <2>1, <2>2 DEF Lookups, Steps
  <2>4. ASSUME NEW i \in 1..n + 2 PROVE u[i] = Tail(t)[i]
    <3>1. u[i] = IF i <= n - 1 THEN "checkCred" ELSE IF i = n THEN "countEvents"
                 ELSE IF i = n + 1 THEN "walkChain" ELSE "reply"
      BY <2>1, <2>2 DEF Lookups
    <3>2. Tail(t)[i] = t[i + 1] /\ i + 1 \in 1..n + 3
      BY <1>5
    <3>3. t[i + 1] = IF i + 1 <= n THEN "checkCred" ELSE IF i + 1 = n + 1 THEN "countEvents"
                     ELSE IF i + 1 = n + 2 THEN "walkChain" ELSE "reply"
      BY <1>2, <1>3, <3>2
    <3>4. i \in Int /\ n \in Int
      OBVIOUS
    <3>5. (i + 1 <= n <=> i <= n - 1) /\ (i + 1 = n + 1 <=> i = n) /\ (i + 1 = n + 2 <=> i = n + 1)
      BY <3>4
    <3> QED
      BY <3>1, <3>2, <3>3, <3>5
  <2>5. Tail(t) = u
    BY <1>5, <2>3, <2>4, SameMembers
  <2> QED
    BY <1>3, <1>4, <1>5, <1>7, <2>1, <2>2, <2>5
<1> QED
  BY <1>6, <1>7

LEMMA LookupsBegin ==
  ASSUME NEW n \in Nat
  PROVE  [i \in 1..n |-> "checkCred"] \o Tail(ComplianceReport) = Lookups(n)
<1>1. PICK w, u, S : w = [i \in 1..n |-> "checkCred"] /\ u = Tail(ComplianceReport) /\ S = Steps
  OBVIOUS
<1>2. u \in Seq(S) /\ Len(u) = 3 /\ u[1] = "countEvents" /\ u[2] = "walkChain" /\ u[3] = "reply"
  <2>1. u = <<"countEvents", "walkChain", "reply">>
    BY <1>1 DEF ComplianceReport
  <2>2. "countEvents" \in S /\ "walkChain" \in S /\ "reply" \in S
    BY <1>1 DEF Steps
  <2> QED
    BY <2>1, <2>2
<1>3. w \in Seq(S) /\ Len(w) = n /\ \A i \in 1..n : w[i] = "checkCred"
  <2>1. "checkCred" \in S
    BY <1>1 DEF Steps
  <2>2. w \in [1..n -> S]
    BY <1>1, <2>1
  <2>3. \A i \in 1..n : w[i] = "checkCred"
    BY <1>1
  <2>4. w \in Seq(S) /\ Len(w) = n
    BY <2>2
  <2> QED
    BY <2>3, <2>4
<1>4. PICK v, l : v = w \o u /\ l = Lookups(n)
  OBVIOUS
<1>5. /\ v \in Seq(S) /\ Len(v) = n + 3
      /\ \A i \in 1..n : v[i] = "checkCred"
      /\ v[n + 1] = "countEvents" /\ v[n + 2] = "walkChain" /\ v[n + 3] = "reply"
  <2>1. w \in Seq(S) /\ u \in Seq(S)
    BY <1>2, <1>3
  <2>2. /\ w \o u \in Seq(S) /\ Len(w \o u) = Len(w) + Len(u)
        /\ \A i \in 1..Len(w) : (w \o u)[i] = w[i]
        /\ \A i \in 1..Len(u) : (w \o u)[Len(w) + i] = u[i]
    BY <2>1, Concatenated
  <2>3. /\ v \in Seq(S) /\ Len(v) = Len(w) + Len(u)
        /\ \A i \in 1..Len(w) : v[i] = w[i]
        /\ \A i \in 1..Len(u) : v[Len(w) + i] = u[i]
    BY <1>4, <2>2
  <2>4. 1 \in 1..Len(u) /\ 2 \in 1..Len(u) /\ 3 \in 1..Len(u)
    BY <1>2
  <2> QED
    BY <1>2, <1>3, <2>3, <2>4
<1>6. /\ l \in Seq(S) /\ Len(l) = n + 3
      /\ \A i \in 1..n : l[i] = "checkCred"
      /\ l[n + 1] = "countEvents" /\ l[n + 2] = "walkChain" /\ l[n + 3] = "reply"
  <2>1. l \in Seq(S) /\ Len(l) = n + 3
    BY <1>1, <1>4, LookupsAre
  <2>2. \A i \in 1..n + 3 : l[i] = IF i <= n THEN "checkCred" ELSE IF i = n + 1 THEN "countEvents"
                                   ELSE IF i = n + 2 THEN "walkChain" ELSE "reply"
    BY <1>4 DEF Lookups
  <2>3. \A i \in 1..n : i \in 1..n + 3 /\ i <= n
    OBVIOUS
  <2>4. /\ n + 1 \in 1..n + 3 /\ n + 2 \in 1..n + 3 /\ n + 3 \in 1..n + 3
        /\ ~(n + 1 <= n) /\ ~(n + 2 <= n) /\ ~(n + 3 <= n) /\ n + 2 # n + 1 /\ n + 3 # n + 1 /\ n + 3 # n + 2
    OBVIOUS
  <2>5. \A i \in 1..n : l[i] = "checkCred"
    BY <2>2, <2>3
  <2>6. l[n + 1] = "countEvents" /\ l[n + 2] = "walkChain" /\ l[n + 3] = "reply"
    BY <2>2, <2>4
  <2> QED
    BY <2>1, <2>5, <2>6
<1>7. ASSUME NEW i \in 1..n + 3 PROVE v[i] = l[i]
  <2>1. i \in 1..n \/ i = n + 1 \/ i = n + 2 \/ i = n + 3
    OBVIOUS
  <2>2. CASE i \in 1..n
    BY <1>5, <1>6, <2>2
  <2>3. CASE i = n + 1
    BY <1>5, <1>6, <2>3
  <2>4. CASE i = n + 2
    BY <1>5, <1>6, <2>4
  <2>5. CASE i = n + 3
    BY <1>5, <1>6, <2>5
  <2> QED
    BY <2>1, <2>2, <2>3, <2>4, <2>5
<1>8. v = l
  BY <1>5, <1>6, <1>7, SameMembers
<1> QED
  BY <1>1, <1>4, <1>8

ReportSteps == {"countRows", "checkCred", "countEvents", "walkChain", "reply"}
BoardSteps == {"readAgents", "readBoard", "reply"}

LEMMA ReportingSteps ==
  ASSUME NEW r \in Jobs, Step(r), Doing(r) \in ReportSteps \cup BoardSteps
  PROVE  \/ CountRows(r) \/ CheckCred(r) \/ CountEvents(r) \/ WalkChain(r) \/ Reply(r) \/ Expire(r)
         \/ ReadAgents(r) \/ ReadBoard(r)
<1>1. ~(EnsureTenant(r) \/ InsertAgent(r) \/ ReadKeys(r) \/ Rotate(r) \/ ReadNewest(r) \/ Stamp(r) \/ AppendEvent(r))
  BY DEF EnsureTenant, InsertAgent, ReadKeys, Rotate, ReadNewest, Stamp, AppendEvent, Ready, ReportSteps, BoardSteps
<1>2. ~(FindHolder(r) \/ Register(r) \/ Refetch(r) \/ Allocate(r) \/ FindIssuer(r) \/ Sign(r) \/ Store(r))
  BY DEF FindHolder, Register, Refetch, Allocate, FindIssuer, Sign, Store, Ready, ReportSteps, BoardSteps
<1>3. ~(FindCred(r) \/ ReadBits(r) \/ SetRevoked(r) \/ Flush(r) \/ ReadEvents(r))
  BY DEF FindCred, ReadBits, SetRevoked, Flush, ReadEvents, Ready, ReportSteps, BoardSteps
<1>4. ~(Resolve(r) \/ ReadList(r) \/ EnsureIssuer(r) \/ MakeIssuer(r) \/ Get(r) \/ Fetch(r) \/ Set(r))
  BY DEF Resolve, ReadList, EnsureIssuer, MakeIssuer, Get, Fetch, Set, Ready, ReportSteps, BoardSteps
<1>5. ~(ReadIssuer(r) \/ ReadHistory(r) \/ Record(r) \/ Dispatch(r) \/ DeleteCreds(r) \/ DeleteRest(r))
  BY DEF ReadIssuer, ReadHistory, Record, Dispatch, DeleteCreds, DeleteRest, Ready, ReportSteps, BoardSteps
<1>6. ~(InsertHook(r) \/ DropHook(r) \/ FindHook(r) \/ CheckEmpty(r))
  BY DEF InsertHook, DropHook, FindHook, CheckEmpty, Ready, ReportSteps, BoardSteps
<1>8. ~(SeedAgents(r) \/ SeedCreds(r) \/ SeedRevoked(r))
  BY DEF SeedAgents, SeedCreds, SeedRevoked, Ready, ReportSteps, BoardSteps
<1>7. ~(SeedTree(r) \/ SeedIntent(r) \/ SeedCart(r) \/ Spend(r) \/ SeedTrustEvents(r))
  BY DEF SeedTree, SeedIntent, SeedCart, Spend, SeedTrustEvents, Ready, ReportSteps, BoardSteps
<1> QED
  BY <1>1, <1>2, <1>3, <1>4, <1>5, <1>6, <1>7, <1>8, Zenon DEF Step

LEMMA Joined ==
  ASSUME NEW f, NEW g
  PROVE  /\ DOMAIN Also(f, g) = DOMAIN f \cup DOMAIN g
         /\ \A x \in DOMAIN f : Also(f, g)[x] = f[x]
         /\ \A x \in DOMAIN g \ DOMAIN f : Also(f, g)[x] = g[x]
BY DEF Also

\* Where a report is in its script tells what it knows.
LEMMA ReportAt ==
  ASSUME NEW q, NEW t, NEW e, q.kind = "report", Reporting(q, t, e)
  PROVE  /\ Head(t) \in ReportSteps
         /\ Head(t) = "countRows" => Begun(q, t, e)
         /\ Head(t) \in {"checkCred", "countEvents"} => Counting(q, t, e)
         /\ Head(t) = "walkChain" => AllCounted(q, t, e)
         /\ Head(t) = "reply" => Walked(q, t, e)
<1>1. Begun(q, t, e) => Head(t) = "countRows"
  BY DEF Begun, ComplianceReport
<1>2. Counting(q, t, e) => Head(t) \in {"checkCred", "countEvents"}
  BY LookupsAre DEF Counting
<1>3. AllCounted(q, t, e) => Head(t) = "walkChain"
  BY DEF AllCounted
<1>4. Walked(q, t, e) => Head(t) = "reply"
  BY DEF Walked
<1> QED
  BY <1>1, <1>2, <1>3, <1>4 DEF Reporting, ReportSteps

\* A report goes on with the script it is given.
LEMMA FollowReports ==
  ASSUME RequestsInv, NEW r \in Jobs, NEW q, DOMAIN q = Fields, NEW t, NEW e, Follow(r, q, t),
         t # <<>> => Reporting(q, t, e)
  PROVE  req'[r] # None => Reporting(req'[r], req'[r].todo, e)
<1>1. CASE t = <<>>
  BY <1>1 DEF Follow, End, RequestsInv
<1>2. CASE t # <<>>
  <2>1. req' = [req EXCEPT ![r] = [q EXCEPT !.todo = t]]
    BY <1>2 DEF Follow
  <2> DEFINE p == [q EXCEPT !.todo = t]
  <2>2. /\ p.kind = q.kind /\ p.since = q.since /\ p.start = q.start /\ p.tally = q.tally /\ p.seen = q.seen
        /\ p.todo = t
    BY FieldsAre
  <2>3. req'[r] = p
    BY <2>1 DEF RequestsInv
  <2> HIDE DEF p
  <2>4. Reporting(p, t, e)
    BY <1>2, <2>2, ReportingAlike
  <2> QED
    BY <2>2, <2>3, <2>4
<1> QED
  BY <1>1, <1>2

\* One that fails is over.
LEMMA FailedReport ==
  ASSUME RequestsInv, NEW r \in Jobs, req[r].kind \in {"report", "board"}, Fail(r),
         Doing(r) \in ReportSteps \cup BoardSteps
  PROVE  req'[r] = None
<1>1. End(r, "error")
  BY DEF Fail, ReportSteps, BoardSteps
<1> QED
  BY <1>1 DEF End, RequestsInv

LEMMA CountRowsReports ==
  ASSUME RequestsInv, RowsInv, StoredInv, BitsInv, FiniteInv, NEW r \in Jobs, req[r].kind = "report", CountRows(r),
         NEW e, e = View(req[r].tenant), Reporting(req[r], req[r].todo, e)
  PROVE  req'[r] # None => Reporting(req'[r], req'[r].todo, e)
<1> DEFINE q == req[r]
           t == q.tenant
<1>1. q # None /\ Doing(r) = "countRows" /\ DOMAIN q = Fields /\ t \in Tenants
  BY DEF CountRows, Ready, RequestsInv, Request
<1>2. Begun(q, q.todo, e) /\ q.since \in Nat /\ q.since <= e.resets
  BY <1>1, ReportAt DEF Reporting, Doing
<1>3. PICK n, rows, tally : /\ rows = RowsOf(t) /\ n = Cardinality(rows)
                            /\ tally = [agents |-> Cardinality(AgentsOf(t)), creds |-> n, revoked |-> 0]
  OBVIOUS
<1> DEFINE p == [q EXCEPT !.seen = rows, !.tally = tally]
<1>4. Insist(r, p, [i \in 1..n |-> "checkCred"])
  BY <1>3 DEF CountRows
<1>5. /\ DOMAIN p = Fields /\ p.kind = q.kind /\ p.since = q.since /\ p.start = q.start /\ p.tally = tally
      /\ p.seen = rows /\ p.todo = q.todo
  BY <1>1, FieldsAre
<1> HIDE DEF p
<1>6. n \in Nat /\ rows \subseteq Creds /\ IsFiniteSet(rows) /\ Proper(e)
  BY <1>1, <1>3, FiniteRows, ViewProper, FS_CardinalityType DEF RowsOf
<1>7. [i \in 1..n |-> "checkCred"] \o Tail(p.todo) = Lookups(n)
  BY <1>2, <1>5, <1>6, LookupsBegin DEF Begun
<1>8. Follow(r, p, Lookups(n))
  BY <1>4, <1>7 DEF Insist
<1>9. /\ e.rows = rows /\ e.truth["agents"] = tally["agents"] /\ e.truth["creds"] = tally["creds"]
      /\ tally["revoked"] = 0
  <2>1. e.rows = rows /\ e.truth = Truth(t, struck)
    BY <1>3, ViewIs
  <2>2. /\ tally["agents"] = Cardinality(AgentsOf(t)) /\ tally["creds"] = Cardinality(RowsOf(t))
        /\ tally["revoked"] = 0
    BY <1>3
  <2>3. Truth(t, struck)["agents"] = Cardinality(AgentsOf(t)) /\ Truth(t, struck)["creds"] = Cardinality(RowsOf(t))
    BY TruthIs
  <2> QED
    BY <2>1, <2>2, <2>3
<1>10. DOMAIN tally = Rowed \cup {"revoked"}
  BY <1>3 DEF Rowed
<1>11. ASSUME q.since = e.resets
       PROVE  Between(p, e, Rowed) /\ Below(p, e, Evented) /\ BitsBetween(p, e, rows)
  <2>1. Below(q, e, Rowed \cup Evented) /\ BitsBelow(q, e)
    BY <1>2, <1>11 DEF Begun
  <2>2. Below(p, e, Evented)
    BY <1>5, <2>1 DEF Below
  <2>3. ASSUME NEW x \in Rowed
        PROVE  p.start[x] \in Nat /\ p.tally[x] \in Nat /\ p.start[x] <= p.tally[x] /\ p.tally[x] <= e.truth[x]
    <3>1. p.start[x] \in Nat /\ p.start[x] <= e.truth[x]
      BY <1>5, <2>1 DEF Below
    <3>2. p.tally[x] = e.truth[x] /\ e.truth[x] \in Nat
      BY <1>5, <1>6, <1>9, CountablesAre DEF Rowed, Proper
    <3>3. PICK a : a = e.truth[x]
      OBVIOUS
    <3>4. a \in Nat /\ a <= a
      BY <3>2, <3>3
    <3> QED
      BY <3>1, <3>2, <3>3, <3>4
  <2>4. BitsBetween(p, e, rows)
    <3>1. PICK H : H \subseteq e.rows \cap e.sure /\ Cardinality(H) = q.start["revoked"]
      BY <2>1 DEF BitsBelow
    <3>2. Cardinality({}) = p.tally["revoked"] /\ Cardinality(H) = p.start["revoked"]
      BY <1>5, <1>9, <3>1, FS_EmptySet
    <3>3. rows \subseteq e.rows /\ {} \subseteq e.rows \cap e.ever /\ {} \cap rows = {} /\ H \subseteq {} \cup (rows \cap e.sure)
      BY <1>9, <3>1
    <3> QED
      BY <3>2, <3>3 DEF BitsBetween
  <2> QED
    BY <2>2, <2>3, <2>4 DEF Between
<1>12. Counting(p, Lookups(n), e)
  BY <1>3, <1>5, <1>6, <1>10, <1>11 DEF Counting
<1>13. Reporting(p, Lookups(n), e)
  BY <1>2, <1>5, <1>12 DEF Reporting
<1> QED
  BY <1>5, <1>8, <1>13, FollowReports

\* The least of the credentials that are yet to be looked up is one of them.
LEMMA LeastOf ==
  ASSUME NEW S, S \subseteq Creds, S # {}
  PROVE  Min(S) \in S
<1>1. S \subseteq Nat
  BY RegistryAssumption
<1>2. \E n \in S : \A m \in S : n <= m
  BY <1>1, Least
<1> QED
  BY <1>2 DEF Min

\* One credential more is looked up; G were counted before.
LEMMA OneLooked ==
  ASSUME NEW e, Proper(e), NEW q, NEW p, NEW rest, NEW c \in rest, BitsBetween(q, e, rest), p.start = q.start,
         p.tally["revoked"] = q.tally["revoked"] + (IF c \in e.bits THEN 1 ELSE 0)
  PROVE  BitsBetween(p, e, rest \ {c})
<1>1. PICK G, H : /\ rest \subseteq e.rows
                  /\ G \subseteq e.rows \cap e.ever /\ G \cap rest = {} /\ H \subseteq G \cup (rest \cap e.sure)
                  /\ Cardinality(G) = q.tally["revoked"] /\ Cardinality(H) = q.start["revoked"]
  BY DEF BitsBetween
<1>2. PICK F : F = IF c \in e.bits THEN G \cup {c} ELSE G
  OBVIOUS
<1>3. /\ rest \ {c} \subseteq e.rows /\ F \subseteq e.rows \cap e.ever /\ F \cap (rest \ {c}) = {}
      /\ H \subseteq F \cup ((rest \ {c}) \cap e.sure)
  <2>1. e.sure \subseteq e.bits /\ e.bits \subseteq e.ever
    BY DEF Proper
  <2> QED
    BY <1>1, <1>2, <2>1
<1>4. Cardinality(F) = p.tally["revoked"]
  <2>1. IsFiniteSet(G) /\ c \notin G
    BY <1>1, FS_Subset DEF Proper
  <2>2. Cardinality(G \cup {c}) = Cardinality(G) + 1 /\ Cardinality(G) \in Nat
    BY <2>1, FS_AddElement, FS_CardinalityType
  <2>3. PICK n : n = Cardinality(G)
    OBVIOUS
  <2>4. n + 0 = n
    BY <2>2, <2>3
  <2>5. CASE c \in e.bits
    BY <1>1, <1>2, <2>2, <2>5
  <2>6. CASE c \notin e.bits
    BY <1>1, <1>2, <2>3, <2>4, <2>6
  <2> QED
    BY <2>5, <2>6
<1> QED
  BY <1>1, <1>3, <1>4 DEF BitsBetween

LEMMA CheckCredReports ==
  ASSUME RequestsInv, RowsInv, StoredInv, BitsInv, FiniteInv, NEW r \in Jobs, req[r].kind = "report", CheckCred(r),
         NEW e, e = View(req[r].tenant), Reporting(req[r], req[r].todo, e)
  PROVE  req'[r] # None => Reporting(req'[r], req'[r].todo, e)
<1> DEFINE q == req[r]
           t == q.tenant
<1>1. q # None /\ Doing(r) = "checkCred" /\ DOMAIN q = Fields /\ t \in Tenants
  BY DEF CheckCred, Ready, RequestsInv, Request
<1>2. Counting(q, q.todo, e) /\ q.since \in Nat /\ q.since <= e.resets /\ Head(q.todo) = "checkCred"
  BY <1>1, ReportAt DEF Reporting, Doing
<1>3. PICK n \in Nat :
        /\ q.todo = Lookups(n) /\ q.seen \subseteq Creds /\ n = Cardinality(q.seen)
        /\ DOMAIN q.tally = Rowed \cup {"revoked"}
        /\ q.since = e.resets => Between(q, e, Rowed) /\ Below(q, e, Evented) /\ BitsBetween(q, e, q.seen)
  BY <1>2 DEF Counting
<1>4. PICK c : c = Min(q.seen)
  OBVIOUS
<1> DEFINE p == [q EXCEPT !.seen = @ \ {c}, !.tally.revoked = @ + (IF c \in revoked THEN 1 ELSE 0)]
<1>5. Fail(r) \/ Proceed(r, p)
  BY <1>4 DEF CheckCred
<1>6. CASE Fail(r)
  BY <1>1, <1>6, FailedReport DEF ReportSteps
<1>7. CASE Proceed(r, p)
  <2>1. /\ DOMAIN p = Fields /\ p.kind = q.kind /\ p.since = q.since /\ p.start = q.start
        /\ p.seen = q.seen \ {c} /\ p.todo = q.todo
        /\ p.tally = [q.tally EXCEPT !.revoked = @ + (IF c \in revoked THEN 1 ELSE 0)]
    BY <1>1, FieldsAre
  <2> HIDE DEF p
  <2>2. /\ DOMAIN p.tally = Rowed \cup {"revoked"} /\ \A x \in Rowed : p.tally[x] = q.tally[x]
        /\ p.tally["revoked"] = q.tally["revoked"] + (IF c \in revoked THEN 1 ELSE 0)
    BY <1>3, <2>1 DEF Rowed
  <2>3. n # 0 /\ Tail(q.todo) = Lookups(n - 1) /\ n - 1 \in Nat
    <3>1. n # 0
      BY <1>2, <1>3, LookupsAre
    <3>2. Tail(Lookups(n)) = Lookups(n - 1)
      BY <3>1, LookupsAre
    <3>3. n - 1 \in Nat
      BY <3>1
    <3> QED
      BY <1>3, <3>1, <3>2, <3>3
  <2>4. IsFiniteSet(q.seen) /\ q.seen # {}
    <3>1. IsFiniteSet(q.seen)
      BY <1>3, RegistryAssumption, FS_Subset
    <3> QED
      BY <1>3, <2>3, <3>1, FS_EmptySet
  <2>5. c \in q.seen
    BY <1>3, <1>4, <2>4, LeastOf
  <2>6. Cardinality(p.seen) = n - 1 /\ p.seen \subseteq Creds
    BY <1>3, <2>1, <2>4, <2>5, FS_RemoveElement
  <2>7. ASSUME q.since = e.resets
        PROVE  Between(p, e, Rowed) /\ Below(p, e, Evented) /\ BitsBetween(p, e, p.seen)
    <3>1. Between(q, e, Rowed) /\ Below(q, e, Evented) /\ BitsBetween(q, e, q.seen)
      BY <1>3, <2>7
    <3>2. Between(p, e, Rowed) /\ Below(p, e, Evented)
      BY <2>1, <2>2, <3>1 DEF Between, Below
    <3>3. Proper(e) /\ e.bits = revoked
      BY <1>1, ViewProper, ViewIs
    <3>4. BitsBetween(p, e, q.seen \ {c})
      BY <2>1, <2>2, <2>5, <3>1, <3>3, OneLooked
    <3> QED
      BY <2>1, <3>2, <3>4
  <2>8. Counting(p, Lookups(n - 1), e)
    BY <2>1, <2>2, <2>3, <2>6, <2>7 DEF Counting
  <2>9. Reporting(p, Lookups(n - 1), e)
    BY <1>2, <2>1, <2>8 DEF Reporting
  <2>10. Follow(r, p, Lookups(n - 1))
    BY <1>7, <2>1, <2>3 DEF Proceed
  <2> QED
    BY <2>1, <2>9, <2>10, FollowReports
<1> QED
  BY <1>5, <1>6, <1>7

LEMMA CountEventsReports ==
  ASSUME RequestsInv, RowsInv, StoredInv, BitsInv, FiniteInv, NEW r \in Jobs, req[r].kind = "report", CountEvents(r),
         NEW e, e = View(req[r].tenant), Reporting(req[r], req[r].todo, e)
  PROVE  req'[r] # None => Reporting(req'[r], req'[r].todo, e)
<1> DEFINE q == req[r]
           t == q.tenant
<1>1. q # None /\ Doing(r) = "countEvents" /\ DOMAIN q = Fields /\ t \in Tenants
  BY DEF CountEvents, Ready, RequestsInv, Request
<1>2. Counting(q, q.todo, e) /\ q.since \in Nat /\ q.since <= e.resets /\ Head(q.todo) = "countEvents"
  BY <1>1, ReportAt DEF Reporting, Doing
<1>3. PICK n \in Nat :
        /\ q.todo = Lookups(n) /\ q.seen \subseteq Creds /\ n = Cardinality(q.seen)
        /\ DOMAIN q.tally = Rowed \cup {"revoked"}
        /\ q.since = e.resets => Between(q, e, Rowed) /\ Below(q, e, Evented) /\ BitsBetween(q, e, q.seen)
  BY <1>2 DEF Counting
<1>4. PICK more : more = [events |-> Cardinality(log[t]), trust |-> Cardinality(TrustOf(t)),
                          delegations |-> delegations[t], spends |-> Cardinality(SpendsOf(t))]
  OBVIOUS
<1>5. PICK tally : tally = Also(q.tally, more)
  OBVIOUS
<1> DEFINE p == [q EXCEPT !.tally = tally]
<1>6. Proceed(r, p)
  BY <1>4, <1>5 DEF CountEvents
<1>7. /\ DOMAIN p = Fields /\ p.kind = q.kind /\ p.since = q.since /\ p.start = q.start
      /\ p.tally = tally /\ p.todo = q.todo
  BY <1>1, FieldsAre
<1> HIDE DEF p
<1>8. n = 0 /\ Tail(q.todo) = <<"walkChain", "reply">>
  <2>1. n = 0
    BY <1>2, <1>3, LookupsAre
  <2>2. Tail(Lookups(n)) = <<"walkChain", "reply">>
    BY <2>1, LookupsAre
  <2> QED
    BY <1>3, <2>1, <2>2
<1>9. q.seen = {}
  <2>1. IsFiniteSet(q.seen)
    BY <1>3, RegistryAssumption, FS_Subset
  <2> QED
    BY <1>3, <1>8, <2>1, FS_EmptySet
<1>10. DOMAIN more = Evented /\ \A x \in Evented : more[x] = Truth(t, struck)[x]
  <2>1. DOMAIN more = Evented
    BY <1>4 DEF Evented
  <2>2. /\ more["events"] = Truth(t, struck)["events"] /\ more["trust"] = Truth(t, struck)["trust"]
        /\ more["delegations"] = Truth(t, struck)["delegations"] /\ more["spends"] = Truth(t, struck)["spends"]
    BY <1>4, TruthIs
  <2> QED
    BY <2>1, <2>2 DEF Evented
<1>11. /\ DOMAIN tally = Countables
       /\ \A x \in Rowed \cup {"revoked"} : tally[x] = q.tally[x]
       /\ \A x \in Evented : tally[x] = e.truth[x]
  <2>1. Evented \cap (Rowed \cup {"revoked"}) = {}
    BY DEF Evented, Rowed
  <2>2. e.truth = Truth(t, struck)
    BY ViewIs
  <2>3. /\ DOMAIN tally = (Rowed \cup {"revoked"}) \cup Evented
        /\ \A x \in Rowed \cup {"revoked"} : tally[x] = q.tally[x]
        /\ \A x \in Evented : tally[x] = more[x]
    <3>1. PICK f : f = q.tally
      OBVIOUS
    <3>2. /\ DOMAIN Also(f, more) = DOMAIN f \cup DOMAIN more
          /\ \A x \in DOMAIN f : Also(f, more)[x] = f[x]
          /\ \A x \in DOMAIN more \ DOMAIN f : Also(f, more)[x] = more[x]
      BY Joined
    <3>3. tally = Also(f, more) /\ DOMAIN f = Rowed \cup {"revoked"} /\ DOMAIN more = Evented
      BY <1>3, <1>5, <1>10, <3>1
    <3> QED
      BY <2>1, <3>1, <3>2, <3>3
  <2> QED
    BY <1>10, <2>2, <2>3, CountablesAre
<1>12. ASSUME q.since = e.resets PROVE Between(p, e, Countables)
  <2>1. Between(q, e, Rowed) /\ Below(q, e, Evented) /\ BitsBetween(q, e, q.seen)
    BY <1>3, <1>12
  <2>2. Proper(e)
    BY <1>1, ViewProper
  <2>3. ASSUME NEW x \in Rowed
        PROVE  p.start[x] \in Nat /\ p.tally[x] \in Nat /\ p.start[x] <= p.tally[x] /\ p.tally[x] <= e.truth[x]
    BY <1>7, <1>11, <2>1 DEF Between
  <2>4. ASSUME NEW x \in Evented
        PROVE  p.start[x] \in Nat /\ p.tally[x] \in Nat /\ p.start[x] <= p.tally[x] /\ p.tally[x] <= e.truth[x]
    <3>1. PICK a : a = e.truth[x]
      OBVIOUS
    <3>2. p.start[x] \in Nat /\ p.start[x] <= a /\ p.tally[x] = a
      BY <1>7, <1>11, <2>1, <3>1 DEF Below
    <3>3. a \in Nat
      BY <2>2, <3>1, CountablesAre DEF Proper
    <3>4. a <= a
      BY <3>3
    <3> QED
      BY <3>1, <3>2, <3>3, <3>4
  <2>5. /\ p.start["revoked"] \in Nat /\ p.tally["revoked"] \in Nat
        /\ p.start["revoked"] <= p.tally["revoked"] /\ p.tally["revoked"] <= e.truth["revoked"]
    <3>1. PICK G, H : /\ G \subseteq e.rows \cap e.ever /\ H \subseteq G
                      /\ Cardinality(G) = q.tally["revoked"] /\ Cardinality(H) = q.start["revoked"]
      BY <1>9, <2>1 DEF BitsBetween
    <3>2. IsFiniteSet(e.rows \cap e.ever) /\ Cardinality(e.rows \cap e.ever) = e.truth["revoked"]
      BY <2>2, FS_Intersection DEF Proper
    <3>3. IsFiniteSet(G) /\ Cardinality(G) \in Nat /\ Cardinality(G) <= e.truth["revoked"]
      BY <3>1, <3>2, Smaller
    <3>4. Cardinality(H) \in Nat /\ Cardinality(H) <= Cardinality(G)
      BY <3>1, <3>3, Smaller
    <3>5. p.tally["revoked"] = Cardinality(G) /\ p.start["revoked"] = Cardinality(H)
      BY <1>7, <1>11, <3>1
    <3> QED
      BY <3>3, <3>4, <3>5
  <2>6. Countables = Rowed \cup {"revoked"} \cup Evented
    BY CountablesAre
  <2> QED
    BY <2>3, <2>4, <2>5, <2>6 DEF Between
<1>13. AllCounted(p, Tail(q.todo), e)
  BY <1>7, <1>8, <1>11, <1>12 DEF AllCounted
<1>14. Reporting(p, Tail(q.todo), e)
  BY <1>2, <1>7, <1>13 DEF Reporting
<1>15. Follow(r, p, Tail(q.todo))
  BY <1>6, <1>7 DEF Proceed
<1> QED
  BY <1>7, <1>14, <1>15, FollowReports

LEMMA WalkChainReports ==
  ASSUME RequestsInv, ChainsAreSound, NEW r \in Jobs, req[r].kind = "report", WalkChain(r),
         NEW e, e = View(req[r].tenant), Reporting(req[r], req[r].todo, e)
  PROVE  req'[r] # None => Reporting(req'[r], req'[r].todo, e)
<1> DEFINE q == req[r]
           t == q.tenant
<1>1. q # None /\ Doing(r) = "walkChain" /\ DOMAIN q = Fields /\ t \in Tenants
  BY DEF WalkChain, Ready, RequestsInv, Request
<1>2. AllCounted(q, q.todo, e) /\ q.since \in Nat /\ q.since <= e.resets
  BY <1>1, ReportAt DEF Reporting, Doing
<1>3. PICK valid, tally : valid = Unbroken(log[t]) /\ tally = Also(q.tally, [valid |-> valid])
  OBVIOUS
<1> DEFINE p == [q EXCEPT !.tally = tally]
<1>4. Proceed(r, p)
  BY <1>3 DEF WalkChain
<1>5. /\ DOMAIN p = Fields /\ p.kind = q.kind /\ p.since = q.since /\ p.start = q.start
      /\ p.tally = tally /\ p.todo = q.todo
  BY <1>1, FieldsAre
<1> HIDE DEF p
<1>6. /\ DOMAIN tally = Countables \cup {"valid"} /\ (\A x \in Countables : tally[x] = q.tally[x])
      /\ tally["valid"] = valid
  <2>1. DOMAIN q.tally = Countables /\ "valid" \notin Countables
    BY <1>2 DEF AllCounted, Countables
  <2>2. PICK more : more = [valid |-> valid]
    OBVIOUS
  <2>3. DOMAIN more = {"valid"} /\ more["valid"] = valid
    BY <2>2
  <2>4. /\ DOMAIN tally = DOMAIN q.tally \cup DOMAIN more
        /\ \A x \in DOMAIN q.tally : tally[x] = q.tally[x]
        /\ \A x \in DOMAIN more \ DOMAIN q.tally : tally[x] = more[x]
    <3>1. PICK f : f = q.tally
      OBVIOUS
    <3>2. /\ DOMAIN Also(f, more) = DOMAIN f \cup DOMAIN more
          /\ \A x \in DOMAIN f : Also(f, more)[x] = f[x]
          /\ \A x \in DOMAIN more \ DOMAIN f : Also(f, more)[x] = more[x]
      BY Joined
    <3> QED
      BY <1>3, <2>2, <3>1, <3>2
  <2> QED
    BY <2>1, <2>3, <2>4
<1>7. valid \/ e.spoilt
  <2>1. t \notin forked \cup torn => valid
    BY <1>1, <1>3 DEF ChainsAreSound
  <2>2. e.spoilt = (t \in forked \cup torn)
    BY ViewIs
  <2> QED
    BY <2>1, <2>2
<1>8. q.since = e.resets => Between(p, e, Countables)
  <2> SUFFICES ASSUME q.since = e.resets PROVE Between(p, e, Countables)
    OBVIOUS
  <2>1. Between(q, e, Countables)
    BY <1>2 DEF AllCounted
  <2> QED
    BY <1>5, <1>6, <2>1 DEF Between
<1>9. Tail(q.todo) = <<"reply">>
  BY <1>2 DEF AllCounted
<1>10. Walked(p, Tail(q.todo), e)
  BY <1>5, <1>6, <1>7, <1>8, <1>9 DEF Walked
<1>11. Reporting(p, Tail(q.todo), e)
  BY <1>2, <1>5, <1>10 DEF Reporting
<1>12. Follow(r, p, Tail(q.todo))
  BY <1>4, <1>5 DEF Proceed
<1> QED
  BY <1>5, <1>11, <1>12, FollowReports

\* Every step of a report keeps what it knows; the rows are as they were.
LEMMA ReportsKnow ==
  ASSUME RequestsInv, RowsInv, StoredInv, BitsInv, FiniteInv, ChainsAreSound, NEW r \in Jobs, Step(r), req[r] # None,
         req[r].kind = "report", NEW e, e = View(req[r].tenant), Reporting(req[r], req[r].todo, e)
  PROVE  /\ req'[r] # None => Reporting(req'[r], req'[r].todo, e)
         /\ UNCHANGED <<registryVars, sideVars, auditVars>>
<1>1. Doing(r) \in ReportSteps
  BY ReportAt DEF Doing
<1>2. CountRows(r) \/ CheckCred(r) \/ CountEvents(r) \/ WalkChain(r) \/ Reply(r) \/ Expire(r)
  <2>1. ~ReadAgents(r) /\ ~ReadBoard(r)
    BY <1>1 DEF ReadAgents, ReadBoard, Ready, ReportSteps
  <2> QED
    BY <1>1, <2>1, ReportingSteps
<1>3. UNCHANGED <<registryVars, sideVars, auditVars>>
  BY <1>2 DEF CountRows, CheckCred, CountEvents, WalkChain, Reply, Expire
<1>4. CASE Reply(r)
  <2>1. Doing(r) = "reply" /\ Proceed(r, req[r])
    BY <1>4 DEF Reply, Ready
  <2>2. Walked(req[r], req[r].todo, e)
    BY <2>1, ReportAt DEF Doing
  <2>3. Tail(req[r].todo) = <<>>
    BY <2>2 DEF Walked
  <2>4. End(r, req[r].code)
    BY <2>1, <2>3 DEF Proceed, Follow
  <2> QED
    BY <1>3, <2>4 DEF End, RequestsInv
<1>5. CASE Expire(r)
  BY <1>1, <1>3, <1>5, FailedReport DEF Expire, TimeOut
<1> QED
  BY <1>2, <1>3, <1>4, <1>5, CountRowsReports, CheckCredReports, CountEventsReports, WalkChainReports

-----------------------------------------------------------------------------
(* The dashboard and the monitor.                                          *)

\* Deltas add up to a number.
LEMMA SumIs ==
  ASSUME NEW d \in Seq(Int)
  PROVE  SumOf(d) \in Int /\ (d = <<>> => SumOf(d) = 0)
<1>1. PICK n : n = Len(d)
  OBVIOUS
<1>2. n \in Nat /\ \A i \in 1..n : d[i] \in Int
  BY <1>1
<1> DEFINE E(f) == f = [i \in 0..n |-> IF i = 0 THEN 0 ELSE f[i - 1] + d[i]]
<1>3. \E f : E(f)
  <2> DEFINE step == [i \in Nat |-> [x \in Int |-> IF i \in 1..n THEN x + d[i] ELSE x]]
  <2>1. step \in [Nat -> [Int -> Int]]
    <3>1. ASSUME NEW i \in Nat, NEW x \in Int PROVE (IF i \in 1..n THEN x + d[i] ELSE x) \in Int
      <4>1. CASE i \in 1..n
        <5>1. PICK y \in Int : y = d[i]
          BY <1>2, <4>1
        <5>2. x + y \in Int
          OBVIOUS
        <5> QED
          BY <4>1, <5>1, <5>2
      <4> QED
        BY <4>1
    <3> QED
      BY <3>1
  <2>2. PICK f : Iterates(f, Int, 0, step, n)
    <3>1. 0 \in Int
      OBVIOUS
    <3> HIDE DEF step
    <3> QED
      BY <1>2, <2>1, <3>1, Recursion
  <2> DEFINE g == [i \in 0..n |-> f[i]]
  <2>3. ASSUME NEW i \in 0..n PROVE f[i] = IF i = 0 THEN 0 ELSE g[i - 1] + d[i]
    <3>1. CASE i = 0
      BY <2>2, <3>1 DEF Iterates
    <3>2. CASE i # 0
      <4>1. i \in 1..n /\ i \in Nat /\ i - 1 \in 0..n
        BY <1>2, <3>2
      <4>2. f[i - 1] \in Int /\ f[i] = step[i][f[i - 1]]
        BY <2>2, <4>1 DEF Iterates
      <4> QED
        BY <3>2, <4>1, <4>2
    <3> QED
      BY <3>1, <3>2
  <2>4. E(g)
    BY <2>3
  <2> QED
    BY <2>4
<1> DEFINE h == CHOOSE f : E(f)
<1>4. E(h)
  <2> HIDE DEF E
  <2> QED
    BY <1>3
<1>5. SumOf(d) = h[n]
  BY <1>1 DEF SumOf
<1> HIDE DEF h
<1> DEFINE S == {i \in Nat : i \in 0..n => h[i] \in Int}
<1>6. h[0] = 0 /\ 0 \in 0..n /\ n \in 0..n
  BY <1>2, <1>4
<1>7. 0 \in S
  BY <1>6
<1>8. ASSUME NEW i \in Nat, i \in S PROVE i + 1 \in S
  <2> SUFFICES ASSUME i + 1 \in 0..n PROVE h[i + 1] \in Int
    OBVIOUS
  <2>1. i \in 0..n /\ i + 1 \in 1..n /\ i + 1 # 0 /\ (i + 1) - 1 = i
    BY <1>2
  <2>2. h[i + 1] = h[i] + d[i + 1]
    BY <1>4, <2>1
  <2>3. PICK x \in Int, y \in Int : x = h[i] /\ y = d[i + 1]
    BY <1>2, <1>8, <2>1
  <2>4. x + y \in Int
    OBVIOUS
  <2> QED
    BY <2>2, <2>3, <2>4
<1>9. Nat \subseteq S
  <2> HIDE DEF S
  <2> QED
    BY <1>7, <1>8, Induction
<1>10. h[n] \in Int
  BY <1>2, <1>6, <1>9
<1>11. d = <<>> => n = 0
  BY <1>1
<1> QED
  BY <1>5, <1>6, <1>10, <1>11

\* An agent is uninsurable where it is critical: without events it is neither.
LEMMA BoardIs ==
  ASSUME NEW w \in Seq(TrustEvent)
  PROVE  /\ BoardRow(w).score \in 0..100
         /\ BoardRow(w).tier = "uninsurable" <=> "critical" \in Reasons(w)
<1>1. PICK d : d = Deltas(w)
  OBVIOUS
<1>2. d \in Seq(Int) /\ (w = <<>> => d = <<>>)
  <2>1. PICK T : T = TrustEvent
    OBVIOUS
  <2>2. w \in Seq(T) /\ \A x \in T : x.delta \in Int
    BY <2>1 DEF TrustEvent
  <2>3. PICK n \in Nat : DOMAIN w = 1..n /\ n = Len(w) /\ \A i \in 1..n : w[i] \in T
    BY <2>2
  <2>4. d = [i \in 1..n |-> w[i].delta]
    BY <1>1, <2>3 DEF Deltas
  <2>5. d \in Seq(Int) /\ Len(d) = n
    BY <2>2, <2>3, <2>4
  <2>6. w = <<>> => n = 0
    BY <2>3
  <2>7. Len(d) = 0 => d = <<>>
    BY <2>5
  <2> QED
    BY <2>5, <2>6, <2>7
<1>3. PICK s \in Int : s = SumOf(d) /\ (w = <<>> => s = 0)
  BY <1>2, SumIs
<1>4. PICK b : b = BoardScore(w)
  OBVIOUS
<1>5. b = IF 75 + s < 0 THEN 0 ELSE IF 75 + s > 100 THEN 100 ELSE 75 + s
  BY <1>1, <1>3, <1>4 DEF BoardScore
<1>6. b \in 0..100 /\ (w = <<>> => b = 75)
  <2>1. b \in 0..100 /\ (s = 0 => b = 75)
    BY <1>5
  <2> QED
    BY <1>3, <2>1
<1>7. Tier(b) = "uninsurable" <=> b < 40
  <2>1. b \in Int
    BY <1>6
  <2>2. CASE b < 40
    <3>1. ~(b >= 80) /\ ~(b >= 60) /\ ~(b >= 40)
      BY <2>1, <2>2
    <3> QED
      BY <2>2, <3>1 DEF Tier
  <2>3. CASE ~(b < 40)
    <3>1. b >= 80 \/ (~(b >= 80) /\ b >= 60 /\ b < 80) \/ (~(b >= 80) /\ ~(b >= 60) /\ b >= 40 /\ b < 60)
      BY <2>1, <2>3
    <3>2. Tier(b) \in {"insurable", "elevated", "review"}
      BY <3>1 DEF Tier
    <3> QED
      BY <2>3, <3>2
  <2> QED
    BY <2>2, <2>3
<1>8. "critical" \in Reasons(w) <=> w # <<>> /\ b < 40
  BY <1>4 DEF Reasons
<1>9. BoardRow(w).score = b /\ BoardRow(w).tier = Tier(b)
  BY <1>4 DEF BoardRow
<1>10. w = <<>> => ~(b < 40)
  BY <1>6
<1> QED
  BY <1>6, <1>7, <1>8, <1>9, <1>10

LEMMA OfIs ==
  ASSUME NEW T, NEW w \in Seq(T), NEW a, NEW t
  PROVE  Of(w, a, t) \in Seq(T)
<1> DEFINE one(i) == IF w[i].agent = a /\ w[i].tenant = t THEN <<w[i]>> ELSE <<>>
           seqs == [i \in DOMAIN w |-> one(i)]
<1>1. PICK n \in Nat : DOMAIN w = 1..n /\ \A i \in 1..n : w[i] \in T
  OBVIOUS
<1>2. ASSUME NEW i \in 1..n PROVE one(i) \in Seq(T)
  <2>1. w[i] \in T
    BY <1>1
  <2>2. <<w[i]>> \in Seq(T) /\ <<>> \in Seq(T)
    BY <2>1
  <2> QED
    BY <2>2
<1> HIDE DEF one
<1>3. seqs \in Seq(Seq(T))
  BY <1>1, <1>2
<1>4. Of(w, a, t) = FlattenSeq(seqs)
  BY DEF Of, one
<1> HIDE DEF seqs
<1> QED
  BY <1>3, <1>4, AllInOne

LEMMA BoardsKnow ==
  ASSUME RequestsInv, StoredInv, NEW r \in Jobs, Step(r), req[r] # None, req[r].kind = "board",
         Boarding(req[r], req[r].todo)
  PROVE  /\ req'[r] # None => Boarding(req'[r], req'[r].todo)
         /\ UNCHANGED <<registryVars, sideVars, auditVars>>
<1> DEFINE q == req[r]
<1>1. /\ DOMAIN q = Fields /\ Doing(r) \in BoardSteps
      /\ Doing(r) = "readAgents" => Tail(q.todo) = <<"readBoard", "reply">>
      /\ Doing(r) = "readBoard" => Tail(q.todo) = <<"reply">>
      /\ Doing(r) = "reply" => Tail(q.todo) = <<>>
  <2>1. PICK t : t = q.todo
    OBVIOUS
  <2>2. t = <<"readAgents", "readBoard", "reply">> \/ t = <<"readBoard", "reply">> \/ t = <<"reply">>
    BY <2>1 DEF Boarding, RiskDashboard
  <2>3. /\ Head(t) \in {"readAgents", "readBoard", "reply"}
        /\ Head(t) = "readAgents" => Tail(t) = <<"readBoard", "reply">>
        /\ Head(t) = "readBoard" => Tail(t) = <<"reply">>
        /\ Head(t) = "reply" => Tail(t) = <<>>
    <3>1. CASE t = <<"readAgents", "readBoard", "reply">>
      BY <3>1
    <3>2. CASE t = <<"readBoard", "reply">>
      BY <3>2
    <3>3. CASE t = <<"reply">>
      BY <3>3
    <3> QED
      BY <2>2, <3>1, <3>2, <3>3
  <2>4. DOMAIN q = Fields
    BY DEF RequestsInv, Request
  <2> QED
    BY <2>1, <2>3, <2>4 DEF Doing, BoardSteps
<1>2. ReadAgents(r) \/ ReadBoard(r) \/ Reply(r) \/ Expire(r)
  <2>1. ~(CountRows(r) \/ CheckCred(r) \/ CountEvents(r) \/ WalkChain(r))
    BY <1>1 DEF CountRows, CheckCred, CountEvents, WalkChain, Ready, BoardSteps
  <2> QED
    BY <1>1, <2>1, ReportingSteps
<1>3. UNCHANGED <<registryVars, sideVars, auditVars>>
  BY <1>2 DEF ReadAgents, ReadBoard, Reply, Expire
<1>4. ASSUME NEW p, DOMAIN p = Fields, p.todo = q.todo, Proceed(r, p), NEW t, t = Tail(q.todo), t # <<>>
      PROVE  req'[r].tally = p.tally /\ req'[r].todo = t
  <2> DEFINE o == [p EXCEPT !.todo = t]
  <2>1. o.tally = p.tally /\ o.todo = t
    BY <1>4, FieldsAre
  <2>2. req'[r] = o
    BY <1>4 DEF Proceed, Follow, RequestsInv
  <2> HIDE DEF o
  <2> QED
    BY <2>1, <2>2
<1>5. CASE Expire(r)
  BY <1>1, <1>3, <1>5, FailedReport DEF Expire, TimeOut
<1>6. CASE Reply(r)
  <2>1. Doing(r) = "reply" /\ Proceed(r, q)
    BY <1>6 DEF Reply, Ready
  <2>2. End(r, q.code)
    BY <1>1, <2>1 DEF Proceed, Follow
  <2> QED
    BY <1>3, <2>2 DEF End, RequestsInv
<1>7. CASE ReadAgents(r)
  <2>1. Doing(r) = "readAgents" /\ \E x : Proceed(r, [q EXCEPT !.seen = x])
    BY <1>7 DEF ReadAgents, Ready
  <2>2. PICK x : Proceed(r, [q EXCEPT !.seen = x])
    BY <2>1
  <2> DEFINE p == [q EXCEPT !.seen = x]
  <2>3. DOMAIN p = Fields /\ p.todo = q.todo
    BY <1>1, FieldsAre
  <2> HIDE DEF p
  <2>4. Proceed(r, p) /\ Tail(q.todo) = <<"readBoard", "reply">>
    BY <1>1, <2>1, <2>2 DEF p
  <2>5. PICK t : t = <<"readBoard", "reply">>
    OBVIOUS
  <2>6. t # <<>> /\ t = Tail(q.todo)
    BY <2>4, <2>5
  <2>7. req'[r].todo = t
    BY <1>4, <2>3, <2>4, <2>6
  <2> QED
    BY <1>3, <2>5, <2>7 DEF Boarding
<1>8. CASE ReadBoard(r)
  <2> DEFINE of(a) == Of(events, a, q.tenant)
  <2>1. PICK rows, tally : /\ rows = [a \in q.seen |-> [row |-> BoardRow(of(a)), reasons |-> Reasons(of(a))]]
                           /\ tally = [rows |-> rows, premium |-> Premium([a \in q.seen |-> rows[a].row.tier])]
    OBVIOUS
  <2> DEFINE p == [q EXCEPT !.tally = tally]
  <2>2. Doing(r) = "readBoard" /\ Proceed(r, p)
    BY <1>8, <2>1 DEF ReadBoard, Ready
  <2>3. DOMAIN p = Fields /\ p.todo = q.todo /\ p.tally = tally
    BY <1>1, FieldsAre
  <2> HIDE DEF p
  <2>4. PICK o : req'[r] = o /\ o.tally = tally /\ o.todo = <<"reply">>
    <3>1. PICK t : t = <<"reply">>
      OBVIOUS
    <3>2. t # <<>> /\ t = Tail(q.todo)
      BY <1>1, <2>2, <3>1
    <3> QED
      BY <1>4, <2>2, <2>3, <3>1, <3>2
  <2>5. ASSUME NEW a \in q.seen
        PROVE  /\ rows[a].row.score \in 0..100
               /\ rows[a].row.tier = "uninsurable" <=> "critical" \in rows[a].reasons
    <3>1. PICK w : w = of(a)
      OBVIOUS
    <3>2. w \in Seq(TrustEvent)
      BY <3>1, OfIs DEF StoredInv
    <3>3. rows[a].row = BoardRow(w) /\ rows[a].reasons = Reasons(w)
      BY <2>1, <3>1
    <3> QED
      BY <3>2, <3>3, BoardIs
  <2>6. tally.rows = rows /\ DOMAIN rows = q.seen
    BY <2>1
  <2>7. Agreed(o)
    BY <2>4, <2>5, <2>6 DEF Agreed
  <2> QED
    BY <1>3, <2>4, <2>7 DEF Boarding
<1> QED
  BY <1>2, <1>5, <1>6, <1>7, <1>8

-----------------------------------------------------------------------------
(* Every report.                                                           *)

ReportsInv ==
  \A r \in Jobs, t \in Tenants : req[r] # None /\ req[r].tenant = t =>
    Reporting(req[r], req[r].todo, View(t)) /\ Boarding(req[r], req[r].todo)

\* A request is for one tenant.
LEMMA ReportsStay ==
  ASSUME RequestsInv, NEW r \in Jobs, Step(r), Doing(r) \in ReportSteps \cup BoardSteps
  PROVE  req'[r] # None => req'[r].kind = req[r].kind /\ req'[r].tenant = req[r].tenant
<1>1. ~Telling(r)
  BY DEF Telling, ReadNewest, Stamp, AppendEvent, InsertAgent, ReadKeys, ReadBits, Rotate, FindHolder, Register, Refetch,
         Allocate, Sign, Store, MakeIssuer, DeleteRest, Ready, ReportSteps, BoardSteps
<1> QED
  BY <1>1, QuietOrTelling DEF Quiet, Moves

LEMMA StepReports ==
  ASSUME RequestsInv, KeysInv, AttestInv, FitsInv, StoredInv, BitsInv, FiniteInv, ChainInv, ReportsInv,
         RowsInv', StoredInv', BitsInv', FiniteInv', NEW r \in Jobs, Step(r)
  PROVE  ReportsInv'
<1> SUFFICES ASSUME NEW s \in Jobs, NEW t \in Tenants, req'[s] # None, req'[s].tenant = t
             PROVE  Reporting(req'[s], req'[s].todo, View(t)') /\ Boarding(req'[s], req'[s].todo)
  BY DEF ReportsInv
<1>1. Only(r) /\ req[r] # None /\ (req'[r] # None => req'[r].kind = req[r].kind)
  BY StepKeeps, StepOfActive
<1>2. RowsInv /\ EventsInv /\ ChainsAreSound
  BY DEF KeysInv, ChainInv
<1>3. CASE s = r
  <2> DEFINE u == req[r].tenant
             e == View(u)
  <2>1. u \in Tenants /\ Reporting(req[r], req[r].todo, e) /\ Boarding(req[r], req[r].todo)
    BY <1>1 DEF ReportsInv, RequestsInv, Request
  <2>2. CASE req[r].kind = "report"
    <3>1. Doing(r) \in ReportSteps
      BY <2>1, <2>2, ReportAt DEF Doing
    <3>2. Reporting(req'[r], req'[r].todo, e) /\ UNCHANGED <<registryVars, sideVars, auditVars>>
      BY <1>1, <1>2, <1>3, <2>1, <2>2, ReportsKnow
    <3>3. t = u /\ req'[r].kind = "report"
      BY <1>3, <2>2, <3>1, ReportsStay
    <3>4. Reporting(req'[r], req'[r].todo, View(t)')
      <4>1. Proper(e) /\ Proper(View(t)') /\ Later(e, View(t)')
        BY <1>2, <2>1, <3>3, ViewProper, FiniteNext, StepLater
      <4> QED
        BY <3>2, <4>1, ReportingLater
    <3>5. Boarding(req'[r], req'[r].todo)
      BY <3>3 DEF Boarding
    <3> QED
      BY <1>3, <3>4, <3>5
  <2>3. CASE req[r].kind = "board"
    <3>1. Boarding(req'[r], req'[r].todo)
      BY <1>1, <1>3, <2>1, <2>3, BoardsKnow
    <3>2. req'[r].kind # "report"
      BY <1>1, <1>3, <2>3
    <3> QED
      BY <1>3, <3>1, <3>2 DEF Reporting
  <2>4. CASE req[r].kind \notin {"report", "board"}
    <3>1. req'[r].kind \notin {"report", "board"}
      BY <1>1, <1>3, <2>4
    <3> QED
      BY <1>3, <3>1 DEF Reporting, Boarding
  <2> QED
    BY <2>2, <2>3, <2>4
<1>4. CASE s # r
  <2>1. req'[s] = req[s]
    BY <1>1, <1>4 DEF Only
  <2>2. Reporting(req[s], req[s].todo, View(t)) /\ Boarding(req[s], req[s].todo)
    BY <2>1 DEF ReportsInv
  <2>3. Proper(View(t)) /\ Proper(View(t)') /\ Later(View(t), View(t)')
    BY <1>2, ViewProper, FiniteNext, StepLater
  <2>4. Reporting(req[s], req[s].todo, View(t)')
    BY <2>2, <2>3, ReportingLater
  <2> QED
    BY <2>1, <2>2, <2>4
<1> QED
  BY <1>3, <1>4

\* What a report, or the dashboard, knows when it comes.
LEMMA ComesBegun ==
  ASSUME RowsInv, StoredInv, BitsInv, FiniteInv, NEW job, job.kind \in {"report", "board"}, NEW t \in Tenants,
         NEW q \in Arguments(job, t)
  PROVE  /\ q.kind = job.kind /\ DOMAIN q = Fields /\ q.tenant = t
         /\ Reporting(q, ComplianceReport, View(t)) /\ Boarding(q, RiskDashboard)
<1> DEFINE b == [Blank EXCEPT !.kind = job.kind, !.tenant = t]
           e == View(t)
<1>1. DOMAIN b = Fields /\ b.kind = job.kind /\ b.tenant = t
  <2>1. DOMAIN Blank = Fields
    BY DEF Fields
  <2> QED
    BY <2>1, FieldsAre
<1>2. q \in {[b EXCEPT !.start = Truth(t, Settled), !.since = resets[t]]}
  BY DEF Arguments
<1> HIDE DEF b
<1>0. PICK start, since : start = Truth(t, Settled) /\ since = resets[t]
  OBVIOUS
<1>3. q.kind = job.kind /\ DOMAIN q = Fields /\ q.tenant = t /\ q.start = Truth(t, Settled) /\ q.since = resets[t]
  <2>1. q = [b EXCEPT !.start = start, !.since = since]
    BY <1>0, <1>2
  <2>2. q.kind = b.kind /\ DOMAIN q = Fields /\ q.tenant = b.tenant /\ q.start = start /\ q.since = since
    BY <1>1, <2>1, FieldsAre
  <2> QED
    BY <1>0, <1>1, <2>2
<1>4. /\ Proper(e) /\ e.resets = q.since /\ e.resets \in Nat
      /\ \A x \in Rowed \cup Evented : e.truth[x] = q.start[x]
      /\ q.start["revoked"] = Cardinality(e.rows \cap e.sure)
  <2>1. Proper(e)
    BY ViewProper
  <2>2. e.truth = Truth(t, struck) /\ e.resets = q.since /\ e.rows = RowsOf(t) /\ e.sure = Settled
    BY <1>3, ViewIs
  <2>3. q.start["revoked"] = Cardinality(RowsOf(t) \cap Settled)
    BY <1>3, TruthIs
  <2>4. ASSUME NEW x \in Rowed \cup Evented PROVE Truth(t, struck)[x] = Truth(t, Settled)[x]
    <3>1. ASSUME NEW bits PROVE Truth(t, bits)[x] = Fixed(t)[x]
      BY TruthFixed
    <3> QED
      BY <3>1
  <2> QED
    BY <1>3, <2>1, <2>2, <2>3, <2>4 DEF Proper
<1> HIDE DEF e
<1>5. Below(q, e, Rowed \cup Evented)
  <2> SUFFICES ASSUME NEW x \in Rowed \cup Evented PROVE q.start[x] \in Nat /\ q.start[x] <= e.truth[x]
    BY DEF Below
  <2>1. PICK a : a = e.truth[x]
    OBVIOUS
  <2>2. a \in Nat
    BY <1>4, <2>1, CountablesAre DEF Proper
  <2>3. a <= a
    BY <2>2
  <2> QED
    BY <1>4, <2>1, <2>2, <2>3
<1>6. BitsBelow(q, e)
  BY <1>4 DEF BitsBelow
<1>7. Begun(q, ComplianceReport, e)
  BY <1>5, <1>6 DEF Begun
<1>8. q.since <= e.resets /\ q.since \in Nat
  <2>1. PICK a : a = e.resets
    OBVIOUS
  <2>2. a \in Nat /\ a <= a
    BY <1>4, <2>1
  <2> QED
    BY <1>4, <2>1, <2>2
<1>9. Reporting(q, ComplianceReport, e) /\ Boarding(q, RiskDashboard)
  BY <1>7, <1>8 DEF Reporting, Boarding
<1> QED
  BY <1>3, <1>9 DEF e

LEMMA ArriveReports ==
  ASSUME RequestsInv, load \in Loads, RowsInv, KeysInv, AttestInv, StoredInv, BitsInv, FiniteInv, ReportsInv,
         RowsInv', StoredInv', BitsInv', FiniteInv', NEW r \in Jobs, Arrive(r)
  PROVE  ReportsInv'
<1> DEFINE job == load.jobs[r]
           token == Tokens[job.as]
           u == TenantOf(token)
<1>1. job.kind \in Kinds /\ job.ttl \in Nat /\ u \in Tenants
  <2>1. r \in DOMAIN load.jobs
    BY DEF Arrive, Coming
  <2> QED
    BY <2>1, BackendAssumption DEF Kinds
<1>2. UNCHANGED <<registryVars, sideVars, auditVars>>
  BY DEF Arrive
<1>3. req' = req \/ \E q \in Arguments(job, u) : Begin(r, q)
  BY DEF Arrive, TurnAway
<1> SUFFICES ASSUME NEW s \in Jobs, NEW t \in Tenants, req'[s] # None, req'[s].tenant = t
             PROVE  Reporting(req'[s], req'[s].todo, View(t)) /\ Boarding(req'[s], req'[s].todo)
  <2>1. Settled \subseteq Settled'
    BY OthersGrow DEF Grows
  <2>2. \A t \in Tenants : Proper(View(t)) /\ Proper(View(t)') /\ Later(View(t), View(t)')
    BY <1>2, <2>1, ViewProper, FiniteNext, OthersLater
  <2> QED
    BY <2>2, ReportingLater DEF ReportsInv
<1>4. CASE req' = req
  BY <1>4 DEF ReportsInv
<1>5. ASSUME NEW q \in Arguments(job, u), Begin(r, q)
      PROVE  Reporting(req'[s], req'[s].todo, View(t)) /\ Boarding(req'[s], req'[s].todo)
  <2> HIDE DEF job, u
  <2> DEFINE p == [q EXCEPT !.alone = Active = {}, !.todo = Handlers[q.kind]]
  <2>1. req' = [x \in Jobs |-> IF x = r THEN p ELSE IF x \in Active THEN Overlapping(req[x]) ELSE None]
    BY <1>5 DEF Begin
  <2>2. CASE s = r
    <3>1. DOMAIN q = Fields /\ q.kind = job.kind /\ q.tenant = u
      BY <1>1, ArgumentsAre
    <3>2. /\ p.kind = q.kind /\ p.todo = Handlers[q.kind] /\ p.since = q.since /\ p.start = q.start
          /\ p.tally = q.tally /\ p.seen = q.seen /\ p.tenant = q.tenant
      BY <3>1, FieldsAre
    <3> HIDE DEF p
    <3>3. req'[s] = p /\ t = u
      BY <2>1, <2>2, <3>1, <3>2
    <3>4. CASE q.kind \in {"report", "board"}
      <4>1. Reporting(q, ComplianceReport, View(t)) /\ Boarding(q, RiskDashboard)
        BY <1>1, <3>1, <3>3, <3>4, ComesBegun
      <4>2. Reporting(p, ComplianceReport, View(t))
        BY <3>2, <4>1, ReportingAlike
      <4>3. q.kind = "report" => p.todo = ComplianceReport
        BY <3>2, HandlersAre
      <4>4. q.kind = "board" => p.todo = RiskDashboard
        BY <3>2, HandlersAre
      <4>5. Reporting(p, p.todo, View(t))
        BY <3>2, <4>2, <4>3 DEF Reporting
      <4>6. Boarding(p, p.todo)
        BY <3>2, <4>4 DEF Boarding
      <4> QED
        BY <3>3, <4>5, <4>6
    <3>5. CASE q.kind \notin {"report", "board"}
      BY <3>2, <3>3, <3>5 DEF Reporting, Boarding
    <3> QED
      BY <3>4, <3>5
  <2>3. CASE s # r
    <3> DEFINE o == Overlapping(req[s])
    <3>1. req[s] # None /\ req'[s] = o
      BY <2>1, <2>3 DEF Active
    <3>2. DOMAIN req[s] = Fields
      BY <3>1 DEF RequestsInv, Request
    <3>3. /\ o.kind = req[s].kind /\ o.since = req[s].since /\ o.start = req[s].start /\ o.tally = req[s].tally
          /\ o.seen = req[s].seen /\ o.todo = req[s].todo /\ o.tenant = req[s].tenant
      BY <3>2, FieldsAre DEF Overlapping
    <3> HIDE DEF o
    <3>4. Reporting(req[s], req[s].todo, View(t)) /\ Boarding(req[s], req[s].todo)
      BY <3>1, <3>3 DEF ReportsInv
    <3>5. Reporting(o, req[s].todo, View(t))
      <4>1. Reporting(req[s], req[s].todo, View(t))
        BY <3>4
      <4> QED
        BY <3>3, <4>1, ReportingAlike
    <3>6. Boarding(o, req[s].todo)
      BY <3>3, <3>4, Zenon DEF Boarding, Agreed
    <3> QED
      BY <3>1, <3>3, <3>5, <3>6
  <2> QED
    BY <2>2, <2>3
<1> QED
  BY <1>3, <1>4, <1>5

LEMMA ReportsStep ==
  ASSUME RequestsInv, load \in Loads, KeysInv, AttestInv, FitsInv, StoredInv, BitsInv, FiniteInv, ChainInv, ReportsInv,
         RowsInv', StoredInv', BitsInv', FiniteInv', [Next]_vars
  PROVE  ReportsInv'
<1>2. RowsInv
  BY DEF KeysInv
<1>1. CASE Tick \/ UNCHANGED vars
  <2>1. req' = req /\ UNCHANGED <<registryVars, sideVars, auditVars>>
    BY <1>1 DEF Tick, vars, requestVars
  <2>2. Settled' = Settled
    BY <2>1 DEF Settled, At, Active, Doing, ListOf, registryVars
  <2>3. \A t \in Tenants : Proper(View(t)) /\ Proper(View(t)') /\ Later(View(t), View(t)')
    BY <1>2, <2>1, <2>2, ViewProper, FiniteNext, OthersLater
  <2> QED
    BY <2>1, <2>3, ReportingLater DEF ReportsInv
<1> QED
  BY <1>1, <1>2, ArriveReports, StepReports DEF Next

\* No control asks for the walk's verdict by another name.
LEMMA ControlsAre ==
  ASSUME NEW f \in Frameworks, NEW i \in DOMAIN ControlLibrary[f]
  PROVE  ControlLibrary[f][i] # "valid"
<1>1. f \in {"SOC2", "HIPAA", "EUAIAct", "ISO42001"}
  BY DEF Frameworks, ControlLibrary
<1>2. CASE f = "SOC2"
  BY <1>2 DEF ControlLibrary
<1>3. CASE f = "HIPAA"
  BY <1>3 DEF ControlLibrary
<1>4. CASE f = "EUAIAct"
  BY <1>4 DEF ControlLibrary
<1>5. CASE f = "ISO42001"
  BY <1>5 DEF ControlLibrary
<1> QED
  BY <1>1, <1>2, <1>3, <1>4, <1>5

\* What a report and the dashboard know when they reply.
LEMMA RepliesBetween ==
  ASSUME RequestsInv, RowsInv, StoredInv, BitsInv, FiniteInv, ReportsInv, NEW r \in At("reply")
  PROVE  /\ req[r].kind = "report" =>
              /\ Within(req[r]) /\ Backed(req[r])
              /\ req[r].tally.valid \/ req[r].tenant \in forked \cup torn
         /\ req[r].kind = "board" => Agreed(req[r])
<1> DEFINE q == req[r]
           t == q.tenant
           e == View(t)
<1>1. r \in Jobs /\ q # None /\ Head(q.todo) = "reply" /\ t \in Tenants
  BY DEF At, Active, Doing, RequestsInv, Request
<1>2. Reporting(q, q.todo, e) /\ Boarding(q, q.todo)
  BY <1>1 DEF ReportsInv
<1>3. q.kind = "board" => Agreed(q)
  <2> SUFFICES ASSUME q.kind = "board" PROVE Agreed(q)
    OBVIOUS
  <2>1. PICK w : w = q.todo
    OBVIOUS
  <2>2. w = <<"readAgents", "readBoard", "reply">> \/ w = <<"readBoard", "reply">> \/ Agreed(q)
    BY <1>2, <2>1 DEF Boarding, RiskDashboard
  <2>3. Head(w) = "reply"
    BY <1>1, <2>1
  <2>4. w # <<"readAgents", "readBoard", "reply">> /\ w # <<"readBoard", "reply">>
    BY <2>3
  <2> QED
    BY <2>2, <2>4
<1>4. ASSUME q.kind = "report"
      PROVE  Within(q) /\ Backed(q) /\ (q.tally.valid \/ t \in forked \cup torn)
  <2>1. /\ DOMAIN q.tally = Countables \cup {"valid"} /\ (q.tally["valid"] \/ e.spoilt)
        /\ q.since = e.resets => Between(q, e, Countables)
    BY <1>1, <1>2, <1>4, ReportAt DEF Walked
  <2>2. e.resets = resets[t] /\ e.truth = Truth(t, struck) /\ e.spoilt = (t \in forked \cup torn) /\ Proper(e)
    BY <1>1, ViewIs, ViewProper
  <2>3. q.tally.valid \/ t \in forked \cup torn
    BY <2>1, <2>2
  <2>4. ASSUME q.since = resets[t], NEW x \in Countables
        PROVE  /\ q.start[x] \in Nat /\ q.tally[x] \in Nat /\ Truth(t, struck)[x] \in Nat
               /\ q.start[x] <= q.tally[x] /\ q.tally[x] <= Truth(t, struck)[x]
    BY <2>1, <2>2, <2>4 DEF Between, Proper
  <2>5. Within(q)
    BY <2>4 DEF Within
  <2>6. ASSUME NEW f \in Frameworks, NEW i \in Report(q.tally, f)
        PROVE  IF ControlLibrary[f][i] = "chain" THEN q.tally.valid
               ELSE q.since = resets[t] => Truth(t, struck)[ControlLibrary[f][i]] > 0
    <3>1. PICK x : x = ControlLibrary[f][i]
      OBVIOUS
    <3>2. x # "valid" /\ Passing(q.tally, x)
      BY <2>6, <3>1, ControlsAre DEF Report
    <3>3. CASE x = "chain"
      BY <3>1, <3>2, <3>3 DEF Passing
    <3>4. CASE x # "chain"
      <4> SUFFICES ASSUME q.since = resets[t] PROVE Truth(t, struck)[x] > 0
        BY <3>1, <3>4
      <4>1. Evidence(q.tally, x) > 0
        BY <3>2, <3>4 DEF Passing
      <4>2. x \in DOMAIN q.tally
        <5> SUFFICES ASSUME x \notin DOMAIN q.tally PROVE FALSE
          OBVIOUS
        <5>1. Evidence(q.tally, x) = 0
          BY DEF Evidence
        <5> QED
          BY <4>1, <5>1
      <4>3. x \in Countables /\ q.tally[x] > 0
        BY <2>1, <3>2, <4>1, <4>2 DEF Evidence
      <4>4. PICK a, b : a = q.tally[x] /\ b = Truth(t, struck)[x]
        OBVIOUS
      <4>5. a \in Nat /\ b \in Nat /\ a <= b /\ a > 0
        BY <2>4, <4>3, <4>4
      <4>6. b > 0
        BY <4>5
      <4> QED
        BY <4>4, <4>6
    <3> QED
      BY <3>3, <3>4
  <2>7. Backed(q)
    BY <2>6 DEF Backed
  <2> QED
    BY <2>3, <2>5, <2>7
<1> QED
  BY <1>3, <1>4

\* A report that runs beside other requests gives numbers between those when it began and
\* those when it ends (for the revoked, between those for good then and those ever
\* revoked), calls the chain broken only where two writers or a reset spoilt it,
\* and lets no control pass without evidence; the dashboard calls uninsurable the agents
\* that the monitor calls critical.
THEOREM ReportsBetween == Spec => ReportsAreBetween
<1> DEFINE Inv == /\ RequestsInv /\ load \in Loads /\ KeysInv /\ AttestInv /\ CheckInv /\ ChainInv /\ FitsInv
                  /\ StoredInv /\ BitsInv /\ HooksInv /\ FiniteInv /\ ReportsInv
<1>1. Init => Inv
  <2> SUFFICES ASSUME Init PROVE Inv
    OBVIOUS
  <2>1. RequestsInv /\ load \in Loads /\ KeysInv /\ AttestInv /\ CheckInv /\ ChainInv
    BY InitRows, InitAttests, InitChecks, InitChains
  <2>2. FitsInv /\ StoredInv /\ BitsInv /\ HooksInv /\ FiniteInv
    BY InitStored, InitIdle, InitFinite
  <2>3. ReportsInv
    BY DEF Init, ReportsInv
  <2> QED
    BY <2>1, <2>2, <2>3
<1>2. Inv /\ [Next]_vars => Inv'
  <2> SUFFICES ASSUME Inv, [Next]_vars PROVE Inv'
    OBVIOUS
  <2>1. HooksTyped /\ CredsTyped /\ EventsInv
    BY DEF HooksInv, StoredInv, ChainInv
  <2>2. RequestsInv' /\ (load \in Loads)' /\ KeysInv' /\ AttestInv' /\ CheckInv' /\ ChainInv' /\ FitsInv'
    BY <2>1, RequestsStep, KeysStep, AttestStep, CheckStep, ChainsStep, FitsStep
  <2>3. StoredInv' /\ BitsInv' /\ HooksInv' /\ FiniteInv'
    BY <2>1, StoredStep, BitsStep, HooksStep, FiniteStep
  <2>4. RowsInv'
    BY <2>2 DEF KeysInv
  <2>5. ReportsInv'
    BY <2>3, <2>4, ReportsStep
  <2> QED
    BY <2>2, <2>3, <2>5
<1>3. Inv /\ [Next]_vars =>
        [\A r \in At("reply") : Answered(r) =>
           /\ req[r].kind = "report" =>
                /\ Within(req[r]) /\ Backed(req[r])
                /\ req[r].tally.valid \/ req[r].tenant \in forked \cup torn
           /\ req[r].kind = "board" => Agreed(req[r])]_vars
  <2> SUFFICES ASSUME Inv PROVE \A r \in At("reply") :
                 /\ req[r].kind = "report" =>
                      /\ Within(req[r]) /\ Backed(req[r])
                      /\ req[r].tally.valid \/ req[r].tenant \in forked \cup torn
                 /\ req[r].kind = "board" => Agreed(req[r])
    OBVIOUS
  <2>1. RowsInv
    BY DEF KeysInv
  <2> QED
    BY <2>1, RepliesBetween
<1> QED
  BY <1>1, <1>2, <1>3, PTL DEF Spec, ReportsAreBetween
=============================================================================
