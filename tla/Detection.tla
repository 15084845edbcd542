----------------------------- MODULE Detection -----------------------------
(***************************************************************************)
(* The gateway's detectors (gateway/detection): on demand they read the    *)
(* last audit events, the trust cache and the inventory, and change none   *)
(* of them.  An alert is its type, its severity and whom it is about.      *)
(***************************************************************************)
EXTENDS Gateway, FiniteSetsExt

CONSTANTS
  ScanDepth,        \* audit events a scan reads (200)
  SwarmWindow       \* of the shadow swarm rule (5 min)

ASSUME DetectionAssumption == {ScanDepth, SwarmWindow} \subseteq Nat

Alert(type, severity, about) == [type |-> type, severity |-> severity, about |-> about]

LastEvents == SubSeq(log, IF Len(log) > ScanDepth THEN Len(log) - ScanDepth + 1 ELSE 1, Len(log))

HowMany(events, Test(_)) == Cardinality({i \in DOMAIN events : Test(events[i])})

-----------------------------------------------------------------------------
(* ShadowDetector                                                          *)

\* The classes of reasons, found by words in their texts and in this order: the text
\* for a missing credential type says "missing" too, and what is expired or invalid
\* may be the presentation, a credential or a link of the chain.
Category(reason) ==
  IF reason \in {"no header", "missing type"} THEN "no_creds"
  ELSE IF reason = "untrusted" THEN "untrusted"
  ELSE IF reason = "expired" THEN "expired"
  ELSE IF reason \in {"no delegator", "delegator type"} THEN "other" ELSE "invalid"

ShadowAlerts(events) ==
  LET count(k) == HowMany(events, LAMBDA e : e.decision = "blocked_auth"
                                             /\ Category(e.reason) = k)
  IN {Alert("shadow_agent",
            IF k = "untrusted" \/ (k # "other" /\ count(k) >= 3) THEN "critical" ELSE "warning",
            k) : k \in {k \in {"no_creds", "untrusted", "expired", "invalid", "other"} : count(k) > 0}}

-----------------------------------------------------------------------------
(* BehavioralDetector                                                      *)

Cached == {a \in Agents : cache[a] # Absent}

\* Broken variant: one denial is enough.
ProbersAtOnce == {a \in Cached : cache[a].violations >= 1}

\* The agents that probe their scope.
Probers == {a \in Cached : cache[a].violations >= 2}

BehaviorAlerts ==
  {Alert("behavioral_anomaly", IF cache[a].penalty >= 40 THEN "critical" ELSE "warning", a) :
     a \in {a \in Cached : cache[a].penalty >= 20}}
  \cup {Alert("scope_probing", "critical", a) : a \in Probers}
  \cup {Alert("velocity_spike", IF Len(cache[a].stamps) >= 60 THEN "critical" ELSE "warning", a) :
          a \in {a \in Cached : Len(cache[a].stamps) > 30}}

-----------------------------------------------------------------------------
(* FleetCorrelator                                                         *)

Swarm == Cardinality({i \in DOMAIN shadows : shadows[i] >= now - SwarmWindow}) >= 3

\* The average score is below 60.
Declining ==
  Cardinality(Cached) >= 3
  /\ MapThenSumSet(LAMBDA a : Score(cache[a]), Cached) < 60 * Cardinality(Cached)

If(condition, alert) == IF condition THEN {alert} ELSE {}

FleetAlerts ==
  If(Cardinality(Probers) >= 2, Alert("fleet_threat", "critical", "probing"))
  \cup If(Swarm, Alert("fleet_threat", "critical", "swarm"))
  \cup If(Declining, Alert("fleet_threat", "warning", "declining"))

Risk(score) ==
  IF score >= 75 THEN "low" ELSE IF score >= 50 THEN "medium"
  ELSE IF score >= 25 THEN "high" ELSE "critical"

AgentsWith(events, decision) ==
  {events[i].agent : i \in {i \in DOMAIN events : events[i].decision = decision}} \ {None}

FleetSummary ==
  [seen |-> Cardinality(Cached),
   verified |-> Cardinality({a \in Agents : known[a] > 0}),
   shadow |-> Len(shadows),
   violating |-> Cardinality({a \in Cached : cache[a].violations > 0}),
   penalised |-> Cardinality({a \in Cached : cache[a].penalty > 0}),
   stepUp |-> Cardinality(AgentsWith(LastEvents, "step_up")),
   blocked |-> Cardinality(AgentsWith(LastEvents, "blocked_trust")),
   risks |-> [k \in {"low", "medium", "high", "critical"} |->
                Cardinality({a \in Cached : Risk(Score(cache[a])) = k})]]

Scan == ShadowAlerts(LastEvents) \cup BehaviorAlerts \cup FleetAlerts

-----------------------------------------------------------------------------
Denials(a) == HowMany(log, LAMBDA e : e.agent = a /\ e.decision = "blocked_scope")

\* What a scan reports, the audit log of all times bears out, although scans read
\* counters of the trust cache that fresh presentations, expiry and refreshes
\* change: who is said to probe was denied twice or more, a coordinated probing
\* has two of them, a class of refusals that is critical was refused, and the
\* summary counts no more agents as blocked or stepped up than were ever known.
AlertsAreFounded ==
  \A scan \in {Scan}, summary \in {FleetSummary} :
    /\ \A a \in Agents :
         Alert("scope_probing", "critical", a) \in scan => Denials(a) >= 2
    /\ Alert("fleet_threat", "critical", "probing") \in scan =>
         Cardinality({a \in Agents : Denials(a) >= 2}) >= 2
    /\ \A x \in scan : x.type = "shadow_agent" /\ x.severity = "critical" /\ x.about # "untrusted" =>
         Len(shadows) >= 3
    /\ summary.stepUp + summary.blocked <= 2 * summary.verified
    /\ summary.violating <= summary.verified
=============================================================================
