------------------------------ MODULE TrustScore ------------------------------
(***************************************************************************)
(* The composite trust score of a credential (core/trust_score.py), and    *)
(* what the trust routes make of the events that scoring leaves behind:    *)
(* an agent's profile, the risk dashboard and the anomaly monitor.         *)
(*                                                                         *)
(* A trust event is a record with the agent, the tenant, what happened and *)
(* the score_delta; events are kept in the order of created_at.  Rates are *)
(* compared by multiplying out.                                            *)
(***************************************************************************)
EXTENDS Integers, FiniteSetsExt, SequencesExt

CONSTANT Grace        \* the hour in which an expired credential still scores 10

Verdicts == {"verification_success", "verification_failure"}
\* What seeding writes has the prefix "trust." and is no verdict.
Seeded == {"trust.verification_success", "trust.verification_failure",
           "trust.scope_violation_attempt"}

\* _factor_credential_validity.  past: since when it is expired, by exp.
ValidityFactor(outcome, past) ==
  CASE outcome = "valid"   -> 25
    [] outcome = "expired" -> IF past > 0 /\ past < Grace THEN 10 ELSE 5
    [] OTHER               -> 0        \* revoked, or not verifiable

\* The best score whose bound the rate stays below.
Banded(part, whole) ==
  Max({5} \cup {b[2] : b \in {b \in {<<5, 25>>, <<10, 20>>, <<20, 15>>, <<50, 10>>} :
                              100 * part < b[1] * whole}})

\* _factor_issuer_reputation over the issuer's rows of the credentials table.
IssuerFactor(issued, revoked) ==
  IF issued = {} THEN 10 ELSE Banded(Cardinality(issued \cap revoked), Cardinality(issued))

Of(events, agent, tenant) ==
  FlattenSeq([i \in DOMAIN events |->
    IF events[i].agent = agent /\ events[i].tenant = tenant THEN <<events[i]>> ELSE <<>>])

Count(events, kinds) == Len(SelectSeq(events, LAMBDA e : e.kind \in kinds))

\* _factor_agent_history over the agent's events.
HistoryFactor(events) ==
  LET good == Count(events, {"verification_success"})
      total == Count(events, Verdicts) IN
  IF total = 0 THEN 10
  ELSE Max({5} \cup {b[3] : b \in {b \in {<<10, 95, 25>>, <<5, 90, 20>>, <<1, 80, 15>>, <<1, 50, 10>>} :
                                  total >= b[1] /\ 100 * good >= b[2] * total}})

\* _factor_delegation_depth.
DepthFactor(depth) == IF depth <= 4 THEN 25 - 5 * depth ELSE 0

\* The verdict that scoring records: any validity above zero is a success.
Verdict(validity) == IF validity > 0 THEN "verification_success" ELSE "verification_failure"

-----------------------------------------------------------------------------
(* Profile, dashboard and monitor                                          *)

SumOf(deltas) ==
  LET sum[n \in 0..Len(deltas)] == IF n = 0 THEN 0 ELSE sum[n - 1] + deltas[n] IN sum[Len(deltas)]
Deltas(events) == [i \in DOMAIN events |-> events[i].delta]
Latest(events, n) ==
  SubSeq(events, IF Len(events) > n THEN Len(events) - n + 1 ELSE 1, Len(events))

\* get_agent_trust_profile: verdicts, and the deltas that count for the average.
Profile(events) ==
  [events |-> Len(events),
   good |-> Count(events, {"verification_success"}), verdicts |-> Count(events, Verdicts),
   scored |-> SelectSeq(Deltas(events), LAMBDA d : d # 0),
   history |-> Latest(events, 20)]

BoardScore(events) ==
  LET sum == 75 + SumOf(Deltas(events)) IN
  IF sum < 0 THEN 0 ELSE IF sum > 100 THEN 100 ELSE sum

\* _score_to_tier
Tier(score) ==
  CASE score >= 80 -> "insurable" [] score >= 60 /\ score < 80 -> "elevated"
    [] score >= 40 /\ score < 60 -> "review" [] OTHER -> "uninsurable"

\* "failure" or "violation" in event_type.
Failures(events) ==
  Count(events, {"verification_failure", "trust.verification_failure",
                 "trust.scope_violation_attempt"})

\* A row of the risk dashboard: its recent events are the newest three.
BoardRow(events) ==
  [score |-> BoardScore(events), tier |-> Tier(BoardScore(events)),
   recent |-> SumOf(Deltas(Latest(events, 3))), failures |-> Failures(events)]

\* anomaly_monitor, which looks at the newest five and skips agents without events.
Reasons(events) ==
  LET recent == Latest(events, 5) IN
  IF events = <<>> THEN {}
  ELSE (IF SumOf(Deltas(recent)) < -15 THEN {"drop"} ELSE {})
       \cup (IF 100 * Failures(events) > 40 * Len(events) THEN {"failures"} ELSE {})
       \cup (IF BoardScore(events) < 40 THEN {"critical"} ELSE {})
       \cup (IF Count(recent, {"trust.scope_violation_attempt"}) > 0 THEN {"scope"} ELSE {})

\* mock_insurance_premium_usd, in tenths of a dollar.
Premium(tiers) ==
  LET of(t) == Cardinality({a \in DOMAIN tiers : tiers[a] = t}) IN
  Cardinality(DOMAIN tiers) * 120 * (10 + 5 * of("uninsurable") + 2 * of("review"))
=============================================================================
