------------------------------ MODULE Admission ------------------------------
(***************************************************************************)
(* What a request passes before its handler runs: the rate limit, the      *)
(* largest body, and the bearer token, from which the handler has its      *)
(* scopes and its tenant.  All requests come from one client address.      *)
(*                                                                         *)
(* A token is a record of who signed it, whether it is still alive, and of *)
(* the claims that are read: scope, tenant, the roles of the realm and of  *)
(* the client, and the tenant of the first "/tenants/" group.              *)
(***************************************************************************)
EXTENDS Naturals, SequencesExt

CONSTANTS
  DemoMode,      \* BOOLEAN
  AuthMode,      \* "hs256" or "oidc"
  RateLimit,     \* rate_limit_per_minute
  Window,        \* the minute
  Nobody,        \* an absent tenant or group
  HomeTenant     \* what a token without a tenant stands for

ASSUME AdmissionAssumption ==
  DemoMode \in BOOLEAN /\ AuthMode \in {"hs256", "oidc"} /\ RateLimit \in Nat /\ Window \in Nat

\* issue_demo_token
DemoScopes ==
  {"agents:create", "credentials:issue", "credentials:verify", "credentials:revoke", "tenant:admin"}

DemoToken(tenant) ==
  [signer |-> "demo", alive |-> TRUE, scope |-> DemoScopes, tenant |-> tenant,
   roles |-> {}, group |-> Nobody]

\* issue_admin_token
AdminToken(scopes, tenant) ==
  [signer |-> "admin", alive |-> TRUE, scope |-> scopes, tenant |-> tenant,
   roles |-> {}, group |-> Nobody]

\* verify_demo_token requires a tenant; the other two do not.
AcceptedAsDemo(token) == token.signer = "demo" /\ token.tenant # Nobody
AcceptedFromIdp(token) == token.signer = "idp"
AcceptedAsAdmin(token) == token.signer = "admin"

\* verify_access_token: the demo secret counts in demo mode only, whatever the mode.
Accepted(token) ==
  /\ token.alive
  /\ \/ DemoMode /\ AcceptedAsDemo(token)
     \/ AuthMode = "oidc" /\ AcceptedFromIdp(token)
     \/ AuthMode # "oidc" /\ AcceptedAsAdmin(token)

ByRoles(token) == AuthMode = "oidc" /\ token.signer # "demo"

ScopesOf(token) == IF ByRoles(token) THEN token.roles \cup token.scope ELSE token.scope

TenantOf(token) ==
  LET claim == IF ByRoles(token) THEN token.group ELSE token.tenant IN
  IF claim = Nobody THEN HomeTenant ELSE claim

\* require_scopes of each route; verification is open to everyone.
Required(kind) ==
  CASE kind = "create"                               -> {"agents:create"}
    [] kind \in {"issue", "attest", "score", "profile"} -> {"credentials:issue"}
    [] kind \in {"revoke", "flush"}                  -> {"credentials:revoke"}
    [] kind \in {"report", "board"}                  -> {"credentials:verify"}
    [] kind \in {"rotate", "reset", "seed"}          -> {"tenant:admin"}
    [] kind \in {"addHook", "dropHook", "testHook"}  -> {"webhooks:manage"}
    [] kind = "drift" -> {"agents:create", "credentials:issue", "credentials:revoke"}
    [] OTHER          -> {}

\* The status that a request is turned away with; "" when it reaches its handler.
Refusal(kind, token, large) ==
  IF large THEN "413"
  ELSE IF Required(kind) = {} THEN ""
  ELSE IF ~Accepted(token) THEN "401"
  ELSE IF Required(kind) \subseteq ScopesOf(token) THEN "" ELSE "403"

-----------------------------------------------------------------------------
(* SimpleRateLimitMiddleware: the times of the latest requests             *)

Mutating(kind) == kind \notin {"report", "board", "profile"}

\* The oldest requests are forgotten, up to the first that the window still covers.
Recent(hits, time) ==
  LET old == {i \in DOMAIN hits : \A j \in 1..i : time - hits[j] > Window}
  IN SubSeq(hits, Cardinality(old) + 1, Len(hits))

\* Broken variant: one request too many is let through.
OverLimitByOne(hits, time) == Len(Recent(hits, time)) > RateLimit

OverLimit(hits, time) == Len(Recent(hits, time)) >= RateLimit

\* A request turned away is not counted.
Counted(hits, time) ==
  IF OverLimit(hits, time) THEN Recent(hits, time) ELSE Append(Recent(hits, time), time)
=============================================================================
