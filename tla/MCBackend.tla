------------------------------- MODULE MCBackend -------------------------------
(***************************************************************************)
(* Module Backend under pairs and triples of requests, each load chosen    *)
(* for what its requests do to each other.                                 *)
(***************************************************************************)
EXTENDS Backend

All == {"agents:create", "credentials:issue", "credentials:verify", "credentials:revoke",
        "tenant:admin", "webhooks:manage"}

User(roles) ==
  [signer |-> "idp", alive |-> TRUE, scope |-> {}, tenant |-> Nobody, roles |-> roles, group |-> Nobody]

TokenTable ==
  [admin |-> User(All),
   guest |-> User({"credentials:verify"}),
   late  |-> [User(All) EXCEPT !.alive = FALSE],
   other |-> AdminToken(All, "default"),
   demo  |-> DemoToken("demo"),
   group |-> [User(All) EXCEPT !.group = "demo"]]
MCTokens == TokenTable

Job(kind, as) == [kind |-> kind, as |-> as, large |-> FALSE, svid |-> "good", ttl |-> 0, depth |-> 0]
A(kind) == Job(kind, "admin")
D(kind) == Job(kind, "demo")

Load(jobs, until, pool, settled) == [jobs |-> jobs, until |-> until, pool |-> pool, settled |-> settled]
Apart(jobs) == Load(jobs, 0, 3, TRUE)

LoadTable ==
  {\* rows that two requests insert at once
   Apart(<<D("create"), D("create")>>), Apart(<<D("attest"), D("attest")>>),
   Apart(<<A("attest"), D("attest")>>), Apart(<<A("rotate"), A("rotate")>>),
   Apart(<<D("create"), D("attest")>>), Load(<<A("verify"), A("verify")>>, 0, 3, FALSE),
   \* keys and documents
   Load(<<A("rotate"), A("issue"), A("verify")>>, 0, 3, TRUE),
   Load(<<A("rotate"), A("issue"), A("peer")>>, 3, 3, TRUE),
   Load(<<A("peer"), A("flush"), A("peer")>>, 1, 3, FALSE),
   Apart(<<A("revoke"), A("peer"), A("verify")>>),
   Load(<<A("reset"), A("peer")>>, 3, 3, TRUE), Apart(<<D("drift"), A("reset"), D("peer")>>),
   \* two revocations of one list
   Apart(<<A("issue"), A("revoke"), A("revoke"), A("verify")>>),
   Apart(<<A("issue"), A("revoke"), A("revoke"), A("report")>>),
   Apart(<<A("drift"), A("revoke"), A("peer")>>),
   \* the pool
   Load(<<A("report"), A("report")>>, 0, 2, TRUE), Load(<<A("issue"), A("report")>>, 0, 2, TRUE),
   \* resets
   Apart(<<A("issue"), A("reset")>>), Apart(<<A("reset"), A("reset")>>),
   Apart(<<A("rotate"), A("reset")>>), Apart(<<A("report"), A("reset")>>),
   \* scores
   Load(<<[A("issue") EXCEPT !.ttl = 1, !.depth = 1], A("score"), A("score")>>, 1, 3, TRUE),
   Load(<<[A("issue") EXCEPT !.ttl = 1], A("revoke"), A("score")>>, 1, 3, TRUE),
   Apart(<<A("revoke"), A("score"), A("board")>>), Apart(<<A("score"), A("profile")>>),
   Apart(<<A("revoke"), A("report")>>), Apart(<<A("addHook"), A("addHook"), A("report")>>),
   Apart(<<Job("addHook", "group"), A("report")>>), Apart(<<D("revoke"), A("revoke")>>),
   \* webhooks
   Apart(<<A("addHook"), A("testHook"), A("dropHook")>>),
   Apart(<<A("addHook"), A("score"), Job("dropHook", "group")>>),
   \* the demo
   Apart(<<D("seed"), D("create")>>), Apart(<<D("seed"), A("board")>>), Apart(<<D("seed"), Job("board", "group")>>),
   Apart(<<A("attest"), D("seed")>>), Apart(<<D("drift"), D("create")>>), Apart(<<D("drift"), D("reset")>>),
   \* admission
   Load(<<A("flush"), A("flush"), A("flush"), A("flush")>>, 2, 3, TRUE),
   Apart(<<[A("create") EXCEPT !.large = TRUE], Job("create", "guest"), Job("create", "late"), Job("create", "other")>>),
   Apart(<<[A("attest") EXCEPT !.svid = "forged"], D("addHook")>>)}
MCLoads == LoadTable

MCTopics == {<<"credential.issued">>, <<"trust.score_changed", "credential.issued">>}
MCRoster == <<None, "spiffe", None>>
MCPlan == <<<<1, 2>>, <<1, 3>>>>
MCTargets == <<2>>
MCTree == <<<<1, 2>>, <<2, 3>>>>
MCDeals == <<[buyer |-> 1, shop |-> 3, max |-> 3, carts |-> <<2, 2>>]>>
MCSeedEvents ==
  <<[who |-> 1, kind |-> "trust.verification_success", delta |-> 4],
    [who |-> 3, kind |-> "trust.verification_failure", delta |-> -25],
    [who |-> 3, kind |-> "trust.scope_violation_attempt", delta |-> -25]>>
=============================================================================
