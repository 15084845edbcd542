------------------------------ MODULE Requests ------------------------------
(***************************************************************************)
(* Requests to the backend, the threads that serve them and the connection *)
(* pool they share.                                                        *)
(*                                                                         *)
(* A handler is a script: the names of the steps it has still to do, each  *)
(* one a statement or a transaction between which other requests run.  A   *)
(* step opens a session of its own, or goes on in the one that is open     *)
(* (OnOwn), or needs none (Offline).  An exception in a step rolls its     *)
(* session back and ends the request with an error, unless the handler     *)
(* catches it.                                                             *)
(*                                                                         *)
(* A load says which requests will come, and in which order; every request *)
(* comes once, at most MaxAtOnce are served at a time.                     *)
(***************************************************************************)
EXTENDS Registry, Admission

CONSTANTS
  Loads,        \* [jobs, until, pool, settled]: see Init of Backend
  MaxJobs,      \* requests of the longest load
  MaxAtOnce

VARIABLES
  load,         \* the load of this behaviour
  req,          \* what each request is doing, None before and after
  out,          \* how each request ended, None before
  now,
  hits          \* times the rate limit remembers

requestVars == <<req, out>>
arrivalVars == <<load, now, hits>>

Jobs == 1..MaxJobs
Active == {r \in Jobs : req[r] # None}
Doing(r) == Head(req[r].todo)
At(step) == {r \in Active : Doing(r) = step}

-----------------------------------------------------------------------------
(* Scripts                                                                 *)

\* write_audit
Audit == <<"readNewest", "stamp", "append">>

\* _verify_with_status: the credential, then its status list, made for the purpose.
Check == <<"resolve", "readList", "ensureIssuer", "resolve">>
CheckAtPeer == <<"get", "readList", "ensureIssuer", "get">>

Signing == <<"sign", "store">>

\* set_revoked
SetBit == <<"readBits", "setRevoked">>

\* What seeding does for one agent, one credential.
SeededAgent == <<"ensureTenant", "insert">>
SeededCredential == <<"allocate">> \o Signing

CreateAgent == <<"ensureTenant", "insert">>
RotateKey == <<"readKeys", "rotate">>
AttestWorkload == <<"findHolder", "allocate", "sign">> \o Audit
IssueCredential == <<"allocate", "findIssuer">> \o Signing \o Audit \o <<"dispatch">>
Revoke == <<"findCred">> \o SetBit \o Audit \o <<"dispatch">>
ScoreCredential == Check \o <<"readIssuer", "readHistory", "record">> \o Audit \o <<"dispatch">>
AgentProfile == <<"readEvents">> \o Audit
ComplianceReport == <<"countRows", "countEvents", "walkChain", "reply">>
RiskDashboard == <<"readAgents", "readBoard", "reply">>
DemoReset == <<"deleteCreds", "deleteRest">>
CreateWebhook == <<"insertHook">> \o Audit
DeleteWebhook == <<"dropHook">> \o Audit
TestWebhook == <<"findHook", "dispatch", "reply">>
SeedTenant == <<"checkEmpty", "seedAgents", "seedCreds", "seedRevoked", "seedTree", "seedIntent">>
              \o Audit \o <<"seedEvents">>
DriftDemo == CreateAgent \o CreateAgent \o <<"allocate">> \o Signing \o Audit
             \o Check \o SetBit \o Audit \o Check

Handlers ==
  [create |-> CreateAgent, rotate |-> RotateKey, attest |-> AttestWorkload,
   issue |-> IssueCredential, revoke |-> Revoke, verify |-> Check \o Audit,
   score |-> ScoreCredential, profile |-> AgentProfile, report |-> ComplianceReport,
   board |-> RiskDashboard, reset |-> DemoReset, addHook |-> CreateWebhook,
   dropHook |-> DeleteWebhook, testHook |-> TestWebhook, flush |-> <<"flush">>,
   peer |-> CheckAtPeer, seed |-> SeedTenant, drift |-> DriftDemo]

\* Steps in the session that the step before has left open.
OnOwn == {"insert", "register", "rotate", "setRevoked", "makeIssuer", "stamp", "append",
          "checkCred", "countEvents", "deleteRest", "readBoard"}
Offline == {"get", "set", "flush", "reply", "seedAgents", "seedCreds", "seedRevoked", "seedIntent",
            "seedCart"}

-----------------------------------------------------------------------------
(* The pool                                                                *)

InUse == Cardinality({r \in Active : Doing(r) \in OnOwn})
Free == load.pool - InUse

\* is_revoked, called inside a session, opens a second one.
Needs(r) == Doing(r) \notin OnOwn \cup Offline \/ Doing(r) = "checkCred"

\* Request r may do the step that comes next in its script.
Ready(r, step) == req[r] # None /\ Doing(r) = step /\ (Needs(r) => Free > 0)

-----------------------------------------------------------------------------
(* How a request goes on                                                   *)

End(r, code) ==
  /\ req' = [req EXCEPT ![r] = None]
  /\ out' = [out EXCEPT ![r] = code]

Follow(r, q, todo) ==
  IF todo = <<>> THEN End(r, q.code)
  ELSE req' = [req EXCEPT ![r] = [q EXCEPT !.todo = todo]] /\ UNCHANGED out

\* The step is done and has left q behind.
Proceed(r, q) == Follow(r, q, Tail(q.todo))

\* ... and other steps come before those of the script.
Insist(r, q, steps) == Follow(r, q, steps \o Tail(q.todo))

\* The script from the next of the given steps on.
From(todo, steps) ==
  LET next == {i \in 2..Len(todo) : todo[i] \in steps} IN
  IF next = {} THEN <<>> ELSE SubSeq(todo, Min(next), Len(todo))

\* HTTPException: 404 or 422.
Refuse(r) == End(r, "refused")

SeedItems == {"seedAgents", "seedCreds", "seedRevoked", "seedTree", "seedIntent", "seedCart", "seedEvents"}
AuditSteps == {"readNewest", "stamp", "append"}

\* Where seeding goes on after an exception, but for one in the audit events of agents
\* and credentials, which nothing catches.
AfterSeedFailure(q) ==
  LET todo == q.todo IN
  IF Head(todo) \notin AuditSteps THEN From(todo, SeedItems)
  ELSE IF q.deals = 0 /\ "seedIntent" \in ToSet(todo) THEN From(todo, {"seedIntent"})
  ELSE From(todo, {"seedEvents"})

SeedGoesOn(q) ==
  /\ Head(q.todo) # "checkEmpty"
  /\ Head(q.todo) \in AuditSteps => "seedTree" \notin ToSet(q.todo)

\* An exception.  Scoring counts an unverifiable credential for nothing and gives
\* up recording; seeding logs and skips what fails; a background task has answered
\* already; verification answers 400.
Fail(r) ==
  LET q == req[r]
      step == Doing(r)
  IN CASE q.kind = "score" /\ step \in {"resolve", "readList", "ensureIssuer", "makeIssuer"}
                                        -> Follow(r, q, From(q.todo, {"readIssuer"}))
       [] q.kind = "score" /\ step = "record" -> Follow(r, q, From(q.todo, {"readNewest"}))
       [] q.kind = "seed" /\ SeedGoesOn(q) -> Follow(r, q, AfterSeedFailure(q))
       [] step = "dispatch" /\ q.kind # "testHook" -> End(r, q.code)
       [] q.kind \in {"verify", "peer"} -> Refuse(r)
       [] OTHER                         -> End(r, "error")

\* Broken variant: a request waits for a connection until there is one.
WaitOn(r) == FALSE

\* pool_timeout has passed without a free connection.
TimeOut(r) == req[r] # None /\ Needs(r) /\ Free <= 0 /\ Fail(r)

-----------------------------------------------------------------------------
(* Arrival                                                                 *)

Arrived == {r \in Jobs : req[r] # None \/ out[r] # None}
Coming(r) == r \in DOMAIN load.jobs \ Arrived /\ \A s \in 1..r - 1 : s \in Arrived

\* A credential is known to its clients once its request was answered.
Given(c) ==
  /\ c \in DOMAIN creds
  /\ \/ creds[c].by = 0
     \/ out[creds[c].by] = "ok"
     \/ creds[c].by \in At("dispatch")

\* What a request has before its handler runs: code is its answer so far, seen what
\* the last look-up found, fresh that no row of its tenant was found.
Blank ==
  [kind |-> "", tenant |-> None, agent |-> None, subject |-> None, spiffe |-> None, cred |-> None,
   hook |-> None, void |-> FALSE, topics |-> <<>>, did |-> None, sig |-> None, bits |-> None, bit |-> None,
   verdicts |-> <<>>, fresh |-> FALSE, seen |-> None, tally |-> None, start |-> None, score |-> 0, since |-> 0,
   ttl |-> 0, prev |-> 0, at |-> 0, made |-> <<>>, issued |-> <<>>, deals |-> 0, intent |-> 0,
   carts |-> <<>>,
   spent |-> 0, price |-> 0, targets |-> 0, code |-> "ok", alone |-> TRUE, todo |-> <<>>]

\* A request was alone when no other was served at any time meanwhile.
Overlapping(q) == [q EXCEPT !.alone = FALSE]

Begin(r, q) ==
  /\ req' = [s \in Jobs |->
       IF s = r THEN [q EXCEPT !.alone = Active = {}, !.todo = Handlers[q.kind]]
       ELSE IF s \in Active THEN Overlapping(req[s]) ELSE None]
  /\ UNCHANGED out

TurnAway(r, code) == req' = req /\ out' = [out EXCEPT ![r] = code]
=============================================================================
