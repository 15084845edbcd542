------------------------------- MODULE Backend -------------------------------
(***************************************************************************)
(* The handlers of the backend that the other modules do not cover, as     *)
(* they run beside each other: agents and keys, workload attestation,      *)
(* credentials, verification here and at a peer that caches our DID        *)
(* documents, trust scores, webhooks, reports, the demo routes, and the    *)
(* audit event that each handler writes after it has committed.            *)
(***************************************************************************)
EXTENDS Requests, DidCache, TrustScore, Compliance, AuditLog

CONSTANTS
  Tokens,         \* name -> token
  Public,         \* the tenant of the audit events of verification
  Hooks,          \* numbers of webhooks
  Topics,         \* lists of event types that webhooks are created for
  AttestTtl,      \* lifetime of an attestation
  FetchTime,      \* the longest a peer's fetch of a document takes
  Roster,         \* SPIFFE ID of each seeded agent, or None
  Plan,           \* seeded credentials: <<issuer, subject>>, by place in the roster
  Targets,        \* seeded credentials that are revoked, by place in the plan
  Tree,           \* seeded delegations: <<issuer, subject>>, by place in the roster
  Deals,          \* seeded purchases: [buyer, shop, max, carts], carts the amounts
  SeedEvents      \* seeded trust events: [who, kind, delta]

VARIABLES
  hooks,       \* row of each webhook
  events,      \* trust events, in the order of created_at
  cache,       \* the peer's cache of documents
  delegations, \* rows of each tenant in the delegation registry
  spends,      \* mandate spends
  log,         \* audit events of each tenant
  stamps,      \* audit events stamped so far
  forked,      \* tenants for which two writers were in write_audit at once
  torn         \* tenants that were reset during a write_audit

\* Roster, Plan and the others are written in core/seed.py, tokens by the routes that
\* issue them.
ASSUME BackendAssumption ==
  /\ Public \in Tenants /\ HomeTenant \in Tenants /\ 1 \in Agents \cap Creds /\ {AttestTtl, FetchTime} \subseteq Nat
  /\ Roster \in Seq(Spiffes \cup {None}) /\ Tree \in Seq(Nat \X Nat)
  /\ \A l \in Loads : \A r \in DOMAIN l.jobs :
       /\ l.jobs[r].kind \in DOMAIN Handlers /\ l.jobs[r].ttl \in Nat
       /\ TenantOf(Tokens[l.jobs[r].as]) \in Tenants

ASSUME SeedAssumption ==
  /\ Plan \in Seq((DOMAIN Roster) \X (DOMAIN Roster)) /\ Targets \in Seq(DOMAIN Plan)
  /\ Deals \in Seq([buyer : DOMAIN Roster, shop : DOMAIN Roster, max : Nat, carts : Seq(Nat)])
  /\ SeedEvents \in Seq([who : DOMAIN Roster, kind : Seeded, delta : Int])

\* A settled load has two documents in the cache.
ASSUME LoadAssumption ==
  /\ MaxJobs \in Nat /\ MaxAtOnce \in Nat /\ StatusIssuer # 1
  /\ \A l \in Loads :
       /\ l.pool \in Nat /\ (l.settled => CacheSize > 1)
       /\ \A r \in DOMAIN l.jobs : l.jobs[r].depth \in Nat

auditVars == <<log, stamps, forked, torn>>
seededVars == <<delegations, spends>>
sideVars == <<hooks, events, cache, seededVars>>
vars == <<registryVars, requestVars, arrivalVars, sideVars, auditVars>>

\* A load starts with one agent and one credential of the home tenant; a settled one
\* also with the status issuer, and with both documents in the peer's cache.
Init ==
  /\ load \in Loads
  /\ tenants = {HomeTenant}
  /\ agents = [a \in Agents |->
       IF a = 1 THEN [tenant |-> HomeTenant, spiffe |-> None, deleted |-> FALSE]
       ELSE IF a = StatusIssuer /\ load.settled
            THEN [tenant |-> DefaultTenant, spiffe |-> None, deleted |-> FALSE] ELSE None]
  /\ keys = [a \in Agents |->
       IF agents[a] = None THEN <<>> ELSE <<[active |-> TRUE, at |-> 0, gen |-> 0]>>]
  /\ creds = [c \in {1} |->
       [issuer |-> 1, subject |-> 1, kid |-> 1, gen |-> 0, tenant |-> HomeTenant, list |-> 0,
        exp |-> 0, stored |-> TRUE, spiffe |-> None, depth |-> 0, by |-> 0]]
  /\ lists = {HomeTenant} /\ revoked = {} /\ struck = {} /\ resets = [t \in Tenants |-> 0]
  /\ hooks = [h \in Hooks |-> None] /\ events = <<>>
  /\ cache = IF load.settled
             THEN <<Entry(StatusIssuer, Document(StatusIssuer), 0), Entry(1, Document(1), 0)>> ELSE <<>>
  /\ delegations = [t \in Tenants |-> 0] /\ spends = {}
  /\ log = [t \in Tenants |-> {}] /\ stamps = 0 /\ forked = {} /\ torn = {}
  /\ req = [r \in Jobs |-> None] /\ out = [r \in Jobs |-> None]
  /\ now = 0 /\ hits = <<>>

-----------------------------------------------------------------------------
(* Arrival                                                                 *)

\* The trust events, by place, and the mandate spends of a tenant.
TrustOf(t) == {i \in DOMAIN events : events[i].tenant = t}
SpendsOf(t) == {s \in spends : s.tenant = t}

\* Revoked for good: no revocation has read the list before and is yet to write it.
Settled ==
  {c \in revoked \cap DOMAIN creds :
     \A r \in At("setRevoked") : req[r].bits.of = ListOf(c) => c \in req[r].bits.set}

\* What a report is measured against: the rows of the tenant, those among bits revoked.
Truth(t, bits) ==
  [agents |-> Cardinality(AgentsOf(t)), creds |-> Cardinality(RowsOf(t)),
   revoked |-> Cardinality(RowsOf(t) \cap bits), events |-> Cardinality(log[t]),
   trust |-> Cardinality(TrustOf(t)), delegations |-> delegations[t],
   spends |-> Cardinality(SpendsOf(t))]

Known == {a \in Agents : agents[a] # None}

\* What clients of a tenant ask for.  The SVID is good: signed by the given bundle,
\* or in demo mode unsigned.
Arguments(job, t) ==
  LET kind == job.kind
      q == [Blank EXCEPT !.kind = kind, !.tenant = t] IN
  CASE kind \in {"rotate", "profile"} -> {[q EXCEPT !.agent = a, !.subject = a] : a \in Known}
    [] kind = "issue"  -> {[q EXCEPT !.agent = a, !.subject = a, !.ttl = job.ttl, !.score = job.depth] :
                             a \in Known}
    [] kind = "attest" -> {[q EXCEPT !.spiffe = s, !.ttl = AttestTtl] : s \in Spiffes}
    [] kind \in {"revoke", "verify", "score", "peer"} ->
         {[q EXCEPT !.cred = c, !.did = creds[c].issuer, !.agent = creds[c].issuer,
                    !.subject = creds[c].subject,
                    !.sig = [kid |-> creds[c].kid, gen |-> creds[c].gen],
                    !.void = c \in Settled] : c \in {c \in Creds : Given(c)}}
    [] kind = "addHook" -> {[q EXCEPT !.topics = s] : s \in Topics}
    [] kind \in {"dropHook", "testHook"} -> {[q EXCEPT !.hook = h] : h \in {h \in Hooks : hooks[h] # None}}
    [] kind \in {"report", "board"} -> {[q EXCEPT !.start = Truth(t, Settled), !.since = resets[t]]}
    [] OTHER -> {q}

\* An SVID that the bundle did not sign, or outside demo mode one without a bundle.
BadSvid(kind, svid) == kind = "attest" /\ (svid = "forged" \/ (svid = "unsigned" /\ ~DemoMode))

\* The rate limit, the size, the token and the body are looked at in this order.
Arrive(r) ==
  /\ Coming(r) /\ Cardinality(Active) < MaxAtOnce
  /\ \E job \in {load.jobs[r]} : \E token \in {Tokens[job.as]} :
       LET limited == job.kind # "peer" /\ Mutating(job.kind) /\ OverLimit(hits, now)
           refusal == Refusal(job.kind, token, job.large)
       IN
       /\ hits' = IF job.kind # "peer" /\ Mutating(job.kind) THEN Counted(hits, now) ELSE hits
       /\ IF limited THEN TurnAway(r, "429")
          ELSE IF refusal # "" THEN TurnAway(r, refusal)
          ELSE IF BadSvid(job.kind, job.svid) THEN TurnAway(r, "refused")
          ELSE \E q \in Arguments(job, TenantOf(token)) : Begin(r, q)
  /\ UNCHANGED <<registryVars, load, now, sideVars, auditVars>>

\* A fetch that has lasted FetchTime has failed, so no time passes before it ends.
Tick ==
  /\ now < load.until
  /\ \A r \in At("fetch") \cup At("set") : now - req[r].since < FetchTime
  /\ now' = now + 1
  /\ UNCHANGED <<registryVars, requestVars, load, hits, sideVars, auditVars>>

-----------------------------------------------------------------------------
(* write_audit                                                             *)

AuditTenant(q) == IF q.kind = "verify" THEN Public ELSE q.tenant
Writing(t) == {r \in At("stamp") \cup At("append") : AuditTenant(req[r]) = t}

ReadNewest(r) ==
  /\ Ready(r, "readNewest")
  /\ \E t \in {AuditTenant(req[r])} :
       /\ Proceed(r, [req[r] EXCEPT !.prev = Newest(log[t])])
       /\ forked' = IF Writing(t) = {} THEN forked ELSE forked \cup {t}
  /\ UNCHANGED <<registryVars, arrivalVars, sideVars, log, stamps, torn>>

\* flush: the event gets its id and created_at, then its hash.
Stamp(r) ==
  /\ Ready(r, "stamp")
  /\ stamps' = stamps + 1
  /\ Proceed(r, [req[r] EXCEPT !.at = stamps + 1])
  /\ UNCHANGED <<registryVars, arrivalVars, sideVars, log, forked, torn>>

\* Broken variant: the event is chained to what is the newest by now.
AppendChainedLate(r) ==
  /\ Ready(r, "append")
  /\ \E t \in {AuditTenant(req[r])} :
       log' = [log EXCEPT ![t] = @ \cup {[at |-> req[r].at, prev |-> Newest(log[t])]}]
  /\ Proceed(r, [req[r] EXCEPT !.prev = 0, !.at = 0])
  /\ UNCHANGED <<registryVars, arrivalVars, sideVars, stamps, forked, torn>>

AppendEvent(r) ==
  /\ Ready(r, "append")
  /\ \E t \in {AuditTenant(req[r])} :
       log' = [log EXCEPT ![t] = @ \cup {[at |-> req[r].at, prev |-> req[r].prev]}]
  /\ Proceed(r, [req[r] EXCEPT !.prev = 0, !.at = 0])
  /\ UNCHANGED <<registryVars, arrivalVars, sideVars, stamps, forked, torn>>

-----------------------------------------------------------------------------
(* Agents and keys                                                         *)

EnsureTenant(r) ==
  /\ Ready(r, "ensureTenant")
  /\ Proceed(r, [req[r] EXCEPT !.fresh = req[r].tenant \notin tenants])
  /\ UNCHANGED <<registryVars, arrivalVars, sideVars, auditVars>>

\* The row of the tenant that was not found is there by now.
TenantTaken(q) == q.fresh /\ q.tenant \in tenants

\* Broken variant: two agents may have one SPIFFE ID.
TenantConflict(q) == TenantTaken(q)

\* IntegrityError: the tenant's or the SPIFFE ID's row was inserted meanwhile.
Conflict(q) == TenantTaken(q) \/ HoldersOf(q.spiffe) # {}

InsertRows(q, a) ==
  /\ Insert(a, q.tenant, q.spiffe, now)
  /\ tenants' = tenants \cup {q.tenant}
  /\ UNCHANGED <<creds, lists, revoked, struck, resets>>

\* create_agent, and _create_agent of the drift demo and of seeding, which then
\* writes an audit event for each agent.
InsertAgent(r) ==
  /\ Ready(r, "insert")
  /\ IF Conflict(req[r]) THEN Fail(r) /\ UNCHANGED registryVars
     ELSE /\ RoomForAgent
          /\ \E a \in {Min(Unused)} :
            /\ InsertRows(req[r], a)
            /\ LET q == [req[r] EXCEPT !.fresh = FALSE, !.subject = a,
                                       !.agent = IF req[r].agent = None THEN a ELSE @] IN
               IF q.kind = "seed" THEN Insist(r, [q EXCEPT !.made[Len(q.made)] = a], Audit)
               ELSE Proceed(r, q)
  /\ UNCHANGED <<arrivalVars, sideVars, auditVars>>

\* rotate_agent_key
ReadKeys(r) ==
  /\ Ready(r, "readKeys")
  /\ IF req[r].agent \in AgentsOf(req[r].tenant)
     THEN Proceed(r, [req[r] EXCEPT !.seen = Len(keys[req[r].agent]),
                                    !.fresh = req[r].tenant \notin tenants])
     ELSE Refuse(r)
  /\ UNCHANGED <<registryVars, arrivalVars, sideVars, auditVars>>

\* The rows of the tenant that a reset has deleted but not committed.
Locked(t) == \E p \in At("deleteRest") : req[p].tenant = t

\* Broken variant: a kid may be given twice.
RotateAnyway(r) ==
  /\ Ready(r, "rotate") /\ ~Locked(req[r].tenant)
  /\ LET q == req[r] IN
     IF TenantTaken(q) \/ q.agent \notin Registered THEN Fail(r) /\ UNCHANGED registryVars
     ELSE /\ keys' = [keys EXCEPT ![q.agent] = Rotated(q.agent, q.seen, now)]
          /\ tenants' = tenants \cup {q.tenant}
          /\ Proceed(r, q)
          /\ UNCHANGED <<agents, creds, lists, revoked, struck, resets>>
  /\ UNCHANGED <<arrivalVars, sideVars, auditVars>>

\* The commit waits for the locks on the old keys, and finds them deleted then.
Rotate(r) ==
  /\ Ready(r, "rotate") /\ ~Locked(req[r].tenant)
  /\ LET q == req[r] IN
     IF TenantTaken(q) \/ q.agent \notin Registered \/ ~KidIsFree(q.agent, q.seen)
     THEN Fail(r) /\ UNCHANGED registryVars
     ELSE /\ keys' = [keys EXCEPT ![q.agent] = Rotated(q.agent, q.seen, now)]
          /\ tenants' = tenants \cup {q.tenant}
          /\ Proceed(r, q)
          /\ UNCHANGED <<agents, creds, lists, revoked, struck, resets>>
  /\ UNCHANGED <<arrivalVars, sideVars, auditVars>>

-----------------------------------------------------------------------------
(* attest_workload                                                         *)

Holds(q, a) == [q EXCEPT !.agent = a, !.subject = a, !.fresh = FALSE]

FindHolder(r) ==
  /\ Ready(r, "findHolder")
  /\ IF HoldersOf(req[r].spiffe) = {}
     THEN Insist(r, req[r], <<"ensureTenant", "register">>)
     ELSE \E a \in HoldersOf(req[r].spiffe) : Proceed(r, Holds(req[r], a))
  /\ UNCHANGED <<registryVars, arrivalVars, sideVars, auditVars>>

Register(r) ==
  /\ Ready(r, "register")
  /\ IF Conflict(req[r]) THEN Insist(r, req[r], <<"refetch">>) /\ UNCHANGED registryVars
     ELSE /\ RoomForAgent
          /\ \E a \in {Min(Unused)} : InsertRows(req[r], a) /\ Proceed(r, Holds(req[r], a))
  /\ UNCHANGED <<arrivalVars, sideVars, auditVars>>

\* Whoever won the race; none when it was the tenant's row that was taken.
Refetch(r) ==
  /\ Ready(r, "refetch")
  /\ IF HoldersOf(req[r].spiffe) = {} THEN Fail(r)
     ELSE \E a \in HoldersOf(req[r].spiffe) : Proceed(r, Holds(req[r], a))
  /\ UNCHANGED <<registryVars, arrivalVars, sideVars, auditVars>>

-----------------------------------------------------------------------------
(* Credentials                                                             *)

\* get_or_create_default_list and allocate_index: module StatusLists has them in
\* detail.  The number of resets tells the list from the one before.
Allocate(r) ==
  /\ Ready(r, "allocate")
  /\ lists' = lists \cup {req[r].tenant}
  /\ Proceed(r, [req[r] EXCEPT !.seen = resets[req[r].tenant]])
  /\ UNCHANGED <<tenants, agents, keys, creds, revoked, struck, resets, arrivalVars, sideVars, auditVars>>

FindIssuer(r) ==
  /\ Ready(r, "findIssuer")
  /\ IF req[r].agent \in AgentsOf(req[r].tenant) THEN Proceed(r, req[r]) ELSE Refuse(r)
  /\ UNCHANGED <<registryVars, arrivalVars, sideVars, auditVars>>

\* issue_vc_jwt; a lifetime of 0 is no lifetime.
Sign(r) ==
  /\ Ready(r, "sign")
  /\ LET q == req[r] IN
     IF q.agent \notin Registered THEN Fail(r) /\ UNCHANGED registryVars
     ELSE /\ RoomForCred
          /\ \E c \in {Min(Unsigned)} : \E sig \in {Signature(q.agent, SigningKey(q.agent))} :
            /\ creds' = CredsWith(c,
                 [issuer |-> q.agent, subject |-> q.subject, kid |-> sig.kid, gen |-> sig.gen,
                  tenant |-> q.tenant, list |-> q.seen, exp |-> IF q.ttl = 0 THEN 0 ELSE now + q.ttl,
                  stored |-> FALSE, spiffe |-> q.spiffe, depth |-> q.score, by |-> r])
            /\ Proceed(r, [q EXCEPT !.cred = c, !.did = q.agent, !.sig = sig, !.seen = None])
            /\ UNCHANGED <<tenants, agents, keys, lists, revoked, struck, resets>>
  /\ UNCHANGED <<arrivalVars, sideVars, auditVars>>

\* The row refers to the agent and to the list.
Store(r) ==
  /\ Ready(r, "store")
  /\ LET q == req[r] IN
     IF q.agent \notin Registered \/ ~Listed(q.cred) THEN Fail(r) /\ UNCHANGED registryVars
     ELSE /\ creds' = [creds EXCEPT ![q.cred].stored = TRUE]
          /\ IF q.kind = "seed" THEN Insist(r, [q EXCEPT !.issued[Len(q.issued)] = q.cred], Audit)
             ELSE Proceed(r, q)
          /\ UNCHANGED <<tenants, agents, keys, lists, revoked, struck, resets>>
  /\ UNCHANGED <<arrivalVars, sideVars, auditVars>>

FindCred(r) ==
  /\ Ready(r, "findCred")
  /\ IF req[r].cred \in RowsOf(req[r].tenant) THEN Proceed(r, req[r]) ELSE Refuse(r)
  /\ UNCHANGED <<registryVars, arrivalVars, sideVars, auditVars>>

\* set_revoked reads the bitstring ...
ReadBits(r) ==
  /\ Ready(r, "readBits")
  /\ IF Listed(req[r].cred) THEN Proceed(r, [req[r] EXCEPT !.bits = Bits(req[r].cred)]) ELSE Fail(r)
  /\ UNCHANGED <<registryVars, arrivalVars, sideVars, auditVars>>

\* ... and writes it back, without a lock; the drift demo goes on to verify what it
\* has revoked.
SetRevoked(r) ==
  /\ Ready(r, "setRevoked")
  /\ LET q == req[r] IN
     IF ~Listed(q.cred) THEN Fail(r) /\ UNCHANGED registryVars
     ELSE /\ revoked' = Written(q.cred, q.bits)
          /\ struck' = struck \cup {q.cred}
          /\ LET p == [q EXCEPT !.bits = None, !.bit = None, !.did = q.agent,
                                !.sig = [kid |-> creds[q.cred].kid, gen |-> creds[q.cred].gen]] IN
             IF q.kind = "seed" THEN Insist(r, p, Audit) ELSE Proceed(r, p)
          /\ UNCHANGED <<tenants, agents, keys, creds, lists, resets>>
  /\ UNCHANGED <<arrivalVars, sideVars, auditVars>>

-----------------------------------------------------------------------------
(* Verification                                                            *)

\* The signature was good: of the credential first, then of its status list.
Believe(r, q) ==
  IF q.bit = None THEN Proceed(r, q)
  ELSE Proceed(r, [q EXCEPT !.verdicts = Append(@, q.bit),
         !.score = IF q.kind = "score" THEN ValidityFactor(IF q.bit THEN "revoked" ELSE "valid", 0) ELSE @,
         !.code = IF q.kind \in {"verify", "peer"} /\ q.bit THEN "revoked" ELSE @])

\* jwt.decode looks at the signature and then at exp; a status list has no exp.
TooLate(q) == q.bit = None /\ Expired(q.cred, now)

\* verify_vc_jwt and verify_and_extract_encoded_list in this process: documents of
\* the own domain are built anew each time.
Resolve(r) ==
  /\ Ready(r, "resolve")
  /\ LET q == req[r] IN
     IF ~SignedBy(q.sig, Document(q.did)) THEN Fail(r)
     ELSE IF ~TooLate(q) THEN Believe(r, q)
     ELSE IF q.kind # "score" THEN Fail(r)
     ELSE Follow(r, [q EXCEPT !.score = ValidityFactor("expired", now - creds[q.cred].exp)],
                 From(q.todo, {"readIssuer"}))
  /\ UNCHANGED <<registryVars, arrivalVars, sideVars, auditVars>>

\* issue_status_list_vc_jwt: the list is read ...
ReadList(r) ==
  /\ Ready(r, "readList")
  /\ IF Listed(req[r].cred)
     THEN Proceed(r, [req[r] EXCEPT !.bit = req[r].cred \in revoked, !.did = StatusIssuer])
     ELSE Fail(r)
  /\ UNCHANGED <<registryVars, arrivalVars, sideVars, auditVars>>

\* ... and signed by the status issuer's newest key, active or not.
SignedList(q, a) == [q EXCEPT !.sig = Signature(a, Len(keys[a]))]

EnsureIssuer(r) ==
  /\ Ready(r, "ensureIssuer")
  /\ IF StatusIssuer \in Registered THEN Proceed(r, SignedList(req[r], StatusIssuer))
     ELSE Insist(r, req[r], <<"makeIssuer">>)
  /\ UNCHANGED <<registryVars, arrivalVars, sideVars, auditVars>>

\* IntegrityError: another request has made the issuer meanwhile.
MakeIssuer(r) ==
  /\ Ready(r, "makeIssuer")
  /\ IF StatusIssuer \in Registered THEN Fail(r) /\ UNCHANGED registryVars
     ELSE /\ Insert(StatusIssuer, DefaultTenant, None, now)
          /\ Proceed(r, [req[r] EXCEPT !.sig = [kid |-> 1, gen |-> resets[DefaultTenant]]])
          /\ UNCHANGED <<tenants, creds, lists, revoked, struck, resets>>
  /\ UNCHANGED <<arrivalVars, sideVars, auditVars>>

\* The same verification at a peer, against a document that it has cached or fetched.
JudgeAtPeer(r, doc) ==
  IF SignedBy(req[r].sig, doc) /\ ~TooLate(req[r]) THEN Believe(r, req[r]) ELSE Refuse(r)

Get(r) ==
  /\ Ready(r, "get")
  /\ LET q == req[r] IN
     /\ cache' = AfterGet(cache, q.did, now)
     /\ IF Hits(cache, q.did, now) = {}
        THEN Insist(r, [q EXCEPT !.since = now], <<"fetch", "set">>)
        ELSE JudgeAtPeer(r, Found(cache, q.did, now).doc)
  /\ UNCHANGED <<registryVars, arrivalVars, hooks, events, seededVars, auditVars>>

\* The document routes of this backend.
Fetch(r) ==
  /\ Ready(r, "fetch")
  /\ IF Document(req[r].did) = <<>> THEN Refuse(r)
     ELSE Proceed(r, [req[r] EXCEPT !.seen = Document(req[r].did)])
  /\ UNCHANGED <<registryVars, arrivalVars, sideVars, auditVars>>

Set(r) ==
  /\ Ready(r, "set")
  /\ cache' = AfterSet(cache, req[r].did, req[r].seen, now)
  /\ JudgeAtPeer(r, req[r].seen)
  /\ UNCHANGED <<registryVars, arrivalVars, hooks, events, seededVars, auditVars>>

Flush(r) ==
  /\ Ready(r, "flush")
  /\ cache' = <<>> /\ Proceed(r, req[r])
  /\ UNCHANGED <<registryVars, arrivalVars, hooks, events, seededVars, auditVars>>

-----------------------------------------------------------------------------
(* Trust scores                                                            *)

\* The issuer is looked up in every tenant, its credentials in the caller's; a bit
\* that cannot be read counts as clear.
ReadIssuer(r) ==
  /\ Ready(r, "readIssuer")
  /\ LET q == req[r]
         issued == IF q.agent \in Registered
                   THEN {c \in RowsOf(q.tenant) : creds[c].issuer = q.agent} ELSE {}
     IN Proceed(r, [q EXCEPT !.tally = IssuerFactor(issued, {c \in issued \cap revoked : Listed(c)})])
  /\ UNCHANGED <<registryVars, arrivalVars, sideVars, auditVars>>

ReadHistory(r) ==
  /\ Ready(r, "readHistory")
  /\ LET q == req[r] IN
     Proceed(r, [q EXCEPT !.tally = @ + HistoryFactor(Of(events, q.subject, q.tenant))
                                      + DepthFactor(creds[q.cred].depth)])
  /\ UNCHANGED <<registryVars, arrivalVars, sideVars, auditVars>>

\* The total is written as the delta, whatever the verdict.
Record(r) ==
  /\ Ready(r, "record")
  /\ LET q == req[r] IN
     events' = Append(events, [agent |-> q.subject, tenant |-> q.tenant, kind |-> Verdict(q.score),
                               delta |-> q.score + q.tally])
  /\ Proceed(r, req[r])
  /\ UNCHANGED <<registryVars, arrivalVars, hooks, cache, seededVars, auditVars>>

ReadEvents(r) ==
  /\ Ready(r, "readEvents")
  /\ Proceed(r, [req[r] EXCEPT !.tally = Profile(Of(events, req[r].agent, req[r].tenant))])
  /\ UNCHANGED <<registryVars, arrivalVars, sideVars, auditVars>>

\* The dashboard and the monitor read the agents and then all events.
ReadAgents(r) ==
  /\ Ready(r, "readAgents")
  /\ Proceed(r, [req[r] EXCEPT !.seen = AgentsOf(req[r].tenant)])
  /\ UNCHANGED <<registryVars, arrivalVars, sideVars, auditVars>>

ReadBoard(r) ==
  /\ Ready(r, "readBoard")
  /\ LET q == req[r]
         of(a) == Of(events, a, q.tenant)
         rows == [a \in q.seen |-> [row |-> BoardRow(of(a)), reasons |-> Reasons(of(a))]]
     IN Proceed(r, [q EXCEPT !.tally = [rows |-> rows,
                      premium |-> Premium([a \in q.seen |-> rows[a].row.tier])]])
  /\ UNCHANGED <<registryVars, arrivalVars, sideVars, auditVars>>

-----------------------------------------------------------------------------
(* Reports                                                                 *)

\* get_compliance_report and demo_summary: agents and credentials are counted, and
\* for each credential is_revoked takes a session beside the one that is open.
CountRows(r) ==
  /\ Ready(r, "countRows")
  /\ LET t == req[r].tenant
         rows == RowsOf(t) IN
     Insist(r, [req[r] EXCEPT !.seen = rows,
                  !.tally = [agents |-> Cardinality(AgentsOf(t)), creds |-> Cardinality(rows), revoked |-> 0]],
            [i \in 1..Cardinality(rows) |-> "checkCred"])
  /\ UNCHANGED <<registryVars, arrivalVars, sideVars, auditVars>>

CheckCred(r) ==
  /\ Ready(r, "checkCred")
  /\ \E c \in {Min(req[r].seen)} :
       IF ~Listed(c) THEN Fail(r)
       ELSE Proceed(r, [req[r] EXCEPT !.seen = @ \ {c},
                          !.tally.revoked = @ + (IF c \in revoked THEN 1 ELSE 0)])
  /\ UNCHANGED <<registryVars, arrivalVars, sideVars, auditVars>>

\* The numbers that a report has, and more of them.
Also(tally, more) ==
  [x \in DOMAIN tally \cup DOMAIN more |-> IF x \in DOMAIN tally THEN tally[x] ELSE more[x]]

\* Broken variant: the events of every tenant are counted.
CountAllEvents(r) ==
  /\ Ready(r, "countEvents")
  /\ LET q == req[r] IN
     Proceed(r, [q EXCEPT !.tally = Also(@, [events |-> stamps, trust |-> Len(events),
                 delegations |-> delegations[q.tenant], spends |-> Cardinality(spends)])])
  /\ UNCHANGED <<registryVars, arrivalVars, sideVars, auditVars>>

CountEvents(r) ==
  /\ Ready(r, "countEvents")
  /\ LET q == req[r] IN
     Proceed(r, [q EXCEPT !.tally = Also(@, [events |-> Cardinality(log[q.tenant]),
                 trust |-> Cardinality(TrustOf(q.tenant)),
                 delegations |-> delegations[q.tenant],
                 spends |-> Cardinality(SpendsOf(q.tenant))])])
  /\ UNCHANGED <<registryVars, arrivalVars, sideVars, auditVars>>

WalkChain(r) ==
  /\ Ready(r, "walkChain")
  /\ Proceed(r, [req[r] EXCEPT !.tally = Also(@, [valid |-> Unbroken(log[req[r].tenant])])])
  /\ UNCHANGED <<registryVars, arrivalVars, sideVars, auditVars>>

Reply(r) ==
  /\ Ready(r, "reply")
  /\ Proceed(r, req[r])
  /\ UNCHANGED <<registryVars, arrivalVars, sideVars, auditVars>>

-----------------------------------------------------------------------------
(* demo_reset                                                              *)

\* The deletions of credentials and keys, which wait for another reset's locks.
DeleteCreds(r) ==
  /\ Ready(r, "deleteCreds") /\ ~Locked(req[r].tenant)
  /\ LET t == req[r].tenant IN
     Proceed(r, [req[r] EXCEPT !.seen = <<AgentsOf(t), RowsOf(t)>>])
  /\ UNCHANGED <<registryVars, arrivalVars, sideVars, auditVars>>

\* The other tables and the commit.  An agent or a credential inserted meanwhile has
\* rows that refer to what is deleted; a status list does not count as such.
DeleteRest(r) ==
  /\ Ready(r, "deleteRest")
  /\ \E t \in {req[r].tenant} :
       IF req[r].seen # <<AgentsOf(t), RowsOf(t)>>
       THEN Fail(r) /\ UNCHANGED <<registryVars, auditVars>>
       ELSE /\ agents' = [a \in Agents |->
                 IF a \in AgentsOf(t) THEN [agents[a] EXCEPT !.deleted = TRUE] ELSE agents[a]]
            /\ keys' = [a \in Agents |-> IF a \in AgentsOf(t) THEN <<>> ELSE keys[a]]
            /\ creds' = [c \in DOMAIN creds |->
                 IF c \in RowsOf(t) THEN [creds[c] EXCEPT !.stored = FALSE] ELSE creds[c]]
            /\ lists' = lists \ {t} /\ tenants' = tenants \ {t}
            /\ resets' = [resets EXCEPT ![t] = @ + 1]
            /\ log' = [log EXCEPT ![t] = {}]
            /\ torn' = IF Writing(t) = {} THEN torn ELSE torn \cup {t}
            /\ Proceed(r, req[r])
            /\ UNCHANGED <<revoked, struck, stamps, forked>>
  /\ UNCHANGED <<arrivalVars, sideVars>>

-----------------------------------------------------------------------------
(* Webhooks                                                                *)

\* Bound: a webhook is created while there is a row for it.
RoomForHook == \E h \in Hooks : hooks[h] = None

InsertHook(r) ==
  /\ Ready(r, "insertHook") /\ RoomForHook
  /\ \E h \in {Min({h \in Hooks : hooks[h] = None})} :
       hooks' = [hooks EXCEPT ![h] = [tenant |-> req[r].tenant, topics |-> req[r].topics, active |-> TRUE]]
  /\ Proceed(r, req[r])
  /\ UNCHANGED <<registryVars, arrivalVars, events, cache, seededVars, auditVars>>

Mine(q) == hooks[q.hook].tenant = q.tenant

DropHook(r) ==
  /\ Ready(r, "dropHook")
  /\ IF Mine(req[r]) THEN hooks' = [hooks EXCEPT ![req[r].hook].active = FALSE] /\ Proceed(r, req[r])
     ELSE Refuse(r) /\ UNCHANGED hooks
  /\ UNCHANGED <<registryVars, arrivalVars, events, cache, seededVars, auditVars>>

FindHook(r) ==
  /\ Ready(r, "findHook")
  /\ IF Mine(req[r]) THEN Proceed(r, [req[r] EXCEPT !.topics = hooks[req[r].hook].topics])
     ELSE Refuse(r)
  /\ UNCHANGED <<registryVars, arrivalVars, sideVars, auditVars>>

EventType(q) ==
  CASE q.kind = "issue"  -> "credential.issued"
    [] q.kind = "revoke" -> "credential.revoked"
    [] q.kind = "score"  -> "trust.score_changed"
    [] OTHER             -> Head(q.topics)

\* Every active webhook of the tenant with that event type is called, whatever
\* becomes of the calls to the others.
Dispatch(r) ==
  /\ Ready(r, "dispatch")
  /\ LET q == req[r] IN
     Proceed(r, [q EXCEPT !.seen = {h \in Hooks : hooks[h] # None /\ hooks[h].active
                    /\ hooks[h].tenant = q.tenant /\ EventType(q) \in ToSet(hooks[h].topics)}])
  /\ UNCHANGED <<registryVars, arrivalVars, sideVars, auditVars>>

-----------------------------------------------------------------------------
(* demo_seed                                                               *)

\* The row of the tenant that ensure_tenant adds here is not committed.
CheckEmpty(r) ==
  /\ Ready(r, "checkEmpty")
  /\ IF ~DemoMode THEN Refuse(r)
     ELSE IF AgentsOf(req[r].tenant) # {} THEN End(r, "ok")
     ELSE Proceed(r, req[r])
  /\ UNCHANGED <<registryVars, arrivalVars, sideVars, auditVars>>

\* Each turn of a loop puts the steps of one item before the next turn; an item that
\* fails leaves None in its place.
SeedAgents(r) ==
  /\ Ready(r, "seedAgents")
  /\ LET q == req[r] IN
     IF Len(q.made) = Len(Roster) THEN Proceed(r, [q EXCEPT !.spiffe = None])
     ELSE Insist(r, [q EXCEPT !.made = Append(@, None), !.spiffe = Roster[Len(q.made) + 1]],
                 SeededAgent \o <<"seedAgents">>)
  /\ UNCHANGED <<registryVars, arrivalVars, sideVars, auditVars>>

\* A credential of an agent that is missing is skipped.
SeedCreds(r) ==
  /\ Ready(r, "seedCreds")
  /\ LET q == req[r]
         n == Len(q.issued) + 1 IN
     IF n > Len(Plan) THEN Proceed(r, q)
     ELSE LET p == [q EXCEPT !.issued = Append(@, None), !.agent = q.made[Plan[n][1]],
                             !.subject = q.made[Plan[n][2]]] IN
          Insist(r, p, IF None \in {p.agent, p.subject} THEN <<"seedCreds">>
                       ELSE SeededCredential \o <<"seedCreds">>)
  /\ UNCHANGED <<registryVars, arrivalVars, sideVars, auditVars>>

SeedRevoked(r) ==
  /\ Ready(r, "seedRevoked")
  /\ LET q == req[r]
         n == q.targets + 1 IN
     IF n > Len(Targets) THEN Proceed(r, q)
     ELSE LET c == q.issued[Targets[n]] IN
          Insist(r, [q EXCEPT !.targets = n, !.cred = c],
                 IF c = None THEN <<"seedRevoked">> ELSE SetBit \o <<"seedRevoked">>)
  /\ UNCHANGED <<registryVars, arrivalVars, sideVars, auditVars>>

\* _seed_delegation_registry: one transaction, once all its agents are there, and an
\* audit event for each row.
SeedTree(r) ==
  /\ Ready(r, "seedTree")
  /\ LET q == req[r] IN
     IF \E n \in DOMAIN Tree : None \in {q.made[Tree[n][1]], q.made[Tree[n][2]]}
     THEN Proceed(r, q) /\ UNCHANGED delegations
     ELSE /\ delegations' = [delegations EXCEPT ![q.tenant] = @ + Len(Tree)]
          /\ Insist(r, q, FlattenSeq([n \in DOMAIN Tree |-> Audit]))
  /\ UNCHANGED <<registryVars, arrivalVars, hooks, events, cache, spends, auditVars>>

\* _seed_real_mandate_spends: the agent issues the intent of the next purchase to
\* itself ...
SeedIntent(r) ==
  /\ Ready(r, "seedIntent")
  /\ LET q == req[r]
         n == q.deals + 1 IN
     IF n > Len(Deals) THEN Proceed(r, q)
     ELSE LET a == q.made[Deals[n].buyer]
              p == [q EXCEPT !.deals = n, !.agent = a, !.subject = a, !.spent = 0,
                             !.carts = Deals[n].carts] IN
          IF None \in {a, q.made[Deals[n].shop]} THEN Insist(r, p, <<"seedIntent">>)
          ELSE Insist(r, [p EXCEPT !.issued = Append(@, None), !.intent = Len(q.issued) + 1],
                      SeededCredential \o <<"seedCart", "seedIntent">>)
  /\ UNCHANGED <<registryVars, arrivalVars, sideVars, auditVars>>

\* ... and a cart for each amount, up to the first that the budget is too small for.
SeedCart(r) ==
  /\ Ready(r, "seedCart")
  /\ LET q == req[r] IN
     IF \/ q.issued[q.intent] = None \/ q.carts = <<>>
        \/ q.spent + Head(q.carts) > Deals[q.deals].max
     THEN Proceed(r, q)
     ELSE Insist(r, [q EXCEPT !.issued = Append(@, None), !.carts = Tail(@),
                              !.price = Head(q.carts)],
                 SeededCredential \o <<"spend", "seedCart">>)
  /\ UNCHANGED <<registryVars, arrivalVars, sideVars, auditVars>>

Spend(r) ==
  /\ Ready(r, "spend")
  /\ LET q == req[r] IN
     /\ spends' = spends \cup {[tenant |-> q.tenant, intent |-> q.issued[q.intent],
                               cart |-> q.issued[Len(q.issued)], amount |-> q.price]}
     /\ Proceed(r, [q EXCEPT !.spent = @ + q.price])
  /\ UNCHANGED <<registryVars, arrivalVars, hooks, events, cache, delegations, auditVars>>

\* The trust events of the agents that are there.
TrustEventsOf(q) ==
  FlattenSeq([i \in DOMAIN SeedEvents |->
    LET e == SeedEvents[i] IN
    IF q.made[e.who] = None THEN <<>>
    ELSE <<[agent |-> q.made[e.who], tenant |-> q.tenant, kind |-> e.kind, delta |-> e.delta]>>])

\* They are dated back to before anything that was scored.
SeedTrustEvents(r) ==
  /\ Ready(r, "seedEvents")
  /\ events' = TrustEventsOf(req[r]) \o events /\ Proceed(r, req[r])
  /\ UNCHANGED <<registryVars, arrivalVars, hooks, cache, seededVars, auditVars>>

-----------------------------------------------------------------------------
Expire(r) ==
  /\ TimeOut(r)
  /\ UNCHANGED <<registryVars, arrivalVars, sideVars, auditVars>>

Step(r) ==
  \/ ReadNewest(r) \/ Stamp(r) \/ AppendEvent(r)
  \/ EnsureTenant(r) \/ InsertAgent(r) \/ ReadKeys(r) \/ Rotate(r)
  \/ FindHolder(r) \/ Register(r) \/ Refetch(r)
  \/ Allocate(r) \/ FindIssuer(r) \/ Sign(r) \/ Store(r) \/ FindCred(r)
  \/ ReadBits(r) \/ SetRevoked(r)
  \/ Resolve(r) \/ ReadList(r) \/ EnsureIssuer(r) \/ MakeIssuer(r)
  \/ Get(r) \/ Fetch(r) \/ Set(r) \/ Flush(r)
  \/ ReadIssuer(r) \/ ReadHistory(r) \/ Record(r) \/ ReadEvents(r) \/ ReadAgents(r) \/ ReadBoard(r)
  \/ CountRows(r) \/ CheckCred(r) \/ CountEvents(r) \/ WalkChain(r) \/ Reply(r)
  \/ DeleteCreds(r) \/ DeleteRest(r)
  \/ InsertHook(r) \/ DropHook(r) \/ FindHook(r) \/ Dispatch(r)
  \/ CheckEmpty(r) \/ SeedAgents(r) \/ SeedCreds(r) \/ SeedRevoked(r)
  \/ SeedTree(r) \/ SeedIntent(r) \/ SeedCart(r) \/ Spend(r) \/ SeedTrustEvents(r)
  \/ Expire(r)

Next == Tick \/ \E r \in Jobs : Arrive(r) \/ Step(r)

Progress == \E r \in Jobs : Step(r)

\* As long as a thread can go on, one does: every script is finite, so that this much
\* is enough.
Spec == Init /\ [][Next]_vars /\ WF_vars(Progress)

-----------------------------------------------------------------------------
Codes == {"ok", "revoked", "refused", "error", "401", "403", "413", "429"}

TrustEvent == [agent : Agents, tenant : Tenants, kind : Verdicts \cup Seeded, delta : Int]
Webhook == [tenant : Tenants, topics : Topics, active : BOOLEAN]
MandateSpend == [tenant : Tenants, intent : Creds, cart : Creds, amount : Nat]

\* The rows have their types, no more connections are out than the pool has, no more
\* requests were let through in a minute than the limit says, and the cache keeps
\* within its size with one entry for a document.
TypeOK ==
  /\ tenants \cup lists \cup forked \cup torn \subseteq Tenants
  /\ agents \in [Agents -> Agent \cup {None}]
  /\ DOMAIN creds \subseteq Creds /\ creds \in [DOMAIN creds -> Cred]
  /\ \A a \in Agents : keys[a] \in Seq([active : BOOLEAN, at : Nat, gen : Nat])
  /\ revoked \subseteq struck /\ struck \subseteq Creds /\ resets \in [Tenants -> Nat]
  /\ hooks \in [Hooks -> Webhook \cup {None}] /\ events \in Seq(TrustEvent)
  /\ delegations \in [Tenants -> Nat] /\ spends \subseteq MandateSpend
  /\ \A t \in Tenants : log[t] \subseteq Rows(1..stamps)
  /\ out \in [Jobs -> Codes \cup {None}]
  /\ InUse <= load.pool /\ Cardinality(Active) <= MaxAtOnce
  /\ Len(Recent(hits, now)) <= RateLimit
  /\ Len(cache) <= CacheSize /\ \A i, j \in DOMAIN cache : cache[i].did = cache[j].did => i = j

\* Every audit event is chained to an older event of its tenant that is still there,
\* and verify_chain accepts the chain, unless two writers were in write_audit at once
\* (core/audit.py reads the newest event without a lock) or demo_reset deleted the
\* chain while one was.
ChainsAreSound ==
  \A t \in Tenants :
    /\ t \notin torn =>
         \A e \in log[t] : e.prev = Genesis \/ \E d \in log[t] : d.at = e.prev /\ d.at < e.at
    /\ t \notin forked \cup torn => Unbroken(log[t])

\* Whatever rotations run beside each other, an agent has one active key, the newest
\* (keys.py deactivates the keys it has read; the kid decides between two rotations).
OneSigningKey ==
  \A a \in Registered : {n \in DOMAIN keys[a] : keys[a][n].active} = {Len(keys[a])}

\* All agents that hold one SPIFFE ID are one agent, and every attestation whose issuer
\* was not deleted was issued by it and verifies with the keys that the SPIFFE ID
\* resolves to, whichever of the requests registered it.
AttestationsAgree ==
  \A s \in Spiffes :
    /\ Cardinality(HoldersOf(s)) <= 1
    /\ \A c \in AttestationsOf(s) : creds[c].issuer \in Registered =>
         /\ creds[c].issuer \in HoldersOf(s)
         /\ SignedBy([kid |-> creds[c].kid, gen |-> creds[c].gen], SpiffeDocument(s))

Answered(r) == req[r] # None /\ out'[r] # None

\* Why a peer may turn away a credential that this backend has issued: no connection
\* was free, the issuer or the list was deleted, another request made the status
\* issuer, the credential is too old, or the key that has signed the credential, or
\* its list, was deleted or is younger than what the peer may have cached.
Cause(r) ==
  LET q == req[r]
      own == IF q.did \in Registered THEN keys[q.did] ELSE <<>>
  IN \/ Needs(r) /\ Free <= 0
     \/ Doing(r) = "fetch" /\ q.did \notin Registered
     \/ Doing(r) = "readList" /\ ~Listed(q.cred)
     \/ Doing(r) = "makeIssuer" /\ StatusIssuer \in Registered
     \/ Doing(r) \in {"get", "set"} /\
          \/ TooLate(q)
          \/ q.sig.kid \notin DOMAIN own
          \/ q.sig.kid \in DOMAIN own /\ own[q.sig.kid].gen # q.sig.gen
          \/ q.sig.kid \in DOMAIN own /\ now - own[q.sig.kid].at <= CacheTtl + FetchTime

\* A peer's cache of documents (core/resolver.py) never makes it turn away a credential
\* for longer than the time to live and one fetch.
RejectedForCause(r) == req[r].kind = "peer" /\ out'[r] = "refused" => Cause(r)

\* A credential that was revoked for good before a request began is not vouched for,
\* here or at a peer: what the cache holds is a document, never a status list.  (A bit
\* that another revocation of the list may still write over is not there for good.)
\* It scores nothing for its validity, unless it is too old as well: its status is not asked for then, and
\* it scores what any credential does that is too old.
RevokedForGood(r) ==
  LET q == req[r] IN
  q.void => /\ q.kind \in {"verify", "peer"} => out'[r] # "ok"
            /\ q.kind = "score" => q.score \in {0} \cup (IF Expired(q.cred, now) THEN {5, 10} ELSE {})

\* Verification errs in neither direction: it turns away for a cause, and never accepts
\* what is revoked for good.
VerdictsHaveCause == [][\A r \in Jobs : Answered(r) => RejectedForCause(r) /\ RevokedForGood(r)]_vars

-----------------------------------------------------------------------------
(* Requests that were served alone                                         *)

\* An agent of the roster is missing only when another tenant's agent has its SPIFFE
\* ID; a credential of the plan only when one of its agents is; targets are revoked.
RosterInFull(q) ==
  /\ \A i \in DOMAIN q.made : q.made[i] = None => HoldersOf(Roster[i]) \ AgentsOf(q.tenant) # {}
  /\ \A n \in DOMAIN q.issued \cap DOMAIN Plan :
       q.issued[n] = None <=> None \in {q.made[Plan[n][1]], q.made[Plan[n][2]]}
  /\ \A n \in ToSet(Targets) \cap DOMAIN q.issued : q.issued[n] \in revoked \cup {None}

\* Every spend since the last reset, which leaves the table of spends alone, is backed
\* by a stored intent and cart, and no intent is overspent.
SpendsAreBacked(t) ==
  \A s \in spends : s.tenant = t /\ Listed(s.intent) =>
    /\ {s.intent, s.cart} \subseteq RowsOf(t)
    /\ \E n \in DOMAIN Deals :
         MapThenSumSet(LAMBDA x : x.amount, {x \in spends : x.intent = s.intent}) <= Deals[n].max

SeededInFull(q) == RosterInFull(q) /\ SpendsAreBacked(q.tenant)

Signs(c) ==
  /\ creds[c].issuer \in Registered
  /\ SignedBy([kid |-> creds[c].kid, gen |-> creds[c].gen], Document(creds[c].issuer))

Verifiable(q) ==
  IF ~Signs(q.cred) \/ ~Listed(q.cred) THEN {"refused"}
  ELSE (IF q.cred \in revoked THEN {"revoked"} ELSE {"ok"})
       \cup (IF Expired(q.cred, now) THEN {"refused"} ELSE {})

\* The answers that the rows allow, as they are when the request ends.
Answers(q) ==
  LET if(condition) == IF condition THEN {"ok"} ELSE {"refused"} IN
  CASE q.kind \in {"rotate", "issue"}      -> if(q.agent \in AgentsOf(q.tenant))
    [] q.kind = "revoke"                   -> if(q.cred \in RowsOf(q.tenant) \cap revoked)
    [] q.kind = "verify"                   -> Verifiable(q)
    [] q.kind \in {"dropHook", "testHook"} -> if(Mine(q))
    [] q.kind = "seed"                     -> if(DemoMode /\ SeededInFull(q))
    [] q.kind = "drift"                    -> if(q.verdicts = <<FALSE>> /\ q.bit)
    [] OTHER                               -> {"ok"}

\* A request that no other ran beside gets the answer its handler is written for:
\* nothing that earlier requests have left behind makes it fail.  (A verification at a
\* peer depends on the peer's cache; a report needs two connections.)
AloneSucceeds ==
  [][\A r \in Jobs :
       Answered(r) /\ req[r].alone /\ req[r].kind # "peer" /\ load.pool > 1
       => out'[r] \in Answers(req[r])]_vars

-----------------------------------------------------------------------------
(* Reports                                                                 *)

Countables == {"agents", "creds", "revoked", "events", "trust", "delegations", "spends"}

Within(q) ==
  q.since = resets[q.tenant] =>
    \A x \in Countables : q.start[x] <= q.tally[x] /\ q.tally[x] <= Truth(q.tenant, struck)[x]

\* Every control that the report says passes has its evidence in the rows.
Backed(q) ==
  \A f \in Frameworks : \A i \in Report(q.tally, f) :
    IF ControlLibrary[f][i] = "chain" THEN q.tally.valid
    ELSE q.since = resets[q.tenant] => Truth(q.tenant, struck)[ControlLibrary[f][i]] > 0

\* Of the agents with events, those that the dashboard calls uninsurable are those that
\* the monitor calls critical.
Agreed(q) ==
  \A a \in DOMAIN q.tally.rows :
    LET x == q.tally.rows[a] IN
    /\ x.row.score \in 0..100
    /\ x.row.tier = "uninsurable" <=> "critical" \in x.reasons

\* A report is answered with numbers between those when it began and those when it
\* ends, although it reads each in a statement of its own (for the revoked, between those
\* for good when it began and those ever revoked when it ends); it calls the chain broken
\* only after a fork or a reset; and no control passes without evidence.
ReportsAreBetween ==
  [][\A r \in At("reply") : Answered(r) =>
       /\ req[r].kind = "report" =>
            /\ Within(req[r]) /\ Backed(req[r])
            /\ req[r].tally.valid \/ req[r].tenant \in forked \cup torn
       /\ req[r].kind = "board" => Agreed(req[r])]_vars

\* Every request is answered: none waits for ever for a connection, a lock or another
\* request, reports that hold one connection and want a second one included.
RequestsEnd == \A r \in Jobs : (req[r] # None) ~> (req[r] = None)
=============================================================================
