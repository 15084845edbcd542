# Tesht in TLA+

Tesht is an authorization layer for AI agents: humans hand authority to agents
as signed credentials, services ask whether an agent may act, and everything
that was decided can be revoked and audited.  This directory models the parts
of it whose correctness depends on the order in which things happen, checks
the models with TLC on small instances and proves the most important results
with TLAPS.

`PROJECT.json` lists the components, runs, broken variants, theorems, findings
and hazards; its `map` gives the source lines behind every definition.

    tlc -workers 2 -config MCSessions.cfg MCSessions     # any run
    tlapm SessionsProofs.tla                             # any module of proofs

## 1. The system

| Component | State it keeps | Operations |
|---|---|---|
| Authorization sessions (`routes/sessions.py`) | `authorization_sessions` rows, `mandate_spends` ledger | create, decide an action, complete a step-up, revoke with cascade |
| Status lists and credentials (`core/status_list.py`, `routes/credentials.py`, `revoke.py`, `verify.py`) | `status_lists` (a bitstring and a counter), `credentials` | issue, revoke, verify |
| Replay protection (`core/jti_dedup.py`) | an in-memory store per process, the `seen_jtis` table | check and record, evict, warm on start |
| Commerce mandates (`routes/commerce.py`) | `credentials`, `mandate_spends` | issue intent, issue cart, verify (and fulfil) a cart |
| Requirement intents (`routes/requirement_intents.py`) | `requirement_intents`, `credentials` | create, confirm, cancel |
| Backend audit (`core/audit.py`) | `audit_events`, one hash chain per tenant | `write_audit`, `verify_chain` |
| Delegation registry (`routes/delegations.py`) | `delegation_registry`, status-list bits | register, revoke with cascade |
| Delegation chains (`routes/delegations.py`, Python SDK) | none: the chain is in the credentials | delegate further, verify a chain, combine its scopes |
| Identity bridge (`idp_bridge/`) | identities and a status list in memory, a cached key set | attest, bind, bind with an agent credential, revoke |
| Gateway (`gateway/app.py`, `auth.py`, `scope.py`, `proxy.py`) | calls in flight, the audit buffer | authenticate, parse, check scope and trust, forward, log |
| Gateway trust cache (`gateway/trust.py`) | one entry per agent, refreshes in flight, a queue of a thread pool | evaluate, refresh, penalise, invalidate, shut down |
| Gateway audit (`gateway/audit_pg.py`) | a bounded buffer, an executor queue, the chain of one tenant | `log_request`, `_write_to_pg`, `verify_chain` |
| Gateway detection (`gateway/detection/`) | inventory of agents and shadow calls | scan, fleet summary |
| Agents, keys, DIDs (`routes/agents.py`, `keys.py`, `core/status_issuer.py`, `core/resolver.py`) | `agents`, `agent_keys`, a cache of DID documents | create, rotate, resolve |
| SPIFFE bridge (`routes/spiffe_bridge.py`) | `agents` | attest a workload |
| Trust score (`core/trust_score.py`, `routes/trust.py`) | `trust_events` | score, profile, risk dashboard |
| Webhooks (`core/webhooks.py`) | `webhooks` | add, drop, test, dispatch |
| Reporting and demo (`routes/compliance.py`, `workflows.py`, `demo.py`, `core/seed.py`) | rows of all the above | report, drift demo, reset, seed |
| Admission (`middleware/`, `core/auth/`, `core/tenancy.py`) | a window of hits per address | rate limit, body limit, token, scopes, tenant |
| Connection pool (`core/db.py`) | connections out | check out, wait, time out |

How they interact:

- Handlers of the backend are synchronous and run in a thread pool, so requests
  interleave at every database statement.  The deployment is PostgreSQL under
  READ COMMITTED, one process per machine, several machines.
- Handlers call the status-list, replay and audit helpers, and each helper opens
  a database session of its own.  One handler is therefore a chain of
  transactions, and a failure in the middle leaves those that have committed.
- After `commit()` SQLAlchemy expires the row: a handler that reads an
  attribute again sees what other requests have committed meanwhile.
- A session revocation cascades into the delegation registry in its own
  transaction and into status lists in others.  A session's purchases use the
  same ledger as mandates, under the session's id.
- The gateway's and the bridge's handlers run on one event loop each and
  interleave only where they await; the gateway's trust refreshes and audit
  writes run in threads.
- The gateway asks the bridge, over the network, whether a delegation is
  revoked; the answer may be missing.  It shares only the audit table with the
  backend.
- A peer that verifies our credentials resolves our DIDs through a cache.

What makes each part correct, and hard, is listed with its line under
`hazards`.

## 2. The modules

| Module | Models | Composes |
|---|---|---|
| `SessionContract` | what a session promises: it opens, is held, resumes, closes for good, and is charged only while open and within its limit | |
| `Sessions` | the four session handlers | refines `SessionContract` |
| `StatusLists` | issuance and revocation through status lists | |
| `JtiStore` | the replay store as operators | |
| `JtiDedup` | requests that verify tokens and present them to the store | extends `JtiStore` |
| `Mandates` | intents, carts, their verification and the spend ledger | extends `JtiStore` |
| `RequirementIntents` | create, confirm and cancel | |
| `Delegations` | registration and cascading revocation of delegations | |
| `AuditLog` | rows of a hash chain, `Newest`, `Unbroken` (`verify_chain`) | |
| `GatewayAudit` | the gateway's buffer, queue and writer | extends `AuditLog` |
| `Registry` | tenants, agents, keys, credentials, documents, signatures | |
| `Admission` | rate limit, body limit, tokens, scopes and tenants | |
| `Requests` | handlers as scripts of steps, threads, the connection pool | extends `Registry`, `Admission` |
| `DidCache` | the cache of DID documents | |
| `TrustScore`, `Compliance` | scores, risk rows, anomalies; the controls of a report | |
| `Backend` | the steps of eighteen handlers | extends `Requests`, `DidCache`, `TrustScore`, `Compliance`, `AuditLog` |
| `Scopes` | narrowing and intersection of delegation scopes, in the SDK and in the backend | |
| `IdpBridge` | the bridge, the provider's keys and the status list | extends `Scopes` |
| `DelegationChains` | delegating further, and two verifiers that walk chains | extends `IdpBridge` |
| `Presentations` | credentials, presentations and the SDK's two ways to judge one | extends `Scopes` |
| `TrustCache` | the gateway's trust cache and its refresh threads | |
| `Gateway` | calls from the token to the upstream and the log | extends `TrustCache`, `Presentations` |
| `Detection` | the detectors, over the gateway's state | extends `Gateway` |

Proofs are in `SessionsProofs`, `CredentialProofs` (about `StatusLists` and
`RequirementIntents`), `MandatesProofs` (also about `JtiDedup`), `DelegationProofs`
(about `DelegationChains` and `Delegations`), `GatewayProofs` (also about
`GatewayAudit` and `Detection`) and, each going on from the one before it,
`BackendProofs`, `BackendTypesProofs` and `BackendReportsProofs`.  So that one
module can extend two specifications, those of `JtiDedup`, `Delegations` and
`StatusLists` have names of their own (`DedupSpec`, `RegistrySpec`, `ListsSpec`).
The `MC*` modules give the constants their values.  In every module an
operator marked "Broken variant" is a plausible bug in the code beside it; no
specification uses one.  Each property is shown to fail when its definition is
replaced by such a variant (`mutants`), so no property holds by the shape of
the model alone.

### Correspondence

*State.* A table is a function from ids to rows, `None` (in `Delegations` and
`StatusLists` `Absent`) where there is no row. `req[r]` (in `StatusLists`
`doing[r]`) is the handler a thread is in: `pc` (or, in `Backend`, `todo`) says
between which two transactions or statements it stands, the other fields are its
local variables, in particular rows it has read (`row`, `seen`) that may be
stale. Tokens are ids, scores and amounts small numbers, hashes the times of the
rows they are computed from.

*Actions.* One action is one transaction, or one statement where the code
reads and writes in two statements without a lock.  The guard is the chain of
early returns before it.  A handler under `SELECT ... FOR UPDATE` takes
`lock` when it reads and gives it back when it commits; the code in between is
one action, since nobody else can see it.

*Sessions.* `LockRow` is `_get_session(for_update=True)`.  `Verdict` is the
exit `decide_action` takes, in the order of its checks; `DecideRefused`,
`DecideExpired`, `DecideBlocked`, `DecideScored` are the four ways it ends.
A revocation with cascade walks the registry from the session's delegation down
(`NextOfWalk`): `MarkDelegation` marks a row, visible with the session's commit,
and reads the bits; `SetBit` writes them back in a transaction of its own;
`SkipBit` is the failure that
`_revoke_single` swallows.  `CascadeDone` ends the walk with the list it reports;
`CascadeFails` is the exception `revoke_session` swallows, at any point of the
walk: nothing is reported, and the rows marked so far commit with the session.
The tree is within the depth guard (`TreeAssumption`); rings, row locks and
registrations beside a cascade are the subject of `Delegations`, the audit event
appended after the commit that of `Backend`.
The packs that ship accept every hook, so their vetoes are not modelled.

*StatusLists.* `FindList`/`InsertList` are `_ensure_list`, `Allocate` the
single `UPDATE ... RETURNING`, `ReadBits`/`WriteBits` the two halves of
`set_revoked`, which any number of requests may be in at once.  `overlapped` is
kept for the properties only: the revocations that stood between the two
together with another one of the list.

*JtiStore.* `check_and_record_jti` holds the process's lock from eviction to
answer, so a check is one step even with its database call.  `DieRecording` is
a process killed after the row is written and before the answer.

*Mandates.* A `FOR UPDATE` statement is two steps: it fixes the rows it can see
(`SelectSpends`), then waits for the locks on them (`SumSpends`).  Rows that
are inserted meanwhile are neither seen nor locked, which is what PostgreSQL
does under READ COMMITTED.  Both statements, and the look-up of the cart before
them, see the rows of the caller's tenant only (`payer`, `SpendsOf`), and any
tenant may present any cart: an intent has its whole budget with each tenant.

*RequirementIntents.* A confirmation is `MarkProcessing`, then
`IssueCredential` and `VerifyCredential` per requirement, then `ReadAgain` and
`StoreOutcome`.  `Flushed` writes only the columns whose value changed, as
the ORM does, so two confirmations that have both read the row can mix their
columns: one stores "succeeded" with its bundle, the other, in mode "decision",
"failed" beside it.  `mixed` remembers, for the properties only, the intents
this has happened to, until one confirmation stores alone.

*Delegations.* `frames` is the stack of `_cascade_revoke`: per active call the
children still to be visited.  `UpdateRow` is the `UPDATE` of `_revoke_single`,
which waits for the row lock; `SetBit` is `set_revoked` in a transaction of its
own, which may raise without any effect on the caller.  `BreakDeadlock` is
PostgreSQL ending one of the transactions that wait for each other.  The chains
that exist when a revocation starts are kept in `due`, for the properties only.

*AuditLog.* A row carries its stamp and the stamp of the row it is chained to.
No two rows share a stamp (they have microseconds) and the clock does not step
back; both are assumptions of the model.

*Requests, Backend.* A handler is a script, a sequence of step names
(`Handlers`), each step an action of `Backend`; an action ends with `Proceed`
(the next step), a longer script (an inner loop, a handler that continues with
another's code), or `End` with the answer's code.  A step that opens a session
needs a connection; the steps in `OnOwn` go on in the session that is open, and
between them its connection is out.  `Expire` is the pool's timeout.
`Admission` decides at `Arrive`, before the script: rate limit, body, token,
scopes, tenant.  The tenants-row that two first requests insert at once, the
unique `spiffe_id`, the row locks that rotation and reset take and the keys
that cascade with an agent are guards and effects of the steps.
`ReadBits` and `SetRevoked` are the two halves of `set_revoked`, which reads a
list's bits and writes them back without a lock (`Bits`, `Written`).
`forked`, `torn`, `struck` (every bit ever set), `alone`, `start`, `void` and
`since` are kept for the properties only; so is `Settled`, the bits that no
revocation under way will write over.

*Scopes.* A scope is a record; `Intersect` and `Narrows` are the SDK's and
`BackendIntersect`/`BackendNarrows` the backend's copies, which differ in the
attestation selectors.  An empty list in a child stands for its parent's.

*IdpBridge, DelegationChains.* The bridge's handlers are one step each, except
that /bind validates the token twice and time passes in between.  A verifier's
`path` is the recursion on its way up, `pos` on its way down; each link is
asked for in a step of its own, by the SDK through the bridge's published list
(fail closed or open), by the backend through its own table, where a link of
the bridge is unknown.

*Presentations, TrustCache, Gateway, Detection.* What a verifier computes from
a presentation is a function of the presentation, the time and what the status
lists say (`dead`).  A call stands between two awaits of `proxy_mcp`.  A cache
miss is two steps, since storing waits for the lock that a refresh holds while it
writes; meanwhile the event loop stands still (`loop`, `Around`).  A refresh
has `Attempts` and ends by dropping its marker.  Detectors read the log, the cache and
the inventory at one moment, each as old as it is.

## 3. What the runs check

Passing runs:

| Run | Question | States |
|---|---|---|
| `MCSessions` | Two production requests, one session, commerce or not: do budget, revocation, expiry, pending step-ups and fail-safe default hold under all interleavings and crashes, what is left of a cascade that fails or dies at any row or bit, and does the runtime refine `SessionContract`? | 1.58M |
| `MCStatusLists` | Three requests that issue and revoke, on lists of two entries that fill up: is every entry one credential's, are the bits revocations asked for, and is one lost only to another that overlapped it? | 1.49M |
| `MCJtiDedup` | Is a token accepted once per process, through restarts where the table is reached, and within a life where it is not? | 111k |
| `MCMandates` | Two processes verify three carts for two tenants against an intent that expires or is revoked: once each, never against a void intent, and at most one cart over the budget of each tenant? | 1.12M |
| `MCRequirementIntents` | Are bundles whole and failures caused, do status, decision and bundle disagree only after two confirmations that had both read the row, and does only a crash leave an intent processing? | 516k |
| `MCDelegations` | Does a cascade reach every descendant and nobody else's delegation, for good, and does every revocation end? | 206k |
| `MCBackend` | 40 loads of two to four requests, two revocations of one list among them: are audit chains intact but for two writers at once, is one key active, do attestations and documents agree, is every refusal of a peer caused, does a request alone get its answer, do reports lie between two states, and does every request end? | 126k |
| `MCGatewayAudit` | Does one writer keep chain, order and loss count through retries, lost answers and a restart, and does the queue drain? | 44k |
| `MCDelegationChains` | Does authority only narrow along a chain, was every verified chain whole, and does each of the bridge's credentials rest on a key that was trusted? | 352k |
| `MCGateway` | Was every forwarded call authorised by all its links, do log, cache, inventory and alerts agree, is no penalty lost to a refresh, do both verifiers agree, and do calls and refreshes end? | 254k |

Runs that end in a violation show where the code departs from what it says;
each is quoted in `findings`:

| Run | What happens |
|---|---|
| `MCStatusListsLost` | of two concurrent revocations on a list one is lost |
| `MCMandatesOverrun` | two carts in flight exceed their intent's budget |

Two other departures are in the models but have no run of their own.  Two
confirmations in flight with one Idempotency-Key, as after a timeout and a
retry, both issue credentials (`requirement_intents.py:220` reads the key
without a lock; `docs/guides/REQUIREMENT_INTENTS.md:59` says to "safely retry on
network failures").  Two writers of one tenant fork the audit chain
(`core/audit.py:59`; `README.md:55` calls the log hash-chained and
tamper-evident): `ChainsAreSound`
is therefore stated for tenants where no two were in `write_audit` at once.

### What the code leaves open

Some interleavings are in the models because the code admits them, and no
property excludes them because nothing in the repository promises otherwise.

Sessions, replay, mandates, intents, delegations:

- two hand-offs in flight with one Idempotency-Key make two sessions;
- a second process accepts a token another has accepted at the same endpoint,
  since `ON CONFLICT DO NOTHING` does not say who came first
  (`jti_dedup.py:74`); a cart is still fulfilled once, because `cart_jti` is
  unique;
- a token verified just before its expiry may be presented once more after it,
  when the store has forgotten it;
- the spends of an intent are summed per tenant of the caller
  (`commerce.py:489`), so carts of one intent that two tenants verify each have
  the whole budget;
- two confirmations that have both read an intent leave a status, decision and
  bundle of different ones (`requirement_intents.py:319`), until another
  confirmation stores alone;
- a cancellation that has read an intent overwrites an outcome stored meanwhile
  (`requirement_intents.py:383`), and after a crash between `MarkProcessing`
  and `StoreOutcome` the same key is answered "processing" until a later
  confirmation;
- a session's revocation commits whatever its cascade had marked before an
  exception, and answers with an empty list (`sessions.py:796`); a request that
  dies after a bit was written leaves the bit without its registry row;
- a child registered while its parent's cascade runs is not revoked in the
  registry, and a bit that `set_revoked` failed to write is not tried again
  (`delegations.py:71`).

Chains and bridge:

- `delegate_further` reads the clock three times, so that a child can outlive
  its parent by the drift (`delegation.py:209`);
- the backend's status check fails open and does not know the bridge's list;
  the SDK's chain verification compares neither depth nor scopes but
  intersects them, and a child's constraints replace its parent's;
- a restart of the bridge forgets its revocations and hands out indexes again
  (`app.py:470`); /bind that fails its second validation has issued an identity
  credential; the agent credential of `bind_with_vp` is in no status list;
- `verify_blended_presentation` picks the last credential of the same subject
  and issuer; `VerifiersAgree` excepts such presentations.

Gateway:

- the expiry of a cache entry forgets its penalties (`trust.py:20`); a refresh
  that ends between the decision and the store of a miss is lost; violations
  before the first entry are not counted;
- a fault found after the presentation itself was verified is reported without
  the agent's DID in the model (`Refusal`), as nothing it leads to depends on it;
  errors of the upstream call other than `httpx.HTTPError`, which end it with a
  500 and no record of the outcome, are left out (`proxy.py`);
- two concurrent calls of one new tool are both novel; a call without a tool
  name skips the scope check; a call whose body is bad is not logged;
- the trust evaluation of a call uses no token of the pipeline (`trust.py:8`
  says it does); the score reads the claim `depth`, the SDK writes
  `delegationDepth`;
- a second gateway process, as during a rolling deployment, would fork the
  audit chain (`audit_pg.py:364`).

Backend:

- a credential whose bit a concurrent revocation writes over verifies again,
  here and at peers (`status_list.py:91`): `VerdictsHaveCause` and
  `ReportsAreBetween` therefore speak of what was revoked for good (`Settled`);
- a status list that is full stays its tenant's first list: `_ensure_list` finds
  it again, so every further issuance of the tenant fails
  (`status_list.py:37`, `:80`);
- concurrent first calls of `ensure_status_issuer` conflict, and one
  verification answers 400 or scores nothing for validity; a pool timeout there
  is swallowed as a bad signature;
- two first requests of a new tenant, one of which attests: the conflict on
  the tenants row is taken for one on the SPIFFE ID and the second look-up
  fails; an attestation has no credentials row and cannot be revoked by its id,
  and one tenant may attest as another's agent of the same SPIFFE ID;
- a credential both revoked and too old scores 5 or 10 for validity, since
  `trust_score.py:70` answers before it looks at the status
  (`test_trust_score.py:77`: "Revoked VC -> factors['credential_validity'] ==
  0"); `RevokedForGood` allows no more than that. A revoked credential can total
  75, "low" risk; an expired one counts as a successful verification; every
  score moves an agent's dashboard score up;
- the test of a webhook goes to every matching webhook of the tenant;
  `dispatch_webhook_event` reads the database outside its `try`;
- `demo_reset` works in any mode, leaves trust events, webhooks, registry rows
  and spends behind, and deletes the status issuer with the tenant that has it:
  a peer that has its old document cached refuses the new one's lists up to
  the time to live; "All mandate spends are backed by real VC-JWTs"
  (`core/seed.py`, `seed_tenant`) is true only of spends since the last reset, which
  is what `SpendsAreBacked` says;
- seeding is idempotent only one after the other; a partial seed is never
  completed, and a second tenant's seed fails for each agent with a SPIFFE ID
  (`spiffe_id` is unique across tenants);
- the compliance report counts `"high"` in the encoded text of credentials, so
  EU AI Act counts are zero but by chance, and it takes a second connection
  per credential.

### Bounds and why they suffice

- Two requests per run, three in `MCStatusLists`, up to four in `MCBackend`: each
  hazard found or excluded is between two handlers, with a third that issues
  beside two revocations, or disturbs both where a second table is involved.
- `MCSessions`: a commerce session with a maximum of 5 in every currency and
  purchases of 3 in one and 2 in another, so that of the first one fits and of
  the second two; a plain session whose maximum bounds single actions and whose
  currency rules one out, and which is never charged; a
  merchant that is allowed and one that is not; an unpriced request for the
  wildcard action; a delegation with two children, so that a cascade can fail
  before, between and after them; a session that scores 85 (allowed) or has no score (a
  step-up in production), and a simulated score that production ignores.
  Time is in ticks
  longer than the sessions' lives (a time to live of 0 ticks; the test is
  `expires_at < now`), and the clock takes one: a session is seen within its
  life and after it, by requests that began in either.
- `MCStatusLists`: three requests, lists of two entries, so that one fills up
  and the next issuance is refused.  The second list is there for two first
  issuances at once, which both find none (`FindList`, `InsertList`).
- `MCJtiDedup`: tokens that expire at 1 and 2, clock up to 3: each is seen
  before, at and after its expiry, and eviction finds one of them expired and
  the other not.
- `MCMandates`: limit 3 and carts of 3, so one cart uses the budget up and the
  second in flight is the overrun; two tenants, so that the third cart meets the
  other one's rows; lifetime 1 and clock up to 1; the intent may be revoked
  (`Revocable`), the carts' own revocation is `StatusLists`' subject.
- `MCRequirementIntents`: a request starts only while enough unused ids are
  left (`RoomToCreate`, `RoomToConfirm`, `RoomToIssue`); two confirmations of one
  intent with two credentials each fit.
- `MCDelegations`: three delegations form a chain, a tree and a ring, the third
  in one tenant or the other; the guard is 1 (15 in the code), so a chain
  reaches the deepest call it admits and a ring runs into it.
- `MCBackend`: each load (`MCLoads`) is chosen for what its requests do to each
  other's rows, three of them with two revocations of one list and a
  verification, a report or a peer that asks; two are served at a time
  (`MaxAtOnce`), four is the longest load (`MaxJobs`), which the limit of three
  per minute cuts. The pool has two or three connections, where a report needs
  two. The clock goes to 3 at most (`until`), past the time to live of a
  document and the time of one fetch, 1 each, so that a peer sees a key before
  it is rotated in, while it is cached, and after. Roster, plan, deals and
  events of the seed are a few of each. The numbers of agents and credentials
  (`RoomForAgent`, `RoomForCred`) are enough for every load: a request that
  found none left would not end.
- `MaxEvents`, `MaxClock`, `MaxRestarts`: events logged, rows stamped and
  restarts in a behaviour.  `MaxClock` of `MCGatewayAudit` lets every event
  fail twice and succeed; beyond it the writer stops, and so do requests after
  `MaxEvents`, which is why that run does not check deadlock.  Writes that fail
  before they are stamped still drain the queue then.
- `MCDelegationChains`: three credentials (identity, delegation, and one that
  is delegated further or comes from elsewhere), one verifier, two provider
  keys, one restart (`MaxBoots`), lists of two entries, time up to 2.
  It stops when ids and time are used up, so deadlock is not checked.
- `MCGateway`: one agent (so a scan can find probing and shadow calls, but no
  probing by several agents), two presentations (with another delegation each, one
  blended, one with three credentials besides), three calls, two of them at
  once, one worker with two attempts and a score that warrants a step-up, time
  up to 1: an entry is missed, hit, refreshed, penalised and found too old.
  It stops when the calls are used up, so deadlock is not checked; what matters
  of it is in `CallsAndRefreshesEnd`.  `MCBackend` likewise, with `RequestsEnd`.

Symmetry is used where a run checks no liveness and the exchanged values occur
in no constant expression.

### Fairness

Callers, restarts, crashes, revocations and the clock get none.

- `RequirementIntents`: weak fairness of each thread's steps inside a handler;
  the code has no loop or wait there.
- `GatewayAudit`: weak fairness of the one writer, which may fail each time.
- `Delegations`: strong fairness of each request's steps.  A thread waits only
  for a row lock.  The database grants it in the order of the requests and
  holders go on or die, so a request that could go on again and again is
  overtaken only finitely often; weak fairness would let one row be taken over
  and over by others.
- `Backend`: weak fairness of all threads together, which is less than fairness
  of each; scripts are finite.
- `Gateway`: weak fairness of the calls at work (bodies arrive or clients go,
  upstream calls time out after 30 s) and of the refresh threads.

## 4. What is proved

For all values of the constants that satisfy the `ASSUME`s of the modules (as a
rule: `None` is no other value, what callers send has its type, and sets that are
counted or summed over, such as `Requests`, `Totals`, `Agents` of the gateway and
`Jtis`, are finite):

| Module | Theorem | Statement |
|---|---|---|
| `SessionsProofs` | `TypeCorrect` | `Spec => []TypeOK` |
| | `Strengthened` | `Spec => []Inv` |
| | `Budget` | `Spec => []BudgetRespected` |
| | `RevokedStaysRevoked` | `Spec => RevokedIsFinal` |
| | `UnscoredIsSafe` | `Spec => []UnscoredNeedsStepUp` |
| | `PendingHolds` | `Spec => PendingStepUpHolds` |
| | `ChargesEnd` | `Spec => NoChargeAfterExpiry` |
| | `RegistryFollows` | `Spec => RegistryFollowsSession` |
| | `Refinement` | `Spec => KeepsContract` |
| `CredentialProofs` | `EntriesApart` | `ListsSpec => []ListsAreSound` |
| | `RevocationsLast` | `ListsSpec => []LostOnlyByOverlap` |
| | `BundlesSound` | `Spec => []BundlesAreSound` |
| `MandatesProofs` | `TypeCorrect` | `Spec => []TypeOK` |
| | `VoidIntentsAreNotSpent` | `Spec => NoSpendOnVoidIntent` |
| | `SpendsBounded` | `Spec => []SpendsAreSound` |
| | `DedupTypeCorrect` | `DedupSpec => []DedupTypeOK` |
| | `OnceForAll` | `DedupSpec => AcceptedOnce` |
| `DelegationProofs` | `Typed` | `RegistrySpec => []RegistryTypeOK` |
| | `TenantsApart` | `RegistrySpec => RevokedByItsTenantForGood` |
| | `CascadesComplete` | `RegistrySpec => CascadeIsComplete` |
| | `TrustedOnly` | `Spec => []IssuedOnTrust` |
| | `ChainsNarrow` | `Spec => []ScopesAreSound` |
| | `ChainsWereValid` | `Spec => []VerifiedWasValid` |
| `BackendProofs` | `OneKey` | `Spec => []OneSigningKey` |
| | `ChainsSound` | `Spec => []ChainsAreSound` |
| | `AttestedAlike` | `Spec => []AttestationsAgree` |
| | `VerdictsCaused` | `Spec => VerdictsHaveCause` |
| `BackendTypesProofs` | `TypesHold` | `Spec => []TypeOK` |
| `BackendReportsProofs` | `ReportsBetween` | `Spec => ReportsAreBetween` |
| `GatewayProofs` | `Records` | `Spec => []RecordsAreSound` |
| | `Authorized` | `Spec => []ForwardedWasAuthorized` |
| | `Verifiers` | `Spec => []VerifiersAgree` |
| | `Alerts` | `Spec => []AlertsAreFounded` |
| | `Penalties` | `Spec => PenaltyForgiven` |
| | `LogSound` | `AuditSpec => []LogIsSound` |
| | `NothingLostInSilence` | `AuditSpec => []RecordedOrCounted` |

*Sessions.*  The budget is not inductive: a decision charges from the row and
ledger it has *read*.  `Inv` adds what makes them current: a request at work is
the one that holds its row's lock (`LockInv`), and while it does, what it has
read is what is stored (`SnapshotInv`); an expired status was only written by a
request that had seen the expiry pass (`ExpiredInv`); and what each request
carries has the shape its step needs (`Shape`).  One lemma per action shows that
it keeps `Inv`.  `StepEffect` then says what any step does to one session -
nothing, open it, block it, step it up, revoke it, or score one input - and
the property proofs are case splits over these effects.  The refinement
translates each effect into a step of the contract (`StepContractEffect`);
the registry follows because what a walk has marked hangs from its session's
delegation, link by link (`Hangs`; `Level` makes the tree well-founded), what it
is about to report is all of it (`Reports`), both together `MarkedInv`, and a
revoked session stays blocked; every bit that is set or held in a walk's hands
belongs to a row that is revoked or marked, until a request dies.
`ChargesEnd` is about the clock a decision has read, not the time of its
commit: between the two nothing stops the clock.

*StatusLists.*  Indexes that requests hold and credentials have are below their
list's counter (`Below`) and apart from each other (`Apart`), since one `UPDATE`
reads and raises the counter.  For the bits, `BitsAsked` says that bits, stored or
read, were asked for, and `BitsKept` that a revocation which has overlapped no
other has read the bits as they are, and once it has written is `Settled`: its
bit is stored and in the hands of everyone about to write.  Any number of
requests may revoke; what overlaps is excepted, and `MCStatusListsLost` is the
counterexample without the exception.

*JtiDedup.*  `Remembered`: what a process has accepted since it started is in
its store until it has expired; with a table that is reached it is in the
table too, and a restart loads it.  Only a token at the moment of its expiry
is not loaded, and no call with it survives the restart.

*GatewayAudit.*  The worker's predecessor is the newest row as long as it is the
only one that writes (`Worker`); the queue holds the latest events in order, its
head possibly recorded already by an attempt whose answer was lost
(`Order`).  The count of lost events needs finite sets: an event leaves the
queue recorded or with `failures` raised.

*Mandates.* A verification that has checked its cart had an intent that was
issued, in time and not revoked when it began (`Fits`); a void intent stays
void, so one that was void before never gets that far. For the budget, rank the
verifications in flight of one tenant against an intent by when they took their
snapshots of the ledger (`Ranked`): what a verification has not seen is what the
older ones may still spend, and what is spent is within the limit and the
largest total of each that is older than the latest that has spent, so that the
last of n requests leaves n - 1 carts of overrun at most. Sums over sets are
handled by induction on their cardinality. That a cart is fulfilled once is the
unique `cart_jti`.

*RequirementIntents.* A confirmation's credentials are of its intent, the n-th
for the n-th requirement, and good or revoked since (`Confirmed`); when it
stores its outcome it has all of them. The bundle is one column of the row:
`Flushed` keeps what the row has or replaces it whole, so a stored bundle is
what one confirmation had gathered. The rest of the outcome is of the same
confirmation unless the intent is `mixed`: while a confirmation stores alone,
the row has changed since it was read only by marks and cancellations, which
touch neither decision nor bundle (`Steady`, `Mild`).

*Delegations.*  Whatever a revocation has marked, is about to mark or has still to
visit belongs to its tenant (`ItsOwn`), and rows keep their tenant (`Keeps`).
This holds for every tree and ring, since children are fetched by tenant.
That a cascade is complete rests on `Covers`: what is due is marked, on the
stack or below something that is on it and still within the guard's depth.
`Below` is a recursive function of the depth; its lemmas split a path at its
first step, and the recursion itself is unrolled by `Recursion` and `Induction`,
which are stated over sets and so need no operator parameter.

*DelegationChains.*  A cached key set is one that the provider published when it
was fetched (`Cached`), so a key found in it was withdrawn later, if at all, and
no longer ago than the cache lives.  For the scopes, `Walk` says that a
verification has reached delegations only - credentials do not change once they
are issued, and a parent is issued before its child - and `Narrow` that what is
combined is within the root's scope and every later link's.  `IntersectNarrows`
carries it from one link to the next for both versions of the intersection; it
needs nothing of the links' own narrowing.  A verified chain was whole because a
suspect link, one that was revoked before the verification began, would have to
stand at or above the link the verification has reached, and each step asks for
the next one.

*Gateway.*  `GatewayInv` says what a call carries in each place it stops at
(`CallInv`), that log, inventory and shadow records tell of the same calls, and
that the cache's entries have been computed from the log's denials.  One lemma
per action gives its effect on each of the six groups of variables, and each
group is then shown to be kept from those effects alone.  What a presentation
permits is followed along its chain (`EffectiveActions`).  The two verifiers go
through the same checks in another order; the lemma `NoFault` says when neither
finds one.  Alerts are founded because what a detector counts, it counts over a
part of the log that no later step changes.

*Backend.* A request is a script, so what it does next has to be known before
what it does can be: `RequestsInv` says of every script, whatever was put before
it or cut from it, that each step which works on what another leaves behind
stands right after that one (`Leads`; `Fragment` and `Scripted` build the
eighteen handlers from parts, and the turns of the roster from one turn). Then
`StepCases` splits all steps into those that leave keys, credentials and chains
alone and the fourteen that do not. One key is active because a rotation whose
kid is free has read all keys (`RotatedKeys`). For the chains, `WritersInv`: the
event that a writer is chained to is still there unless a reset tore the chain,
and it is the newest unless somebody else writes, too; two writers cannot be
there without the second one finding the first (`Together`). For attestations,
`Sound`: one that was signed names an agent that holds or held its SPIFFE ID,
with a key that stays until that agent is deleted; `Evolves` is what every
change of the rows keeps. Verdicts need what a verification knows at each place
of its script (`Placed`: before it has read the status list, before it has
looked at the list's signature, behind that), and what a document knows:
`Knows(a, doc, time)`, every key that the agent has from before that time. New
keys are younger than now (`KeysGrow`), so a document never forgets; one that a
fetch has found is not older than the fetch, a fetch no older than `FetchTime`
(`Timely`; time does not pass beyond it), and so an entry of the so an entry of
the cache lacks keys of the last `CacheTtl + FetchTime` at most (`Entries`).
`StepConfined` and `Grows` are what a request may rely on while others run. A
bit that is `Settled` when a request begins stays so: whoever reads the list
from then on has it in its hands (`ReaderSpares`), and those who write put it
back (`WriteKeeps`).

*Types and limits of Backend.* What a step stores it takes from the request, and
the request has it from an earlier step of its script, so no type is inductive
without knowing which step may follow which. `Piece` says that of a script of
each kind (`Follows`, `Belongs`), `Typed` and `Stage` what a request has when it
is about to do a step, `Seeding` what a seeding has still to work through;
`FitsInv` is all three for the requests at work, and `FitsStep` has one lemma
per family of steps. The seed's tables must be of one piece for it, as in
`core/seed.py`: its plan and deals name agents of the roster and its targets
name the plan's credentials (`SeedAssumption`). Types of the tables follow
(`StoredInv`); those of the webhooks need that a request for one names one that
is there (`HooksInv`), those of the chains that a writer's predecessor has been
stamped (`LogInv`), those of the bits that what a revocation has read was ever
set (`BitsInv`). The pool (`LimitInv`): a step that opens no session of its own
goes on in one that is open, so the number of connections in use grows only in a
step that found one free (`Paid`). The window counts what was let through: the
hits that still count are the newest ones (`RecentIs`). The cache has one entry
for a document because reading and writing take the old one out first
(`WithoutOnce`). That a load fits its server is `LoadAssumption`: the pool's
size is a number, and documents that are cached when a load starts fit into the
cache.

*Reports of Backend.* `View(t)` is what a report of tenant t is about: how often
it was reset, its rows and their numbers, the bits that are set for good, set,
or were ever set, and whether the chain is spoilt. `StepLater` says that until
the next reset a step only adds to it, which needs finite tables (`FiniteInv`)
and, for trust events, a count over a sequence that grows at either end.
`Reporting` says what a report knows at each place of its script: what it began
with is no more than there is now (`Begun`); the agents and credentials it has
counted lie between (`Counting`), so do all numbers (`AllCounted`), and the
chain it has walked is good or spoilt (`Walked`). The revoked ones are read bit
by bit while bits are set and lost. For them `BitsBetween` names two sets: the
bits that were counted, all of them set at some time, and those that were set
for good at the beginning, each of which was counted or is still to be looked
up. For the dashboard and the monitor (`Boarding`), both rows of an agent are
read from the same events, and the score that makes one uninsurable is the one
that makes the other critical.

Only model-checked:

- all liveness (`ProcessingEnds`, `QueueDrains`, `RevocationEnds`,
  `CallsAndRefreshesEnd`, `RequestsEnd`), which rests on fairness and `ENABLED`:
  out of the prover's reach;
- of `Backend`: `AloneSucceeds`, which says of eighteen handlers where each of their
  scripts leads when nothing disturbs it; for the seed it depends on the very
  tables (a roster that gives one SPIFFE ID to two agents would break it);
- what recursive definitions compute for every input.  Where a proof needs such
  a definition it unrolls it with `Recursion` and `Induction`.

## 5. Not modelled

- Cryptography, encodings and key material: a token verifies if it was issued
  with a key that the document it is checked against has.
- Delivery of webhooks beyond one attempt; the wording of reports and alerts;
  confidence values and identifiers of detections.
- `routes/auth.py` (login redirects), marketplace, storefront, static pages and
  counters: they read or redirect.
- Mandates built offline by the SDK (`sdk/python/tesht/commerce.py`), its
  identities and HTTP client; the TypeScript and React SDKs (ports and hooks).
- User interfaces, scripts, infrastructure, migrations, sample servers and the
  stateless verifier: sequential, or without state of their own.
- Two gateway processes, a clock that steps back (`audit_pg.py:377`), and a
  backend process killed inside the handlers of `Backend` (the other modules of
  the backend have crashes or restarts).

`components` gives the reason for each.

## 6. What is left

- A composition of two `GatewayAudit` writers over one table, for a rolling
  deployment.
- A proof of `Backend`'s remaining safety property, the answers of requests that
  are alone.
- The shadow-test presentations of the bridge and the SDK's offline mandates.
