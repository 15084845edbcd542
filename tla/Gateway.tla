------------------------------ MODULE Gateway ------------------------------
(***************************************************************************)
(* The MCP gateway (gateway/app.py): each call is authenticated, its body  *)
(* awaited and parsed, its tool checked against the delegated scope, the   *)
(* agent's trust evaluated, the call forwarded and awaited, and logged.    *)
(* Handlers share one event loop and give it up only where they await; the *)
(* refreshes of the trust cache run in threads, revocations elsewhere.     *)
(*                                                                         *)
(* The audit log is a sequence here; GatewayAudit tells how it is stored.  *)
(***************************************************************************)
EXTENDS TrustCache, Presentations

CONSTANTS
  Calls,
  Embedded,             \* agents whose credentials code around the gateway holds
  MaxEmbedded,          \* bound: how often it asks for a score or drops an entry
  MaxAtOnce,            \* bound: calls that can be at work
  Tools, Required,      \* tools callers name; the action each is mapped to, or None
  EnvFailClosed, YamlFailClosed, Production   \* None where a setting is not given

ASSUME GatewayAssumption ==
  /\ Calls \cup {MaxEmbedded, MaxAtOnce} \subseteq Nat /\ Embedded \subseteq Agents /\ Agents \subseteq Dids
  /\ None \notin Calls /\ \A v \in Vps : Vp[v].holder \in Agents
  /\ Required \in [Tools -> Actions \cup {None}]
  /\ {EnvFailClosed, YamlFailClosed} \subseteq BOOLEAN \cup {None} /\ Production \in BOOLEAN

VARIABLES
  revoked,              \* credentials whose status list entries are set
  call,                 \* what each call is doing
  loop,                 \* the call that keeps the event loop waiting, or None
  known,                \* AgentInventory: requests per agent, 0 if not known
  shadows,              \* its failed attempts, by time
  asked,                \* how often the code around it has acted
  log                   \* audit events

gatewayVars == <<trustVars, revoked, call, loop, known, shadows, asked, log>>

\* Environment before configuration file before profile.
FailClosed ==
  IF EnvFailClosed # None THEN EnvFailClosed
  ELSE IF YamlFailClosed # None THEN YamlFailClosed ELSE Production

\* dead is for the properties: what was revoked when the call was authenticated.
NewCall == [pc |-> "new", agent |-> None, vp |-> None, auth |-> Refusal(None),
            tool |-> Absent, dead |-> {}]

\* unlogged: the call is answered without an audit event.
Ended(agent) == [NewCall EXCEPT !.pc = "ended", !.agent = agent]
Unlogged(agent) == [NewCall EXCEPT !.pc = "unlogged", !.agent = agent]

Init ==
  /\ TrustInit
  /\ revoked = {} /\ call = [r \in Calls |-> NewCall] /\ loop = None
  /\ known = [a \in Agents |-> 0] /\ shadows = <<>> /\ asked = 0 /\ log = <<>>

Go(r, next) == call' = [call EXCEPT ![r] = next]

Event(r, agent, decision, reason) ==
  [call |-> r, agent |-> agent, decision |-> decision, reason |-> reason]

-----------------------------------------------------------------------------
(* Authentication                                                          *)

Listed == {c \in Creds : Cred[c].listed}

\* What verify_request says of each presentation, by the time and by what is revoked.
Answers ==
  [x \in (Vps \cup {None}) \X (0..MaxTime) \X SUBSET Listed |->
     VerifyRequest(x[1], x[2], x[3])]

\* Broken variant: a list that cannot be read revokes nothing.
ReportedOpen(readable) == IF readable THEN revoked ELSE {}

\* What the status checker reports once its attempts are over.
Reported(readable) == IF readable THEN revoked ELSE IF FailClosed THEN Listed ELSE {}

\* Calls are numbered as they arrive.  One for a server that is not configured is
\* answered at once and leaves no trace.
Arrives(r) ==
  /\ call[r].pc = "new" /\ loop = None /\ ~closed
  /\ \A q \in Calls : q < r => call[q].pc # "new"
  /\ \A q \in Calls : q + MaxAtOnce <= r => call[q].pc \in {"ended", "unlogged"}

\* register_agent, and record_shadow_attempt.
Registers(a) == known' = [known EXCEPT ![a] = @ + 1]
RecordsAttempt == shadows' = Append(shadows, now)

Refuse(r, v, readable) ==
  \E auth \in {Answers[<<v, now, Reported(readable)>>]} :
    /\ Arrives(r) /\ ~auth.ok
    /\ RecordsAttempt
    /\ log' = Append(log, Event(r, auth.agent, "blocked_auth", auth.reason))
    /\ Go(r, Ended(None))
    /\ UNCHANGED <<trustVars, revoked, loop, known, asked>>

Authenticate(r, v, readable) ==
  \E auth \in {Answers[<<v, now, Reported(readable)>>]} :
    /\ Arrives(r) /\ auth.ok
    /\ Registers(auth.agent)
    /\ Go(r, [NewCall EXCEPT !.pc = "body", !.agent = auth.agent, !.vp = v, !.auth = auth,
                             !.dead = revoked])
    /\ UNCHANGED <<trustVars, revoked, loop, shadows, log, asked>>

-----------------------------------------------------------------------------
(* The body has come                                                       *)

\* The client is gone, or the body is no JSON-RPC request: nothing is logged.
BodyFails(r) ==
  /\ call[r].pc = "body" /\ loop = None
  /\ Go(r, Unlogged(call[r].agent))
  /\ UNCHANGED <<trustVars, revoked, loop, known, shadows, log, asked>>

InScope(r, tool) ==
  tool # Absent => Required[tool] # None /\ Required[tool] \in call[r].auth.scope.actions

\* A denied call: it counts, and is logged.
Deny(r, entry, tool, decision) ==
  LET a == call[r].agent IN
  /\ cache' = [cache EXCEPT ![a] = Counted(entry, tool)]
  /\ log' = Append(log, Event(r, a, decision, None))
  /\ Go(r, Ended(a))

\* Broken variant: the violation is not recorded.
DenyScopeQuietly(r, tool) ==
  /\ call[r].pc = "body" /\ loop = None /\ ~InScope(r, tool)
  /\ Deny(r, cache[call[r].agent], tool, "blocked_scope")
  /\ UNCHANGED <<now, inflight, queue, pool, closed, revoked, loop, known, shadows, asked>>

DenyScope(r, tool) ==
  /\ call[r].pc = "body" /\ loop = None /\ ~InScope(r, tool)
  /\ Deny(r, Violated(cache[call[r].agent]), tool, "blocked_scope")
  /\ UNCHANGED <<now, inflight, queue, pool, closed, revoked, loop, known, shadows, asked>>

\* What follows an evaluation that leaves the agent with entry.
Decided(r, entry, tool) ==
  LET a == call[r].agent IN
  IF Decide(Score(entry)) = "block" THEN Deny(r, entry, tool, "blocked_trust")
  ELSE IF Decide(Score(entry)) = "step_up" THEN Deny(r, entry, tool, "step_up")
  ELSE /\ cache' = [cache EXCEPT ![a] = entry]
       /\ Go(r, [call[r] EXCEPT !.pc = "forwarding", !.tool = tool])
       /\ UNCHANGED log

EvaluateHit(r, tool) ==
  LET e == cache[call[r].agent] IN
  /\ call[r].pc = "body" /\ loop = None /\ InScope(r, tool) /\ Live(e)
  /\ Decided(r, Evaluated(e, tool, call[r].vp, Len(log)), tool)
  /\ UNCHANGED <<now, inflight, queue, pool, closed, revoked, loop, known, shadows, asked>>

\* The entry is missing or too old; storing the new one may wait for the lock.
EvaluateMiss(r, tool) ==
  /\ call[r].pc = "body" /\ loop = None /\ InScope(r, tool)
  /\ ~Live(cache[call[r].agent])
  /\ loop' = r /\ Go(r, [call[r] EXCEPT !.pc = "storing", !.tool = tool])
  /\ UNCHANGED <<trustVars, revoked, known, shadows, log, asked>>

\* The pipeline hands evaluate no token, so no refresh is scheduled.
Store(r) ==
  LET auth == call[r].auth
      base == InstantScore(auth.ok, auth.depth, auth.blended)
  IN
  /\ call[r].pc = "storing" /\ loop' = None
  /\ Decided(r, NewEntry(base, call[r].vp, Len(log)), call[r].tool)
  /\ UNCHANGED <<now, inflight, queue, pool, closed, revoked, known, shadows, asked>>

\* The server answers, or fails or takes longer than the client waits (502).
Forwarded(r) ==
  LET a == call[r].agent IN
  /\ call[r].pc = "forwarding" /\ loop = None
  /\ log' = Append(log, Event(r, a, "allowed", None))
  /\ cache' = [cache EXCEPT ![a] = Counted(@, call[r].tool)]
  /\ Go(r, Ended(a))
  /\ UNCHANGED <<now, inflight, queue, pool, closed, revoked, loop, known, shadows, asked>>

-----------------------------------------------------------------------------
(* Around the pipeline                                                     *)

\* Code that embeds the evaluator has the agent's credential and asks for its score.
RequestRefresh(a) ==
  /\ loop = None /\ cache[a] # Absent /\ asked < MaxEmbedded
  /\ Schedules(a) /\ asked' = asked + 1
  /\ UNCHANGED <<now, cache, pool, closed, revoked, call, loop, known, shadows, log>>

InvalidateEntry(a) ==
  /\ loop = None /\ asked < MaxEmbedded /\ asked' = asked + 1 /\ Invalidate(a)
  /\ UNCHANGED <<revoked, call, loop, known, shadows, log>>

Revoke(c) ==
  /\ c \in Listed \ revoked
  /\ revoked' = revoked \cup {c}
  /\ UNCHANGED <<trustVars, call, loop, known, shadows, log, asked>>

\* The server has no more calls at work when the lifespan ends.
Shutdown ==
  /\ \A r \in Calls : call[r].pc \in {"new", "ended", "unlogged"}
  /\ Close /\ UNCHANGED <<revoked, call, loop, known, shadows, log, asked>>

Handle(r) ==
  \/ \E tool \in Tools \cup {Absent} :
       DenyScope(r, tool) \/ EvaluateHit(r, tool) \/ EvaluateMiss(r, tool)
  \/ BodyFails(r) \/ Store(r) \/ Forwarded(r)

Around == UNCHANGED <<revoked, call, loop, known, shadows, log, asked>>

Next ==
  \/ \E r \in Calls :
       \/ Handle(r)
       \/ \E v \in Vps \cup {None}, readable \in BOOLEAN :
            Refuse(r, v, readable) \/ Authenticate(r, v, readable)
  \/ \E a \in Embedded : RequestRefresh(a) \/ InvalidateEntry(a)
  \/ \E a \in Agents : Refresh(a) /\ Around
  \/ (\E c \in Creds : Revoke(c)) \/ Shutdown \/ (Tick /\ Around)

Busy == (\E r \in Calls : call[r].pc \notin {"new", "ended", "unlogged"}) \/ inflight # {}

\* Clients send their bodies or go, upstream calls time out (30 s), threads run.
Fairness ==
  /\ WF_gatewayVars(\E r \in Calls : Handle(r))
  /\ WF_gatewayVars(\E a \in Agents : Refresh(a) /\ Around)

Spec == Init /\ [][Next]_gatewayVars /\ Fairness

-----------------------------------------------------------------------------
Entry == [base : 0..100, at : Nat, count : Nat, tools : SUBSET Tools, stamps : Seq(Nat),
          violations : Nat, novel : Nat, penalty : Nat, vp : Vps \cup {Absent}, since : Nat]

\* Entries have their type, exactly the agents in flight have a refresh in the pool,
\* no more of them run than there are workers, and the event loop waits for one
\* call at most.
TypeOK ==
  /\ cache \in [Agents -> Entry \cup {Absent}]
  /\ known \in [Agents -> Nat] /\ revoked \subseteq Creds
  /\ inflight = Running \cup {queue[n] : n \in DOMAIN queue}
  /\ Cardinality(Running) <= Workers
  /\ {r \in Calls : call[r].pc = "storing"} = {loop} \ {None}

\* Events of a call; of an agent from some place in the log on.
EventsOf(r) == {i \in DOMAIN log : log[i].call = r}

DenialsSince(a, n) ==
  {i \in DOMAIN log : i > n /\ log[i].agent = a /\ log[i].decision = "blocked_scope"}

\* The log, the inventory and the trust cache, written apart from each other, agree:
\* a call that has ended was logged once, unless its server is unknown or its body
\* was bad, and no call is logged before; the inventory has every call that was
\* authenticated and every refusal; an agent's violations are its denials since its
\* entry was made or a fresh presentation restored it.
RecordsAgree ==
  /\ \A r \in Calls : Cardinality(EventsOf(r)) =
       IF call[r].pc = "ended" THEN 1 ELSE 0
  /\ \A a \in Agents :
       /\ known[a] = Cardinality({r \in Calls : call[r].agent = a})
       /\ cache[a] # Absent =>
            cache[a].violations = Cardinality(DenialsSince(a, cache[a].since))
  /\ Len(shadows) = Cardinality({i \in DOMAIN log : log[i].decision = "blocked_auth"})

\* Entries, refreshes and workers keep to their bounds, and the records agree.
RecordsAreSound == TypeOK /\ RecordsAgree

Paths == [v \in Vps |-> IF DelegationOf(v) = None THEN <<>> ELSE PathTo(DelegationOf(v))]

\* What is forwarded was authorised, by every link of the delegation behind it: when
\* the call was authenticated no link was revoked, if the gateway fails closed, and
\* each allows the action the tool is mapped to.  Revocations go on while the
\* call waits for its body, the cache's lock and the server.
ForwardedWasAuthorized ==
  \A r \in Calls : call[r].pc = "forwarding" =>
    LET path == Paths[call[r].vp] IN
    \A i \in 1..Len(path) :
      /\ FailClosed => path[i] \notin call[r].dead
      /\ call[r].tool # Absent =>
           ScopeOf(path[i]).actions = {} \/ Required[call[r].tool] \in ScopeOf(path[i]).actions

\* Penalties are forgiven in two ways only: a fresh presentation takes off 20 at
\* most, and an entry found too old is replaced.  A refresh forgives none.
PenaltyForgiven ==
  [][\A a \in Agents :
       cache[a] # Absent /\ cache'[a] # Absent /\ cache'[a].penalty < cache[a].penalty =>
         \/ Fresh(cache[a], cache'[a].vp) /\ cache'[a].penalty >= cache[a].penalty - 20
         \/ \E r \in Calls : loop = r /\ call[r].agent = a]_gatewayVars

\* A presentation, a time and what is revoked, for which the two answers differ.
Disagreements ==
  {x \in Vps \X (0..MaxTime) \X SUBSET Listed :
     \E one \in {Answers[x]} :
       /\ one.ok /\ one.blended /\ BlendedDelegation(x[1]) = First(Vp[x[1]].creds, IsDelegation)
       /\ VerifyBlended(x[1], x[2], x[3]) # one}

\* Both verifiers of the SDK, walking the presentation each in its own way, come to
\* the same agent, delegator, scope and depth, unless another credential with the
\* parties of the delegation follows it.
VerifiersAgree ==
  \A v \in Vps : <<v, now, revoked>> \notin Disagreements

\* The gateway comes to rest: calls that have been let in are answered and refreshes
\* end, whatever becomes of their entries, of the backend and of the pool.
CallsAndRefreshesEnd == Busy ~> ~Busy
=============================================================================
