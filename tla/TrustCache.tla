----------------------------- MODULE TrustCache -----------------------------
(***************************************************************************)
(* The gateway's trust scores (gateway/trust.py): a cache of entries, one  *)
(* per agent, that the event loop reads and writes, and the cold path, a   *)
(* pool of threads that asks for full scores and writes them into the      *)
(* entries.                                                                *)
(*                                                                         *)
(* Replacing an entry takes the lock that the cold path holds while it     *)
(* writes, so a miss has two steps, the decision and the store, and the    *)
(* event loop waits in between.                                            *)
(***************************************************************************)
EXTENDS Integers, FiniteSets, Sequences

CONSTANTS
  Agents,
  AllowThreshold, StepUpThreshold,    \* 75, 50
  CacheTtl,                           \* cache_ttl_seconds
  WarmUp,                             \* requests before a new tool counts (3)
  VelocityWarmUp,                     \* requests before the rate counts (10)
  Window,                             \* of the request rate (60 s)
  Rates,                              \* rates penalised with 5, 10 and 20 (15, 30, 60)
  Workers,                            \* _COLD_PATH_MAX_WORKERS (4)
  Attempts,                           \* _COLD_PATH_HTTP_ATTEMPTS (2)
  FullScores,                         \* totals the backend may answer
  MaxTime,                            \* bound: the clock
  Absent                              \* no entry, no hash, no tool

ASSUME TrustAssumption ==
  /\ {AllowThreshold, StepUpThreshold, CacheTtl, WarmUp, VelocityWarmUp, Window,
      Workers, Attempts, MaxTime} \subseteq Nat
  /\ StepUpThreshold <= AllowThreshold /\ Rates \in [1..3 -> Nat]
  /\ FullScores \subseteq Int /\ Attempts > 0 /\ IsFiniteSet(Agents)
  /\ Absent \notin [pc : {"asking", "ending"}, tries : Nat]

VARIABLES
  now,         \* the clock
  cache,       \* agent -> entry, Absent where there is none
  inflight,    \* _cold_path_inflight
  queue,       \* agents whose refreshes wait for a worker
  pool,        \* agent -> its refresh with a worker, Absent where there is none
  closed       \* the pool has been shut down

trustVars == <<now, cache, inflight, queue, pool, closed>>

Clamp(n) == IF n < 0 THEN 0 ELSE IF n > 100 THEN 100 ELSE n

Score(e) == Clamp(e.base - e.penalty)

Decide(score) ==
  IF score >= AllowThreshold THEN "allow"
  ELSE IF score >= StepUpThreshold THEN "step_up" ELSE "block"

\* stamps: when requests were counted; novel: how many new tools; since is for the
\* properties: where in the log of the gateway the count of violations began.
NewEntry(base, vp, since) ==
  [base |-> base, at |-> now, count |-> 1, tools |-> {}, stamps |-> <<now>>,
   violations |-> 0, novel |-> 0, penalty |-> 0, vp |-> vp, since |-> since]

TrustInit ==
  /\ now = 0 /\ cache = [a \in Agents |-> Absent]
  /\ inflight = {} /\ queue = <<>> /\ pool = [a \in Agents |-> Absent] /\ closed = FALSE

-----------------------------------------------------------------------------
(* evaluate                                                                *)

Live(e) == e # Absent /\ now - e.at < CacheTtl

Fresh(e, vp) == vp # Absent /\ e.vp # Absent /\ vp # e.vp

Restore(e, vp, since) ==
  IF vp = Absent THEN e
  ELSE IF ~Fresh(e, vp) THEN [e EXCEPT !.vp = vp]
  ELSE [e EXCEPT !.penalty = IF @ > 20 THEN @ - 20 ELSE 0,
                 !.violations = 0, !.novel = 0, !.vp = vp, !.since = since]

IsNovel(e, tool) == tool # Absent /\ e.count > WarmUp /\ tool \notin e.tools

ToolPenalty(e, tool) ==
  IF ~IsNovel(e, tool) THEN 0 ELSE <<5, 10, 15>>[IF e.novel < 2 THEN e.novel + 1 ELSE 3]

Recent(e) ==
  LET kept[n \in 0..Len(e.stamps)] ==
        IF n = 0 THEN <<>>
        ELSE IF now - e.stamps[n] < Window THEN Append(kept[n - 1], e.stamps[n]) ELSE kept[n - 1]
  IN kept[Len(e.stamps)]

VelocityPenalty(e) ==
  LET rate == Len(Recent(e)) IN
  IF e.count <= VelocityWarmUp \/ rate <= Rates[1] THEN 0
  ELSE IF rate <= Rates[2] THEN 5 ELSE IF rate <= Rates[3] THEN 10 ELSE 20

ProbePenalty(e) ==
  IF e.violations = 0 THEN 0 ELSE <<5, 15, 25>>[IF e.violations < 3 THEN e.violations ELSE 3]

\* What an evaluation makes of a live entry.
Evaluated(e, tool, vp, since) ==
  LET r == [Restore(e, vp, since) EXCEPT !.stamps = Append(@, now)] IN
  [r EXCEPT !.stamps = Recent(r),
            !.novel = IF IsNovel(r, tool) THEN @ + 1 ELSE @,
            !.penalty = @ + ToolPenalty(r, tool) + VelocityPenalty(r) + ProbePenalty(r)]

InstantScore(authenticated, depth, blended) ==
  IF ~authenticated THEN 0
  ELSE 25 + Clamp(25 - depth * 5) + (IF blended THEN 20 ELSE 10) + 15

-----------------------------------------------------------------------------
(* What the pipeline reports; calls on the event loop                      *)

\* update_from_request: e is the agent's entry, or Absent.
Counted(e, tool) ==
  IF e = Absent THEN Absent
  ELSE [e EXCEPT !.count = @ + 1, !.stamps = Append(@, now),
                 !.tools = @ \cup ({tool} \ {Absent})]

\* record_scope_violation
Violated(e) == IF e = Absent THEN Absent ELSE [e EXCEPT !.violations = @ + 1]

\* invalidate, which only code around the gateway calls.
Invalidate(a) ==
  /\ cache' = [cache EXCEPT ![a] = Absent]
  /\ UNCHANGED <<now, inflight, queue, pool, closed>>

-----------------------------------------------------------------------------
(* The cold path                                                           *)

\* schedule_cold_path_refresh: nothing when one is in flight for the agent; a pool
\* that is shut down refuses and the marker is dropped.
Schedules(a) ==
  IF a \in inflight \/ closed THEN UNCHANGED <<inflight, queue>>
  ELSE inflight' = inflight \cup {a} /\ queue' = Append(queue, a)

Running == {a \in Agents : pool[a] # Absent}

\* A worker takes the next refresh.
StartRefresh(a) ==
  /\ queue # <<>> /\ Head(queue) = a /\ Cardinality(Running) < Workers
  /\ queue' = Tail(queue)
  /\ pool' = [pool EXCEPT ![a] = [pc |-> "asking", tries |-> 0]]
  /\ UNCHANGED <<now, cache, inflight, closed>>

\* The module core.trust_score is not there, so the backend is asked over HTTP.
\* The last attempt fails, or an answer below 500 ends the attempts, or no URL is set.
RefreshFails(a) ==
  /\ pool[a] # Absent /\ pool[a].pc = "asking"
  /\ pool' = [pool EXCEPT ![a] = [@ EXCEPT !.pc = "ending"]]
  /\ UNCHANGED <<now, cache, inflight, queue, closed>>

RetryRefresh(a) ==
  /\ pool[a] # Absent /\ pool[a].pc = "asking" /\ pool[a].tries + 1 < Attempts
  /\ pool' = [pool EXCEPT ![a].tries = @ + 1]
  /\ UNCHANGED <<now, cache, inflight, queue, closed>>

\* Broken variant: the answer makes a new entry.
WithFullScoreAnew(e, score) == NewEntry(Clamp(score), e.vp, e.since)

\* The answer is written into the entry the agent has now, if any.
WithFullScore(e, score) == [e EXCEPT !.base = Clamp(score), !.at = now]

Refreshed(a, score) ==
  /\ pool[a] # Absent /\ pool[a].pc = "asking"
  /\ cache' = [cache EXCEPT ![a] = IF @ = Absent THEN Absent ELSE WithFullScore(@, score)]
  /\ pool' = [pool EXCEPT ![a] = [@ EXCEPT !.pc = "ending"]]
  /\ UNCHANGED <<now, inflight, queue, closed>>

\* Broken variant: the marker goes only with an answer.
DropMarkerOnAnswer(a) ==
  /\ pool[a] # Absent /\ pool[a].pc = "ending"
  /\ inflight' = IF cache[a] # Absent /\ cache[a].at = now THEN inflight \ {a} ELSE inflight
  /\ pool' = [pool EXCEPT ![a] = Absent]
  /\ UNCHANGED <<now, cache, queue, closed>>

\* The "finally" of _run.
DropMarker(a) ==
  /\ pool[a] # Absent /\ pool[a].pc = "ending"
  /\ inflight' = inflight \ {a}
  /\ pool' = [pool EXCEPT ![a] = Absent]
  /\ UNCHANGED <<now, cache, queue, closed>>

\* close: refreshes in the pool, the queued ones too, still run.
Close == ~closed /\ closed' = TRUE /\ UNCHANGED <<now, cache, inflight, queue, pool>>

Refresh(a) ==
  \/ StartRefresh(a) \/ RefreshFails(a) \/ RetryRefresh(a) \/ DropMarker(a)
  \/ \E score \in FullScores : Refreshed(a, score)

Tick == now < MaxTime /\ now' = now + 1 /\ UNCHANGED <<cache, inflight, queue, pool, closed>>
=============================================================================
