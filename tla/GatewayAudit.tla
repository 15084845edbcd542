----------------------------- MODULE GatewayAudit -----------------------------
(***************************************************************************)
(* The persistent audit writer of the gateway (gateway/audit_pg.py): the   *)
(* event loop appends each event to a bounded buffer and to the queue of   *)
(* one worker thread, which writes the rows of tenant "gateway" in order   *)
(* and retries a failed write a few times.                                 *)
(***************************************************************************)
EXTENDS AuditLog, Sequences

CONSTANTS
  MaxEvents,   \* bound: requests logged in a behaviour
  MaxClock,    \* bound: rows stamped in a behaviour
  MaxRestarts, \* bound: restarts of the process
  WriteAttempts, \* _PG_WRITE_ATTEMPTS
  Buffer       \* MAX_INMEM_EVENTS

ASSUME AuditAssumption ==
  /\ MaxEvents \in Nat /\ MaxClock \in Nat /\ MaxRestarts \in Nat
  /\ WriteAttempts \in Nat \ {0} /\ Buffer \in Nat \ {0}

VARIABLES
  clock,       \* the last time a row was stamped with
  rows,        \* committed rows of the gateway's tenant
  recorded,    \* the event each time was used for, 0 if none
  logged,      \* number of requests logged so far: events are 1, 2, ...
  since,       \* events logged before the process last started
  restarts,
  buffer,      \* _events
  backlog,     \* the executor's queue; its head is what the worker writes
  worker,      \* what the worker is doing
  failures     \* _write_failures

auditVars == <<clock, rows, recorded, logged, since, restarts, buffer, backlog, worker, failures>>

Waiting == [pc |-> "waiting", attempt |-> 1, prev |-> Genesis, at |-> 0]

AuditInit ==
  /\ clock = 0 /\ rows = {} /\ recorded = [t \in 1..MaxClock |-> 0]
  /\ logged = 0 /\ since = 0 /\ restarts = 0
  /\ buffer = <<>> /\ backlog = <<>> /\ worker = Waiting /\ failures = 0

IsRecorded(e) == \E r \in rows : recorded[r.at] = e

\* log_request.
LogRequest ==
  /\ logged < MaxEvents
  /\ logged' = logged + 1
  /\ backlog' = Append(backlog, logged + 1)
  /\ buffer' = LET all == Append(buffer, logged + 1) IN
                 IF Len(all) > Buffer THEN Tail(all) ELSE all
  /\ UNCHANGED <<clock, rows, recorded, since, restarts, worker, failures>>

-----------------------------------------------------------------------------
(* _write_to_pg.                                                           *)

\* Each attempt reads the newest row again.
ReadNewest ==
  /\ worker.pc = "waiting" /\ backlog # <<>>
  /\ worker' = [worker EXCEPT !.pc = "read", !.prev = Newest(rows)]
  /\ UNCHANGED <<clock, rows, recorded, logged, since, restarts, buffer, backlog, failures>>

Stamp ==
  /\ worker.pc = "read" /\ clock < MaxClock
  /\ clock' = clock + 1
  /\ worker' = [worker EXCEPT !.pc = "stamped", !.at = clock + 1]
  /\ UNCHANGED <<rows, recorded, logged, since, restarts, buffer, backlog, failures>>

Insert ==
  /\ rows' = rows \cup {[at |-> worker.at, prev |-> worker.prev]}
  /\ recorded' = [recorded EXCEPT ![worker.at] = Head(backlog)]

Commit ==
  /\ worker.pc = "stamped"
  /\ Insert
  /\ backlog' = Tail(backlog)
  /\ worker' = Waiting
  /\ UNCHANGED <<clock, logged, since, restarts, buffer, failures>>

\* Broken variants of the retry: the newest row is not read again; the attempt
\* is not counted; the event is dropped and not counted.
GiveUpKeepingPrev ==
  IF worker.attempt < WriteAttempts
  THEN /\ worker' = [worker EXCEPT !.pc = "read", !.attempt = @ + 1]
       /\ UNCHANGED <<backlog, failures>>
  ELSE /\ backlog' = Tail(backlog) /\ failures' = failures + 1
       /\ worker' = Waiting

GiveUpNever ==
  /\ worker' = [worker EXCEPT !.pc = "waiting"]
  /\ UNCHANGED <<backlog, failures>>

GiveUpSilently ==
  IF worker.attempt < WriteAttempts
  THEN /\ worker' = [worker EXCEPT !.pc = "waiting", !.attempt = @ + 1]
       /\ UNCHANGED <<backlog, failures>>
  ELSE /\ backlog' = Tail(backlog) /\ worker' = Waiting /\ UNCHANGED failures

\* After an exception: the next attempt, or the event is counted as lost.
GiveUp ==
  IF worker.attempt < WriteAttempts
  THEN /\ worker' = [worker EXCEPT !.pc = "waiting", !.attempt = @ + 1]
       /\ UNCHANGED <<backlog, failures>>
  ELSE /\ backlog' = Tail(backlog) /\ failures' = failures + 1
       /\ worker' = Waiting

\* The database refuses, or cannot be reached.
WriteFails ==
  /\ worker.pc \in {"read", "stamped"}
  /\ GiveUp
  /\ UNCHANGED <<clock, rows, recorded, logged, since, restarts, buffer>>

\* The row is committed and the answer is lost.
AnswerLost ==
  /\ worker.pc = "stamped"
  /\ Insert
  /\ GiveUp
  /\ UNCHANGED <<clock, logged, since, restarts, buffer>>

-----------------------------------------------------------------------------
\* The process is killed and started again.
Restart ==
  /\ restarts < MaxRestarts
  /\ restarts' = restarts + 1 /\ since' = logged
  /\ buffer' = <<>> /\ backlog' = <<>> /\ worker' = Waiting /\ failures' = 0
  /\ UNCHANGED <<clock, rows, recorded, logged>>

Write == ReadNewest \/ Stamp \/ Commit \/ WriteFails \/ AnswerLost

AuditNext == LogRequest \/ Write \/ Restart

AuditSpec == AuditInit /\ [][AuditNext]_auditVars

\* The worker thread keeps running; requests and restarts may stop coming.
FairAuditSpec == AuditSpec /\ WF_auditVars(Write)

-----------------------------------------------------------------------------
\* PersistentAuditWriter.verify_chain: what the oldest row names is taken as it is,
\* every later row names its predecessor.
VerifyChain ==
  \A r \in rows : LET earlier == {d \in rows : d.at < r.at} IN
    earlier # {} => r.prev = Newest(earlier)

\* All is of its type; the buffer holds at most its bound.
AuditTypeOK ==
  /\ clock \in 0..MaxClock
  /\ rows \subseteq Rows(1..MaxClock)
  /\ recorded \in [1..MaxClock -> 0..MaxEvents]
  /\ logged \in 0..MaxEvents /\ since \in 0..logged /\ restarts \in 0..MaxRestarts
  /\ buffer \in Seq(1..MaxEvents) /\ Len(buffer) <= Buffer
  /\ backlog \in Seq(1..MaxEvents)
  /\ worker \in [pc : {"waiting", "read", "stamped"}, attempt : 1..WriteAttempts,
                 prev : 0..MaxClock, at : 0..MaxClock]
  /\ failures \in 0..MaxEvents

\* verify_chain accepts the gateway's log, through retries, writes whose answer
\* was lost and restarts (audit_pg.py: "the hash chain is never forked").
ChainUnbroken ==
  /\ VerifyChain
  /\ rows # {} => \E r \in rows : r.prev = Genesis /\ \A d \in rows : r.at <= d.at

\* Buffer and queue keep their types and bounds, and the chain is unbroken.
LogIsSound == AuditTypeOK /\ ChainUnbroken

Lost == {e \in (since + 1)..logged :
           ~IsRecorded(e) /\ \A n \in DOMAIN backlog : backlog[n] # e}

\* The rows are in the order of the requests they are about, so that the chain
\* tells the order of events, and none is missing in silence: what a process logged
\* is recorded, waiting or counted (audit_pg.py: "rather than losing the write
\* silently").
RecordedOrCounted ==
  /\ \A d, e \in rows : d.at < e.at => recorded[d.at] <= recorded[e.at]
  /\ Cardinality(Lost) <= failures

\* A logged event is recorded or given up, unless the process is killed first:
\* a database that keeps failing does not hold up the queue for ever.
QueueDrains ==
  \A e \in 1..MaxEvents :
    (logged >= e) ~> (\A n \in DOMAIN backlog : backlog[n] # e)
=============================================================================
