------------------------------ MODULE Sessions ------------------------------
(***************************************************************************)
(* The authorization-session runtime (backend/api/routes/sessions.py).     *)
(*                                                                         *)
(* A session row is created by a hand-off, consulted by every decision,    *)
(* restored by step-up and closed by revocation.  Each API request runs in *)
(* a thread of its own and works as the handlers do on PostgreSQL: it      *)
(* locks and reads the row (SELECT ... FOR UPDATE), computes, commits and  *)
(* thereby releases the lock.  A request can die at any point; what it had *)
(* not committed is rolled back.  The audit event a handler appends after  *)
(* its commit touches no session: BackendAudit models it.                  *)
(***************************************************************************)
EXTENDS Naturals

CONSTANTS
  Requests,        \* request threads of the API process
  SessionIds,      \* ids new session rows can get
  Keys,            \* Idempotency-Key headers
  Actions,         \* action names
  Wildcard,        \* the action name "*"
  Merchants,       \* merchant DIDs
  Currencies,      \* currency codes, already upper-cased
  DefaultCurrency, \* "USD"
  Delegations,     \* delegations in the registry
  Parent,          \* [Delegations -> its parent in the registry, or None]
  Bodies,          \* hand-off requests callers send
  Inputs,          \* action requests callers send
  Scores,          \* totals compute_trust_score returns for a credential
  Production,      \* _is_production()
  MaxClock,        \* bound: last instant the clock reaches
  None             \* an absent value

AllowThreshold  == 75
StepUpThreshold == 50
\* Broken variant: the fail-safe default forgets production.
LenientDefault == 80
DefaultUnscored == IF Production THEN StepUpThreshold ELSE 80

\* ttl is in ticks of the clock, which may be longer than a session's life.
Scope == [actions : SUBSET Actions, max : Nat \cup {None},
          currency : Currencies \cup {None}, merchants : SUBSET Merchants]
Body  == [scope : Scope, commerce : BOOLEAN, ttl : Nat,
          delegation : Delegations \cup {None}]
Input == [action : Actions, amount : Nat \cup {None},
          currency : Currencies \cup {None}, merchant : Merchants \cup {None},
          simulate : (0..100) \cup {None}]

ASSUME ConstantsAssumption ==
  /\ Wildcard \in Actions
  /\ DefaultCurrency \in Currencies
  /\ Parent \in [Delegations -> Delegations \cup {None}]
  /\ Bodies \subseteq Body
  /\ Inputs \subseteq Input
  /\ Scores \subseteq 0..100
  /\ Production \in BOOLEAN
  /\ MaxClock \in Nat
  /\ None \notin Nat \cup Currencies \cup Merchants \cup Delegations
                     \cup SessionIds \cup Requests \cup Keys

\* Chains of delegations are within the cascade's guard of 16 levels; rings and
\* longer chains are the subject of module Delegations.
ASSUME TreeAssumption ==
  \E depth \in [Delegations -> 0..16] : \A d \in Delegations :
    Parent[d] # None => depth[d] = depth[Parent[d]] + 1

VARIABLES
  clock,      \* the current time
  rows,       \* authorization_sessions, None where no row exists
  spent,      \* mandate_spends summed per session and currency
  lock,       \* the request holding each row's FOR UPDATE lock
  req,        \* what each request has read and where it is
  registry,   \* delegations whose registry row has revoked_at set
  bits        \* delegations whose status-list bit is set

vars == <<clock, rows, spent, lock, req, registry, bits>>

Statuses  == {"active", "step_up_required", "expired", "revoked"}
Decisions == {"none", "allow", "step_up", "block"}

\* cascaded: the delegations that last_decision names as revoked with the session.
Row == [body : Body, key : Keys \cup {None}, status : Statuses,
        score : (0..100) \cup {None}, scored : BOOLEAN, expires : Nat,
        steppedUp : BOOLEAN, last : Decisions, cascaded : SUBSET Delegations]

ASSUME AbsentAssumption == None \notin Row

Ledger == [Currencies -> Nat]

Working == {"deciding", "steppingUp", "cascading", "setting", "revoking"}

\* marked: delegations revoked in the open transaction, target the one whose bit
\* is being set; seen: the bits set_revoked has read; cascaded: what it will report.
NoRequest ==
  [pc |-> "idle", session |-> None, now |-> 0, row |-> None, in |-> None,
   spent |-> None, marked |-> {}, target |-> None, seen |-> {}, cascaded |-> {}]

Exists(s) == rows[s] # None

-----------------------------------------------------------------------------
(* Decisions: the pure part of decide_action.                              *)

DecideFromScore(score) ==
  IF score >= AllowThreshold THEN "allow"
  ELSE IF score >= StepUpThreshold THEN "step_up" ELSE "block"

ScopeDenied(scope, in) ==
  scope.actions # {} /\ in.action # Wildcard /\ in.action \notin scope.actions

MandateExceeded(scope, in) ==
  \/ in.amount # None /\ scope.max # None /\ in.amount > scope.max
  \/ in.currency # None /\ scope.currency # None /\ in.currency # scope.currency

IsPurchase(row, in) == row.body.commerce /\ in.amount # None

BudgetCurrency(scope, in) ==
  IF in.currency # None THEN in.currency
  ELSE IF scope.currency # None THEN scope.currency ELSE DefaultCurrency

MerchantAllowed(scope, in) ==
  scope.merchants # {} => in.merchant \in scope.merchants

OverBudget(scope, in, ledger) ==
  scope.max # None /\ ledger[BudgetCurrency(scope, in)] + in.amount > scope.max

\* Scope, merchant and budget, and only then a step-up that is pending.
PolicyVerdict(row, in, ledger) ==
  LET scope == row.body.scope IN
  IF \/ ScopeDenied(scope, in)
     \/ MandateExceeded(scope, in)
     \/ /\ IsPurchase(row, in)
        /\ ~MerchantAllowed(scope, in) \/ OverBudget(scope, in, ledger)
  THEN "policy"
  ELSE IF row.status = "step_up_required" THEN "pending" ELSE "scored"

\* Broken variants: expiry read from the status label; expiry tested before
\* revocation.
VerdictByLabel(row, in, now, ledger) ==
  IF row.status \in {"revoked", "expired"} THEN row.status
  ELSE PolicyVerdict(row, in, ledger)

VerdictExpiryFirst(row, in, now, ledger) ==
  IF row.expires < now THEN "expired"
  ELSE IF row.status = "revoked" THEN "revoked" ELSE PolicyVerdict(row, in, ledger)

\* The exit decide_action takes, in the order its checks run.
Verdict(row, in, now, ledger) ==
  CASE row.status = "revoked" -> "revoked"
    [] row.status # "revoked" /\ row.expires < now -> "expired"
    [] OTHER -> PolicyVerdict(row, in, ledger)

Score(row, in) ==
  IF in.simulate # None /\ ~Production THEN in.simulate
  ELSE IF row.score # None THEN row.score ELSE DefaultUnscored

-----------------------------------------------------------------------------
Init ==
  /\ clock = 0
  /\ rows = [s \in SessionIds |-> None]
  /\ spent = [s \in SessionIds |-> [c \in Currencies |-> 0]]
  /\ lock = [s \in SessionIds |-> None]
  /\ req = [r \in Requests |-> NoRequest]
  /\ registry = {}
  /\ bits = {}

\* POST /v1/sessions.  A key that names a row answers with that row (or 409)
\* and changes nothing; two rows with the key make one_or_none() raise.  Bound: no
\* hand-off starts once all of SessionIds are taken.
CreateLookup(r, body, key) ==
  /\ req[r].pc = "idle"
  /\ \E s \in SessionIds : ~Exists(s)
  /\ key # None => \A s \in SessionIds : Exists(s) => rows[s].key # key
  /\ req' = [req EXCEPT ![r].pc = "creating", ![r].in = [body |-> body, key |-> key]]
  /\ UNCHANGED <<clock, rows, spent, lock, registry, bits>>

CreateInsert(r, s, total) ==
  /\ req[r].pc = "creating"
  /\ ~Exists(s)
  /\ LET body == req[r].in.body IN
     rows' = [rows EXCEPT ![s] =
       [body |-> body, key |-> req[r].in.key, status |-> "active",
        score |-> total, scored |-> total # None,
        expires |-> clock + body.ttl, steppedUp |-> FALSE, last |-> "none",
        cascaded |-> {}]]
  /\ req' = [req EXCEPT ![r] = NoRequest]
  /\ UNCHANGED <<clock, spent, lock, registry, bits>>

\* Broken variant: the row is read without FOR UPDATE.
ReadUnlocked(r, s, pc, in) ==
  /\ req[r].pc = "idle"
  /\ Exists(s)
  /\ lock' = [lock EXCEPT ![s] = r]
  /\ req' = [req EXCEPT ![r] =
       [NoRequest EXCEPT !.pc = pc, !.session = s, !.now = clock, !.row = rows[s],
                         !.in = in, !.spent = spent[s]]]
  /\ UNCHANGED <<clock, rows, spent, registry, bits>>

\* _get_session(..., for_update=True): wait for the row lock, then read.
LockRow(r, s, pc, in) ==
  /\ req[r].pc = "idle"
  /\ Exists(s)
  /\ lock[s] = None
  /\ lock' = [lock EXCEPT ![s] = r]
  /\ req' = [req EXCEPT ![r] =
       [NoRequest EXCEPT !.pc = pc, !.session = s, !.now = clock, !.row = rows[s],
                         !.in = in, !.spent = spent[s]]]
  /\ UNCHANGED <<clock, rows, spent, registry, bits>>

Release(r) == lock' = [lock EXCEPT ![req[r].session] = None]

\* db.commit(), or the end of a transaction that wrote nothing.
Answer(r) ==
  /\ Release(r)
  /\ req' = [req EXCEPT ![r] = NoRequest]

ReadVerdict(r) == Verdict(req[r].row, req[r].in, req[r].now, req[r].spent)

\* A revoked session, or one whose step-up is pending: nothing is written.
DecideRefused(r) ==
  /\ req[r].pc = "deciding"
  /\ ReadVerdict(r) \in {"revoked", "pending"}
  /\ Answer(r)
  /\ UNCHANGED <<clock, rows, spent, registry, bits>>

DecideExpired(r) ==
  /\ req[r].pc = "deciding"
  /\ ReadVerdict(r) = "expired"
  /\ rows' = [rows EXCEPT ![req[r].session].status = "expired",
                          ![req[r].session].last = "block"]
  /\ Answer(r)
  /\ UNCHANGED <<clock, spent, registry, bits>>

\* Broken variant: a policy block resets the status, and with it a pending
\* step-up.
DecideBlockedReactivating(r) ==
  /\ req[r].pc = "deciding"
  /\ ReadVerdict(r) = "policy"
  /\ rows' = [rows EXCEPT ![req[r].session].last = "block",
                          ![req[r].session].status = "active"]
  /\ Answer(r)
  /\ UNCHANGED <<clock, spent, registry, bits>>

\* Scope, merchant and budget blocks (_check_scope, _commerce_block).
DecideBlocked(r) ==
  /\ req[r].pc = "deciding"
  /\ ReadVerdict(r) = "policy"
  /\ rows' = [rows EXCEPT ![req[r].session].last = "block"]
  /\ Answer(r)
  /\ UNCHANGED <<clock, spent, registry, bits>>

\* The trust decision; an allowed purchase is charged in the same commit.
DecideScored(r) ==
  LET s        == req[r].session
      in       == req[r].in
      score    == Score(req[r].row, in)
      decision == DecideFromScore(score)
      charged  == decision = "allow" /\ IsPurchase(req[r].row, in)
      currency == BudgetCurrency(req[r].row.body.scope, in)
  IN
  /\ req[r].pc = "deciding"
  /\ ReadVerdict(r) = "scored"
  /\ rows' = [rows EXCEPT
       ![s].score = score, ![s].last = decision,
       ![s].status = IF decision = "step_up" THEN "step_up_required" ELSE @]
  /\ spent' = IF charged THEN [spent EXCEPT ![s][currency] = @ + in.amount]
              ELSE spent
  /\ Answer(r)
  /\ UNCHANGED <<clock, registry, bits>>

\* POST /{id}/step_up: refused only when the session is revoked.
StepUpRefused(r) ==
  /\ req[r].pc = "steppingUp"
  /\ req[r].row.status = "revoked"
  /\ Answer(r)
  /\ UNCHANGED <<clock, rows, spent, registry, bits>>

\* Broken variant: the +20 of a step-up is not capped.
RaisedUncapped(score) == 20 + IF score # None THEN score ELSE StepUpThreshold

Raised(score) ==
  LET base == IF score # None THEN score ELSE StepUpThreshold
  IN IF base + 20 > 100 THEN 100 ELSE base + 20

\* Broken variant: a revoked session can be stepped up.
StepUpAnyway(r) ==
  LET s == req[r].session IN
  /\ req[r].pc = "steppingUp"
  /\ rows' = [rows EXCEPT
       ![s].score = Raised(req[r].row.score), ![s].status = "active",
       ![s].steppedUp = TRUE, ![s].last = "allow"]
  /\ Answer(r)
  /\ UNCHANGED <<clock, spent, registry, bits>>

StepUpCommit(r) ==
  LET s == req[r].session IN
  /\ req[r].pc = "steppingUp"
  /\ req[r].row.status # "revoked"
  /\ rows' = [rows EXCEPT
       ![s].score = Raised(req[r].row.score), ![s].status = "active",
       ![s].steppedUp = TRUE, ![s].last = "allow"]
  /\ Answer(r)
  /\ UNCHANGED <<clock, spent, registry, bits>>

\* POST /{id}/revoke with cascade.  The walk revokes the session's delegation and
\* then children of what it has revoked, in any order: the registry row in the
\* session's transaction ...
NextOfWalk(r, d) ==
  IF req[r].marked = {} THEN d = req[r].row.body.delegation
  ELSE d \notin req[r].marked /\ Parent[d] \in req[r].marked

MarkDelegation(r, d) ==
  /\ req[r].pc = "cascading"
  /\ NextOfWalk(r, d)
  /\ req' = [req EXCEPT ![r].pc = "setting", ![r].marked = @ \cup {d},
                        ![r].target = d, ![r].seen = bits]
  /\ UNCHANGED <<clock, rows, spent, lock, registry, bits>>

\* ... and its bit in another one: set_revoked writes back all the bits it has read.
SetBit(r) ==
  /\ req[r].pc = "setting"
  /\ bits' = IF req[r].target \in req[r].seen THEN bits
             ELSE req[r].seen \cup {req[r].target}
  /\ req' = [req EXCEPT ![r].pc = "cascading", ![r].target = None,
                        ![r].seen = {}]
  /\ UNCHANGED <<clock, rows, spent, lock, registry>>

\* No bit was allotted, or set_revoked raised: nobody hears of it.
SkipBit(r) ==
  /\ req[r].pc = "setting"
  /\ req' = [req EXCEPT ![r].pc = "cascading", ![r].target = None,
                        ![r].seen = {}]
  /\ UNCHANGED <<clock, rows, spent, lock, registry, bits>>

CascadeDone(r) ==
  /\ req[r].pc = "cascading" /\ req[r].marked # {}
  /\ \A d \in Delegations : ~NextOfWalk(r, d)
  /\ req' = [req EXCEPT ![r].pc = "revoking",
                        ![r].cascaded = req[r].marked \ {req[r].row.body.delegation}]
  /\ UNCHANGED <<clock, rows, spent, lock, registry, bits>>

\* Broken variant: the exception leaves the list of what was revoked so far.
CascadeFailsReporting(r) ==
  /\ req[r].pc = "cascading"
  /\ req' = [req EXCEPT ![r].pc = "revoking",
                        ![r].cascaded = req[r].marked \ {req[r].row.body.delegation}]
  /\ UNCHANGED <<clock, rows, spent, lock, registry, bits>>

\* The delegation is not in the registry, or the walk raised somewhere: it is
\* caught, nothing is reported, and what was revoked so far stays so.
CascadeFails(r) ==
  /\ req[r].pc = "cascading"
  /\ req' = [req EXCEPT ![r].pc = "revoking"]
  /\ UNCHANGED <<clock, rows, spent, lock, registry, bits>>

RevokeCommit(r) ==
  /\ req[r].pc = "revoking"
  /\ rows' = [rows EXCEPT ![req[r].session].status = "revoked",
                          ![req[r].session].last = "block",
                          ![req[r].session].cascaded = req[r].cascaded]
  /\ registry' = registry \cup req[r].marked
  /\ Answer(r)
  /\ UNCHANGED <<clock, spent, bits>>

RevokeLock(r, s, cascade) ==
  LockRow(r, s, IF cascade /\ rows[s].body.delegation # None
                THEN "cascading" ELSE "revoking", None)

\* An exception or a killed process: the transaction rolls back.
Crash(r) ==
  /\ req[r].pc # "idle"
  /\ IF req[r].pc \in Working THEN Release(r) ELSE lock' = lock
  /\ req' = [req EXCEPT ![r] = NoRequest]
  /\ UNCHANGED <<clock, rows, spent, registry, bits>>

Tick ==
  /\ clock < MaxClock
  /\ clock' = clock + 1
  /\ UNCHANGED <<rows, spent, lock, req, registry, bits>>

Handle(r) ==
  \/ \E s \in SessionIds, total \in Scores \cup {None} : CreateInsert(r, s, total)
  \/ DecideRefused(r) \/ DecideExpired(r) \/ DecideBlocked(r) \/ DecideScored(r)
  \/ StepUpRefused(r) \/ StepUpCommit(r)
  \/ \E d \in Delegations : MarkDelegation(r, d)
  \/ SetBit(r) \/ SkipBit(r) \/ CascadeDone(r) \/ CascadeFails(r)
  \/ RevokeCommit(r)

Call(r) ==
  \/ \E body \in Bodies, key \in Keys \cup {None} : CreateLookup(r, body, key)
  \/ \E s \in SessionIds :
       \/ \E in \in Inputs : LockRow(r, s, "deciding", in)
       \/ LockRow(r, s, "steppingUp", None)
       \/ \E cascade \in BOOLEAN : RevokeLock(r, s, cascade)

Next ==
  \/ \E r \in Requests : Call(r) \/ Handle(r) \/ Crash(r)
  \/ Tick

Spec == Init /\ [][Next]_vars

-----------------------------------------------------------------------------
Request ==
  [pc : {"idle", "creating"} \cup Working,
   session : SessionIds \cup {None}, now : 0..MaxClock, row : Row \cup {None},
   in : Inputs \cup [body : Bodies, key : Keys \cup {None}] \cup {None},
   spent : Ledger \cup {None}, marked : SUBSET Delegations,
   target : Delegations \cup {None}, seen : SUBSET Delegations,
   cascaded : SUBSET Delegations]

\* Every variable has its type; a request at work names a session that exists.
TypeOK ==
  /\ clock \in 0..MaxClock
  /\ rows \in [SessionIds -> Row \cup {None}]
  /\ spent \in [SessionIds -> Ledger]
  /\ lock \in [SessionIds -> Requests \cup {None}]
  /\ req \in [Requests -> Request]
  /\ registry \subseteq Delegations
  /\ bits \subseteq Delegations
  /\ \A r \in Requests : req[r].pc \in Working =>
       req[r].session \in SessionIds /\ Exists(req[r].session)

\* The cumulative spend of a commerce session never passes max_amount in any
\* currency, however decisions on it interleave (decide_action's budget check
\* reads the ledger and records the charge under the row lock).
BudgetRespected ==
  \A s \in SessionIds, c \in Currencies :
    Exists(s) /\ rows[s].body.scope.max # None =>
      spent[s][c] <= rows[s].body.scope.max

\* Once revoke_session has committed nothing re-opens, re-decides or charges
\* the session: no step-up, expiry or decision that read it before undoes it.
RevokedIsFinal ==
  [][\A s \in SessionIds : Exists(s) /\ rows[s].status = "revoked" =>
       /\ rows'[s].status = "revoked"
       /\ rows'[s].last = "block"
       /\ spent'[s] = spent[s]]_vars

\* No charge is made by a decision that read the clock after the session's
\* expiry, even when a step-up has put an expired session back to active.
NoChargeAfterExpiry ==
  [][\A s \in SessionIds : spent'[s] # spent[s] =>
       \E r \in Requests : /\ lock[s] = r
                           /\ req[r].now <= rows[s].expires]_vars

\* While a step-up is pending no decision charges the session, and only
\* completing the step-up makes it active again.
PendingStepUpHolds ==
  [][\A s \in SessionIds : Exists(s) /\ rows[s].status = "step_up_required" =>
       /\ spent'[s] = spent[s]
       /\ rows'[s].status = "active" => rows'[s].steppedUp]_vars

\* In production a session opened without a scored credential is never allowed
\* anything before a step-up has completed (the fail-safe default of
\* decide_action).
UnscoredNeedsStepUp ==
  Production =>
    \A s \in SessionIds : Exists(s) /\ ~rows[s].scored /\ ~rows[s].steppedUp =>
      rows[s].last # "allow" /\ \A c \in Currencies : spent[s][c] = 0

\* A cascade that was interrupted has revoked from the session's delegation
\* downwards, without gaps, and only with the session itself.
MarkedFromTheTop ==
  \A d \in registry :
    \/ Parent[d] \in registry
    \/ \E s \in SessionIds : /\ Exists(s) /\ rows[s].status = "revoked"
                            /\ rows[s].body.delegation = d

\* A revocation that reports delegations has revoked each of them and left out
\* none below the session's.
ReportIsComplete ==
  \A s \in SessionIds : Exists(s) /\ rows[s].cascaded # {} =>
    /\ rows[s].status = "revoked"
    /\ rows[s].cascaded \subseteq registry
    /\ \A d \in Delegations :
         Parent[d] \in {rows[s].body.delegation} \cup rows[s].cascaded =>
           d \in rows[s].cascaded

\* Bits that are set, or about to be written back, without a registry row that is
\* revoked or will be with the session.
Stray ==
  (bits \cup UNION {req[r].seen : r \in Requests})
    \ (registry \cup UNION {req[r].marked : r \in Requests})

\* Session, registry and status list after a revocation with cascade, whatever
\* fails on the way: registry rows follow the session from its delegation down,
\* what is reported is all of it, and only a request that dies leaves a bit
\* without its registry row.  (A row without its bit is what a failing
\* set_revoked leaves.)
RegistryFollowsSession ==
  /\ [](MarkedFromTheTop /\ ReportIsComplete)
  /\ [][Stray' \subseteq Stray \/ \E r \in Requests : Crash(r)]_vars

-----------------------------------------------------------------------------
Phase(s) ==
  IF ~Exists(s) THEN "none"
  ELSE CASE rows[s].status = "active" -> "open"
         [] rows[s].status = "revoked" -> "closed"
         [] OTHER -> "held"

Contract == INSTANCE SessionContract WITH
  Limits <- {body.scope.max : body \in Bodies}, NoLimit <- None,
  Amounts <- {in.amount : in \in Inputs} \ {None},
  phase <- [s \in SessionIds |-> Phase(s)],
  limit <- [s \in SessionIds |->
              IF Exists(s) THEN rows[s].body.scope.max ELSE None],
  used <- spent

\* The runtime keeps the promise of SessionContract.
KeepsContract == Contract!Spec
=============================================================================
