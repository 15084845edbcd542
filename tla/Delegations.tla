---------------------------- MODULE Delegations ----------------------------
(***************************************************************************)
(* The delegation registry (backend/api/routes/delegations.py).            *)
(*                                                                         *)
(* Callers register the delegations they have issued, naming any parent    *)
(* they like.  A revocation updates one row, sets its status-list bit and, *)
(* with cascade, walks down the children depth first; all its updates      *)
(* become visible at one commit.  Rows are not locked before they are      *)
(* updated: registrations, and revocations of other delegations, go on in  *)
(* between.  What setting a bit does to the status list is in StatusLists. *)
(***************************************************************************)
EXTENDS Naturals, Sequences

CONSTANTS
  Requests,       \* request threads
  Delegations,    \* jtis of delegation tokens
  Tenants,        \* tenants callers act for
  Registrations,  \* register requests callers send
  Guard,          \* the deepest recursion of _cascade_revoke (15)
  Absent          \* an absent value

Registration == [jti : Delegations, tenant : Tenants,
                 parent : Delegations \cup {Absent}]

\* revoked: revoked_at is set.
Row == [tenant : Tenants, parent : Delegations \cup {Absent}, revoked : BOOLEAN]

ASSUME RegistryConstants ==
  /\ Registrations \subseteq Registration
  /\ Guard \in Nat
  /\ Absent \notin Delegations \cup Row

VARIABLES
  registry,       \* delegation_registry, Absent where there is no row
  req             \* what each request is doing and has read

vars == <<registry, req>>

\* target: the delegation at hand; frames: the children still to be visited, one
\* set per active call of _cascade_revoke; marked: rows updated and thereby
\* locked; due: the delegations a revocation was to reach when it began, kept
\* for the properties.
NoRequest == [pc |-> "idle", target |-> Absent, tenant |-> Absent, parent |-> Absent,
              cascade |-> FALSE, frames |-> <<>>, marked |-> {}, due |-> {}]

Exists(d) == registry[d] # Absent

Owned(d, tenant) == Exists(d) /\ registry[d].tenant = tenant

RegistryInit ==
  /\ registry = [d \in Delegations |-> Absent]
  /\ req = [r \in Requests |-> NoRequest]

Takes(r, next) == req' = [req EXCEPT ![r] = next]

-----------------------------------------------------------------------------
(* POST /v1/delegations/register                                           *)

RegisterLookup(r, reg) ==
  /\ req[r].pc = "idle"
  /\ ~Exists(reg.jti)
  /\ Takes(r, [NoRequest EXCEPT !.pc = "registering", !.target = reg.jti,
              !.tenant = reg.tenant, !.parent = reg.parent])
  /\ UNCHANGED registry

NewRow(r) ==
  [tenant |-> req[r].tenant, parent |-> req[r].parent, revoked |-> FALSE]

\* Broken variant: a row that is there is written over.
InsertOver(r) ==
  /\ req[r].pc = "registering"
  /\ registry' = [registry EXCEPT ![req[r].target] = NewRow(r)]
  /\ Takes(r, NoRequest)

\* jti is the primary key: an insertion that comes second raises.
Insert(r) ==
  /\ req[r].pc = "registering"
  /\ registry' = [registry EXCEPT ![req[r].target] =
                    IF @ = Absent THEN NewRow(r) ELSE @]
  /\ Takes(r, NoRequest)

-----------------------------------------------------------------------------
(* POST /v1/delegations/revoke                                             *)

\* The rows of a tenant at most n levels below d, and d.
Below(d, tenant, n) ==
  LET within[k \in 0..n] ==
        IF k = 0 THEN {d}
        ELSE within[k - 1] \cup
             {c \in Delegations : Owned(c, tenant) /\ registry[c].parent \in within[k - 1]}
  IN  within[n]

\* _revoke_single finds the row of the delegation named in the request.
RevokeLookup(r, d, tenant, cascade) ==
  /\ req[r].pc = "idle"
  /\ Owned(d, tenant)
  /\ Takes(r, [NoRequest EXCEPT !.pc = "updating", !.target = d, !.tenant = tenant,
              !.cascade = cascade,
              !.due = Below(d, tenant, IF cascade THEN Guard + 1 ELSE 0)])
  /\ UNCHANGED registry

\* Broken variant: the UPDATE does not wait.
UpdateRowAtOnce(r) ==
  /\ req[r].pc = "updating"
  /\ Takes(r, [req[r] EXCEPT !.pc = "setting", !.marked = @ \cup {req[r].target}])
  /\ UNCHANGED registry

\* The UPDATE waits for a request that has updated the row and not committed.
UpdateRow(r) ==
  /\ req[r].pc = "updating"
  /\ \A q \in Requests \ {r} : req[r].target \notin req[q].marked
  /\ Takes(r, [req[r] EXCEPT !.pc = "setting", !.marked = @ \cup {req[r].target}])
  /\ UNCHANGED registry

\* Broken variant: _revoke_single starts over when set_revoked raises.
SetBitRetrying(r) ==
  /\ req[r].pc = "setting"
  /\ \/ Takes(r, [req[r] EXCEPT !.pc = IF req[r].cascade THEN "fetching" ELSE "looping"])
     \/ Takes(r, [req[r] EXCEPT !.pc = "updating"])
  /\ UNCHANGED registry

\* set_revoked returns or raises, or the row names no entry of a status list:
\* _revoke_single returns in either case.
SetBit(r) ==
  /\ req[r].pc = "setting"
  /\ Takes(r, [req[r] EXCEPT !.pc = IF req[r].cascade THEN "fetching" ELSE "looping"])
  /\ UNCHANGED registry

\* Broken variant: only the children that are not revoked yet are selected.
ChildrenUnrevoked(d, tenant) ==
  {c \in Delegations : /\ Owned(c, tenant) /\ registry[c].parent = d
                       /\ ~registry[c].revoked}

Children(d, tenant) ==
  {c \in Delegations : Owned(c, tenant) /\ registry[c].parent = d}

\* Calls that have no child left return.
Returned(frames) ==
  LET live == {n \in DOMAIN frames : frames[n] # {}}
      last == CHOOSE n \in live \cup {0} : \A m \in live : m <= n
  IN  SubSeq(frames, 1, last)

\* _cascade_revoke is called with the delegation at hand.
Fetch(r) ==
  LET children == IF Len(req[r].frames) > Guard THEN {}
                  ELSE Children(req[r].target, req[r].tenant)
  IN
  /\ req[r].pc = "fetching"
  /\ Takes(r, [req[r] EXCEPT !.pc = "looping", !.frames = Returned(Append(@, children))])
  /\ UNCHANGED registry

\* The innermost call turns to its next child, in whatever order the rows came.
Visit(r, c) ==
  LET last == Len(req[r].frames) IN
  /\ req[r].pc = "looping" /\ last > 0
  /\ c \in req[r].frames[last]
  /\ Takes(r, [req[r] EXCEPT !.pc = "updating", !.target = c,
              !.frames[last] = @ \ {c}])
  /\ UNCHANGED registry

Commit(r) ==
  /\ req[r].pc = "looping" /\ req[r].frames = <<>>
  /\ registry' = [d \in Delegations |->
       IF d \in req[r].marked THEN [registry[d] EXCEPT !.revoked = TRUE] ELSE registry[d]]
  /\ Takes(r, NoRequest)

-----------------------------------------------------------------------------
\* An exception or a dead process: the open transaction is rolled back.
Die(r) ==
  /\ req[r].pc # "idle"
  /\ Takes(r, NoRequest)
  /\ UNCHANGED registry

\* PostgreSQL ends one of the transactions that wait for each other.
BreakDeadlock(r) ==
  /\ \E ring \in SUBSET Requests :
       /\ r \in ring
       /\ \A q \in ring : /\ req[q].pc = "updating"
                          /\ \E p \in ring \ {q} : req[q].target \in req[p].marked
  /\ Die(r)

RegistryWork(r) ==
  \/ Insert(r)
  \/ UpdateRow(r) \/ SetBit(r)
  \/ Fetch(r) \/ (\E c \in Delegations : Visit(r, c)) \/ Commit(r)
  \/ BreakDeadlock(r)

RegistryNext ==
  \E r \in Requests :
    \/ \E reg \in Registrations : RegisterLookup(r, reg)
    \/ \E d \in Delegations, tenant \in Tenants, cascade \in BOOLEAN :
         RevokeLookup(r, d, tenant, cascade)
    \/ RegistryWork(r) \/ Die(r)

RegistrySpec == RegistryInit /\ [][RegistryNext]_vars

\* A handler that has started goes on unless it waits for a row.  Waiters are
\* given a row in the order they came, so one that is let through again and
\* again, whoever overtakes it elsewhere, gets its turn.
FairRegistrySpec == RegistrySpec /\ \A r \in Requests : SF_vars(RegistryWork(r))

-----------------------------------------------------------------------------
Steps == {"idle", "registering", "updating", "setting", "fetching", "looping"}

Request == [pc : Steps, target : Delegations \cup {Absent}, tenant : Tenants \cup {Absent},
            parent : Delegations \cup {Absent}, cascade : BOOLEAN,
            frames : Seq(SUBSET Delegations), marked : SUBSET Delegations,
            due : SUBSET Delegations]

\* Rows and requests have their types, a cascade is never deeper than its guard
\* allows, and no row is updated by two open transactions.
RegistryTypeOK ==
  /\ registry \in [Delegations -> Row \cup {Absent}]
  /\ req \in [Requests -> Request]
  /\ \A r \in Requests : Len(req[r].frames) <= Guard + 1
  /\ \A r, q \in Requests : r # q => req[r].marked \cap req[q].marked = {}

RowRevoked(d) == Exists(d) /\ registry[d].revoked

\* A cascade that commits has revoked every descendant registered when it began,
\* down to the depth of its guard: also those below a child that had been
\* revoked alone before, in whatever order the children came and whatever other
\* requests did meanwhile.
CascadeIsComplete ==
  [][\A r \in Requests : Commit(r) => \A d \in req[r].due : RowRevoked(d)']_vars

\* A delegation is revoked only for its own tenant, even below a parent that
\* another tenant's registration names, and for good: a registration that found no
\* row before it was registered and revoked does not bring it back.
RevokedByItsTenantForGood ==
  [][\A d \in Delegations :
       /\ RowRevoked(d) => RowRevoked(d)'
       /\ ~RowRevoked(d) /\ RowRevoked(d)' =>
            \E r \in Requests : d \in req[r].marked /\ Owned(d, req[r].tenant)]_vars

\* A revocation that has begun ends, even when parents form a ring, other
\* revocations hold the rows it needs, or a status list cannot be written.
RevocationEnds == \A r \in Requests : req[r].pc = "updating" ~> req[r].pc = "idle"
=============================================================================
