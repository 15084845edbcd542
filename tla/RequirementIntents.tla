-------------------------- MODULE RequirementIntents --------------------------
(***************************************************************************)
(* Requirement intents (backend/api/routes/requirement_intents.py).  A     *)
(* confirmation is a chain of transactions: it marks the intent as         *)
(* processing, issues and verifies one credential per requirement, then    *)
(* reads the intent again and stores the outcome.  Nothing locks the row,  *)
(* so confirmations, cancellations and retries of one intent interleave.   *)
(***************************************************************************)
EXTENDS Naturals, FiniteSets

CONSTANTS
  Requests,      \* request threads
  Intents,       \* ids new intents can get
  Creds,         \* ids new credentials can get
  Keys,          \* Idempotency-Keys callers send
  Bodies,        \* request bodies, told apart by their hash
  Count,         \* requirements of an intent
  None           \* an absent value

VARIABLES
  intents,       \* requirement_intents rows, None where there is none
  creds,         \* credentials rows: who issued them for what, None where none
  revoked,       \* credentials that have been revoked
  req,           \* what each request is doing and has read
  abandoned,     \* intents a confirming thread died on, until one is marked anew
  mixed          \* intents whose outcome two confirmations stored at once, until one
                 \* stores alone

vars == <<intents, creds, revoked, req, abandoned, mixed>>

Terminal == {"succeeded", "failed", "canceled"}
Statuses == Terminal \cup {"requires_confirmation", "processing"}
Decisions == {"satisfied", "not_satisfied", "none"}

\* key, body: of the creation; ckey, cbody: of the last confirmation marked.
Intent == [status : Statuses, key : Keys \cup {None}, body : Bodies,
           ckey : Keys \cup {None}, cbody : Bodies \cup {None},
           decision : Decisions, bundle : SUBSET Creds]

Credential == [intent : Intents, key : Keys \cup {None}, nth : 1..Count]

ASSUME ConstantsAssumption ==
  /\ Count \in Nat \ {0}
  /\ None \notin Intent \cup Credential \cup Intents \cup Keys \cup Bodies

\* seen: the row as last read; issued: this confirmation's credentials;
\* good: those that verified.
NoRequest == [pc |-> "idle", intent |-> None, key |-> None, body |-> None,
              seen |-> None, issued |-> {}, good |-> {}]

Init ==
  /\ intents = [i \in Intents |-> None]
  /\ creds = [c \in Creds |-> None]
  /\ revoked = {}
  /\ req = [r \in Requests |-> NoRequest]
  /\ abandoned = {}
  /\ mixed = {}

\* A confirmation that has marked its intent and not stored its outcome.
Confirming == {"issuing", "verifying", "storing"}

Go(r, next) == req' = [req EXCEPT ![r] = next]

\* Bound: a request starts only if the ids it may need are left.
RoomToCreate ==
  Cardinality({r \in Requests : req[r].pc = "creating"})
    < Cardinality({i \in Intents : intents[i] = None})

RoomToConfirm ==
  Count * (1 + Cardinality({r \in Requests : req[r].pc \in {"marking", "issuing", "verifying"}}))
    <= Cardinality({c \in Creds : creds[c] = None})

\* Ids are interchangeable: any unused one.  RoomToConfirm keeps one for each
\* credential to come.
RoomToIssue == \E c \in Creds : creds[c] = None
FreshCred == CHOOSE c \in Creds : creds[c] = None

\* A flush writes the columns whose value differs from the one read.
Flushed(i, seen, new) ==
  [intents EXCEPT ![i] =
     [f \in DOMAIN new |-> IF new[f] = seen[f] THEN intents[i][f] ELSE new[f]]]

-----------------------------------------------------------------------------
(* POST /v1/requirement_intents                                            *)

\* A key that names a row is answered with it, or with a 409; with two rows
\* one_or_none raises.  Otherwise the row is inserted.
CreateLookup(r, key, body) ==
  /\ req[r].pc = "idle" /\ RoomToCreate
  /\ \/ key = None
     \/ \A i \in Intents : intents[i] # None => intents[i].key # key
  /\ Go(r, [NoRequest EXCEPT !.pc = "creating", !.key = key, !.body = body])
  /\ UNCHANGED <<intents, creds, revoked, abandoned, mixed>>

CreateInsert(r, i) ==
  /\ req[r].pc = "creating"
  /\ intents[i] = None
  /\ intents' = [intents EXCEPT ![i] =
       [status |-> "requires_confirmation", key |-> req[r].key, body |-> req[r].body,
        ckey |-> None, cbody |-> None, decision |-> "none", bundle |-> {}]]
  /\ Go(r, NoRequest)
  /\ UNCHANGED <<creds, revoked, abandoned, mixed>>

-----------------------------------------------------------------------------
(* POST /v1/requirement_intents/{id}/confirm                               *)

IsReplay(i, key) == key # None /\ intents[i].ckey = key

\* The stored key with another body is a 409; with the same body the row is
\* answered as it stands.
ConfirmReplay(r, i, key, body) ==
  /\ req[r].pc = "idle"
  /\ intents[i] # None /\ IsReplay(i, key) /\ intents[i].cbody = body
  /\ UNCHANGED vars

ConfirmLookup(r, i, key, body) ==
  /\ req[r].pc = "idle" /\ RoomToConfirm
  /\ intents[i] # None /\ ~IsReplay(i, key)
  /\ Go(r, [NoRequest EXCEPT !.pc = "marking", !.intent = i, !.key = key,
              !.body = body, !.seen = intents[i]])
  /\ UNCHANGED <<intents, creds, revoked, abandoned, mixed>>

\* Whatever the status was.
MarkProcessing(r) ==
  LET seen == req[r].seen IN
  /\ req[r].pc = "marking"
  /\ intents' = Flushed(req[r].intent, seen,
       [seen EXCEPT !.status = "processing", !.ckey = req[r].key, !.cbody = req[r].body])
  /\ abandoned' = abandoned \ {req[r].intent}
  /\ Go(r, [req[r] EXCEPT !.pc = "issuing", !.seen = None])
  /\ UNCHANGED <<creds, revoked, mixed>>

\* Fresh agents, an index of a status list, a signed credential, its row: for
\* the next requirement.
IssueCredential(r) ==
  LET c == FreshCred IN
  /\ req[r].pc = "issuing" /\ Cardinality(req[r].issued) < Count /\ RoomToIssue
  /\ creds' = [creds EXCEPT ![c] = [intent |-> req[r].intent, key |-> req[r].key,
                                    nth |-> Cardinality(req[r].issued) + 1]]
  /\ Go(r, [req[r] EXCEPT !.pc = "verifying", !.issued = @ \cup {c}])
  /\ UNCHANGED <<intents, revoked, abandoned, mixed>>

\* _verify_with_status: the credential just issued, unless already revoked.
VerifyCredential(r) ==
  /\ req[r].pc = "verifying"
  /\ Go(r, [req[r] EXCEPT !.pc = "issuing",
              !.good = @ \cup {c \in req[r].issued :
                 creds[c].nth = Cardinality(req[r].issued) /\ c \notin revoked}])
  /\ UNCHANGED <<intents, creds, revoked, abandoned, mixed>>

ReadAgain(r) ==
  /\ req[r].pc = "issuing" /\ Cardinality(req[r].issued) = Count
  /\ Go(r, [req[r] EXCEPT !.pc = "storing", !.seen = intents[req[r].intent]])
  /\ UNCHANGED <<intents, creds, revoked, abandoned, mixed>>

\* Nothing keeps two confirmations from having read the row at once; each then
\* writes the columns in which its outcome differs from what it read.
MixedBy(r) ==
  LET i == req[r].intent IN
  IF \E q \in Requests \ {r} : req[q].pc = "storing" /\ req[q].intent = i
  THEN mixed \cup {i}
  ELSE IF intents[i] = req[r].seen THEN mixed \ {i} ELSE mixed

\* Broken variants of the last transaction: the new credentials are added to
\* the bundle; the status is left when a requirement is not satisfied.
StoreAppending(r) ==
  LET seen == req[r].seen
      ok == req[r].good = req[r].issued IN
  /\ req[r].pc = "storing"
  /\ intents' = Flushed(req[r].intent, seen,
       [seen EXCEPT !.status = IF ok THEN "succeeded" ELSE "failed",
                    !.decision = IF ok THEN "satisfied" ELSE "not_satisfied",
                    !.bundle = @ \cup req[r].issued])
  /\ mixed' = MixedBy(r)
  /\ Go(r, NoRequest)
  /\ UNCHANGED <<creds, revoked, abandoned>>

StoreSatisfied(r) ==
  LET seen == req[r].seen IN
  /\ req[r].pc = "storing"
  /\ IF req[r].good = req[r].issued
     THEN intents' = Flushed(req[r].intent, seen,
            [seen EXCEPT !.status = "succeeded", !.decision = "satisfied",
                         !.bundle = req[r].issued])
     ELSE intents' = intents
  /\ mixed' = MixedBy(r)
  /\ Go(r, NoRequest)
  /\ UNCHANGED <<creds, revoked, abandoned>>

\* The outcome, whatever the status is by now.  decision and bundle are the
\* ones return_mode asks for.
StoreOutcome(r) ==
  LET seen == req[r].seen
      ok == req[r].good = req[r].issued
      decision == IF ok THEN "satisfied" ELSE "not_satisfied" IN
  /\ req[r].pc = "storing"
  /\ \E mode \in {"decision", "bundle", "both"} :
       intents' = Flushed(req[r].intent, seen,
         [seen EXCEPT !.status = IF ok THEN "succeeded" ELSE "failed",
                      !.decision = IF mode = "bundle" THEN "none" ELSE decision,
                      !.bundle = IF mode = "decision" THEN {} ELSE req[r].issued])
  /\ mixed' = MixedBy(r)
  /\ Go(r, NoRequest)
  /\ UNCHANGED <<creds, revoked, abandoned>>

-----------------------------------------------------------------------------
(* POST /v1/requirement_intents/{id}/cancel                                *)

CancelLookup(r, i) ==
  /\ req[r].pc = "idle"
  /\ intents[i] # None /\ intents[i].status \notin Terminal
  /\ Go(r, [NoRequest EXCEPT !.pc = "canceling", !.intent = i, !.seen = intents[i]])
  /\ UNCHANGED <<intents, creds, revoked, abandoned, mixed>>

CancelNothing(r, i) ==
  /\ req[r].pc = "idle"
  /\ intents[i] # None /\ intents[i].status \in Terminal
  /\ UNCHANGED vars

CancelStore(r) ==
  /\ req[r].pc = "canceling"
  /\ intents' = [intents EXCEPT ![req[r].intent].status = "canceled"]
  /\ Go(r, NoRequest)
  /\ UNCHANGED <<creds, revoked, abandoned, mixed>>

-----------------------------------------------------------------------------
\* POST /v1/credentials/{id}/revoke of one of the credentials (StatusLists).
RevokeCredential(c) ==
  /\ creds[c] # None
  /\ revoked' = revoked \cup {c}
  /\ UNCHANGED <<intents, creds, req, abandoned, mixed>>

\* An exception or a dead process: what was committed stays.
Die(r) ==
  /\ req[r].pc # "idle"
  /\ abandoned' = IF req[r].pc \in Confirming THEN abandoned \cup {req[r].intent}
                  ELSE abandoned
  /\ Go(r, NoRequest)
  /\ UNCHANGED <<intents, creds, revoked, mixed>>

Create(r) ==
  \/ \E key \in Keys \cup {None}, body \in Bodies : CreateLookup(r, key, body)
  \/ \E i \in Intents : CreateInsert(r, i)

Confirm(r, i, key, body) == ConfirmReplay(r, i, key, body) \/ ConfirmLookup(r, i, key, body)

Work(r) ==
  \/ MarkProcessing(r)
  \/ IssueCredential(r) \/ VerifyCredential(r) \/ ReadAgain(r) \/ StoreOutcome(r)

Next ==
  \/ \E r \in Requests :
       \/ Create(r) \/ Work(r) \/ Die(r)
       \/ \E i \in Intents, key \in Keys \cup {None}, body \in Bodies :
            Confirm(r, i, key, body)
       \/ \E i \in Intents : CancelLookup(r, i) \/ CancelNothing(r, i)
       \/ CancelStore(r)
  \/ \E c \in Creds : RevokeCredential(c)

Spec == Init /\ [][Next]_vars

\* A thread that has begun to confirm goes on; no caller has to send anything.
FairSpec == Spec /\ \A r \in Requests : WF_vars(Work(r))

-----------------------------------------------------------------------------
Steps == {"idle", "creating", "marking", "issuing", "verifying", "storing", "canceling"}

Request == [pc : Steps, intent : Intents \cup {None}, key : Keys \cup {None},
            body : Bodies \cup {None}, seen : Intent \cup {None},
            issued : SUBSET Creds, good : SUBSET Creds]

\* The tables and the requests have their types; a confirmation has issued at
\* most one credential per requirement.
TypeOK ==
  /\ intents \in [Intents -> Intent \cup {None}]
  /\ creds \in [Creds -> Credential \cup {None}]
  /\ revoked \subseteq Creds
  /\ req \in [Requests -> Request]
  /\ \A r \in Requests : Cardinality(req[r].issued) <= Count
  /\ abandoned \subseteq Intents /\ mixed \subseteq Intents

Of(i) == {c \in Creds : creds[c] # None /\ creds[c].intent = i}

\* A bundle holds the credentials of one whole confirmation of its intent, one per
\* requirement, however many confirmations wrote at once; and no intent fails unless
\* a credential issued for it was revoked.
BundleIsWhole(i) ==
  LET bundle == intents[i].bundle IN
  /\ bundle # {} => /\ bundle \subseteq Of(i)
                    /\ {creds[c].nth : c \in bundle} = 1..Count
                    /\ Cardinality(bundle) = Count
  /\ intents[i].status = "failed" => Of(i) \cap revoked # {}

\* Status, decision and bundle tell of one confirmation: the decision says what the
\* status says, and a failure shows in the bundle.
OutcomeAgrees(row) ==
  row.status \in {"succeeded", "failed"} =>
    /\ row.decision # "none" => (row.decision = "satisfied" <=> row.status = "succeeded")
    /\ row.status = "failed" /\ row.bundle # {} => row.bundle \cap revoked # {}

OutcomeIsWhole ==
  \A i \in Intents : intents[i] # None => BundleIsWhole(i) /\ (i \in mixed \/ OutcomeAgrees(intents[i]))

\* Rows and requests have their types.  A bundle is always one confirmation's, and so
\* is the outcome around it, whatever marks, cancellations and deaths come between:
\* unless two confirmations had both read the row when one of them stored, which
\* mixes their columns until another stores alone.
BundlesAreSound == TypeOK /\ OutcomeIsWhole

IsProcessing(i) == intents[i] # None /\ intents[i].status = "processing"

\* An intent leaves "processing" unless the thread that was confirming it has
\* died, whatever else is sent; a later confirmation heals an abandoned one.
ProcessingEnds ==
  \A i \in Intents : IsProcessing(i) ~> (~IsProcessing(i) \/ i \in abandoned)

=============================================================================
