------------------------------ MODULE Mandates ------------------------------
(***************************************************************************)
(* AP2 mandates (backend/api/routes/commerce.py).  A human's intent        *)
(* mandate names a maximum; carts are issued against it and fulfilled by   *)
(* POST /v1/commerce/mandates/verify, which passes the replay store, then  *)
(* verifies the parent intent, then locks the spend rows of the intent,    *)
(* sums them and inserts its own in one PostgreSQL transaction.  The rows  *)
(* it reads are those of the caller's tenant: an intent has a budget with  *)
(* each tenant.                                                            *)
(*                                                                         *)
(* A statement under READ COMMITTED sees the rows committed when it began. *)
(* SELECT ... FOR UPDATE then waits for the locks on those rows: a row     *)
(* inserted meanwhile by the transaction it waited for stays unseen.       *)
(***************************************************************************)
EXTENDS JtiStore, FiniteSets, FiniteSetsExt

CONSTANTS
  Requests,    \* request threads
  On,          \* [Requests -> the process each runs in]
  Intents,     \* ids intent mandates can get
  Limit,       \* [Intents -> max_amount]
  Revocable,   \* bound: mandates that may be revoked
  Tenants,     \* tenants whose tokens verify carts
  Carts,       \* ids cart mandates can get
  Totals,      \* cart totals callers ask for
  Lifetimes,   \* lifetimes (ttl_seconds) callers ask for
  MaxClock     \* bound: last instant the clock reaches

ASSUME ConstantsAssumption ==
  /\ On \in [Requests -> Processes]
  /\ IsFiniteSet(Requests) /\ Requests # {} /\ IsFiniteSet(Totals) /\ Totals # {}
  /\ Limit \in [Intents -> Nat \ {0}]
  /\ Totals \subseteq Nat /\ Lifetimes \subseteq Nat \ {0}
  /\ Jtis = Carts /\ Revocable \subseteq Intents \cup Carts
  /\ MaxClock \in Nat
  /\ None \notin Intents \cup Carts \cup Tenants \cup Nat \cup Endpoints

VARIABLES
  clock,       \* the current time
  intents,     \* the expiry of each intent issued, None before
  carts,       \* the carts issued: [intent, total, expires], None before
  revoked,     \* mandates whose status-list bit is set
  spends,      \* carts with a mandate_spends row
  payer,       \* the tenant_id of that row, None where there is none
  req,         \* what each request is doing and has read
  fulfilled    \* how often each cart was answered verified (at most 2)

vars == <<store, table, clock, intents, carts, revoked, spends, payer, req, fulfilled>>

\* seen: rows the FOR UPDATE statement sees; holds: rows it has locked;
\* void: mandates that were already revoked or expired when the request began.
NoRequest == [pc |-> "idle", cart |-> None, tenant |-> None, order |-> None, seen |-> {},
              holds |-> {}, void |-> {}]

Spent(rows) == MapThenSumSet(LAMBDA c : carts[c].total, rows)

SpendsOf(i, t) == {c \in spends : carts[c].intent = i /\ payer[c] = t}

CartExpiry == [c \in Carts |-> IF carts[c] = None THEN 0 ELSE carts[c].expires]

IntentValid(i) == intents[i] # None /\ i \notin revoked /\ clock < intents[i]

Init ==
  /\ StoreInit
  /\ clock = 0
  /\ intents = [i \in Intents |-> None]
  /\ carts = [c \in Carts |-> None]
  /\ revoked = {}
  /\ spends = {}
  /\ payer = [c \in Carts |-> None]
  /\ req = [r \in Requests |-> NoRequest]
  /\ fulfilled = [c \in Carts |-> 0]

Go(r, next) == req' = [req EXCEPT ![r] = next]

-----------------------------------------------------------------------------
(* Issuing and revoking mandates.                                          *)

CreateIntent(i, lifetime) ==
  /\ intents[i] = None
  /\ intents' = [intents EXCEPT ![i] = clock + lifetime]
  /\ UNCHANGED <<store, table, clock, carts, revoked, spends, payer, req, fulfilled>>

\* create_cart_mandate verifies the intent ...
OrderCart(r, i, total, lifetime) ==
  /\ req[r].pc = "idle"
  /\ IntentValid(i) /\ total <= Limit[i]
  /\ Go(r, [NoRequest EXCEPT !.pc = "issuing",
              !.order = [intent |-> i, total |-> total, lifetime |-> lifetime]])
  /\ UNCHANGED <<store, table, clock, intents, carts, revoked, spends, payer, fulfilled>>

\* _issue_mandate
NewCart(order) ==
  [intent |-> order.intent, total |-> order.total, expires |-> clock + order.lifetime]

\* ... and then issues the cart.
IssueCart(r, c) ==
  /\ req[r].pc = "issuing"
  /\ carts[c] = None
  /\ carts' = [carts EXCEPT ![c] = NewCart(req[r].order)]
  /\ Go(r, NoRequest)
  /\ UNCHANGED <<store, table, clock, intents, revoked, spends, payer, fulfilled>>

Revoke(m) ==
  /\ \/ m \in Intents /\ intents[m] # None
     \/ m \in Carts /\ carts[m] # None
  /\ revoked' = revoked \cup {m}
  /\ UNCHANGED <<store, table, clock, intents, carts, spends, payer, req, fulfilled>>

-----------------------------------------------------------------------------
(* POST /v1/commerce/mandates/verify of a cart.                            *)

\* The token itself: signature, expiry, status.  Any tenant may present any cart.
PresentCart(r, c, t) ==
  /\ req[r].pc = "idle"
  /\ carts[c] # None /\ c \notin revoked /\ clock < carts[c].expires
  /\ Go(r, [NoRequest EXCEPT !.pc = "presented", !.cart = c, !.tenant = t,
              !.void = {i \in Intents : ~IntentValid(i)}])
  /\ UNCHANGED <<store, table, clock, intents, carts, revoked, spends, payer, fulfilled>>

PassReplay(r, endpoint) ==
  /\ req[r].pc = "presented"
  /\ Accepts(On[r], req[r].cart, endpoint, CartExpiry, clock, TRUE)
  /\ Go(r, [req[r] EXCEPT !.pc = "checking"])
  /\ UNCHANGED <<clock, intents, carts, revoked, spends, payer, fulfilled>>

FailReplay(r, endpoint) ==
  /\ req[r].pc = "presented"
  /\ Refuses(On[r], req[r].cart, endpoint, CartExpiry, clock, TRUE)
  /\ Go(r, NoRequest)
  /\ UNCHANGED <<clock, intents, carts, revoked, spends, payer, fulfilled>>

\* Broken variant: only the total is compared with the parent intent.
CheckTotal(r) ==
  LET cart == carts[req[r].cart] IN
  /\ req[r].pc = "checking"
  /\ Go(r, [req[r] EXCEPT !.pc =
              IF cart.total <= Limit[cart.intent] THEN "looking" ELSE "checking"])
  /\ UNCHANGED <<store, table, clock, intents, carts, revoked, spends, payer, fulfilled>>

\* The parent intent: signature, expiry, status, maximum.
CheckParent(r) ==
  LET cart == carts[req[r].cart] IN
  /\ req[r].pc = "checking"
  /\ Go(r, IF IntentValid(cart.intent) /\ cart.total <= Limit[cart.intent]
            THEN [req[r] EXCEPT !.pc = "looking"] ELSE NoRequest)
  /\ UNCHANGED <<store, table, clock, intents, carts, revoked, spends, payer, fulfilled>>

LockedByOthers(r) == UNION {req[q].holds : q \in Requests \ {r}}

\* SELECT the spend of this cart FOR UPDATE: another tenant's is not seen.
LookUpCart(r) ==
  LET used == req[r].cart \in spends /\ payer[req[r].cart] = req[r].tenant IN
  /\ req[r].pc = "looking"
  /\ used => req[r].cart \notin LockedByOthers(r)
  /\ Go(r, IF used THEN NoRequest ELSE [req[r] EXCEPT !.pc = "selecting"])
  /\ UNCHANGED <<store, table, clock, intents, carts, revoked, spends, payer, fulfilled>>

\* SELECT the tenant's spends of its intent FOR UPDATE: the statement begins ...
SelectSpends(r) ==
  /\ req[r].pc = "selecting"
  /\ Go(r, [req[r] EXCEPT !.pc = "waiting", !.seen =
                                     SpendsOf(carts[req[r].cart].intent, req[r].tenant)])
  /\ UNCHANGED <<store, table, clock, intents, carts, revoked, spends, payer, fulfilled>>

\* ... and returns once it holds their locks; then the budget is compared.
SumSpends(r) ==
  LET cart == carts[req[r].cart] IN
  /\ req[r].pc = "waiting"
  /\ req[r].seen \cap LockedByOthers(r) = {}
  /\ Go(r, IF Spent(req[r].seen) + cart.total > Limit[cart.intent] THEN NoRequest
            ELSE [req[r] EXCEPT !.pc = "inserting", !.holds = req[r].seen])
  /\ UNCHANGED <<store, table, clock, intents, carts, revoked, spends, payer, fulfilled>>

\* Broken variant: nothing makes cart_jti unique.
InsertAnyway(r) ==
  /\ req[r].pc = "inserting"
  /\ spends' = spends \cup {req[r].cart}
  /\ payer' = [payer EXCEPT ![req[r].cart] = req[r].tenant]
  /\ Go(r, [req[r] EXCEPT !.pc = "answering", !.holds = {}])
  /\ UNCHANGED <<store, table, clock, intents, carts, revoked, fulfilled>>

\* INSERT and commit; the unique cart_jti turns a second one away, whoever's it is.
InsertSpend(r) ==
  /\ req[r].pc = "inserting"
  /\ spends' = spends \cup {req[r].cart}
  /\ payer' = IF req[r].cart \in spends THEN payer
              ELSE [payer EXCEPT ![req[r].cart] = req[r].tenant]
  /\ Go(r, IF req[r].cart \in spends THEN NoRequest
            ELSE [req[r] EXCEPT !.pc = "answering", !.holds = {}])
  /\ UNCHANGED <<store, table, clock, intents, carts, revoked, fulfilled>>

AnswerVerified(r) ==
  /\ req[r].pc = "answering"
  /\ fulfilled' = [fulfilled EXCEPT ![req[r].cart] = IF @ = 2 THEN 2 ELSE @ + 1]
  /\ Go(r, NoRequest)
  /\ UNCHANGED <<store, table, clock, intents, carts, revoked, spends, payer>>

-----------------------------------------------------------------------------
\* An exception, a mandate type the caller did not expect, a dead thread: the
\* open transaction is rolled back.
GiveUp(r) ==
  /\ req[r].pc # "idle"
  /\ Go(r, NoRequest)
  /\ UNCHANGED <<store, table, clock, intents, carts, revoked, spends, payer, fulfilled>>

Restart(p) ==
  /\ Starts(p, CartExpiry, clock, TRUE)
  /\ req' = [r \in Requests |-> IF On[r] = p THEN NoRequest ELSE req[r]]
  /\ UNCHANGED <<clock, intents, carts, revoked, spends, payer, fulfilled>>

Tick ==
  /\ clock < MaxClock
  /\ clock' = clock + 1
  /\ UNCHANGED <<store, table, intents, carts, revoked, spends, payer, req, fulfilled>>

Verify(r) ==
  \/ \E endpoint \in Endpoints : PassReplay(r, endpoint) \/ FailReplay(r, endpoint)
  \/ CheckParent(r) \/ LookUpCart(r) \/ SelectSpends(r) \/ SumSpends(r)
  \/ InsertSpend(r) \/ AnswerVerified(r)

Next ==
  \/ \E i \in Intents, lifetime \in Lifetimes : CreateIntent(i, lifetime)
  \/ \E r \in Requests :
       \/ \E i \in Intents, total \in Totals, lifetime \in Lifetimes :
            OrderCart(r, i, total, lifetime)
       \/ \E c \in Carts : IssueCart(r, c) \/ \E t \in Tenants : PresentCart(r, c, t)
       \/ Verify(r) \/ GiveUp(r)
  \/ \E m \in Revocable : Revoke(m)
  \/ \E p \in Processes : Restart(p)
  \/ Tick

Spec == Init /\ [][Next]_vars

-----------------------------------------------------------------------------
Steps == {"idle", "issuing", "presented", "checking", "looking", "selecting",
          "waiting", "inserting", "answering"}

Cart == [intent : Intents, total : Totals, expires : Nat]

Request == [pc : Steps, cart : Carts \cup {None}, tenant : Tenants \cup {None},
            order : [intent : Intents, total : Totals, lifetime : Lifetimes] \cup {None},
            seen : SUBSET Carts, holds : SUBSET Carts, void : SUBSET Intents]

\* Every table and request has its type; only issued carts are spent, and only
\* spent rows are locked.
TypeOK ==
  /\ StoreTypeOK
  /\ clock \in 0..MaxClock
  /\ intents \in [Intents -> Nat \cup {None}]
  /\ carts \in [Carts -> Cart \cup {None}]
  /\ revoked \subseteq Intents \cup Carts
  /\ spends \subseteq {c \in Carts : carts[c] # None}
  /\ payer \in [Carts -> Tenants \cup {None}]
  /\ req \in [Requests -> Request]
  /\ \A r \in Requests : req[r].holds \subseteq req[r].seen /\ req[r].seen \subseteq spends
  /\ fulfilled \in [Carts -> 0..2]

\* A spend is recorded only against an intent that was neither revoked nor
\* expired when its verification began, even for a cart issued before.
NoSpendOnVoidIntent ==
  [][\A c \in spends' \ spends : \E r \in Requests :
       /\ req[r].pc = "inserting" /\ req[r].cart = c
       /\ carts[c].intent \notin req[r].void]_vars

\* A cart is answered verified once, whichever tenant sends it to whichever process
\* and however often they restart (single-use check and the unique cart_jti), and
\* verifications in flight together overrun the budget of an intent with a tenant by
\* at most one cart each: whoever took its snapshot last has seen every earlier commit.
SpendIsBounded ==
  /\ \A c \in Carts : fulfilled[c] <= 1
  /\ \A i \in Intents, t \in Tenants :
       Spent(SpendsOf(i, t)) <= Limit[i] + (Cardinality(Requests) - 1) * Max(Totals)

\* Rows and requests have their types, and no budget is overspent by more than that.
SpendsAreSound == TypeOK /\ SpendIsBounded

\* What a tenant has spent against an intent never passes its maximum
\* (commerce.py: "Atomically: check single-use, enforce cumulative budget").
BudgetKept == \A i \in Intents, t \in Tenants : Spent(SpendsOf(i, t)) <= Limit[i]
=============================================================================
