--------------------------- MODULE MandatesProofs ---------------------------
(* What the mandate endpoints guarantee for every value of their constants. *)
EXTENDS JtiDedup, Mandates, FiniteSetTheorems, NaturalsInduction, WellFoundedInduction, TLAPS

(***************************************************************************)
(* The strengthening.  A cart's intent has been issued; an intent that was *)
(* void when a verification began is void still (an expiry passes and a    *)
(* revocation lasts), so the check of the parent turns its cart away.  Only*)
(* a request about to insert holds locks.                                  *)
(***************************************************************************)
Verifying == {"presented", "checking", "looking", "selecting", "waiting", "inserting",
              "answering"}

Checked == {"looking", "selecting", "waiting", "inserting"}

Orders == [intent : Intents, total : Totals, lifetime : Lifetimes]

Issued == \A c \in Carts : carts[c] # None => intents[carts[c].intent] # None

Fits(q) ==
  /\ q.pc = "issuing" => q.order \in Orders /\ intents[q.order.intent] # None
  /\ q.pc \in Verifying =>
       /\ q.cart \in Carts /\ carts[q.cart] # None /\ q.tenant \in Tenants
       /\ carts[q.cart].intent \in q.void => ~IntentValid(carts[q.cart].intent)
  /\ q.pc \in Checked => carts[q.cart].intent \notin q.void
  /\ q.pc # "inserting" => q.holds = {}

Inv == TypeOK /\ Issued /\ \A r \in Requests : Fits(req[r])

\* What the assumptions on the constants say, as the proofs use it.
LEMMA Assumptions ==
  /\ On \in [Requests -> Processes] /\ Jtis = Carts /\ MaxClock \in Nat
  /\ Totals \subseteq Nat /\ Lifetimes \subseteq Nat \ {0}
  /\ Revocable \subseteq Intents \cup Carts
  /\ None \notin Nat /\ None \notin Carts /\ None \notin Intents /\ None \notin Endpoints
BY ConstantsAssumption

\* An idle request has its type and neither sees nor locks a spend.
LEMMA NoRequestType ==
  NoRequest \in Request /\ Fits(NoRequest) /\ NoRequest.seen = {} /\ NoRequest.holds = {}
BY DEF NoRequest, Request, Steps, Fits, Verifying, Checked

\* The clock and the expiries are numbers.
LEMMA Numbers ==
  ASSUME TypeOK
  PROVE  clock \in Nat /\ \A i \in Intents : intents[i] # None => intents[i] \in Nat
BY Assumptions DEF TypeOK

\* An issued cart names an issued intent.
LEMMA CartType ==
  ASSUME Inv, NEW c \in Carts, carts[c] # None
  PROVE  carts[c].intent \in Intents /\ intents[carts[c].intent] # None
BY DEF Inv, TypeOK, Issued, Cart

\* An intent issued and void stays void.
LEMMA StaysVoid ==
  ASSUME TypeOK, NEW i \in Intents, intents[i] # None, ~IntentValid(i),
         intents'[i] = intents[i], revoked \subseteq revoked', clock' \in Nat, clock <= clock'
  PROVE  ~(intents'[i] # None /\ i \notin revoked' /\ clock' < intents'[i])
BY Numbers DEF IntentValid

\* The tables grow, and the clock goes on.
Grow ==
  /\ \A i \in Intents : intents[i] # None => intents'[i] = intents[i]
  /\ \A c \in Carts : carts[c] # None => carts'[c] = carts[c]
  /\ revoked \subseteq revoked' /\ clock' \in Nat /\ clock <= clock'

\* What a request carries stays fit for them.
LEMMA StaysFit ==
  ASSUME Inv, Grow, NEW r \in Requests, req'[r] = req[r]
  PROVE  Fits(req[r])'
<1>1. Fits(req[r]) /\ req[r] \in Request
  BY DEF Inv, TypeOK
<1>2. req[r].pc = "issuing" =>
        req[r].order \in Orders /\ intents'[req[r].order.intent] # None
  BY <1>1 DEF Fits, Grow, Orders
<1>3. ASSUME req[r].pc \in Verifying
      PROVE  /\ req[r].cart \in Carts /\ carts'[req[r].cart] = carts[req[r].cart]
             /\ carts[req[r].cart] # None /\ req[r].tenant \in Tenants
             /\ carts[req[r].cart].intent \in req[r].void =>
                  ~(/\ intents'[carts[req[r].cart].intent] # None
                    /\ carts[req[r].cart].intent \notin revoked'
                    /\ clock' < intents'[carts[req[r].cart].intent])
  <2>1. req[r].cart \in Carts /\ carts[req[r].cart] # None /\ req[r].tenant \in Tenants
    BY <1>1, <1>3 DEF Fits
  <2>2. PICK i \in Intents : i = carts[req[r].cart].intent /\ intents[i] # None
    BY <2>1, CartType
  <2>3. i \in req[r].void => ~IntentValid(i)
    BY <1>1, <1>3, <2>2 DEF Fits, IntentValid
  <2>4. ~IntentValid(i) => ~(intents'[i] # None /\ i \notin revoked' /\ clock' < intents'[i])
    BY <2>2, StaysVoid DEF Grow, Inv
  <2> QED
    BY <2>1, <2>2, <2>3, <2>4 DEF Grow
<1>4. /\ req[r].pc \in Checked => req[r].pc \in Verifying /\ carts[req[r].cart].intent \notin req[r].void
      /\ req[r].pc # "inserting" => req[r].holds = {}
  BY <1>1 DEF Checked, Verifying, Fits
<1> QED
  BY <1>2, <1>3, <1>4 DEF Fits, IntentValid

\* A step of one request that leaves mandates and clock alone.
LEMMA GoInv ==
  ASSUME Inv, NEW r \in Requests, NEW next \in Request, Go(r, next),
         UNCHANGED <<clock, intents, carts, revoked>>, StoreTypeOK',
         spends \subseteq spends', spends' \subseteq {c \in Carts : carts[c] # None},
         payer' \in [Carts -> Tenants \cup {None}], fulfilled' \in [Carts -> 0..2],
         next.holds \subseteq next.seen, next.seen \subseteq spends', Fits(next)
  PROVE  Inv'
<1>1. \A q \in Requests : req'[q] = IF q = r THEN next ELSE req[q]
  BY DEF Go, Inv, TypeOK
<1>2. TypeOK'
  BY <1>1 DEF Go, Inv, TypeOK
<1>3. Grow
  BY Numbers DEF Grow, Inv
<1>4. ASSUME NEW q \in Requests PROVE Fits(req[q])'
  <2>1. CASE q = r
    BY <1>1, <2>1 DEF Fits, IntentValid
  <2>2. CASE q # r
    BY <1>1, <1>3, <2>2, StaysFit
  <2> QED
    BY <2>1, <2>2
<1> QED
  BY <1>2, <1>4 DEF Inv, Issued

\* A request that ends, or is turned away.
LEMMA EndInv ==
  ASSUME Inv, NEW r \in Requests, Go(r, NoRequest),
         UNCHANGED <<clock, intents, carts, revoked, spends, payer>>, StoreTypeOK',
         fulfilled' \in [Carts -> 0..2]
  PROVE  Inv'
BY GoInv, NoRequestType DEF Inv, TypeOK

\* A request that goes on and leaves the tables alone.
LEMMA OnInv ==
  ASSUME Inv, NEW r \in Requests, NEW next \in Request, Go(r, next),
         UNCHANGED <<store, table, clock, intents, carts, revoked, spends, payer, fulfilled>>,
         next.holds \subseteq next.seen, next.seen \subseteq spends, Fits(next)
  PROVE  Inv'
BY GoInv DEF Inv, TypeOK, StoreTypeOK

\* A step that only issues, revokes or passes time keeps the invariant.
LEMMA TableInv ==
  ASSUME Inv, Grow, StoreTypeOK', clock' \in 0..MaxClock,
         intents' \in [Intents -> Nat \cup {None}], carts' \in [Carts -> Cart \cup {None}],
         revoked' \subseteq Intents \cup Carts, UNCHANGED <<spends, payer, fulfilled>>,
         \A c \in Carts : carts[c] # None => carts'[c] # None, Issued',
         \A r \in Requests : req'[r] = req[r], req' = req
  PROVE  Inv'
<1>1. TypeOK'
  BY DEF Inv, TypeOK
<1> QED
  BY <1>1, StaysFit DEF Inv

\* The replay store.
LEMMA StoreType ==
  ASSUME TypeOK, NEW p \in Processes, NEW c \in Carts, NEW endpoint \in Endpoints,
         \/ Accepts(p, c, endpoint, CartExpiry, clock, TRUE)
         \/ Refuses(p, c, endpoint, CartExpiry, clock, TRUE)
         \/ Starts(p, CartExpiry, clock, TRUE)
  PROVE  StoreTypeOK'
<1>1. c \in Jtis /\ Kept(p, CartExpiry, clock) \subseteq Jtis
  BY Assumptions DEF Kept, TypeOK, StoreTypeOK
<1> QED
  BY <1>1 DEF Accepts, Refuses, Starts, TypeOK, StoreTypeOK

\* The record of a request with some fields changed.
LEMMA Changed ==
  ASSUME NEW q \in Request, NEW pc \in Steps
  PROVE  LET n == [q EXCEPT !.pc = pc] IN
         /\ n \in Request /\ n.pc = pc /\ n.cart = q.cart /\ n.tenant = q.tenant /\ n.order = q.order
         /\ n.seen = q.seen /\ n.holds = q.holds /\ n.void = q.void
BY DEF Request

\* Empty tables satisfy the invariant.
LEMMA InitInv == Init => Inv
<1> SUFFICES ASSUME Init PROVE Inv
  OBVIOUS
<1>1. TypeOK
  BY NoRequestType, Assumptions DEF Init, StoreInit, TypeOK, StoreTypeOK
<1> QED
  BY <1>1, NoRequestType DEF Init, Inv, Issued

\* Issuing a mandate, revoking one and the passing of time.
LEMMA CreateIntentInv ==
  ASSUME Inv, NEW i \in Intents, NEW lifetime \in Lifetimes, CreateIntent(i, lifetime)
  PROVE  Inv'
<1>1. clock + lifetime \in Nat /\ clock + lifetime # None /\ clock \in Nat
  BY Numbers, Assumptions DEF Inv
<1>2. /\ intents[i] = None /\ intents' = [intents EXCEPT ![i] = clock + lifetime]
      /\ UNCHANGED <<store, table, clock, carts, revoked, spends, payer, req, fulfilled>>
  BY DEF CreateIntent
<1>3. intents' \in [Intents -> Nat \cup {None}]
      /\ \A j \in Intents : intents[j] # None => intents'[j] = intents[j]
  BY <1>1, <1>2 DEF Inv, TypeOK
<1>4. Grow /\ StoreTypeOK' /\ clock' \in 0..MaxClock
  BY <1>1, <1>2, <1>3 DEF Grow, Inv, TypeOK, StoreTypeOK
<1>5. Issued'
  BY <1>2, <1>3, CartType DEF Issued
<1> QED
  BY <1>2, <1>3, <1>4, <1>5, TableInv DEF Inv, TypeOK

\* Revoking a mandate keeps the invariant.
LEMMA RevokeInv == ASSUME Inv, NEW m \in Intents \cup Carts, Revoke(m) PROVE Inv'
<1>1. Grow /\ StoreTypeOK' /\ Issued' /\ clock' \in 0..MaxClock
  BY Numbers DEF Revoke, Grow, Inv, TypeOK, StoreTypeOK, Issued
<1> QED
  BY <1>1, TableInv DEF Revoke, Inv, TypeOK

\* A tick of the clock keeps the invariant.
LEMMA TickInv == ASSUME Inv, Tick PROVE Inv'
<1>1. clock \in Nat /\ clock + 1 \in 0..MaxClock
  BY Numbers, Assumptions DEF Tick, Inv
<1>2. Grow /\ StoreTypeOK' /\ Issued'
  BY <1>1 DEF Tick, Grow, Inv, TypeOK, StoreTypeOK, Issued
<1> QED
  BY <1>1, <1>2, TableInv DEF Tick, Inv, TypeOK

\* A cart that is ordered and not yet issued keeps the invariant.
LEMMA OrderInv ==
  ASSUME Inv, NEW r \in Requests, NEW i \in Intents, NEW total \in Totals,
         NEW lifetime \in Lifetimes, OrderCart(r, i, total, lifetime)
  PROVE  Inv'
<1> DEFINE order == [intent |-> i, total |-> total, lifetime |-> lifetime]
           next == [NoRequest EXCEPT !.pc = "issuing", !.order = order]
<1>1. intents[i] # None
  BY DEF OrderCart, IntentValid
<1>2. order \in Orders /\ order.intent = i
  BY DEF Orders
<1> HIDE DEF order
<1>3. /\ next \in Request /\ next.pc = "issuing" /\ next.order = order
      /\ next.seen = {} /\ next.holds = {}
  BY <1>2 DEF NoRequest, Request, Steps, Orders
<1>4. Go(r, next) /\ UNCHANGED <<store, table, clock, intents, carts, revoked, spends, payer, fulfilled>>
  BY DEF OrderCart, order
<1> HIDE DEF next
<1>5. Fits(next)
  BY <1>1, <1>2, <1>3 DEF Fits, Verifying, Checked
<1> QED
  BY <1>3, <1>4, <1>5, OnInv

\* Issuing a cart keeps the invariant.
LEMMA IssueInv ==
  ASSUME Inv, NEW r \in Requests, NEW c \in Carts, IssueCart(r, c) PROVE Inv'
<1> DEFINE order == req[r].order
<1>1. order \in Orders /\ intents[order.intent] # None
  BY DEF IssueCart, Inv, Fits
<1>2. NewCart(order) \in Cart /\ NewCart(order).intent = order.intent
  <2>1. clock + order.lifetime \in Nat
    <3>1. order.lifetime \in Nat /\ clock \in Nat
      BY <1>1, Numbers, Assumptions DEF Orders, Inv
    <3> QED
      BY <3>1
  <2> QED
    BY <1>1, <2>1 DEF NewCart, Cart, Orders
<1>3. /\ carts[c] = None /\ carts' = [carts EXCEPT ![c] = NewCart(order)]
      /\ req' = [req EXCEPT ![r] = NoRequest]
      /\ UNCHANGED <<store, table, clock, intents, revoked, spends, payer, fulfilled>>
  BY DEF IssueCart, Go
<1> HIDE DEF order
<1>4. /\ \A d \in Carts : carts'[d] = IF d = c THEN NewCart(order) ELSE carts[d]
      /\ \A q \in Requests : req'[q] = IF q = r THEN NoRequest ELSE req[q]
  BY <1>3 DEF Inv, TypeOK
<1>5. TypeOK'
  BY <1>2, <1>3, <1>4, NoRequestType DEF Inv, TypeOK, StoreTypeOK
<1>6. Grow
  BY <1>3, <1>4, Numbers DEF Grow, Inv
<1>7. Issued'
  BY <1>1, <1>2, <1>3, <1>4 DEF Inv, Issued
<1>8. ASSUME NEW q \in Requests PROVE Fits(req[q])'
  <2>1. CASE q = r
    <3>1. req'[q].pc = "idle" /\ req'[q].holds = {}
      BY <1>4, <2>1 DEF NoRequest
    <3> QED
      BY <3>1 DEF Fits, Verifying, Checked
  <2>2. CASE q # r
    BY <1>4, <1>6, <2>2, StaysFit
  <2> QED
    BY <2>1, <2>2
<1> QED
  BY <1>5, <1>7, <1>8 DEF Inv

\* Presenting a cart begins a verification and keeps the invariant.
LEMMA PresentInv ==
  ASSUME Inv, NEW r \in Requests, NEW c \in Carts, NEW t \in Tenants, PresentCart(r, c, t) PROVE Inv'
<1> DEFINE next == [NoRequest EXCEPT !.pc = "presented", !.cart = c, !.tenant = t,
                      !.void = {i \in Intents : ~IntentValid(i)}]
<1>1. /\ next \in Request /\ next.pc = "presented" /\ next.cart = c /\ next.tenant = t
      /\ next.seen = {} /\ next.holds = {} /\ next.void = {i \in Intents : ~IntentValid(i)}
  BY DEF NoRequest, Request, Steps
<1>2. Go(r, next) /\ UNCHANGED <<store, table, clock, intents, carts, revoked, spends, payer, fulfilled>>
      /\ carts[c] # None
  BY DEF PresentCart
<1> HIDE DEF next
<1>3. Fits(next)
  BY <1>1, <1>2 DEF Fits, Verifying, Checked
<1> QED
  BY <1>1, <1>2, <1>3, OnInv

\* The steps of a verification.
LEMMA VerifyInv == ASSUME Inv, NEW r \in Requests, Verify(r) PROVE Inv'
<1>t. req[r] \in Request /\ Fits(req[r]) /\ req[r].holds \subseteq req[r].seen /\ req[r].seen \subseteq spends
  BY DEF Inv, TypeOK
<1>s. Steps = {"idle", "issuing", "presented", "checking", "looking", "selecting",
               "waiting", "inserting", "answering"}
  BY DEF Steps
<1>1. ASSUME NEW endpoint \in Endpoints, PassReplay(r, endpoint) PROVE Inv'
  <2> DEFINE next == [req[r] EXCEPT !.pc = "checking"]
  <2>1. /\ next \in Request /\ next.pc = "checking" /\ next.cart = req[r].cart /\ next.tenant = req[r].tenant
        /\ next.seen = req[r].seen /\ next.holds = req[r].holds /\ next.void = req[r].void
    BY <1>t, <1>s, Changed
  <2>2. req[r].cart \in Carts /\ On[r] \in Processes
    BY <1>1, <1>t, Assumptions DEF PassReplay, Fits, Verifying
  <2>3. StoreTypeOK'
    BY <1>1, <2>2, StoreType DEF PassReplay, Inv
  <2>4. Go(r, next) /\ UNCHANGED <<clock, intents, carts, revoked, spends, payer, fulfilled>>
    BY <1>1 DEF PassReplay
  <2> HIDE DEF next
  <2>5. Fits(next)
    BY <1>1, <1>t, <2>1 DEF PassReplay, Fits, Verifying, Checked
  <2> QED
    BY <1>t, <2>1, <2>3, <2>4, <2>5, GoInv DEF Inv, TypeOK
<1>2. ASSUME NEW endpoint \in Endpoints, FailReplay(r, endpoint) PROVE Inv'
  <2>1. req[r].cart \in Carts /\ On[r] \in Processes
    BY <1>2, <1>t, Assumptions DEF FailReplay, Fits, Verifying
  <2>2. StoreTypeOK'
    BY <1>2, <2>1, StoreType DEF FailReplay, Inv
  <2> QED
    BY <1>2, <2>2, EndInv DEF FailReplay, Inv, TypeOK
<1>3. CASE Go(r, NoRequest) /\ UNCHANGED <<store, table, clock, intents, carts, revoked, spends, payer, fulfilled>>
  BY <1>3, EndInv DEF Inv, TypeOK, StoreTypeOK
<1>4. CASE CheckParent(r)
  <2> DEFINE next == [req[r] EXCEPT !.pc = "looking"]
             cart == carts[req[r].cart]
  <2>1. /\ next \in Request /\ next.pc = "looking" /\ next.cart = req[r].cart /\ next.tenant = req[r].tenant
        /\ next.seen = req[r].seen /\ next.holds = req[r].holds /\ next.void = req[r].void
    BY <1>t, <1>s, Changed
  <2>2. UNCHANGED <<store, table, clock, intents, carts, revoked, spends, payer, fulfilled>>
    BY <1>4 DEF CheckParent
  <2> HIDE DEF next
  <2>3. CASE IntentValid(cart.intent) /\ Go(r, next)
    <3>1. req[r].cart \in Carts /\ carts[req[r].cart] # None /\ req[r].tenant \in Tenants
          /\ carts[req[r].cart].intent \notin req[r].void
      BY <1>4, <1>t, <2>3 DEF CheckParent, Fits, Verifying
    <3>2. Fits(next)
      BY <1>4, <1>t, <2>1, <3>1 DEF CheckParent, Fits
    <3> QED
      BY <1>t, <2>1, <2>2, <2>3, <3>2, OnInv
  <2>4. \/ Go(r, NoRequest)
        \/ IntentValid(cart.intent) /\ Go(r, next)
    BY <1>4 DEF CheckParent, next
  <2> QED
    BY <1>3, <2>2, <2>3, <2>4
<1>5. CASE LookUpCart(r)
  <2> DEFINE next == [req[r] EXCEPT !.pc = "selecting"]
  <2>1. /\ next \in Request /\ next.pc = "selecting" /\ next.cart = req[r].cart /\ next.tenant = req[r].tenant
        /\ next.seen = req[r].seen /\ next.holds = req[r].holds /\ next.void = req[r].void
    BY <1>t, <1>s, Changed
  <2>2. Go(r, NoRequest) \/ Go(r, next)
    BY <1>5 DEF LookUpCart
  <2>3. req[r].pc = "looking" /\ UNCHANGED <<store, table, clock, intents, carts, revoked, spends, payer, fulfilled>>
    BY <1>5 DEF LookUpCart
  <2> HIDE DEF next
  <2>4. Fits(next)
    BY <1>t, <2>1, <2>3 DEF Fits, Verifying, Checked
  <2> QED
    BY <1>3, <1>t, <2>1, <2>2, <2>3, <2>4, OnInv
<1>6. CASE SelectSpends(r)
  <2> DEFINE next == [req[r] EXCEPT !.pc = "waiting", !.seen = SpendsOf(carts[req[r].cart].intent, req[r].tenant)]
  <2>1. SpendsOf(carts[req[r].cart].intent, req[r].tenant) \subseteq spends /\ spends \subseteq Carts
    BY DEF SpendsOf, Inv, TypeOK
  <2>2. req[r].pc = "selecting" /\ Go(r, next)
        /\ UNCHANGED <<store, table, clock, intents, carts, revoked, spends, payer, fulfilled>>
    BY <1>6 DEF SelectSpends
  <2>3. /\ next \in Request /\ next.pc = "waiting" /\ next.cart = req[r].cart /\ next.tenant = req[r].tenant
        /\ next.seen \subseteq spends /\ next.holds = req[r].holds /\ next.void = req[r].void
    BY <1>t, <2>1 DEF Request, Steps
  <2> HIDE DEF next
  <2>4. Fits(next)
    BY <1>t, <2>2, <2>3 DEF Fits, Verifying, Checked
  <2>5. next.holds \subseteq next.seen
    BY <1>t, <2>2, <2>3 DEF Fits
  <2> QED
    BY <2>2, <2>3, <2>4, <2>5, OnInv
<1>7. CASE SumSpends(r)
  <2> DEFINE next == [req[r] EXCEPT !.pc = "inserting", !.holds = req[r].seen]
  <2>1. req[r].pc = "waiting" /\ (Go(r, NoRequest) \/ Go(r, next))
        /\ UNCHANGED <<store, table, clock, intents, carts, revoked, spends, payer, fulfilled>>
    BY <1>7 DEF SumSpends
  <2>2. /\ next \in Request /\ next.pc = "inserting" /\ next.cart = req[r].cart /\ next.tenant = req[r].tenant
        /\ next.seen = req[r].seen /\ next.holds = req[r].seen /\ next.void = req[r].void
    BY <1>t DEF Request, Steps
  <2> HIDE DEF next
  <2>3. Fits(next)
    BY <1>t, <2>1, <2>2 DEF Fits, Verifying, Checked
  <2> QED
    BY <1>3, <1>t, <2>1, <2>2, <2>3, OnInv
<1>8. CASE InsertSpend(r)
  <2> DEFINE next == [req[r] EXCEPT !.pc = "answering", !.holds = {}]
  <2>1. req[r].pc = "inserting" /\ (Go(r, NoRequest) \/ Go(r, next))
        /\ spends' = spends \cup {req[r].cart}
        /\ payer' \in {payer, [payer EXCEPT ![req[r].cart] = req[r].tenant]}
        /\ UNCHANGED <<store, table, clock, intents, carts, revoked, fulfilled>>
    BY <1>8 DEF InsertSpend
  <2>2. /\ next \in Request /\ next.pc = "answering" /\ next.cart = req[r].cart /\ next.tenant = req[r].tenant
        /\ next.seen = req[r].seen /\ next.holds = {} /\ next.void = req[r].void
    BY <1>t DEF Request, Steps
  <2>3. spends' \subseteq {c \in Carts : carts[c] # None} /\ StoreTypeOK'
        /\ payer' \in [Carts -> Tenants \cup {None}]
    BY <1>t, <2>1 DEF Fits, Verifying, Inv, TypeOK, StoreTypeOK
  <2> HIDE DEF next
  <2>4. Fits(next)
    BY <1>t, <2>1, <2>2 DEF Fits, Verifying, Checked
  <2>5. CASE Go(r, next)
    BY <1>t, <2>1, <2>2, <2>3, <2>4, <2>5, GoInv DEF Inv, TypeOK
  <2>6. CASE Go(r, NoRequest)
    BY <2>1, <2>3, <2>6, NoRequestType, GoInv DEF Inv, TypeOK
  <2> QED
    BY <2>1, <2>5, <2>6
<1>9. CASE AnswerVerified(r)
  <2>1. req[r].cart \in Carts
    BY <1>9, <1>t DEF AnswerVerified, Fits, Verifying
  <2>2. fulfilled' \in [Carts -> 0..2]
    <3> DEFINE n == IF fulfilled[req[r].cart] = 2 THEN 2 ELSE fulfilled[req[r].cart] + 1
    <3>1. n \in 0..2
      BY <2>1 DEF Inv, TypeOK
    <3>2. fulfilled' = [fulfilled EXCEPT ![req[r].cart] = n]
      BY <1>9, <2>1 DEF AnswerVerified, Inv, TypeOK
    <3> HIDE DEF n
    <3> QED
      BY <2>1, <3>1, <3>2 DEF Inv, TypeOK
  <2> QED
    BY <1>9, <2>2, EndInv DEF AnswerVerified, Inv, TypeOK, StoreTypeOK
<1> QED
  BY <1>1, <1>2, <1>4, <1>5, <1>6, <1>7, <1>8, <1>9 DEF Verify

\* A restart, which ends the process's verifications, keeps the invariant.
LEMMA RestartInv == ASSUME Inv, NEW p \in Processes, Restart(p) PROVE Inv'
<1>1. /\ Starts(p, CartExpiry, clock, TRUE)
      /\ req' = [r \in Requests |-> IF On[r] = p THEN NoRequest ELSE req[r]]
      /\ UNCHANGED <<clock, intents, carts, revoked, spends, payer, fulfilled>>
  BY DEF Restart
<1>2. StoreTypeOK'
  BY <1>1 DEF Starts, Inv, TypeOK, StoreTypeOK
<1>3. \A r \in Requests : req'[r] = req[r] \/ req'[r] = NoRequest
  BY <1>1
<1>4. TypeOK'
  BY <1>1, <1>2, NoRequestType DEF Inv, TypeOK
<1>5. Grow
  BY <1>1, Numbers DEF Grow, Inv
<1>6. ASSUME NEW r \in Requests PROVE Fits(req[r])'
  <2>1. CASE req'[r] = req[r]
    BY <1>5, <2>1, StaysFit
  <2>2. CASE req'[r] = NoRequest
    BY <2>2, NoRequestType DEF Fits, NoRequest, Verifying, Checked
  <2> QED
    BY <1>3, <2>1, <2>2
<1> QED
  BY <1>1, <1>4, <1>6 DEF Inv, Issued

\* Every step keeps the invariant.
LEMMA StepInv == Inv /\ [Next]_vars => Inv'
<1> SUFFICES ASSUME Inv, [Next]_vars PROVE Inv'
  OBVIOUS
<1>1. CASE UNCHANGED vars
  BY <1>1 DEF vars, Inv, TypeOK, StoreTypeOK, Issued, Fits, IntentValid
<1>2. ASSUME NEW r \in Requests, GiveUp(r) PROVE Inv'
  BY <1>2, EndInv DEF GiveUp, Inv, TypeOK, StoreTypeOK
<1>3. ASSUME NEW m \in Revocable, Revoke(m) PROVE Inv'
  BY <1>3, Assumptions, RevokeInv
<1> QED
  BY <1>1, <1>2, <1>3, CreateIntentInv, OrderInv, IssueInv, PresentInv, VerifyInv,
     RestartInv, TickInv DEF Next

\* The mandate tables and the verifications under way keep their types: only issued
\* carts are spent, and what a verification sums and locks are spends.
THEOREM TypeCorrect == Spec => []TypeOK
<1>1. Inv => TypeOK
  BY DEF Inv
<1> QED
  BY <1>1, InitInv, StepInv, PTL DEF Spec

\* No spend is recorded against an intent that was revoked or expired when its
\* verification began, however the steps of the verification are spread out.
THEOREM VoidIntentsAreNotSpent == Spec => NoSpendOnVoidIntent
<1> DEFINE A == \A c \in spends' \ spends : \E r \in Requests :
       /\ req[r].pc = "inserting" /\ req[r].cart = c
       /\ carts[c].intent \notin req[r].void
<1>1. Inv /\ [Next]_vars => [A]_vars
  <2> SUFFICES ASSUME Inv, Next, NEW c \in spends' \ spends
               PROVE  \E r \in Requests : /\ req[r].pc = "inserting" /\ req[r].cart = c
                                          /\ carts[c].intent \notin req[r].void
    BY DEF vars
  <2>1. PICK r \in Requests : InsertSpend(r)
    BY DEF Next, Verify, CreateIntent, OrderCart, IssueCart, PresentCart, GiveUp, Revoke, Restart,
       Tick, PassReplay, FailReplay, CheckParent, LookUpCart, SelectSpends, SumSpends, AnswerVerified
  <2>2. req[r].pc = "inserting" /\ req[r].cart = c
    BY <2>1 DEF InsertSpend
  <2> QED
    BY <2>2 DEF Inv, Fits, Checked
<1> QED
  BY <1>1, InitInv, StepInv, PTL DEF Spec, NoSpendOnVoidIntent

(***************************************************************************)
(* Induction and recursive functions.                                      *)
(***************************************************************************)

\* A set of numbers that is not empty has a least element.
LEMMA Least ==
  ASSUME NEW T, T \subseteq Nat, T # {}
  PROVE  \E n \in T : \A m \in T : n <= m
<1> DEFINE R == {ss \in Nat \X Nat : ss[1] < ss[2]}
<1>1. IsWellFoundedOn(R, Nat)
  BY NatLessThanWellFounded DEF OpToRel
<1>2. PICK n \in T : \A m \in T : <<m, n>> \notin R
  <2> HIDE DEF R
  <2> QED
    BY <1>1, WFMin
<1>3. ASSUME NEW m \in Nat, m < n PROVE <<m, n>> \in R
  <2>1. <<m, n>> \in Nat \X Nat /\ <<m, n>>[1] < <<m, n>>[2]
    BY <1>3
  <2> QED
    BY <2>1, Zenon
<1> HIDE DEF R
<1>4. ASSUME NEW m \in T PROVE n <= m
  <2>1. m \in Nat /\ n \in Nat
    OBVIOUS
  <2>2. ~(m < n)
    BY <2>1, <1>2, <1>3, Zenon
  <2> QED
    BY <2>1, <2>2
<1> QED
  BY <1>4

\* Induction, over a set in place of a predicate.
LEMMA Induction ==
  ASSUME NEW S, 0 \in S, \A n \in Nat : n \in S => n + 1 \in S
  PROVE  Nat \subseteq S
<1> DEFINE T == Nat \ S
<1> SUFFICES ASSUME T # {} PROVE FALSE
  OBVIOUS
<1>1. PICK n \in T : \A m \in T : n <= m
  BY Least
<1>2. n \in Nat \ {0} /\ n - 1 \in Nat /\ n - 1 \notin T
  BY <1>1
<1> QED
  BY <1>1, <1>2

Iterates(f, V, base, step, K) ==
  f \in [0..K -> V] /\ f[0] = base /\ \A n \in 1..K : f[n] = step[n][f[n - 1]]

\* A function is defined by its value at 0 and a step from each number to the next.
LEMMA Recursion ==
  ASSUME NEW V, NEW base \in V, NEW step \in [Nat -> [V -> V]], NEW K \in Nat
  PROVE  \E f : Iterates(f, V, base, step, K)
<1> DEFINE Upto(f, m) == Iterates(f, V, base, step, m)
           S == {m \in Nat : \E f : Upto(f, m)}
<1>1. 0 \in S
  <2>1. Upto([n \in 0..0 |-> base], 0)
    BY DEF Iterates
  <2> QED
    BY <2>1
<1>2. ASSUME NEW m \in Nat, m \in S PROVE m + 1 \in S
  <2>1. PICK f : Upto(f, m)
    BY <1>2
  <2> DEFINE g == [n \in 0..m + 1 |-> IF n = m + 1 THEN step[m + 1][f[m]] ELSE f[n]]
  <2>2. f[m] \in V /\ step[m + 1][f[m]] \in V
    <3>1. m \in 0..m /\ m + 1 \in Nat
      OBVIOUS
    <3>2. f[m] \in V
      BY <2>1, <3>1 DEF Iterates
    <3>3. step[m + 1] \in [V -> V]
      BY <3>1
    <3> QED
      BY <3>2, <3>3
  <2>3. g \in [0..m + 1 -> V]
    <3>1. \A n \in 0..m + 1 : n # m + 1 => n \in 0..m
      OBVIOUS
    <3> QED
      BY <2>1, <2>2, <3>1 DEF Iterates
  <2>4. ASSUME NEW n \in 1..m + 1 PROVE g[n] = step[n][g[n - 1]]
    <3>0. n \in 0..m + 1 /\ n - 1 \in 0..m + 1 /\ n - 1 # m + 1
      OBVIOUS
    <3>1. g[n - 1] = f[n - 1]
      BY <3>0
    <3>2. CASE n = m + 1
      BY <3>0, <3>1, <3>2
    <3>3. CASE n # m + 1
      <4>1. n \in 1..m /\ g[n] = f[n]
        BY <3>0, <3>3
      <4> QED
        BY <2>1, <3>1, <4>1 DEF Iterates
    <3> QED
      BY <3>2, <3>3
  <2>5. g[0] = base
    BY <2>1 DEF Iterates
  <2>6. Upto(g, m + 1)
    <3> HIDE DEF g
    <3> QED
      BY <2>3, <2>4, <2>5 DEF Iterates
  <2> HIDE DEF Upto
  <2> QED
    BY <2>6
<1> HIDE DEF Upto
<1>3. Nat \subseteq S
  <2> HIDE DEF S
  <2> QED
    BY <1>1, <1>2, Induction
<1> QED
  BY <1>3 DEF Upto

(***************************************************************************)
(* Sums.  MapThenSumSet takes the members of a set out one by one, in some *)
(* order; what it adds up does not depend on the order, and is there for   *)
(* any finite set.                                                         *)
(***************************************************************************)
First(s) == CHOOSE c \in s : TRUE

Summed(g, s, v) == IF s = {} THEN 0 ELSE v[First(s)] + g[s \ {First(s)}]

Folding(h, S, v) == h = [s \in SUBSET S |-> Summed(h, s, v)]

Sums(h, S, v) ==
  /\ h \in [SUBSET S -> Nat] /\ h[{}] = 0
  /\ \A A \in SUBSET S : \A c \in S \ A : h[A \cup {c}] = h[A] + v[c]

Additive(h, T) ==
  \A A \in SUBSET T : \A B \in SUBSET T : A \cap B = {} => h[A \cup B] = h[A] + h[B]

\* A set without one of its members is smaller.
LEMMA Smaller ==
  ASSUME NEW S, IsFiniteSet(S), NEW A \in SUBSET S, NEW n \in Nat
  PROVE  /\ IsFiniteSet(A) /\ Cardinality(A) \in Nat /\ Cardinality(A) <= Cardinality(S)
         /\ Cardinality(A) <= 0 => A = {}
         /\ \A x \in A : Cardinality(A) <= n + 1 => Cardinality(A \ {x}) <= n
<1>1. IsFiniteSet(A) /\ Cardinality(A) <= Cardinality(S)
  BY FS_Subset
<1>2. Cardinality(A) \in Nat /\ (Cardinality(A) = 0 <=> A = {})
  BY <1>1, FS_CardinalityType, FS_EmptySet
<1>3. \A x \in A : Cardinality(A \ {x}) = Cardinality(A) - 1
  BY <1>1, FS_RemoveElement
<1>4. \A k \in Nat : k <= 0 => k = 0
  OBVIOUS
<1>5. \A k \in Nat : k <= n + 1 => k - 1 <= n
  OBVIOUS
<1> QED
  BY <1>1, <1>2, <1>3, <1>4, <1>5

\* The first member is one.
LEMMA FirstIsMember == ASSUME NEW s, s # {} PROVE First(s) \in s
BY DEF First

\* There is a function that adds so.
LEMMA FoldExists ==
  ASSUME NEW S, IsFiniteSet(S), NEW v \in [S -> Nat]
  PROVE  \E h : Folding(h, S, v)
<1> DEFINE K == Cardinality(S)
           P == SUBSET S
           V == [P -> Nat]
           Up(g) == [s \in P |-> Summed(g, s, v)]
           step == [n \in Nat |-> [g \in V |-> Up(g)]]
           zero == [s \in P |-> 0]
<1>0. K \in Nat
  BY FS_CardinalityType
<1>1. \A g \in V : Up(g) \in V
  <2> SUFFICES ASSUME NEW g \in V, NEW s \in P PROVE Summed(g, s, v) \in Nat
    OBVIOUS
  <2>1. CASE s = {}
    BY <2>1 DEF Summed
  <2>2. CASE s # {}
    <3>1. First(s) \in S /\ s \ {First(s)} \in P
      BY <2>2, FirstIsMember
    <3>2. v[First(s)] \in Nat /\ g[s \ {First(s)}] \in Nat
      BY <3>1
    <3> QED
      BY <2>2, <3>2 DEF Summed
  <2> QED
    BY <2>1, <2>2
<1>2. zero \in V
  OBVIOUS
<1>3. \A g \in V, n \in Nat : step[n][g] = Up(g)
  OBVIOUS
<1>4. step \in [Nat -> [V -> V]]
  BY <1>1
<1> HIDE DEF step, V, zero, K
<1>5. PICK f : Iterates(f, V, zero, step, K + 1)
  <2>1. K + 1 \in Nat
    BY <1>0
  <2> QED
    BY <2>1, <1>2, <1>4, Recursion
<1>6. \A n \in 0..K : f[n] \in V /\ f[n + 1] = Up(f[n])
  <2> SUFFICES ASSUME NEW n \in 0..K PROVE f[n] \in V /\ f[n + 1] = Up(f[n])
    OBVIOUS
  <2>1. n \in 0..K + 1 /\ n + 1 \in 1..K + 1 /\ (n + 1) - 1 = n /\ n + 1 \in Nat
    BY <1>0
  <2>2. f[n] \in V /\ f[n + 1] = step[n + 1][f[n]]
    BY <1>5, <2>1 DEF Iterates
  <2> QED
    BY <1>3, <2>1, <2>2
<1>7. f[0] = zero
  BY <1>5 DEF Iterates
<1> DEFINE Fixed(n) == \A s \in P : Cardinality(s) <= n => f[n][s] = f[n + 1][s]
           M == {n \in Nat : n <= K => Fixed(n)}
<1>8. 0 \in M
  <2> SUFFICES ASSUME NEW s \in P, Cardinality(s) <= 0 PROVE f[0][s] = f[0 + 1][s]
    OBVIOUS
  <2>1. s = {}
    BY Smaller
  <2>2. 0 \in 0..K
    BY <1>0
  <2>3. f[0 + 1] = Up(f[0])
    BY <1>6, <2>2
  <2>4. f[0 + 1][s] = 0
    BY <2>1, <2>3 DEF Summed
  <2>5. f[0][s] = 0
    BY <1>7 DEF zero
  <2> QED
    BY <2>4, <2>5
<1>9. ASSUME NEW n \in Nat, n \in M PROVE n + 1 \in M
  <2> SUFFICES ASSUME n + 1 <= K, NEW s \in P, Cardinality(s) <= n + 1
               PROVE  f[n + 1][s] = f[(n + 1) + 1][s]
    OBVIOUS
  <2>1. Fixed(n) /\ n \in 0..K /\ n + 1 \in 0..K
    BY <1>0, <1>9
  <2>2. f[n + 1] = Up(f[n]) /\ f[(n + 1) + 1] = Up(f[n + 1])
    BY <1>6, <2>1
  <2>3. f[n + 1][s] = Summed(f[n], s, v) /\ f[(n + 1) + 1][s] = Summed(f[n + 1], s, v)
    BY <2>2
  <2>4. CASE s = {}
    BY <2>3, <2>4 DEF Summed
  <2>5. CASE s # {}
    <3>1. s \ {First(s)} \in P /\ Cardinality(s \ {First(s)}) <= n
      BY <2>5, FirstIsMember, Smaller
    <3>2. f[n][s \ {First(s)}] = f[n + 1][s \ {First(s)}]
      BY <2>1, <3>1
    <3> QED
      BY <2>3, <2>5, <3>2 DEF Summed
  <2> QED
    BY <2>4, <2>5
<1>10. Fixed(K)
  <2>1. Nat \subseteq M
    <3> HIDE DEF M
    <3> QED
      BY <1>8, <1>9, Induction
  <2> QED
    BY <1>0, <2>1
<1>11. K \in 0..K /\ \A s \in P : Cardinality(s) <= K
  BY <1>0, Smaller DEF K
<1>12. f[K] \in V /\ f[K + 1] = Up(f[K])
  BY <1>6, <1>11
<1>13. \A s \in P : f[K][s] = Summed(f[K], s, v)
  BY <1>10, <1>11, <1>12
<1>14. PICK h : h = f[K]
  OBVIOUS
<1>15. h \in [P -> Nat] /\ \A s \in P : h[s] = Summed(h, s, v)
  BY <1>12, <1>13, <1>14 DEF V
<1>16. h = [s \in P |-> h[s]]
  BY <1>15
<1>17. Folding(h, S, v)
  BY <1>15, <1>16 DEF Folding
<1> QED
  BY <1>17

\* Such a function adds, in whatever order.
LEMMA FoldSums ==
  ASSUME NEW S, IsFiniteSet(S), NEW v \in [S -> Nat], NEW h, Folding(h, S, v)
  PROVE  Sums(h, S, v)
<1> DEFINE P == SUBSET S
           Adds(A) == h[A] \in Nat /\ \A c \in S \ A : h[A \cup {c}] = h[A] + v[c]
           M == {n \in Nat : \A A \in P : Cardinality(A) <= n => Adds(A)}
<1>0. DOMAIN h = P /\ h = [s \in P |-> h[s]] /\ \A s \in P : h[s] = Summed(h, s, v)
  BY DEF Folding
<1>1. h[{}] = 0
  BY <1>0 DEF Summed
<1>2. ASSUME NEW A \in P, NEW c \in S \ A, First(A \cup {c}) = c, h[A] \in Nat
      PROVE  h[A \cup {c}] = h[A] + v[c]
  <2>1. A \cup {c} \in P /\ (A \cup {c}) \ {c} = A /\ A \cup {c} # {}
    OBVIOUS
  <2>2. h[A \cup {c}] = v[c] + h[A]
    BY <1>0, <1>2, <2>1 DEF Summed
  <2>3. v[c] \in Nat
    OBVIOUS
  <2> QED
    BY <1>2, <2>2, <2>3
<1>3. 0 \in M
  <2> SUFFICES ASSUME NEW A \in P, Cardinality(A) <= 0 PROVE Adds(A)
    OBVIOUS
  <2>0. 0 \in Nat
    OBVIOUS
  <2>1. A = {} /\ h[A] \in Nat
    BY <1>1, <2>0, Smaller
  <2>2. ASSUME NEW c \in S \ A PROVE h[A \cup {c}] = h[A] + v[c]
    <3>1. First(A \cup {c}) = c
      BY <2>1, FirstIsMember
    <3> QED
      BY <1>2, <2>1, <3>1
  <2> QED
    BY <2>1, <2>2
<1>4. ASSUME NEW n \in Nat, n \in M PROVE n + 1 \in M
  <2> SUFFICES ASSUME NEW A \in P, Cardinality(A) <= n + 1 PROVE Adds(A)
    OBVIOUS
  <2>0. \A x \in A : A \ {x} \in P /\ Adds(A \ {x})
    <3>1. \A x \in A : Cardinality(A \ {x}) <= n
      BY Smaller
    <3> QED
      BY <1>4, <3>1
  <2>1. h[A] \in Nat
    <3>1. CASE A = {}
      BY <1>1, <3>1
    <3>2. CASE A # {}
      <4>1. First(A) \in A /\ h[A \ {First(A)}] \in Nat /\ v[First(A)] \in Nat
        BY <2>0, <3>2, FirstIsMember
      <4>2. h[A] = v[First(A)] + h[A \ {First(A)}]
        BY <1>0, <3>2 DEF Summed
      <4> QED
        BY <4>1, <4>2
    <3> QED
      BY <3>1, <3>2
  <2>2. ASSUME NEW c \in S \ A PROVE h[A \cup {c}] = h[A] + v[c]
    <3> DEFINE x == First(A \cup {c})
               rest == A \ {x}
    <3>1. x = c \/ x \in A
      BY FirstIsMember
    <3>2. CASE x = c
      BY <1>2, <2>1, <3>2
    <3>3. CASE x \in A
      <4>1. rest \in P /\ Adds(rest) /\ c \in S \ rest /\ x \in S \ rest
        BY <2>0, <3>3
      <4>2. (A \cup {c}) \ {x} = rest \cup {c} /\ A = rest \cup {x} /\ A \cup {c} \in P
            /\ A \cup {c} # {}
        BY <3>3
      <4>3. h[A \cup {c}] = v[x] + h[rest \cup {c}]
        BY <1>0, <4>2 DEF Summed
      <4>4. h[rest \cup {c}] = h[rest] + v[c] /\ h[rest \cup {x}] = h[rest] + v[x]
        BY <4>1
      <4>5. h[A] = h[rest] + v[x]
        BY <4>2, <4>4
      <4>6. h[rest] \in Nat /\ v[c] \in Nat /\ v[x] \in Nat
        BY <4>1
      <4> HIDE DEF x, rest
      <4> QED
        BY <4>3, <4>4, <4>5, <4>6
    <3> QED
      BY <3>1, <3>2, <3>3
  <2> QED
    BY <2>1, <2>2
<1>5. Nat \subseteq M
  <2> HIDE DEF M
  <2> QED
    BY <1>3, <1>4, Induction
<1>6. \A A \in P : Adds(A)
  <2> SUFFICES ASSUME NEW A \in P PROVE Adds(A)
    OBVIOUS
  <2>0. 0 \in Nat
    OBVIOUS
  <2>1. Cardinality(A) \in Nat
    BY <2>0, Smaller
  <2>2. Cardinality(A) \in M /\ Cardinality(A) <= Cardinality(A)
    BY <1>5, <2>1
  <2> QED
    BY <2>2
<1>7. h \in [P -> Nat]
  BY <1>0, <1>6
<1> QED
  BY <1>1, <1>6, <1>7 DEF Sums

\* Sums are the same wherever they are taken ...
LEMMA SumsAgree ==
  ASSUME NEW S, IsFiniteSet(S), NEW T, S \subseteq T, NEW v, NEW w,
         \A c \in S : v[c] = w[c], NEW h, Sums(h, S, v), NEW g, Sums(g, T, w)
  PROVE  \A A \in SUBSET S : h[A] = g[A]
<1> DEFINE M == {n \in Nat : \A A \in SUBSET S : Cardinality(A) <= n => h[A] = g[A]}
<1>1. 0 \in M
  <2> SUFFICES ASSUME NEW A \in SUBSET S, Cardinality(A) <= 0 PROVE h[A] = g[A]
    OBVIOUS
  <2>0. 0 \in Nat
    OBVIOUS
  <2>1. A = {}
    BY <2>0, Smaller
  <2> QED
    BY <2>1 DEF Sums
<1>2. ASSUME NEW n \in Nat, n \in M PROVE n + 1 \in M
  <2> SUFFICES ASSUME NEW A \in SUBSET S, Cardinality(A) <= n + 1 PROVE h[A] = g[A]
    OBVIOUS
  <2> SUFFICES ASSUME A # {} PROVE h[A] = g[A]
    BY DEF Sums
  <2>1. PICK x \in A : Cardinality(A \ {x}) <= n
    BY Smaller
  <2>2. A \ {x} \in SUBSET S /\ x \in S \ (A \ {x}) /\ (A \ {x}) \cup {x} = A
    OBVIOUS
  <2>3. h[A \ {x}] = g[A \ {x}]
    BY <1>2, <2>1, <2>2
  <2>4. h[A] = h[A \ {x}] + v[x]
    BY <2>2 DEF Sums
  <2>5. g[A] = g[A \ {x}] + w[x]
    BY <2>2 DEF Sums
  <2> QED
    BY <2>2, <2>3, <2>4, <2>5
<1>3. Nat \subseteq M
  <2> HIDE DEF M
  <2> QED
    BY <1>1, <1>2, Induction
<1> SUFFICES ASSUME NEW A \in SUBSET S PROVE h[A] = g[A]
  OBVIOUS
<1>4. 0 \in Nat
  OBVIOUS
<1>5. Cardinality(A) \in Nat
  BY <1>4, Smaller
<1> QED
  BY <1>3, <1>5

\* ... and those of disjoint sets are added.
LEMMA SumsUnion ==
  ASSUME NEW T, IsFiniteSet(T), NEW v, \A c \in T : v[c] \in Nat, NEW h, Sums(h, T, v)
  PROVE  Additive(h, T)
<1> DEFINE Adds(B) == \A A \in SUBSET T : A \cap B = {} => h[A \cup B] = h[A] + h[B]
           M == {n \in Nat : \A B \in SUBSET T : Cardinality(B) <= n => Adds(B)}
<1>0. h \in [SUBSET T -> Nat] /\ h[{}] = 0
      /\ \A A \in SUBSET T : \A c \in T \ A : h[A \cup {c}] = h[A] + v[c]
  BY DEF Sums
<1>a. Adds({})
  BY <1>0
<1>1. 0 \in M
  <2> SUFFICES ASSUME NEW B \in SUBSET T, Cardinality(B) <= 0 PROVE Adds(B)
    OBVIOUS
  <2>0. 0 \in Nat
    OBVIOUS
  <2>1. B = {}
    BY <2>0, Smaller
  <2> HIDE DEF Adds
  <2> QED
    BY <1>a, <2>1
<1>2. ASSUME NEW n \in Nat, n \in M PROVE n + 1 \in M
  <2> SUFFICES ASSUME NEW B \in SUBSET T, Cardinality(B) <= n + 1 PROVE Adds(B)
    <3> HIDE DEF Adds
    <3> QED
      OBVIOUS
  <2> SUFFICES ASSUME B # {} PROVE Adds(B)
    BY <1>a
  <2>1. PICK x \in B : Cardinality(B \ {x}) <= n
    BY Smaller
  <2> DEFINE C == B \ {x}
  <2>2. C \in SUBSET T /\ x \in T \ C /\ C \cup {x} = B /\ Adds(C)
    BY <1>2, <2>1
  <2> HIDE DEF C
  <2>3. ASSUME NEW A \in SUBSET T, A \cap B = {} PROVE h[A \cup B] = h[A] + h[B]
    <3>1. A \cup B = (A \cup C) \cup {x} /\ A \cup C \in SUBSET T /\ x \in T \ (A \cup C)
          /\ A \cap C = {}
      BY <2>2, <2>3
    <3>2. h[A \cup B] = h[A \cup C] + v[x]
      BY <1>0, <3>1
    <3>3. h[A \cup C] = h[A] + h[C]
      BY <2>2, <3>1
    <3>4. h[B] = h[C] + v[x]
      BY <1>0, <2>2
    <3>5. h[A] \in Nat /\ h[C] \in Nat /\ v[x] \in Nat
      BY <1>0, <2>2
    <3> QED
      BY <3>2, <3>3, <3>4, <3>5
  <2> QED
    BY <2>3
<1>3. Nat \subseteq M
  <2> HIDE DEF M
  <2> QED
    BY <1>1, <1>2, Induction
<1> SUFFICES ASSUME NEW B \in SUBSET T PROVE Adds(B)
  BY DEF Additive
<1>4. 0 \in Nat
  OBVIOUS
<1>5. Cardinality(B) \in Nat
  BY <1>4, Smaller
<1>6. Cardinality(B) \in M
  <2> HIDE DEF M
  <2> QED
    BY <1>3, <1>5
<1>7. Cardinality(B) <= Cardinality(B)
  BY <1>5
<1> HIDE DEF Adds
<1> QED
  BY <1>6, <1>7

(***************************************************************************)
(* What has been spent.                                                    *)
(***************************************************************************)

\* Spent, with any carts.
SpentIn(cs, rows) ==
  LET iter[s \in SUBSET rows] ==
        IF s = {} THEN 0
        ELSE LET x == CHOOSE c \in s : TRUE IN cs[x].total + iter[s \ {x}]
  IN  iter[rows]

\* The same of the carts at hand.
LEMMA SpentIsIn == ASSUME NEW rows PROVE Spent(rows) = SpentIn(carts, rows)
BY Zenon DEF Spent, MapThenSumSet, MapThenFoldSet, SpentIn

\* What is spent is a sum of totals.
LEMMA SpentSums ==
  ASSUME NEW cs, NEW A, IsFiniteSet(A), \A c \in A : cs[c].total \in Nat
  PROVE  \E h : Sums(h, A, [c \in A |-> cs[c].total]) /\ SpentIn(cs, A) = h[A]
<1> DEFINE v == [c \in A |-> cs[c].total]
           Def(g) == g = [s \in SUBSET A |->
                            IF s = {} THEN 0
                            ELSE LET x == CHOOSE c \in s : TRUE IN cs[x].total + g[s \ {x}]]
           iter == CHOOSE g : Def(g)
<1>1. v \in [A -> Nat]
  OBVIOUS
<1>2. ASSUME NEW g PROVE Def(g) <=> Folding(g, A, v)
  <2>1. ASSUME NEW s \in SUBSET A
        PROVE  (IF s = {} THEN 0
                ELSE LET x == CHOOSE c \in s : TRUE IN cs[x].total + g[s \ {x}])
               = Summed(g, s, v)
    <3>1. s # {} => First(s) \in A
      BY FirstIsMember
    <3> QED
      BY <3>1 DEF Summed, First
  <2> QED
    BY <2>1 DEF Folding
<1>3. \E g : Def(g)
  <2> HIDE DEF v, Def
  <2> QED
    BY <1>1, <1>2, FoldExists
<1>4. Def(iter)
  <2> HIDE DEF Def
  <2> QED
    BY <1>3, Zenon
<1>5. SpentIn(cs, A) = iter[A]
  BY Zenon DEF SpentIn
<1> HIDE DEF iter, Def
<1>6. Sums(iter, A, v)
  <2> HIDE DEF v
  <2> QED
    BY <1>1, <1>2, <1>4, FoldSums
<1> QED
  BY <1>5, <1>6

\* It is a number, grows by a cart's total with that cart, and is that of the parts.
LEMMA SpentAdds ==
  ASSUME NEW cs, NEW T, IsFiniteSet(T), \A c \in T : cs[c].total \in Nat
  PROVE  /\ SpentIn(cs, {}) = 0
         /\ \A A \in SUBSET T : SpentIn(cs, A) \in Nat
         /\ \A A \in SUBSET T : \A c \in T \ A :
              SpentIn(cs, A \cup {c}) = SpentIn(cs, A) + cs[c].total
         /\ \A A \in SUBSET T : \A B \in SUBSET T :
              A \cap B = {} => SpentIn(cs, A \cup B) = SpentIn(cs, A) + SpentIn(cs, B)
<1> DEFINE v(A) == [c \in A |-> cs[c].total]
<1>1. PICK h : Sums(h, T, v(T))
  BY SpentSums
<1>2. ASSUME NEW A \in SUBSET T PROVE SpentIn(cs, A) = h[A]
  <2>1. IsFiniteSet(A) /\ \A c \in A : cs[c].total \in Nat
    BY FS_Subset
  <2>2. PICK g : Sums(g, A, v(A)) /\ SpentIn(cs, A) = g[A]
    BY <2>1, SpentSums
  <2>3. \A c \in A : v(A)[c] = v(T)[c]
    OBVIOUS
  <2> HIDE DEF v
  <2> QED
    BY <1>1, <2>1, <2>2, <2>3, SumsAgree
<1>3. v(T) \in [T -> Nat] /\ \A c \in T : v(T)[c] = cs[c].total
  OBVIOUS
<1> HIDE DEF v
<1>4. /\ h \in [SUBSET T -> Nat] /\ h[{}] = 0
      /\ \A A \in SUBSET T : \A c \in T \ A : h[A \cup {c}] = h[A] + v(T)[c]
  BY <1>1 DEF Sums
<1>5. \A A \in SUBSET T : \A B \in SUBSET T : A \cap B = {} => h[A \cup B] = h[A] + h[B]
  <2>1. \A c \in T : v(T)[c] \in Nat
    BY <1>3
  <2>2. Additive(h, T)
    BY <1>1, <2>1, SumsUnion
  <2> QED
    BY <2>2 DEF Additive
<1>6. \A A \in SUBSET T : \A c \in T \ A :
        SpentIn(cs, A \cup {c}) = SpentIn(cs, A) + cs[c].total
  <2> SUFFICES ASSUME NEW A \in SUBSET T, NEW c \in T \ A
               PROVE  SpentIn(cs, A \cup {c}) = SpentIn(cs, A) + cs[c].total
    OBVIOUS
  <2>1. A \cup {c} \in SUBSET T /\ v(T)[c] = cs[c].total
    BY <1>3
  <2> QED
    BY <1>2, <1>4, <2>1
<1>7. \A A \in SUBSET T : \A B \in SUBSET T :
        A \cap B = {} => SpentIn(cs, A \cup B) = SpentIn(cs, A) + SpentIn(cs, B)
  <2> SUFFICES ASSUME NEW A \in SUBSET T, NEW B \in SUBSET T, A \cap B = {}
               PROVE  SpentIn(cs, A \cup B) = SpentIn(cs, A) + SpentIn(cs, B)
    OBVIOUS
  <2>1. A \cup B \in SUBSET T
    OBVIOUS
  <2> QED
    BY <1>2, <1>5, <2>1
<1>8. SpentIn(cs, {}) = 0 /\ \A A \in SUBSET T : SpentIn(cs, A) \in Nat
  BY <1>2, <1>4
<1> QED
  BY <1>6, <1>7, <1>8

\* The same of two parts.
LEMMA SpentApart ==
  ASSUME NEW cs, NEW T, IsFiniteSet(T), \A c \in T : cs[c].total \in Nat,
         NEW A, NEW B, A \subseteq T, B \subseteq T, A \cap B = {}
  PROVE  SpentIn(cs, A \cup B) = SpentIn(cs, A) + SpentIn(cs, B)
<1>1. A \in SUBSET T /\ B \in SUBSET T
  OBVIOUS
<1>2. \A C \in SUBSET T : \A D \in SUBSET T :
        C \cap D = {} => SpentIn(cs, C \cup D) = SpentIn(cs, C) + SpentIn(cs, D)
  BY SpentAdds
<1> QED
  BY <1>1, <1>2

\* It depends on the totals of the rows only.
LEMMA SpentSame ==
  ASSUME NEW cs, NEW ds, NEW T, IsFiniteSet(T), \A c \in T : cs[c].total \in Nat,
         \A c \in T : ds[c].total = cs[c].total
  PROVE  \A A \in SUBSET T : SpentIn(ds, A) = SpentIn(cs, A)
<1> SUFFICES ASSUME NEW A \in SUBSET T PROVE SpentIn(ds, A) = SpentIn(cs, A)
  OBVIOUS
<1>1. IsFiniteSet(A) /\ \A c \in A : cs[c].total \in Nat /\ ds[c].total = cs[c].total
  BY FS_Subset
<1> DEFINE v == [c \in A |-> cs[c].total]
           w == [c \in A |-> ds[c].total]
<1>2. PICK h : Sums(h, A, v) /\ SpentIn(cs, A) = h[A]
  BY <1>1, SpentSums
<1>3. PICK g : Sums(g, A, w) /\ SpentIn(ds, A) = g[A]
  <2>1. \A c \in A : ds[c].total \in Nat
    BY <1>1
  <2> QED
    BY <1>1, <2>1, SpentSums
<1>4. \A c \in A : v[c] = w[c]
  BY <1>1
<1> HIDE DEF v, w
<1> QED
  BY <1>1, <1>2, <1>3, <1>4, SumsAgree

\* Products grow with their factor.
LEMMA Times ==
  ASSUME NEW m \in Nat
  PROVE  /\ \A a \in Int : (a + 1) * m = a * m + m
         /\ \A a, b \in Int : a <= b => a * m <= b * m
<1>1. \A a \in Int : (a + 1) * m = a * m + m
  OBVIOUS
<1>2. \A a, b \in Int : a <= b => a * m <= b * m
  OBVIOUS
<1> QED
  BY <1>1, <1>2

\* A finite set of numbers has a greatest.
LEMMA MaxTotal ==
  Max(Totals) \in Nat /\ \A t \in Totals : t \in Nat /\ t <= Max(Totals)
<1> DEFINE Has(A) == \E m \in A : \A t \in A : t <= m
           M == {n \in Nat : \A A \in SUBSET Totals : A # {} /\ Cardinality(A) <= n => Has(A)}
<1>1. Totals \subseteq Nat /\ IsFiniteSet(Totals) /\ Totals # {} /\ 0 \in Nat
  BY ConstantsAssumption
<1>2. 0 \in M
  BY <1>1, Smaller
<1>3. ASSUME NEW n \in Nat, n \in M PROVE n + 1 \in M
  <2> SUFFICES ASSUME NEW A \in SUBSET Totals, A # {}, Cardinality(A) <= n + 1 PROVE Has(A)
    OBVIOUS
  <2>1. PICK x \in A : TRUE
    OBVIOUS
  <2>2. A \ {x} \in SUBSET Totals /\ Cardinality(A \ {x}) <= n /\ x \in Nat
    BY <1>1, <2>1, Smaller
  <2>3. CASE A \ {x} = {}
    <3>1. \A t \in A : t = x
      BY <2>1, <2>3
    <3> QED
      BY <2>1, <2>2, <3>1
  <2>4. CASE A \ {x} # {}
    <3>1. PICK m \in A \ {x} : \A t \in A \ {x} : t <= m
      BY <1>3, <2>2, <2>4
    <3>2. m \in Nat /\ \A t \in A : t \in Nat
      BY <1>1
    <3>3. CASE m <= x
      <4>1. \A t \in A : t <= x
        BY <2>2, <3>1, <3>2, <3>3
      <4> QED
        BY <2>1, <4>1
    <3>4. CASE x <= m
      <4>1. \A t \in A : t <= m
        BY <2>2, <3>1, <3>2, <3>4
      <4> QED
        BY <4>1
    <3> QED
      BY <2>2, <3>2, <3>3, <3>4
  <2> QED
    BY <2>3, <2>4
<1>4. Nat \subseteq M
  <2> HIDE DEF M
  <2> QED
    BY <1>2, <1>3, Induction
<1>5. Cardinality(Totals) \in Nat /\ Cardinality(Totals) <= Cardinality(Totals)
  BY <1>1, Smaller
<1>6. Cardinality(Totals) \in M
  <2> HIDE DEF M
  <2> QED
    BY <1>4, <1>5
<1>7. PICK m \in Totals : \A t \in Totals : t <= m
  BY <1>1, <1>5, <1>6
<1>8. \A t \in Totals : t <= m <=> m >= t
  BY <1>1
<1>9. Max(Totals) \in Totals /\ \A t \in Totals : Max(Totals) >= t
  BY <1>7, <1>8 DEF Max
<1> QED
  BY <1>1, <1>9

(***************************************************************************)
(* The bound on a budget.  Rank the verifications in flight against an     *)
(* intent by when they took their snapshots.  Those from some rank t on    *)
(* took theirs after the latest of the snapshots whose verifications have  *)
(* inserted; F is who is in flight, S what is spent, U what each has not   *)
(* seen of it.                                                             *)
(***************************************************************************)
Largest == Max(Totals)

Older(F, rank, n) == {q \in F : rank[q] < n}

Left(F, rank, n) == Cardinality(Requests) - 1 - Cardinality(Older(F, rank, n))

Ranked(F, S, U, limit, rank, t) ==
  /\ \A q \in F : \A r \in F : rank[q] = rank[r] => q = r
  /\ S <= limit + Left(F, rank, t) * Largest
  /\ \A r \in F : rank[r] >= t => U[r] <= Left(F, rank, rank[r]) * Largest

Within(F, S, U, limit) ==
  \E b \in Nat : \E rank \in [Requests -> 0..b] : \E t \in 0..b : Ranked(F, S, U, limit, rank, t)

\* What is left is a number below the number of requests.
LEMMA LeftIsNumber ==
  ASSUME NEW F \in SUBSET Requests, NEW rank, NEW n
  PROVE  /\ Left(F, rank, n) \in Int /\ Left(F, rank, n) <= Cardinality(Requests) - 1
         /\ F # Requests => Left(F, rank, n) >= 0
         /\ IsFiniteSet(Older(F, rank, n)) /\ Cardinality(Requests) \in Nat
<1>0. IsFiniteSet(Requests)
  BY ConstantsAssumption
<1>1. Older(F, rank, n) \in SUBSET Requests
  BY DEF Older
<1>2. /\ IsFiniteSet(Older(F, rank, n)) /\ Cardinality(Older(F, rank, n)) <= Cardinality(Requests)
      /\ Cardinality(Requests) = Cardinality(Older(F, rank, n)) => Requests = Older(F, rank, n)
  BY <1>0, <1>1, FS_Subset
<1>3. Cardinality(Older(F, rank, n)) \in Nat /\ Cardinality(Requests) \in Nat
  BY <1>0, <1>2, FS_CardinalityType
<1>4. F # Requests => Requests # Older(F, rank, n)
  BY DEF Older
<1>5. F # Requests => Cardinality(Older(F, rank, n)) < Cardinality(Requests)
  BY <1>2, <1>3, <1>4
<1> QED
  BY <1>2, <1>3, <1>5 DEF Left

\* Fewer in flight leave more.
LEMMA LeftGrows ==
  ASSUME NEW F \in SUBSET Requests, NEW E \in SUBSET F, NEW rank, NEW n
  PROVE  /\ Left(F, rank, n) <= Left(E, rank, n)
         /\ \A x \in F \ E : rank[x] < n => Left(F, rank, n) + 1 <= Left(E, rank, n)
<1>0. E \in SUBSET Requests
  OBVIOUS
<1>1. Older(E, rank, n) \in SUBSET Older(F, rank, n)
  BY DEF Older
<1>2. IsFiniteSet(Older(F, rank, n)) /\ IsFiniteSet(Older(E, rank, n)) /\ Cardinality(Requests) \in Nat
  BY <1>0, LeftIsNumber
<1>3. /\ Cardinality(Older(E, rank, n)) <= Cardinality(Older(F, rank, n))
      /\ Cardinality(Older(F, rank, n)) = Cardinality(Older(E, rank, n)) =>
           Older(F, rank, n) = Older(E, rank, n)
  BY <1>1, <1>2, FS_Subset
<1>4. Cardinality(Older(E, rank, n)) \in Nat /\ Cardinality(Older(F, rank, n)) \in Nat
  BY <1>2, FS_CardinalityType
<1>5. ASSUME NEW x \in F \ E, rank[x] < n PROVE Older(F, rank, n) # Older(E, rank, n)
  <2>1. x \in Older(F, rank, n) /\ x \notin Older(E, rank, n)
    BY <1>5 DEF Older
  <2> QED
    BY <2>1
<1>6. ASSUME NEW x \in F \ E, rank[x] < n
      PROVE  Cardinality(Older(E, rank, n)) < Cardinality(Older(F, rank, n))
  BY <1>3, <1>4, <1>5, <1>6
<1> QED
  BY <1>2, <1>3, <1>4, <1>6 DEF Left

\* With nothing spent and nobody in flight a budget is kept.
LEMMA NothingWithin ==
  ASSUME NEW U, NEW limit \in Nat PROVE Within({}, 0, U, limit)
<1> DEFINE rank == [r \in Requests |-> 0]
<1>1. Requests # {}
  BY ConstantsAssumption
<1>2. Left({}, rank, 0) \in Int /\ Left({}, rank, 0) >= 0
  BY <1>1, LeftIsNumber
<1>3. 0 <= Left({}, rank, 0) * Largest
  <2>1. 0 * Largest <= Left({}, rank, 0) * Largest
    BY <1>2, MaxTotal, Times DEF Largest
  <2> QED
    BY <2>1, MaxTotal DEF Largest
<1>4. Left({}, rank, 0) * Largest \in Int
  BY <1>2, MaxTotal DEF Largest
<1>5. Ranked({}, 0, U, limit, rank, 0)
  <2> HIDE DEF rank
  <2> QED
    BY <1>3, <1>4 DEF Ranked
<1>6. rank \in [Requests -> 0..0] /\ 0 \in 0..0 /\ 0 \in Nat
  OBVIOUS
<1> HIDE DEF rank
<1> QED
  BY <1>5, <1>6 DEF Within

\* A verification that ends, or that nothing happens to, keeps the budget.
LEMMA FewerWithin ==
  ASSUME NEW F \in SUBSET Requests, NEW S \in Int, NEW U, NEW limit \in Int, Within(F, S, U, limit),
         NEW E \in SUBSET F, NEW W, \A r \in E : W[r] = U[r], \A r \in E : U[r] \in Int
  PROVE  Within(E, S, W, limit)
<1>1. PICK b \in Nat : \E rank \in [Requests -> 0..b] : \E t \in 0..b : Ranked(F, S, U, limit, rank, t)
  BY DEF Within
<1>2. PICK rank \in [Requests -> 0..b] : \E t \in 0..b : Ranked(F, S, U, limit, rank, t)
  BY <1>1
<1>3. PICK t \in 0..b : Ranked(F, S, U, limit, rank, t)
  BY <1>2
<1>4. E \in SUBSET Requests
  OBVIOUS
<1>5. \A n : Left(F, rank, n) * Largest <= Left(E, rank, n) * Largest
             /\ Left(F, rank, n) * Largest \in Int /\ Left(E, rank, n) * Largest \in Int
  <2> SUFFICES ASSUME NEW n
               PROVE  Left(F, rank, n) * Largest <= Left(E, rank, n) * Largest
                      /\ Left(F, rank, n) * Largest \in Int /\ Left(E, rank, n) * Largest \in Int
    OBVIOUS
  <2>1. Left(F, rank, n) \in Int /\ Left(E, rank, n) \in Int /\ Left(F, rank, n) <= Left(E, rank, n)
    BY <1>4, LeftIsNumber, LeftGrows
  <2>2. Largest \in Nat
    BY MaxTotal DEF Largest
  <2> QED
    BY <2>1, <2>2, Times
<1>6. S <= limit + Left(E, rank, t) * Largest
  <2>1. S <= limit + Left(F, rank, t) * Largest
    BY <1>3 DEF Ranked
  <2> QED
    BY <1>5, <2>1
<1>7. ASSUME NEW r \in E, rank[r] >= t PROVE W[r] <= Left(E, rank, rank[r]) * Largest
  <2>1. U[r] <= Left(F, rank, rank[r]) * Largest
    BY <1>3, <1>7 DEF Ranked
  <2> QED
    BY <1>5, <2>1
<1>8. Ranked(E, S, W, limit, rank, t)
  BY <1>3, <1>6, <1>7 DEF Ranked
<1> QED
  BY <1>8 DEF Within

\* What is left, in money.
LEMMA LeftOver ==
  ASSUME NEW F \in SUBSET Requests, NEW rank, NEW n
  PROVE  Left(F, rank, n) * Largest \in Int /\ Largest \in Nat
         /\ Left(F, rank, n) * Largest <= (Cardinality(Requests) - 1) * Largest
         /\ (F # Requests => 0 <= Left(F, rank, n) * Largest)
<1>1. /\ Left(F, rank, n) \in Int /\ Left(F, rank, n) <= Cardinality(Requests) - 1
      /\ F # Requests => Left(F, rank, n) >= 0
      /\ Cardinality(Requests) - 1 \in Int
  BY LeftIsNumber
<1>2. Largest \in Nat /\ 0 * Largest = 0
  BY MaxTotal DEF Largest
<1> QED
  BY <1>1, <1>2, Times

\* With one who is in flight gone and older than the rank, one total more is left.
LEMMA OneMore ==
  ASSUME NEW F \in SUBSET Requests, NEW x \in F, NEW rank, NEW n, rank[x] < n
  PROVE  Left(F, rank, n) * Largest + Largest <= Left(F \ {x}, rank, n) * Largest
<1>1. F \ {x} \in SUBSET Requests /\ F \ {x} \in SUBSET F /\ x \in F \ (F \ {x})
  OBVIOUS
<1>2. /\ Left(F, rank, n) \in Int /\ Left(F \ {x}, rank, n) \in Int
      /\ Left(F, rank, n) + 1 <= Left(F \ {x}, rank, n)
  BY <1>1, LeftIsNumber, LeftGrows
<1>3. Largest \in Nat
  BY MaxTotal DEF Largest
<1> DEFINE a == Left(F, rank, n)
           c == Left(F \ {x}, rank, n)
<1>4. a \in Int /\ c \in Int /\ a + 1 \in Int /\ a + 1 <= c
  BY <1>2
<1> HIDE DEF a, c
<1>5. (a + 1) * Largest = a * Largest + Largest /\ (a + 1) * Largest <= c * Largest
  BY <1>3, <1>4, Times
<1> QED
  BY <1>5 DEF a, c

\* A verification that takes its snapshot ranks last, and has seen all that is spent.
LEMMA JoinWithin ==
  ASSUME NEW F \in SUBSET Requests, NEW S \in Int, NEW U, NEW limit \in Int, Within(F, S, U, limit),
         NEW x \in Requests \ F, NEW W, \A r \in F : W[r] = U[r], W[x] = 0
  PROVE  Within(F \cup {x}, S, W, limit)
<1>1. PICK b \in Nat : \E rank \in [Requests -> 0..b] : \E t \in 0..b : Ranked(F, S, U, limit, rank, t)
  BY DEF Within
<1>2. PICK rank \in [Requests -> 0..b] : \E t \in 0..b : Ranked(F, S, U, limit, rank, t)
  BY <1>1
<1>3. PICK t \in 0..b : Ranked(F, S, U, limit, rank, t)
  BY <1>2
<1> DEFINE E == F \cup {x}
           last == [rank EXCEPT ![x] = b + 1]
<1>4. /\ last \in [Requests -> 0..b + 1] /\ t \in 0..b + 1 /\ b + 1 \in Nat
      /\ last[x] = b + 1 /\ x \notin F
      /\ \A r \in F : last[r] = rank[r] /\ r \in Requests /\ rank[r] \in 0..b
  OBVIOUS
<1> HIDE DEF last
<1>5. ASSUME NEW n \in 0..b + 1 PROVE Left(E, last, n) = Left(F, rank, n)
  <2>1. ~(last[x] < n)
    BY <1>4, <1>5
  <2>2. Older(E, last, n) = Older(F, rank, n)
    BY <1>4, <2>1 DEF Older
  <2> QED
    BY <2>2 DEF Left
<1>6. S <= limit + Left(E, last, t) * Largest
  BY <1>3, <1>4, <1>5 DEF Ranked
<1>7. ASSUME NEW r \in E, last[r] >= t PROVE W[r] <= Left(E, last, last[r]) * Largest
  <2>1. CASE r = x
    <3>1. F # Requests /\ b + 1 \in 0..b + 1
      BY <1>4
    <3>2. Left(E, last, last[r]) = Left(F, rank, b + 1)
      BY <1>4, <1>5, <2>1, <3>1
    <3> QED
      BY <2>1, <3>1, <3>2, LeftOver
  <2>2. CASE r \in F
    <3>1. last[r] = rank[r] /\ rank[r] \in 0..b + 1
      BY <1>4, <2>2
    <3>2. U[r] <= Left(F, rank, rank[r]) * Largest
      BY <1>3, <1>7, <2>2, <3>1 DEF Ranked
    <3> QED
      BY <1>5, <2>2, <3>1, <3>2
  <2> QED
    BY <2>1, <2>2
<1>8. \A q \in E : \A r \in E : last[q] = last[r] => q = r
  <2>1. \A r \in F : last[r] # last[x]
    BY <1>4
  <2>2. \A q \in F : \A r \in F : last[q] = last[r] => q = r
    BY <1>3, <1>4 DEF Ranked
  <2> QED
    BY <2>1, <2>2
<1>9. Ranked(E, S, W, limit, last, t)
  BY <1>6, <1>7, <1>8 DEF Ranked
<1> QED
  BY <1>4, <1>9 DEF Within

\* A verification that inserts its spend raises what is spent, and what the others have
\* not seen, by one total.
LEMMA CommitWithin ==
  ASSUME NEW F \in SUBSET Requests, NEW S \in Int, NEW U, NEW limit \in Int, Within(F, S, U, limit),
         NEW x \in F, NEW v \in Nat, v <= Largest, NEW s \in Int, s + v <= limit, S = s + U[x],
         NEW W, \A r \in F : U[r] \in Int /\ W[r] \in Int /\ W[r] <= U[r] + v
  PROVE  Within(F \ {x}, S + v, W, limit)
<1>1. PICK b \in Nat : \E rank \in [Requests -> 0..b] : \E t \in 0..b : Ranked(F, S, U, limit, rank, t)
  BY DEF Within
<1>2. PICK rank \in [Requests -> 0..b] : \E t \in 0..b : Ranked(F, S, U, limit, rank, t)
  BY <1>1
<1>3. PICK t \in 0..b : Ranked(F, S, U, limit, rank, t)
  BY <1>2
<1> DEFINE E == F \ {x}
<1>4. E \in SUBSET Requests /\ E \in SUBSET F /\ x \in Requests /\ \A r \in F : rank[r] \in 0..b
  OBVIOUS
<1>5. Largest \in Nat
  BY MaxTotal DEF Largest
<1>6. \A q \in E : \A r \in E : rank[q] = rank[r] => q = r
  BY <1>3, <1>4 DEF Ranked
<1>7. ASSUME NEW r \in E, rank[r] >= t, rank[x] < rank[r]
      PROVE  W[r] <= Left(E, rank, rank[r]) * Largest
  <2>1. U[r] <= Left(F, rank, rank[r]) * Largest
    BY <1>3, <1>4, <1>7 DEF Ranked
  <2>2. Left(F, rank, rank[r]) * Largest + Largest <= Left(E, rank, rank[r]) * Largest
    BY <1>7, OneMore
  <2>3. Left(F, rank, rank[r]) * Largest \in Int /\ Left(E, rank, rank[r]) * Largest \in Int
    BY <1>4, LeftOver
  <2>4. U[r] \in Int /\ W[r] \in Int /\ W[r] <= U[r] + v
    BY <1>4
  <2> HIDE DEF E
  <2> QED
    BY <1>5, <2>1, <2>2, <2>3, <2>4
<1>8. CASE rank[x] < t
  <2>1. S <= limit + Left(F, rank, t) * Largest
    BY <1>3 DEF Ranked
  <2>2. Left(F, rank, t) * Largest + Largest <= Left(E, rank, t) * Largest
    BY <1>8, OneMore
  <2>3. Left(F, rank, t) * Largest \in Int /\ Left(E, rank, t) * Largest \in Int
    BY <1>4, LeftOver
  <2>4. S + v <= limit + Left(E, rank, t) * Largest
    <3> HIDE DEF E
    <3> QED
      BY <1>5, <2>1, <2>2, <2>3
  <2>5. ASSUME NEW r \in E, rank[r] >= t PROVE W[r] <= Left(E, rank, rank[r]) * Largest
    <3>1. rank[x] < rank[r]
      BY <1>4, <1>8, <2>5
    <3> QED
      BY <1>7, <2>5, <3>1
  <2>6. Ranked(E, S + v, W, limit, rank, t)
    BY <1>6, <2>4, <2>5 DEF Ranked
  <2> QED
    BY <2>6 DEF Within
<1>9. CASE t <= rank[x]
  <2>0. rank[x] \in 0..b
    BY <1>4
  <2>1. U[x] <= Left(F, rank, rank[x]) * Largest
    BY <1>3, <1>9, <2>0 DEF Ranked
  <2>2. Left(F, rank, rank[x]) * Largest <= Left(E, rank, rank[x]) * Largest
    <3>1. ~(rank[x] < rank[x])
      BY <2>0
    <3>2. Older(E, rank, rank[x]) = Older(F, rank, rank[x])
      BY <3>1 DEF Older
    <3>3. Left(E, rank, rank[x]) = Left(F, rank, rank[x])
      BY <3>2 DEF Left
    <3> QED
      BY <1>4, <3>3, LeftOver
  <2>3. Left(F, rank, rank[x]) * Largest \in Int /\ Left(E, rank, rank[x]) * Largest \in Int
        /\ U[x] \in Int
    BY <1>4, LeftOver
  <2>4. S + v <= limit + Left(E, rank, rank[x]) * Largest
    <3> HIDE DEF E
    <3> QED
      BY <2>1, <2>2, <2>3
  <2>5. ASSUME NEW r \in E, rank[r] >= rank[x] PROVE W[r] <= Left(E, rank, rank[r]) * Largest
    <3>1. rank[r] # rank[x]
      BY <1>3 DEF Ranked
    <3>2. rank[r] \in 0..b
      BY <1>4
    <3>3. rank[x] < rank[r] /\ rank[r] >= t
      BY <1>9, <2>0, <2>5, <3>1, <3>2
    <3> QED
      BY <1>7, <3>3
  <2>6. Ranked(E, S + v, W, limit, rank, rank[x])
    BY <1>6, <2>4, <2>5 DEF Ranked
  <2> QED
    BY <2>0, <2>6 DEF Within
<1>10. rank[x] < t \/ t <= rank[x]
  <2>1. rank[x] \in 0..b
    BY <1>4
  <2> QED
    BY <2>1
<1> QED
  BY <1>8, <1>9, <1>10

\* The bound itself.
LEMMA WithinBound ==
  ASSUME NEW F \in SUBSET Requests, NEW S \in Int, NEW U, NEW limit \in Int, Within(F, S, U, limit)
  PROVE  S <= limit + (Cardinality(Requests) - 1) * Max(Totals)
<1>1. PICK b \in Nat : \E rank \in [Requests -> 0..b] : \E t \in 0..b : Ranked(F, S, U, limit, rank, t)
  BY DEF Within
<1>2. PICK rank \in [Requests -> 0..b] : \E t \in 0..b : Ranked(F, S, U, limit, rank, t)
  BY <1>1
<1>3. PICK t \in 0..b : Ranked(F, S, U, limit, rank, t)
  BY <1>2
<1>4. S <= limit + Left(F, rank, t) * Largest
  BY <1>3 DEF Ranked
<1>5. /\ Left(F, rank, t) * Largest \in Int /\ Largest \in Nat
      /\ Left(F, rank, t) * Largest <= (Cardinality(Requests) - 1) * Largest
  BY LeftOver
<1>6. Cardinality(Requests) - 1 \in Int
  BY LeftIsNumber
<1>7. (Cardinality(Requests) - 1) * Largest \in Int
  BY <1>5, <1>6
<1>8. S <= limit + (Cardinality(Requests) - 1) * Largest
  BY <1>4, <1>5, <1>7
<1> QED
  BY <1>8 DEF Largest

(***************************************************************************)
(* The budgets of the mandates: each intent has one with each tenant.       *)
(***************************************************************************)
Flying == {"waiting", "inserting"}

Flight(i, t) ==
  {r \in Requests : req[r].pc \in Flying /\ carts[req[r].cart].intent = i /\ req[r].tenant = t}

Unseen(i, t) == [r \in Requests |-> Spent(SpendsOf(i, t) \ req[r].seen)]

\* What a verification in flight has seen are spends of its budget; what it adds fits.
Seeing(q) ==
  /\ q.pc \in Flying => q.seen \subseteq SpendsOf(carts[q.cart].intent, q.tenant)
  /\ q.pc = "inserting" => Spent(q.seen) + carts[q.cart].total <= Limit[carts[q.cart].intent]

Budgets ==
  /\ IsFiniteSet(spends) /\ \A r \in Requests : Seeing(req[r])
  /\ \A i \in Intents, t \in Tenants :
       Within(Flight(i, t), Spent(SpendsOf(i, t)), Unseen(i, t), Limit[i])

\* The rows are finitely many, of carts with totals; sums of them are numbers.
LEMMA Rows ==
  ASSUME Inv, IsFiniteSet(spends)
  PROVE  /\ \A c \in spends : carts[c] # None /\ c \in Carts /\ carts[c].total \in Nat
         /\ \A A \in SUBSET spends : SpentIn(carts, A) \in Nat
         /\ \A i, t : SpendsOf(i, t) \in SUBSET spends
         /\ \A i, t : Spent(SpendsOf(i, t)) \in Nat /\ \A r \in Requests : Unseen(i, t)[r] \in Nat
<1>1. \A c \in spends : carts[c] # None /\ c \in Carts /\ carts[c].total \in Nat
  BY Assumptions DEF Inv, TypeOK, Cart
<1>2. \A A \in SUBSET spends : SpentIn(carts, A) \in Nat
  BY <1>1, SpentAdds
<1>3. \A i, t : SpendsOf(i, t) \in SUBSET spends
  BY DEF SpendsOf
<1>4. ASSUME NEW i, NEW t PROVE Spent(SpendsOf(i, t)) \in Nat
  BY <1>2, <1>3, SpentIsIn
<1>5. ASSUME NEW i, NEW t, NEW r \in Requests PROVE Unseen(i, t)[r] \in Nat
  <2>1. SpendsOf(i, t) \ req[r].seen \in SUBSET spends
    BY <1>3
  <2>2. Spent(SpendsOf(i, t) \ req[r].seen) \in Nat
    BY <1>2, <2>1, SpentIsIn
  <2> QED
    BY <2>2 DEF Unseen
<1> QED
  BY <1>1, <1>2, <1>3, <1>4, <1>5

\* Issued carts are not changed.
CartsStay == \A c \in Carts : carts[c] # None => carts'[c] = carts[c]

\* Rows of issued carts count the same after a step.
LEMMA RowsStay ==
  ASSUME Inv, IsFiniteSet(spends), CartsStay
  PROVE  /\ \A c \in spends : carts'[c] = carts[c]
         /\ \A A \in SUBSET spends : SpentIn(carts', A) = SpentIn(carts, A)
<1>1. \A c \in spends : carts[c] # None /\ c \in Carts /\ carts[c].total \in Nat
  BY Rows
<1>2. \A c \in spends : carts'[c] = carts[c]
  BY <1>1 DEF CartsStay
<1>3. PICK T : T = spends
  OBVIOUS
<1>4. PICK cs : cs = carts
  OBVIOUS
<1>5. PICK ds : ds = carts'
  OBVIOUS
<1>6. IsFiniteSet(T) /\ (\A c \in T : cs[c].total \in Nat) /\ \A c \in T : ds[c].total = cs[c].total
  BY <1>1, <1>2, <1>3, <1>4, <1>5
<1>7. \A A \in SUBSET T : SpentIn(ds, A) = SpentIn(cs, A)
  BY <1>6, SpentSame
<1> QED
  BY <1>2, <1>3, <1>4, <1>5, <1>7

\* What is spent, and what is not seen of it, after a step.
LEMMA SpentNext ==
  ASSUME NEW i, NEW t
  PROVE  /\ Spent(SpendsOf(i, t))' = SpentIn(carts', SpendsOf(i, t)')
         /\ \A r \in Requests : Unseen(i, t)'[r] = SpentIn(carts', SpendsOf(i, t)' \ req'[r].seen)
<1>1. ASSUME NEW rows PROVE Spent(rows)' = SpentIn(carts', rows)
  BY Zenon DEF Spent, MapThenSumSet, MapThenFoldSet, SpentIn
<1> QED
  BY <1>1 DEF Unseen

\* A budget nobody joins and nothing is spent of.
LEMMA StaysWithin ==
  ASSUME Inv, Budgets, CartsStay, NEW i \in Intents, NEW t \in Tenants,
         SpendsOf(i, t)' = SpendsOf(i, t),
         \A r \in Requests : r \in Flight(i, t)' => r \in Flight(i, t) /\ req'[r].seen = req[r].seen
  PROVE  Within(Flight(i, t)', Spent(SpendsOf(i, t))', Unseen(i, t)', Limit[i])
<1> DEFINE F == Flight(i, t)
           E == Flight(i, t)'
           S == Spent(SpendsOf(i, t))
           U == Unseen(i, t)
           W == Unseen(i, t)'
<1>1. /\ F \in SUBSET Requests /\ E \in SUBSET F
      /\ \A r \in E : r \in Requests /\ req'[r].seen = req[r].seen
  BY DEF Flight
<1>2. IsFiniteSet(spends) /\ Within(F, S, U, Limit[i])
  BY DEF Budgets
<1>3. SpendsOf(i, t) \in SUBSET spends /\ S \in Int /\ \A r \in Requests : U[r] \in Int
  BY <1>2, Rows
<1>4. \A A \in SUBSET spends : SpentIn(carts', A) = SpentIn(carts, A)
  BY <1>2, RowsStay
<1>5. Spent(SpendsOf(i, t))' = S
  BY <1>3, <1>4, SpentNext, SpentIsIn
<1>6. ASSUME NEW r \in E PROVE W[r] = U[r]
  <2>1. W[r] = SpentIn(carts', SpendsOf(i, t) \ req[r].seen)
    BY <1>1, SpentNext
  <2>2. U[r] = SpentIn(carts, SpendsOf(i, t) \ req[r].seen)
    BY <1>1, SpentIsIn DEF Unseen
  <2>3. SpendsOf(i, t) \ req[r].seen \in SUBSET spends
    BY <1>3
  <2> QED
    BY <1>4, <2>1, <2>2, <2>3
<1>7. Limit[i] \in Int
  BY ConstantsAssumption
<1> HIDE DEF F, E, S, U, W
<1>8. \A r \in E : U[r] \in Int
  BY <1>1, <1>3
<1>9. Within(E, S, W, Limit[i])
  BY <1>1, <1>2, <1>3, <1>6, <1>7, <1>8, FewerWithin
<1> QED
  BY <1>5, <1>9 DEF E, W

\* A verification in flight was so before, for the same cart, with the same snapshot,
\* and begins to insert only what fits.
Follows(r) ==
  req'[r].pc \in Flying =>
    /\ req[r].pc \in Flying /\ req'[r].cart = req[r].cart /\ req'[r].seen = req[r].seen
    /\ req'[r].tenant = req[r].tenant
    /\ req'[r].pc = "inserting" =>
         Spent(req[r].seen) + carts[req[r].cart].total <= Limit[carts[req[r].cart].intent]

\* The cart of a verification in flight stays as it is.
LEMMA FlyingCart ==
  ASSUME Inv, CartsStay, NEW r \in Requests, req[r].pc \in Flying
  PROVE  /\ req[r].cart \in Carts /\ carts[req[r].cart] # None /\ carts'[req[r].cart] = carts[req[r].cart]
         /\ carts[req[r].cart].intent \in Intents /\ carts[req[r].cart].total \in Totals
         /\ req[r].tenant \in Tenants
<1>1. req[r].cart \in Carts /\ carts[req[r].cart] # None /\ req[r].tenant \in Tenants
  BY DEF Inv, Fits, Flying, Verifying
<1>2. carts[req[r].cart] \in Cart
  BY <1>1 DEF Inv, TypeOK
<1> QED
  BY <1>1, <1>2 DEF Cart, CartsStay

\* Such a verification goes on seeing spends of its budget, and what it adds still fits.
LEMMA SeeingStays ==
  ASSUME Inv, Budgets, CartsStay, spends \subseteq spends',
         \A c \in spends : payer'[c] = payer[c], NEW r \in Requests, Follows(r)
  PROVE  Seeing(req[r])'
<1> SUFFICES ASSUME req'[r].pc \in Flying
             PROVE  /\ req'[r].seen \subseteq SpendsOf(carts[req[r].cart].intent, req[r].tenant)'
                    /\ req'[r].pc = "inserting" =>
                         Spent(req[r].seen)' + carts'[req'[r].cart].total
                           <= Limit[carts'[req'[r].cart].intent]
  BY DEF Seeing, Flying
<1> DEFINE c == req[r].cart
           seen == req[r].seen
           tenant == req[r].tenant
<1>1. /\ req[r].pc \in Flying /\ req'[r].cart = c /\ req'[r].seen = seen /\ req'[r].tenant = tenant
      /\ req'[r].pc = "inserting" => Spent(seen) + carts[c].total <= Limit[carts[c].intent]
  BY DEF Follows
<1>2. carts'[c] = carts[c]
  BY <1>1, FlyingCart
<1>3. seen \subseteq SpendsOf(carts[c].intent, tenant) /\ IsFiniteSet(spends)
  BY <1>1 DEF Budgets, Seeing
<1>4. seen \in SUBSET spends
  BY <1>3 DEF SpendsOf
<1>5. (\A d \in spends : carts'[d] = carts[d]) /\ SpentIn(carts', seen) = SpentIn(carts, seen)
  BY <1>3, <1>4, RowsStay
<1>6. seen \subseteq {d \in spends' : carts'[d].intent = carts'[c].intent /\ payer'[d] = tenant}
  BY <1>2, <1>3, <1>5 DEF SpendsOf
<1>7. Spent(seen) = SpentIn(carts, seen)
  BY SpentIsIn
<1>8. Spent(req[r].seen)' = SpentIn(carts', seen)
  BY <1>1, Zenon DEF Spent, MapThenSumSet, MapThenFoldSet, SpentIn
<1> HIDE DEF c, seen, tenant
<1>9. req'[r].seen \subseteq SpendsOf(carts[req[r].cart].intent, req[r].tenant)'
  BY <1>1, <1>6 DEF SpendsOf
<1> QED
  BY <1>1, <1>2, <1>5, <1>7, <1>8, <1>9

\* A step that spends nothing and takes no snapshot.
LEMMA CalmBudgets ==
  ASSUME Inv, Budgets, CartsStay, spends' = spends, payer' = payer,
         \A r \in Requests : Follows(r)
  PROVE  Budgets'
<1>1. ASSUME NEW r \in Requests PROVE Seeing(req[r])'
  BY SeeingStays
<1>2. ASSUME NEW i \in Intents, NEW t \in Tenants
      PROVE  Within(Flight(i, t)', Spent(SpendsOf(i, t))', Unseen(i, t)', Limit[i])
  <2>1. SpendsOf(i, t)' = SpendsOf(i, t)
    <3>1. \A c \in spends : carts'[c] = carts[c]
      BY RowsStay DEF Budgets
    <3> QED
      BY <3>1 DEF SpendsOf
  <2>2. ASSUME NEW r \in Requests, r \in Flight(i, t)'
        PROVE  r \in Flight(i, t) /\ req'[r].seen = req[r].seen
    <3>1. req'[r].pc \in Flying /\ carts'[req'[r].cart].intent = i /\ req'[r].tenant = t
      BY <2>2 DEF Flight
    <3>2. /\ req[r].pc \in Flying /\ req'[r].cart = req[r].cart /\ req'[r].seen = req[r].seen
          /\ req'[r].tenant = req[r].tenant
      BY <3>1 DEF Follows
    <3>3. carts'[req[r].cart] = carts[req[r].cart]
      BY <3>2, FlyingCart
    <3> QED
      BY <3>1, <3>2, <3>3 DEF Flight
  <2> QED
    BY <2>1, <2>2, StaysWithin
<1>3. IsFiniteSet(spends')
  BY DEF Budgets
<1> QED
  BY <1>1, <1>2, <1>3 DEF Budgets

\* A verification that does not move, or is not in flight after the step, follows.
LEMMA Unmoved ==
  ASSUME Budgets, NEW r \in Requests, req'[r] = req[r] \/ req'[r].pc \notin Flying
  PROVE  Follows(r)
BY DEF Budgets, Seeing, Follows

\* Taking the snapshot.
LEMMA SelectBudgets ==
  ASSUME Inv, Budgets, NEW r \in Requests, SelectSpends(r) PROVE Budgets'
<1>2. /\ req[r].cart \in Carts /\ carts[req[r].cart] # None /\ req[r].tenant \in Tenants
      /\ req \in [Requests -> Request] /\ req[r] \in Request
  BY DEF SelectSpends, Inv, TypeOK, Fits, Verifying
<1>3. PICK i0 \in Intents, t0 \in Tenants : i0 = carts[req[r].cart].intent /\ t0 = req[r].tenant
  BY <1>2, CartType
<1> DEFINE next == [req[r] EXCEPT !.pc = "waiting", !.seen = SpendsOf(i0, t0)]
<1>1. /\ req[r].pc = "selecting" /\ req' = [req EXCEPT ![r] = next]
      /\ carts' = carts /\ spends' = spends /\ payer' = payer
  BY <1>3 DEF SelectSpends, Go
<1>4. /\ next.pc = "waiting" /\ next.seen = SpendsOf(i0, t0) /\ next.cart = req[r].cart
      /\ next.tenant = t0
  BY <1>2, <1>3 DEF Request
<1> HIDE DEF next
<1>5. req'[r] = next /\ \A q \in Requests \ {r} : req'[q] = req[q]
  BY <1>1, <1>2
<1>6. CartsStay /\ \A i, t : SpendsOf(i, t)' = SpendsOf(i, t)
  BY <1>1 DEF CartsStay, SpendsOf
<1>7. ASSUME NEW q \in Requests PROVE Seeing(req[q])'
  <2>1. CASE q = r
    <3>1. /\ req'[q].pc = "waiting" /\ req'[q].seen = SpendsOf(i0, t0) /\ carts'[req'[q].cart].intent = i0
          /\ req'[q].tenant = t0
      BY <1>1, <1>3, <1>4, <1>5, <2>1
    <3>2. SpendsOf(i0, t0) = {c \in spends' : carts'[c].intent = i0 /\ payer'[c] = t0}
      BY <1>1 DEF SpendsOf
    <3> QED
      BY <3>1, <3>2 DEF Seeing, SpendsOf
  <2>2. CASE q # r
    <3>1. req'[q] = req[q] /\ spends \subseteq spends' /\ \A c \in spends : payer'[c] = payer[c]
      BY <1>1, <1>5, <2>2
    <3> QED
      BY <1>6, <3>1, Unmoved, SeeingStays
  <2> QED
    BY <2>1, <2>2
<1>8. ASSUME NEW i \in Intents, NEW t \in Tenants, i # i0 \/ t # t0
      PROVE  Within(Flight(i, t)', Spent(SpendsOf(i, t))', Unseen(i, t)', Limit[i])
  <2>1. ASSUME NEW q \in Requests, q \in Flight(i, t)'
        PROVE  q \in Flight(i, t) /\ req'[q].seen = req[q].seen
    <3>1. req'[q].pc \in Flying /\ carts[req'[q].cart].intent = i /\ req'[q].tenant = t
      BY <1>1, <2>1 DEF Flight
    <3>2. q # r
      BY <1>3, <1>4, <1>5, <1>8, <3>1
    <3> QED
      BY <1>5, <3>1, <3>2 DEF Flight
  <2> QED
    BY <1>6, <2>1, StaysWithin
<1>9. Within(Flight(i0, t0)', Spent(SpendsOf(i0, t0))', Unseen(i0, t0)', Limit[i0])
  <2> DEFINE F == Flight(i0, t0)
             S == Spent(SpendsOf(i0, t0))
             U == Unseen(i0, t0)
             W == [q \in Requests |-> SpentIn(carts', SpendsOf(i0, t0)' \ req'[q].seen)]
  <2>1. IsFiniteSet(spends) /\ Within(F, S, U, Limit[i0]) /\ Limit[i0] \in Int
    BY <1>3, ConstantsAssumption DEF Budgets
  <2>2. S \in Int /\ F \in SUBSET Requests /\ r \in Requests \ F
    BY <1>1, <2>1, Rows DEF Flight, Flying
  <2>3. ASSUME NEW q \in F PROVE W[q] = U[q]
    <3>1. q \in Requests /\ req'[q] = req[q]
      BY <1>5, <2>2
    <3>2. W[q] = SpentIn(carts, SpendsOf(i0, t0) \ req[q].seen)
      BY <1>1, <1>6, <3>1
    <3> QED
      BY <3>1, <3>2, SpentIsIn DEF Unseen
  <2>4. W[r] = 0
    <3>1. SpendsOf(i0, t0)' \ req'[r].seen = {}
      BY <1>4, <1>5, <1>6
    <3>2. W[r] = SpentIn(carts, {})
      BY <1>1, <3>1
    <3>3. \A c \in spends : carts[c].total \in Nat
      BY <2>1, Rows
    <3> QED
      BY <2>1, <3>2, <3>3, SpentAdds
  <2>5. Flight(i0, t0)' = F \cup {r}
    <3>1. ASSUME NEW q \in Requests
          PROVE  req'[q].pc \in Flying /\ carts'[req'[q].cart].intent = i0
                   /\ req'[q].tenant = t0 <=> q \in F \/ q = r
      <4>1. CASE q = r
        BY <1>1, <1>3, <1>4, <1>5, <4>1 DEF Flying
      <4>2. CASE q # r
        BY <1>1, <1>5, <4>2 DEF Flight
      <4> QED
        BY <4>1, <4>2
    <3>2. Flight(i0, t0)' = {q \in Requests : req'[q].pc \in Flying /\ carts'[req'[q].cart].intent = i0
                                             /\ req'[q].tenant = t0}
      BY DEF Flight
    <3> HIDE DEF F
    <3> QED
      BY <2>2, <3>1, <3>2
  <2>6. Spent(SpendsOf(i0, t0))' = S /\ Unseen(i0, t0)' = W
    <3>1. Spent(SpendsOf(i0, t0))' = S
      BY <1>1, <1>6, SpentNext, SpentIsIn
    <3>2. \A q \in Requests : Unseen(i0, t0)'[q] = W[q]
      BY SpentNext
    <3>3. Unseen(i0, t0)' = [q \in Requests |-> Unseen(i0, t0)'[q]]
      BY DEF Unseen
    <3> HIDE DEF S
    <3>4. Unseen(i0, t0)' = W
      <4> HIDE DEF W
      <4>1. W = [q \in Requests |-> W[q]]
        BY DEF W
      <4> QED
        BY <3>2, <3>3, <4>1
    <3> QED
      BY <3>1, <3>4
  <2> HIDE DEF F, S, U, W
  <2>7. Within(F \cup {r}, S, W, Limit[i0])
    BY <2>1, <2>2, <2>3, <2>4, JoinWithin
  <2> QED
    BY <2>5, <2>6, <2>7
<1>10. \A i \in Intents, t \in Tenants : Within(Flight(i, t)', Spent(SpendsOf(i, t))', Unseen(i, t)', Limit[i])
  BY <1>8, <1>9
<1>11. IsFiniteSet(spends')
  BY <1>1 DEF Budgets
<1> QED
  BY <1>7, <1>10, <1>11 DEF Budgets

\* Inserting a spend.
LEMMA InsertBudgets ==
  ASSUME Inv, Budgets, NEW r \in Requests, InsertSpend(r), req[r].cart \notin spends
  PROVE  Budgets'
<1>1. /\ req[r].cart \in Carts /\ carts[req[r].cart] # None /\ req[r].tenant \in Tenants
      /\ req \in [Requests -> Request] /\ req[r] \in Request
  BY DEF InsertSpend, Inv, TypeOK, Fits, Verifying
<1>2. PICK c \in Carts : c = req[r].cart /\ carts[c] # None /\ c \notin spends
  BY <1>1
<1>3. PICK i0 \in Intents, t0 \in Tenants : i0 = carts[c].intent /\ t0 = req[r].tenant
  BY <1>1, <1>2, CartType
<1>4. PICK v \in Nat : v = carts[c].total /\ v <= Largest
  <2>1. carts[c].total \in Totals
    BY <1>2 DEF Inv, TypeOK, Cart
  <2> QED
    BY <2>1, MaxTotal DEF Largest
<1> DEFINE next == [req[r] EXCEPT !.pc = "answering", !.holds = {}]
<1>5. /\ req[r].pc = "inserting" /\ req' = [req EXCEPT ![r] = next]
      /\ carts' = carts /\ spends' = spends \cup {c}
      /\ payer' = [payer EXCEPT ![c] = req[r].tenant]
  BY <1>2 DEF InsertSpend, Go
<1>6. next.pc = "answering" /\ next.seen = req[r].seen
  BY <1>1 DEF Request
<1> HIDE DEF next
<1>7. /\ req'[r] = next /\ \A q \in Requests \ {r} : req'[q] = req[q]
      /\ \A q \in Requests : req'[q].seen = req[q].seen
  BY <1>1, <1>5, <1>6
<1>8. /\ CartsStay /\ SpendsOf(i0, t0)' = SpendsOf(i0, t0) \cup {c}
      /\ \A i, t : i # i0 \/ t # t0 => SpendsOf(i, t)' = SpendsOf(i, t)
      /\ \A d \in spends : payer'[d] = payer[d]
  <2>1. \A d \in Carts : payer'[d] = IF d = c THEN t0 ELSE payer[d]
    BY <1>3, <1>5 DEF Inv, TypeOK
  <2>2. spends \subseteq Carts
    BY DEF Inv, TypeOK
  <2>3. \A d \in spends : payer'[d] = payer[d]
    BY <1>2, <2>1, <2>2
  <2>4. payer'[c] = t0
    BY <2>1
  <2> QED
    BY <1>3, <1>5, <2>3, <2>4 DEF CartsStay, SpendsOf
<1>9. \A q \in Requests : Follows(q)
  <2>1. req'[r].pc \notin Flying
    BY <1>6, <1>7 DEF Flying
  <2> QED
    BY <1>7, <2>1, Unmoved
<1>10. \A q \in Requests : Seeing(req[q])'
  BY <1>5, <1>8, <1>9, SeeingStays
<1>11. \A i \in Intents, t \in Tenants : \A q \in Requests :
         q \in Flight(i, t)' <=> q \in Flight(i, t) /\ q # r
  BY <1>5, <1>6, <1>7 DEF Flight, Flying
<1>12. ASSUME NEW i \in Intents, NEW t \in Tenants, i # i0 \/ t # t0
       PROVE  Within(Flight(i, t)', Spent(SpendsOf(i, t))', Unseen(i, t)', Limit[i])
  BY <1>7, <1>8, <1>11, <1>12, StaysWithin
<1>13. Within(Flight(i0, t0)', Spent(SpendsOf(i0, t0))', Unseen(i0, t0)', Limit[i0])
  <2> DEFINE F == Flight(i0, t0)
             S == Spent(SpendsOf(i0, t0))
             U == Unseen(i0, t0)
             s == Spent(req[r].seen)
             W == [q \in Requests |-> SpentIn(carts', SpendsOf(i0, t0)' \ req'[q].seen)]
             T == spends \cup {c}
  <2>1. IsFiniteSet(spends) /\ Within(F, S, U, Limit[i0]) /\ Limit[i0] \in Int
    BY <1>3, ConstantsAssumption DEF Budgets
  <2>2. S \in Int /\ F \in SUBSET Requests /\ r \in F /\ \A q \in Requests : U[q] \in Nat
    BY <1>2, <1>3, <1>5, <2>1, Rows DEF Flight, Flying
  <2>3. /\ SpendsOf(i0, t0) \in SUBSET spends
        /\ \A q \in Requests : U[q] = SpentIn(carts, SpendsOf(i0, t0) \ req[q].seen)
    BY <2>1, Rows, SpentIsIn DEF Unseen
  <2>4. IsFiniteSet(T) /\ \A d \in T : carts[d].total \in Nat
    BY <1>4, <2>1, Rows, FS_AddElement
  <2>5. ASSUME NEW A \in SUBSET spends
        PROVE  SpentIn(carts, A) \in Nat /\ SpentIn(carts, A \cup {c}) = SpentIn(carts, A) + v
    <3>1. A \in SUBSET T /\ c \in T \ A
      BY <1>2
    <3> HIDE DEF T
    <3> QED
      BY <1>4, <2>4, <3>1, SpentAdds
  <2>6. Spent(SpendsOf(i0, t0))' = S + v
    <3>1. Spent(SpendsOf(i0, t0))' = SpentIn(carts, SpendsOf(i0, t0) \cup {c})
      <4>1. SpendsOf(i0, t0)' = SpendsOf(i0, t0) \cup {c} /\ carts' = carts
        BY <1>5, <1>8
      <4>2. Spent(SpendsOf(i0, t0))' = SpentIn(carts', SpendsOf(i0, t0)')
        BY SpentNext
      <4> QED
        BY <4>1, <4>2
    <3>2. S = SpentIn(carts, SpendsOf(i0, t0))
      BY SpentIsIn
    <3> QED
      BY <2>3, <2>5, <3>1, <3>2
  <2>7. ASSUME NEW q \in F PROVE W[q] = U[q] + v
    <3>1. q \in Requests /\ req'[q].seen = req[q].seen /\ c \notin req[q].seen
      BY <1>2, <1>7, <2>2 DEF Inv, TypeOK
    <3>2. (SpendsOf(i0, t0) \cup {c}) \ req[q].seen = (SpendsOf(i0, t0) \ req[q].seen) \cup {c}
          /\ SpendsOf(i0, t0) \ req[q].seen \in SUBSET spends
      BY <2>3, <3>1
    <3>3. W[q] = SpentIn(carts, (SpendsOf(i0, t0) \cup {c}) \ req[q].seen)
      BY <1>5, <1>8, <3>1
    <3> QED
      BY <2>3, <2>5, <3>1, <3>2, <3>3
  <2>8. s \in Int /\ s + v <= Limit[i0] /\ S = s + U[r]
    <3>1. req[r].seen \subseteq SpendsOf(i0, t0) /\ s + v <= Limit[i0]
      BY <1>2, <1>3, <1>4, <1>5 DEF Budgets, Seeing, Flying
    <3> DEFINE A == req[r].seen
               B == SpendsOf(i0, t0) \ req[r].seen
    <3>2. A \in SUBSET spends /\ B \in SUBSET spends /\ A \cap B = {} /\ A \cup B = SpendsOf(i0, t0)
      BY <2>3, <3>1
    <3>3. s = SpentIn(carts, A) /\ S = SpentIn(carts, SpendsOf(i0, t0)) /\ U[r] = SpentIn(carts, B)
      BY <2>3, SpentIsIn
    <3>4. \A d \in spends : carts[d].total \in Nat
      BY <2>4
    <3> HIDE DEF A, B, S, U, s
    <3>5. SpentIn(carts, A \cup B) = SpentIn(carts, A) + SpentIn(carts, B)
      BY <2>1, <3>2, <3>4, SpentApart
    <3>6. SpentIn(carts, A) \in Nat
      BY <2>5, <3>2
    <3>7. S = SpentIn(carts, A) + SpentIn(carts, B)
      BY <3>2, <3>3, <3>5, Zenon
    <3> QED
      BY <3>1, <3>3, <3>6, <3>7
  <2>9. Unseen(i0, t0)' = W
    <3>1. \A q \in Requests : Unseen(i0, t0)'[q] = W[q]
      BY SpentNext
    <3>2. Unseen(i0, t0)' = [q \in Requests |-> Unseen(i0, t0)'[q]]
      BY DEF Unseen
    <3>3. W = [q \in Requests |-> W[q]]
      OBVIOUS
    <3> HIDE DEF W
    <3> QED
      BY <3>1, <3>2, <3>3
  <2>10. Flight(i0, t0)' = F \ {r}
    <3>1. F \subseteq Requests /\ Flight(i0, t0)' \subseteq Requests
      BY DEF Flight
    <3> QED
      BY <1>11, <3>1
  <2> HIDE DEF F, S, U, W, s, T
  <2>11. \A q \in F : U[q] \in Int /\ W[q] \in Int /\ W[q] <= U[q] + v
    <3> SUFFICES ASSUME NEW q \in F PROVE U[q] \in Int /\ W[q] \in Int /\ W[q] <= U[q] + v
      OBVIOUS
    <3>1. U[q] \in Nat /\ W[q] = U[q] + v
      BY <2>2, <2>7
    <3> QED
      BY <3>1
  <2>12. Within(F \ {r}, S + v, W, Limit[i0])
    BY <1>4, <2>1, <2>2, <2>8, <2>11, CommitWithin
  <2> QED
    BY <2>6, <2>9, <2>10, <2>12
<1>14. IsFiniteSet(spends')
  BY <1>5, FS_AddElement DEF Budgets
<1>15. \A i \in Intents, t \in Tenants : Within(Flight(i, t)', Spent(SpendsOf(i, t))', Unseen(i, t)', Limit[i])
  BY <1>12, <1>13
<1> QED
  BY <1>10, <1>14, <1>15 DEF Budgets

\* A step that spends and answers nothing, and takes no snapshot.
Answers(r) ==
  req'[r].pc = "answering" => req[r].pc = "answering" /\ req'[r].cart = req[r].cart

Calm ==
  /\ CartsStay /\ spends' = spends /\ payer' = payer /\ fulfilled' = fulfilled
  /\ \A r \in Requests : Follows(r) /\ Answers(r)

\* A cart is answered once, after its spend is recorded, by one request.
Once ==
  /\ \A c \in Carts : fulfilled[c] # 0 => fulfilled[c] = 1 /\ c \in spends
  /\ \A r \in Requests : req[r].pc = "answering" =>
       /\ req[r].cart \in spends /\ fulfilled[req[r].cart] = 0
       /\ \A q \in Requests \ {r} : req[q].pc = "answering" => req[q].cart # req[r].cart

\* The other steps of requests are calm when they leave every other request alone.
LEMMA GoCalm ==
  ASSUME Inv, Budgets, NEW r \in Requests, NEW next, Go(r, next),
         UNCHANGED <<carts, spends, payer, fulfilled>>,
         next.pc \notin Flying, next.pc # "answering"
  PROVE  Calm
<1>1. req'[r] = next /\ \A q \in Requests \ {r} : req'[q] = req[q]
  BY DEF Go, Inv, TypeOK
<1>2. \A q \in Requests : Follows(q)
  BY <1>1, Unmoved
<1> QED
  BY <1>1, <1>2 DEF Calm, Answers, CartsStay

\* A request that ends is calm.
LEMMA EndCalm ==
  ASSUME Inv, Budgets, NEW r \in Requests, Go(r, NoRequest), UNCHANGED <<carts, spends, payer, fulfilled>>
  PROVE  Calm
<1>1. NoRequest.pc \notin Flying /\ NoRequest.pc # "answering"
  BY DEF NoRequest, Flying
<1> QED
  BY <1>1, GoCalm

\* Steps that leave the requests alone are calm.
LEMMA StillCalm ==
  ASSUME Inv, Budgets, CartsStay, spends' = spends, payer' = payer, fulfilled' = fulfilled, req' = req
  PROVE  Calm
BY Unmoved DEF Calm, Answers

\* Every step is calm but taking a snapshot, inserting and answering.
LEMMA NextCalm ==
  ASSUME Inv, Budgets, [Next]_vars
  PROVE  \/ Calm
         \/ \E r \in Requests : SelectSpends(r) \/ AnswerVerified(r)
         \/ \E r \in Requests : InsertSpend(r) /\ req[r].cart \notin spends
<1>1. CASE UNCHANGED vars
  BY <1>1, StillCalm DEF vars, CartsStay
<1>2. ASSUME NEW i \in Intents, NEW lifetime \in Lifetimes, CreateIntent(i, lifetime) PROVE Calm
  BY <1>2, StillCalm DEF CreateIntent, CartsStay
<1>3. ASSUME NEW m \in Revocable, Revoke(m) PROVE Calm
  BY <1>3, StillCalm DEF Revoke, CartsStay
<1>4. CASE Tick
  BY <1>4, StillCalm DEF Tick, CartsStay
<1>5. ASSUME NEW p \in Processes, Restart(p) PROVE Calm
  <2>1. /\ req' = [r \in Requests |-> IF On[r] = p THEN NoRequest ELSE req[r]]
        /\ UNCHANGED <<carts, spends, payer, fulfilled>>
    BY <1>5 DEF Restart
  <2>2. NoRequest.pc \notin Flying /\ NoRequest.pc # "answering"
    BY DEF NoRequest, Flying
  <2>3. \A r \in Requests : req'[r] = req[r] \/ req'[r] = NoRequest
    BY <2>1
  <2>4. \A r \in Requests : Follows(r) /\ Answers(r)
    BY <2>2, <2>3, Unmoved DEF Answers
  <2> QED
    BY <2>1, <2>4 DEF Calm, CartsStay
<1>6. ASSUME NEW r \in Requests, GiveUp(r) PROVE Calm
  BY <1>6, EndCalm DEF GiveUp
<1>7. ASSUME NEW r \in Requests, NEW i \in Intents, NEW total \in Totals,
             NEW lifetime \in Lifetimes, OrderCart(r, i, total, lifetime)
      PROVE  Calm
  <2> DEFINE next == [NoRequest EXCEPT !.pc = "issuing",
                        !.order = [intent |-> i, total |-> total, lifetime |-> lifetime]]
  <2>1. next.pc \notin Flying /\ next.pc # "answering"
    BY DEF NoRequest, Flying
  <2>2. Go(r, next) /\ UNCHANGED <<carts, spends, payer, fulfilled>>
    BY <1>7 DEF OrderCart
  <2> HIDE DEF next
  <2> QED
    BY <2>1, <2>2, GoCalm
<1>8. ASSUME NEW r \in Requests, NEW c \in Carts, NEW t \in Tenants, PresentCart(r, c, t) PROVE Calm
  <2> DEFINE next == [NoRequest EXCEPT !.pc = "presented", !.cart = c, !.tenant = t,
                        !.void = {i \in Intents : ~IntentValid(i)}]
  <2>1. next.pc \notin Flying /\ next.pc # "answering"
    BY DEF NoRequest, Flying
  <2>2. Go(r, next) /\ UNCHANGED <<carts, spends, payer, fulfilled>>
    BY <1>8 DEF PresentCart
  <2> HIDE DEF next
  <2> QED
    BY <2>1, <2>2, GoCalm
<1>9. ASSUME NEW r \in Requests, NEW c \in Carts, IssueCart(r, c) PROVE Calm
  <2>1. /\ carts[c] = None /\ carts' = [carts EXCEPT ![c] = NewCart(req[r].order)]
        /\ req' = [req EXCEPT ![r] = NoRequest] /\ UNCHANGED <<spends, payer, fulfilled>>
    BY <1>9 DEF IssueCart, Go
  <2>2. CartsStay
    BY <2>1 DEF CartsStay, Inv, TypeOK
  <2>3. NoRequest.pc \notin Flying /\ NoRequest.pc # "answering"
    BY DEF NoRequest, Flying
  <2>4. \A q \in Requests : req'[q] = req[q] \/ req'[q] = NoRequest
    BY <2>1 DEF Inv, TypeOK
  <2>5. \A q \in Requests : Follows(q) /\ Answers(q)
    BY <2>3, <2>4, Unmoved DEF Answers
  <2> QED
    BY <2>1, <2>2, <2>5 DEF Calm
<1>10. ASSUME NEW r \in Requests, Verify(r), ~SelectSpends(r), ~AnswerVerified(r),
              ~(InsertSpend(r) /\ req[r].cart \notin spends)
       PROVE  Calm
  <2>t. req[r] \in Request
    BY DEF Inv, TypeOK
  <2>s. Steps = {"idle", "issuing", "presented", "checking", "looking", "selecting",
                 "waiting", "inserting", "answering"}
    BY DEF Steps
  <2>1. ASSUME NEW pc \in {"checking", "looking", "selecting"},
               Go(r, [req[r] EXCEPT !.pc = pc]), UNCHANGED <<carts, spends, payer, fulfilled>>
        PROVE  Calm
    <3> DEFINE next == [req[r] EXCEPT !.pc = pc]
    <3>1. next.pc = pc
      BY <2>t DEF Request
    <3> HIDE DEF next
    <3>2. next.pc \notin Flying /\ next.pc # "answering"
      BY <2>1, <3>1 DEF Flying
    <3> QED
      BY <2>1, <3>2, GoCalm DEF next
  <2>2. ASSUME NEW endpoint \in Endpoints, PassReplay(r, endpoint) PROVE Calm
    BY <2>1, <2>2 DEF PassReplay
  <2>3. ASSUME NEW endpoint \in Endpoints, FailReplay(r, endpoint) PROVE Calm
    BY <2>3, EndCalm DEF FailReplay
  <2>4. CASE CheckParent(r)
    <3>1. UNCHANGED <<carts, spends, payer, fulfilled>>
          /\ (Go(r, NoRequest) \/ Go(r, [req[r] EXCEPT !.pc = "looking"]))
      BY <2>4 DEF CheckParent
    <3> QED
      BY <2>1, <3>1, EndCalm
  <2>5. CASE LookUpCart(r)
    <3>1. UNCHANGED <<carts, spends, payer, fulfilled>>
          /\ (Go(r, NoRequest) \/ Go(r, [req[r] EXCEPT !.pc = "selecting"]))
      BY <2>5 DEF LookUpCart
    <3> QED
      BY <2>1, <3>1, EndCalm
  <2>6. CASE SumSpends(r)
    <3> DEFINE next == [req[r] EXCEPT !.pc = "inserting", !.holds = req[r].seen]
    <3>1. /\ next.pc = "inserting" /\ next.cart = req[r].cart /\ next.seen = req[r].seen
          /\ next.tenant = req[r].tenant
      BY <2>t DEF Request
    <3>2. /\ req[r].pc = "waiting" /\ UNCHANGED <<carts, spends, payer, fulfilled>>
          /\ \/ Go(r, NoRequest)
             \/ /\ Go(r, next)
                /\ ~(Spent(req[r].seen) + carts[req[r].cart].total > Limit[carts[req[r].cart].intent])
      BY <2>6 DEF SumSpends
    <3> HIDE DEF next
    <3>3. CASE /\ Go(r, next)
               /\ ~(Spent(req[r].seen) + carts[req[r].cart].total > Limit[carts[req[r].cart].intent])
      <4>1. req'[r] = next /\ \A q \in Requests \ {r} : req'[q] = req[q]
        BY <3>3 DEF Go, Inv, TypeOK
      <4>2. Spent(req[r].seen) + carts[req[r].cart].total <= Limit[carts[req[r].cart].intent]
        <5>1. CartsStay /\ IsFiniteSet(spends)
          BY <3>2 DEF CartsStay, Budgets
        <5>2. /\ carts[req[r].cart].total \in Nat /\ Limit[carts[req[r].cart].intent] \in Nat
          BY <3>2, <5>1, FlyingCart, ConstantsAssumption DEF Flying
        <5>3. req[r].seen \in SUBSET spends
          BY DEF Inv, TypeOK
        <5>4. Spent(req[r].seen) \in Nat
          BY <5>1, <5>3, Rows, SpentIsIn
        <5> QED
          BY <3>3, <5>2, <5>4
      <4>3. Follows(r) /\ Answers(r)
        BY <3>1, <3>2, <4>1, <4>2 DEF Follows, Answers, Flying
      <4>4. \A q \in Requests \ {r} : Follows(q) /\ Answers(q)
        BY <4>1, Unmoved DEF Answers
      <4> QED
        BY <3>2, <4>3, <4>4 DEF Calm, CartsStay
    <3> QED
      BY <3>2, <3>3, EndCalm
  <2>7. CASE InsertSpend(r)
    <3>1. req[r].cart \in spends
      BY <1>10, <2>7
    <3>2. Go(r, NoRequest) /\ UNCHANGED <<carts, spends, payer, fulfilled>>
      BY <2>7, <3>1 DEF InsertSpend
    <3> QED
      BY <3>2, EndCalm
  <2> QED
    BY <1>10, <2>2, <2>3, <2>4, <2>5, <2>6, <2>7 DEF Verify
<1> QED
  BY <1>1, <1>2, <1>3, <1>4, <1>5, <1>6, <1>7, <1>8, <1>9, <1>10 DEF Next, Verify

\* A cart goes on being answered once.
LEMMA OnceStep ==
  ASSUME Inv, Budgets, Once, [Next]_vars PROVE Once'
<1>1. CASE Calm
  BY <1>1 DEF Calm, Answers, Once
<1>2. ASSUME NEW r \in Requests, SelectSpends(r) PROVE Once'
  <2> DEFINE next == [req[r] EXCEPT !.pc = "waiting", !.seen = SpendsOf(carts[req[r].cart].intent, req[r].tenant)]
  <2>1. req[r] \in Request /\ req' = [req EXCEPT ![r] = next] /\ UNCHANGED <<spends, payer, fulfilled>>
    BY <1>2 DEF SelectSpends, Go, Inv, TypeOK
  <2>2. next.pc = "waiting"
    BY <2>1 DEF Request
  <2> HIDE DEF next
  <2>3. \A q \in Requests : req'[q].pc = "answering" => req'[q] = req[q]
    BY <2>1, <2>2 DEF Inv, TypeOK
  <2> QED
    BY <2>1, <2>3 DEF Once
<1>3. ASSUME NEW r \in Requests, AnswerVerified(r) PROVE Once'
  <2>1. PICK c \in Carts : c = req[r].cart
    BY <1>3 DEF AnswerVerified, Inv, Fits, Verifying
  <2>2. req[r].pc = "answering" /\ fulfilled[c] = 0 /\ c \in spends
    BY <1>3, <2>1 DEF AnswerVerified, Once
  <2>3. fulfilled' = [fulfilled EXCEPT ![c] = 1] /\ spends' = spends
    BY <1>3, <2>1, <2>2 DEF AnswerVerified, Inv, TypeOK
  <2>4. req' = [req EXCEPT ![r] = NoRequest] /\ NoRequest.pc = "idle"
    BY <1>3 DEF AnswerVerified, Go, NoRequest
  <2>5. \A d \in Carts : fulfilled'[d] = IF d = c THEN 1 ELSE fulfilled[d]
    BY <2>3 DEF Inv, TypeOK
  <2>6. \A q \in Requests : req'[q].pc = "answering" => q # r /\ req'[q] = req[q]
    BY <2>4 DEF Inv, TypeOK
  <2>7. \A d \in Carts : fulfilled'[d] # 0 => fulfilled'[d] = 1 /\ d \in spends'
    BY <2>2, <2>3, <2>5 DEF Once
  <2>8. ASSUME NEW q \in Requests, req'[q].pc = "answering"
        PROVE  /\ req'[q].cart \in spends' /\ fulfilled'[req'[q].cart] = 0
               /\ \A p \in Requests \ {q} : req'[p].pc = "answering" => req'[p].cart # req'[q].cart
    <3>1. q # r /\ req'[q] = req[q] /\ req[q].pc = "answering"
      BY <2>6, <2>8
    <3>2. req[q].cart \in Carts /\ req[q].cart # c
      BY <2>1, <2>2, <3>1 DEF Once, Inv, Fits, Verifying
    <3> QED
      BY <2>3, <2>5, <2>6, <3>1, <3>2 DEF Once
  <2> QED
    BY <2>7, <2>8 DEF Once
<1>4. ASSUME NEW r \in Requests, InsertSpend(r), req[r].cart \notin spends PROVE Once'
  <2> DEFINE next == [req[r] EXCEPT !.pc = "answering", !.holds = {}]
  <2>1. /\ req[r] \in Request /\ req' = [req EXCEPT ![r] = next]
        /\ spends' = spends \cup {req[r].cart} /\ fulfilled' = fulfilled
    BY <1>4 DEF InsertSpend, Go, Inv, TypeOK
  <2>2. next.cart = req[r].cart
    BY <2>1 DEF Request
  <2> HIDE DEF next
  <2>3. req'[r] = next /\ \A q \in Requests \ {r} : req'[q] = req[q]
    BY <2>1 DEF Inv, TypeOK
  <2>4. req[r].cart \in Carts
    BY <1>4 DEF InsertSpend, Inv, Fits, Verifying
  <2>5. fulfilled[req[r].cart] = 0
    BY <1>4, <2>4 DEF Once
  <2>6. \A q \in Requests : req[q].pc = "answering" => req[q].cart # req[r].cart
    BY <1>4 DEF Once
  <2>7. \A d \in Carts : fulfilled'[d] # 0 => fulfilled'[d] = 1 /\ d \in spends'
    BY <2>1 DEF Once
  <2>8. ASSUME NEW q \in Requests, req'[q].pc = "answering"
        PROVE  /\ req'[q].cart \in spends' /\ fulfilled'[req'[q].cart] = 0
               /\ \A p \in Requests \ {q} : req'[p].pc = "answering" => req'[p].cart # req'[q].cart
    <3>1. CASE q = r
      BY <2>1, <2>2, <2>3, <2>5, <2>6, <3>1
    <3>2. CASE q # r
      BY <2>1, <2>2, <2>3, <2>6, <2>8, <3>2 DEF Once
    <3> QED
      BY <3>1, <3>2
  <2> QED
    BY <2>7, <2>8 DEF Once
<1> QED
  BY <1>1, <1>2, <1>3, <1>4, NextCalm

\* At the start nothing is spent, and nobody is in flight.
LEMMA InitBudgets == Init => Budgets /\ Once
<1> SUFFICES ASSUME Init PROVE Budgets /\ Once
  OBVIOUS
<1>1. /\ spends = {} /\ req = [r \in Requests |-> NoRequest] /\ NoRequest.pc = "idle"
      /\ fulfilled = [c \in Carts |-> 0]
  BY DEF Init, NoRequest
<1>2. \A r \in Requests : req[r].pc = "idle"
  BY <1>1
<1>3. Once
  BY <1>1, <1>2 DEF Once
<1>4. IsFiniteSet(spends) /\ \A r \in Requests : Seeing(req[r])
  BY <1>1, <1>2, FS_EmptySet DEF Seeing, Flying
<1>5. ASSUME NEW i \in Intents, NEW t \in Tenants
      PROVE  Within(Flight(i, t), Spent(SpendsOf(i, t)), Unseen(i, t), Limit[i])
  <2>1. Flight(i, t) = {} /\ SpendsOf(i, t) = {}
    BY <1>1, <1>2 DEF Flight, Flying, SpendsOf
  <2>2. SpentIn(carts, spends) = 0
    BY <1>1, <1>4, SpentAdds
  <2>3. Spent(SpendsOf(i, t)) = 0
    BY <1>1, <2>1, <2>2, SpentIsIn
  <2>4. Limit[i] \in Nat
    BY ConstantsAssumption
  <2> QED
    BY <2>1, <2>3, <2>4, NothingWithin
<1> QED
  BY <1>3, <1>4, <1>5 DEF Budgets

\* Every step keeps the budgets and the single answers.
LEMMA StepBudgets == Inv /\ Budgets /\ Once /\ [Next]_vars => Budgets' /\ Once'
<1> SUFFICES ASSUME Inv, Budgets, Once, [Next]_vars PROVE Budgets' /\ Once'
  OBVIOUS
<1>1. CASE Calm
  BY <1>1, CalmBudgets, OnceStep DEF Calm
<1>2. ASSUME NEW r \in Requests, AnswerVerified(r) PROVE Budgets'
  <2>1. req' = [req EXCEPT ![r] = NoRequest] /\ NoRequest.pc = "idle" /\ UNCHANGED <<carts, spends, payer>>
    BY <1>2 DEF AnswerVerified, Go, NoRequest
  <2>2. \A q \in Requests : req'[q] = req[q] \/ req'[q].pc = "idle"
    BY <2>1 DEF Inv, TypeOK
  <2>3. \A q \in Requests : Follows(q)
    BY <2>2, Unmoved DEF Flying
  <2> QED
    BY <2>1, <2>3, CalmBudgets DEF CartsStay
<1> QED
  BY <1>1, <1>2, NextCalm, SelectBudgets, InsertBudgets, OnceStep

\* Whatever the number of requests, processes and tenants, a cart is answered verified
\* at most once, and the budget of an intent with a tenant is overspent by at most one
\* largest total for each other request.
THEOREM SpendsBounded == Spec => []SpendsAreSound
<1>1. Inv /\ Budgets /\ Once => SpendsAreSound
  <2> SUFFICES ASSUME Inv, Budgets, Once PROVE SpendsAreSound
    OBVIOUS
  <2>1. \A c \in Carts : fulfilled[c] <= 1
    BY DEF Once, Inv, TypeOK
  <2>2. ASSUME NEW i \in Intents, NEW t \in Tenants
        PROVE  Spent(SpendsOf(i, t)) <= Limit[i] + (Cardinality(Requests) - 1) * Max(Totals)
    <3>1. Spent(SpendsOf(i, t)) \in Int /\ Limit[i] \in Int /\ Flight(i, t) \in SUBSET Requests
      BY Rows, ConstantsAssumption DEF Budgets, Flight
    <3> QED
      BY <3>1, WithinBound DEF Budgets
  <2> QED
    BY <2>1, <2>2 DEF SpendsAreSound, SpendIsBounded, Inv
<1> QED
  BY <1>1, InitInv, StepInv, InitBudgets, StepBudgets, PTL DEF Spec

-----------------------------------------------------------------------------
(***************************************************************************)
(* The replay store behind the verifications (JtiDedup).                   *)
(***************************************************************************)

\* What the assumptions on the constants say, as the proofs use it.
LEMMA DedupConstants ==
  /\ Expiry \in [Jtis -> Nat] /\ MaxInstant \in Nat /\ None \notin Endpoints
BY TokenAssumption

\* The clock and the expiries are numbers.
LEMMA DedupNumbers == ASSUME DedupTypeOK PROVE instant \in Nat /\ \A j \in Jtis : Expiry[j] \in Nat
BY DedupConstants DEF DedupTypeOK

(***************************************************************************)
(* The types.                                                              *)
(***************************************************************************)
LEMMA AcceptType ==
  ASSUME DedupTypeOK, NEW c \in Call, NEW dbUp \in DbStates(c.proc), Accept(c, dbUp)
  PROVE  DedupTypeOK'
<1> DEFINE p == c.proc
           j == c.jti
<1>0. p \in Processes /\ j \in Jtis /\ c.endpoint \in Endpoints
  BY DEF Call
<1>1. Kept(p, Expiry, instant) \subseteq store[p] /\ store[p] \subseteq Jtis
  BY <1>0 DEF Kept, DedupTypeOK, StoreTypeOK
<1>2. store' = [store EXCEPT ![p] = Kept(p, Expiry, instant) \cup {j}]
      /\ table' = IF dbUp /\ table[j] = None THEN [table EXCEPT ![j] = c.endpoint] ELSE table
  BY DEF Accept, Accepts
<1>3. StoreTypeOK'
  BY <1>0, <1>1, <1>2 DEF DedupTypeOK, StoreTypeOK
<1>4. \A i \in Jtis : table[i] # None => table'[i] = table[i]
  BY <1>0, <1>2 DEF DedupTypeOK, StoreTypeOK
<1>5. dbUp => table'[j] # None
  BY <1>0, <1>2, DedupConstants DEF DedupTypeOK, StoreTypeOK
<1>6. ASSUME NEW q \in Processes \ Unreliable, NEW i \in store'[q]
      PROVE  table'[i] # None
  <2>1. CASE q = p
    <3>1. dbUp
      BY <2>1 DEF DbStates
    <3>2. i = j \/ i \in store[p]
      BY <1>0, <1>1, <1>2, <2>1 DEF DedupTypeOK, StoreTypeOK
    <3> QED
      BY <1>1, <1>4, <1>5, <2>1, <3>1, <3>2 DEF DedupTypeOK
  <2>2. CASE q # p
    <3>1. i \in store[q] /\ i \in Jtis
      BY <1>2, <2>2 DEF DedupTypeOK, StoreTypeOK
    <3> QED
      BY <1>4, <3>1 DEF DedupTypeOK
  <2> QED
    BY <2>1, <2>2
<1>7. accepted' \in [Processes -> [Jtis -> 0..2]]
  <2> DEFINE n == IF accepted[p][j] = 2 THEN 2 ELSE accepted[p][j] + 1
  <2>1. accepted[p] \in [Jtis -> 0..2] /\ n \in 0..2
    BY <1>0 DEF DedupTypeOK
  <2>2. accepted' = [accepted EXCEPT ![p] = [accepted[p] EXCEPT ![j] = n]]
    BY <1>0 DEF Accept, DedupTypeOK
  <2> HIDE DEF n
  <2> QED
    BY <1>0, <2>1, <2>2 DEF DedupTypeOK
<1>8. calls' \subseteq Call /\ life' \in [Processes -> SUBSET Jtis] /\ instant' = instant
  BY <1>0 DEF Accept, DedupTypeOK
<1> QED
  BY <1>3, <1>6, <1>7, <1>8 DEF DedupTypeOK

\* Refusing a token keeps the types.
LEMMA RefuseType ==
  ASSUME DedupTypeOK, NEW c \in Call, NEW dbUp \in DbStates(c.proc), Refuse(c, dbUp)
  PROVE  DedupTypeOK'
<1> DEFINE p == c.proc
           j == c.jti
<1>0. p \in Processes /\ j \in Jtis
  BY DEF Call
<1>1. Kept(p, Expiry, instant) \subseteq store[p] /\ store[p] \subseteq Jtis
  BY <1>0 DEF Kept, DedupTypeOK, StoreTypeOK
<1>2. store' = [store EXCEPT ![p] = Kept(p, Expiry, instant) \cup {j}] /\ table' = table
      /\ (j \in Kept(p, Expiry, instant) \/ table[j] # None)
  BY DEF Refuse, Refuses, RecordedAsNew
<1>3. StoreTypeOK'
  BY <1>0, <1>1, <1>2 DEF DedupTypeOK, StoreTypeOK
<1>4. ASSUME NEW q \in Processes \ Unreliable, NEW i \in store'[q]
      PROVE  table'[i] # None
  <2>1. i \in store[q] \/ (q = p /\ i = j)
    BY <1>0, <1>1, <1>2 DEF DedupTypeOK, StoreTypeOK
  <2> QED
    BY <1>1, <1>2, <2>1 DEF DedupTypeOK
<1> QED
  BY <1>3, <1>4 DEF Refuse, DedupTypeOK

\* What a started process has read from the table.
LEMMA LoadType ==
  ASSUME DedupTypeOK, NEW p \in Processes, NEW dbUp \in BOOLEAN, StoreTypeOK',
         \A i \in Jtis : table[i] # None => table'[i] # None,
         store' = [store EXCEPT ![p] =
           IF dbUp THEN {j \in Jtis : table'[j] # None /\ Expiry[j] > instant} ELSE {}],
         instant' = instant, calls' \subseteq calls,
         life' = [life EXCEPT ![p] = {}], accepted' = accepted
  PROVE  DedupTypeOK'
<1>1. ASSUME NEW q \in Processes \ Unreliable, NEW i \in store'[q]
      PROVE  table'[i] # None
  <2>1. CASE q = p
    BY <2>1 DEF DedupTypeOK, StoreTypeOK
  <2>2. CASE q # p
    <3>1. i \in store[q] /\ i \in Jtis
      BY <2>2 DEF DedupTypeOK, StoreTypeOK
    <3> QED
      BY <3>1 DEF DedupTypeOK
  <2> QED
    BY <2>1, <2>2
<1> QED
  BY <1>1 DEF DedupTypeOK

\* Restarting a process, with or without the table, keeps the types.
LEMMA RestartType ==
  ASSUME DedupTypeOK, NEW p \in Processes, NEW dbUp \in DbStates(p), RestartProcess(p, dbUp)
  PROVE  DedupTypeOK'
<1>1. /\ store' = [store EXCEPT ![p] =
           IF dbUp THEN {j \in Jtis : table'[j] # None /\ Expiry[j] > instant} ELSE {}]
      /\ table' = table /\ dbUp \in BOOLEAN
  BY DEF RestartProcess, Starts, DbStates
<1>2. StoreTypeOK'
  BY <1>1 DEF DedupTypeOK, StoreTypeOK
<1> QED
  BY <1>1, <1>2, LoadType DEF RestartProcess

\* A process that dies after the row is written keeps the types.
LEMMA DieType ==
  ASSUME DedupTypeOK, NEW c \in Call, NEW dbUp \in DbStates(c.proc), DieRecording(c, dbUp)
  PROVE  DedupTypeOK'
<1>0. c.proc \in Processes /\ c.jti \in Jtis /\ c.endpoint \in Endpoints /\ dbUp \in BOOLEAN
  BY DEF Call, DbStates
<1>1. table' = [table EXCEPT ![c.jti] = c.endpoint]
      /\ store' = [store EXCEPT ![c.proc] =
           IF dbUp THEN {j \in Jtis : table'[j] # None /\ Expiry[j] > instant} ELSE {}]
  BY DEF DieRecording
<1>2. StoreTypeOK'
  BY <1>0, <1>1 DEF DedupTypeOK, StoreTypeOK
<1>3. \A i \in Jtis : table[i] # None => table'[i] # None
  BY <1>0, <1>1, DedupConstants DEF DedupTypeOK, StoreTypeOK
<1> QED
  BY <1>0, <1>1, <1>2, <1>3, LoadType DEF DieRecording

\* Every step keeps the types.
LEMMA DedupStepType == DedupTypeOK /\ [DedupNext]_dedupVars => DedupTypeOK'
<1> SUFFICES ASSUME DedupTypeOK, [DedupNext]_dedupVars PROVE DedupTypeOK'
  OBVIOUS
<1>1. CASE UNCHANGED dedupVars
  BY <1>1 DEF dedupVars, DedupTypeOK, StoreTypeOK
<1>2. ASSUME NEW c \in Call, VerifyToken(c) PROVE DedupTypeOK'
  BY <1>2 DEF VerifyToken, DedupTypeOK, StoreTypeOK
<1>3. CASE DedupTick
  BY <1>3, DedupConstants DEF DedupTick, DedupTypeOK, StoreTypeOK
<1> QED
  BY <1>1, <1>2, <1>3, AcceptType, RefuseType, RestartType, DieType DEF DedupNext

\* The store, the table and the calls keep their types, and what a process that
\* always reaches the table remembers is recorded there (jti_dedup.py).
THEOREM DedupTypeCorrect == DedupSpec => []DedupTypeOK
<1>1. DedupInit => DedupTypeOK
  BY DedupConstants DEF DedupInit, StoreInit, DedupTypeOK, StoreTypeOK
<1> QED
  BY <1>1, DedupStepType, PTL DEF DedupSpec

(***************************************************************************)
(* Replays.  A process remembers what it has accepted since it started     *)
(* until the token has expired.  One that reaches the table has it there   *)
(* and loads it when it starts again; only a token at the very moment of   *)
(* its expiry is not loaded, and then no call with it is under way (a call *)
(* is verified before the expiry, and a restart ends the calls).           *)
(***************************************************************************)
Coming(p, j) == \E c \in calls : c.proc = p /\ c.jti = j

Remembered ==
  \A p \in Processes, j \in Jtis :
    /\ j \in life[p] => j \in store[p] \/ instant > Expiry[j]
    /\ p \notin Unreliable /\ accepted[p][j] # 0 =>
         /\ table[j] # None
         /\ j \in store[p] \/ instant > Expiry[j] \/ (instant = Expiry[j] /\ ~Coming(p, j))

\* Eviction keeps a token that has not expired.
LEMMA KeptStays ==
  ASSUME DedupTypeOK, NEW p \in Processes, NEW j \in store[p], ~(instant > Expiry[j])
  PROVE  j \in Kept(p, Expiry, instant)
<1>1. j \in Jtis
  BY DEF DedupTypeOK, StoreTypeOK
<1> QED
  BY <1>1, DedupNumbers DEF Kept

\* A process that accepts a token remembers it and all it had accepted.
LEMMA AcceptRemembers ==
  ASSUME DedupTypeOK, Remembered, NEW c \in Call, NEW dbUp \in DbStates(c.proc), Accept(c, dbUp)
  PROVE  Remembered'
<1> DEFINE a == c.proc
           i == c.jti
<1>0. a \in Processes /\ i \in Jtis /\ c.endpoint \in Endpoints
  BY DEF Call
<1>1. /\ store' = [store EXCEPT ![a] = Kept(a, Expiry, instant) \cup {i}]
      /\ table' = IF dbUp /\ table[i] = None THEN [table EXCEPT ![i] = c.endpoint] ELSE table
      /\ life' = [life EXCEPT ![a] = @ \cup {i}] /\ calls' \subseteq calls /\ instant' = instant
  BY DEF Accept, Accepts
<1>2. \A j \in Jtis : table[j] # None => table'[j] # None
  BY <1>0, <1>1 DEF DedupTypeOK, StoreTypeOK
<1> SUFFICES ASSUME NEW p \in Processes, NEW j \in Jtis
             PROVE  /\ j \in life'[p] => j \in store'[p] \/ instant > Expiry[j]
                    /\ p \notin Unreliable /\ accepted'[p][j] # 0 =>
                         /\ table'[j] # None
                         /\ \/ j \in store'[p] \/ instant > Expiry[j]
                            \/ instant = Expiry[j] /\ ~Coming(p, j)'
  BY <1>1 DEF Remembered
<1>3. ~Coming(p, j) => ~Coming(p, j)'
  BY <1>1 DEF Coming
<1>4. CASE p = a /\ j = i
  <2>1. j \in store'[p]
    BY <1>0, <1>1, <1>4 DEF DedupTypeOK, StoreTypeOK
  <2>2. p \notin Unreliable => table'[j] # None
    BY <1>0, <1>1, <1>4, DedupConstants DEF DedupTypeOK, StoreTypeOK, DbStates
  <2> QED
    BY <2>1, <2>2
<1>5. CASE ~(p = a /\ j = i)
  <2>1. accepted'[p][j] = accepted[p][j]
    BY <1>0, <1>5 DEF Accept, DedupTypeOK
  <2>2. j \in life'[p] => j \in life[p]
    BY <1>0, <1>1, <1>5 DEF DedupTypeOK
  <2>3. j \in store[p] => j \in store'[p] \/ instant > Expiry[j]
    BY <1>0, <1>1, KeptStays DEF DedupTypeOK, StoreTypeOK
  <2> QED
    BY <1>2, <1>3, <2>1, <2>2, <2>3 DEF Remembered
<1> QED
  BY <1>4, <1>5

\* A process that refuses a token forgets none that has not expired.
LEMMA RefuseRemembers ==
  ASSUME DedupTypeOK, Remembered, NEW c \in Call, NEW dbUp \in DbStates(c.proc), Refuse(c, dbUp)
  PROVE  Remembered'
<1>0. c.proc \in Processes
  BY DEF Call
<1>1. /\ store' = [store EXCEPT ![c.proc] = Kept(c.proc, Expiry, instant) \cup {c.jti}]
      /\ calls' \subseteq calls /\ UNCHANGED <<table, instant, accepted, life>>
  BY DEF Refuse, Refuses
<1> SUFFICES ASSUME NEW p \in Processes, NEW j \in Jtis
             PROVE  /\ j \in store[p] => j \in store'[p] \/ instant > Expiry[j]
                    /\ ~Coming(p, j) => ~Coming(p, j)'
  BY <1>1 DEF Remembered
<1> QED
  BY <1>0, <1>1, KeptStays DEF DedupTypeOK, StoreTypeOK, Coming

\* A process starts again: it loads what the table holds, or, if it cannot, nothing.
LEMMA LoadRemembers ==
  ASSUME DedupTypeOK, Remembered, NEW a \in Processes, NEW dbUp \in DbStates(a),
         \A j \in Jtis : table[j] # None => table'[j] # None,
         store' = [store EXCEPT ![a] =
           IF dbUp THEN {j \in Jtis : table'[j] # None /\ Expiry[j] > instant} ELSE {}],
         calls' = {c \in calls : c.proc # a}, life' = [life EXCEPT ![a] = {}],
         UNCHANGED <<instant, accepted>>
  PROVE  Remembered'
<1> SUFFICES ASSUME NEW p \in Processes, NEW j \in Jtis
             PROVE  /\ j \in life'[p] => j \in store'[p] \/ instant > Expiry[j]
                    /\ p \notin Unreliable /\ accepted[p][j] # 0 =>
                         /\ table'[j] # None
                         /\ \/ j \in store'[p] \/ instant > Expiry[j]
                            \/ instant = Expiry[j] /\ ~Coming(p, j)'
  BY DEF Remembered
<1>1. CASE p = a
  <2>1. life'[p] = {} /\ ~Coming(p, j)'
    BY <1>1 DEF DedupTypeOK, Coming
  <2>2. ASSUME p \notin Unreliable, accepted[p][j] # 0
        PROVE  table'[j] # None /\ (j \in store'[p] \/ instant > Expiry[j] \/ instant = Expiry[j])
    <3>1. table'[j] # None /\ dbUp
      BY <1>1, <2>2 DEF Remembered, DbStates
    <3>2. Expiry[j] > instant => j \in store'[p]
      BY <1>1, <3>1 DEF DedupTypeOK, StoreTypeOK
    <3> QED
      BY <3>1, <3>2, DedupNumbers
  <2> QED
    BY <2>1, <2>2
<1>2. CASE p # a
  <2>1. life'[p] = life[p] /\ store'[p] = store[p]
    BY <1>2 DEF DedupTypeOK, StoreTypeOK
  <2>2. ~Coming(p, j) => ~Coming(p, j)'
    BY DEF Coming
  <2> QED
    BY <2>1, <2>2 DEF Remembered
<1> QED
  BY <1>1, <1>2

\* Every step keeps what is remembered.
LEMMA StepRemembers == DedupTypeOK /\ Remembered /\ [DedupNext]_dedupVars => Remembered'
<1> SUFFICES ASSUME DedupTypeOK, Remembered, [DedupNext]_dedupVars PROVE Remembered'
  OBVIOUS
<1>1. CASE UNCHANGED dedupVars
  BY <1>1 DEF dedupVars, Remembered, Coming
<1>2. ASSUME NEW c \in Call, VerifyToken(c) PROVE Remembered'
  <2> SUFFICES ASSUME NEW p \in Processes, NEW j \in Jtis, instant = Expiry[j], ~Coming(p, j)
               PROVE  ~Coming(p, j)'
    BY <1>2 DEF VerifyToken, Remembered
  <2>1. c.jti # j
    BY <1>2, DedupNumbers DEF VerifyToken
  <2> QED
    BY <1>2, <2>1 DEF VerifyToken, Coming
<1>3. ASSUME NEW p \in Processes, NEW dbUp \in DbStates(p), RestartProcess(p, dbUp) PROVE Remembered'
  BY <1>3, LoadRemembers DEF RestartProcess, Starts
<1>4. ASSUME NEW c \in Call, NEW dbUp \in DbStates(c.proc), DieRecording(c, dbUp) PROVE Remembered'
  <2>1. c.proc \in Processes /\ c.jti \in Jtis /\ c.endpoint \in Endpoints
    BY DEF Call
  <2>2. \A j \in Jtis : table[j] # None => table'[j] # None
    BY <1>4, <2>1, DedupConstants DEF DieRecording, DedupTypeOK, StoreTypeOK
  <2> QED
    BY <1>4, <2>1, <2>2, LoadRemembers DEF DieRecording
<1>5. CASE DedupTick
  <2> SUFFICES ASSUME NEW j \in Jtis
               PROVE  /\ instant > Expiry[j] => instant' > Expiry[j]
                      /\ instant = Expiry[j] => instant' > Expiry[j]
    BY <1>5 DEF DedupTick, Remembered, Coming
  <2> QED
    BY <1>5, DedupNumbers DEF DedupTick
<1> QED
  BY <1>1, <1>2, <1>3, <1>4, <1>5, AcceptRemembers, RefuseRemembers DEF DedupNext

\* A process accepts a valid token once: across restarts if it reaches the table,
\* for as long as it runs if it does not, whatever the other processes do and at
\* whatever moment of the token's life it dies.
THEOREM OnceForAll == DedupSpec => AcceptedOnce
<1> DEFINE A == \A p \in Processes, j \in Jtis :
       /\ p \notin Unreliable /\ AcceptsAgain(p, j) => instant > Expiry[j]
       /\ j \in life[p] /\ accepted'[p][j] # accepted[p][j] => instant > Expiry[j]
<1>1. DedupInit => Remembered
  BY DEF DedupInit, Remembered
<1>2. DedupTypeOK /\ Remembered /\ [DedupNext]_dedupVars => [A]_dedupVars
  <2> SUFFICES ASSUME DedupTypeOK, Remembered, [DedupNext]_dedupVars,
                      NEW p \in Processes, NEW j \in Jtis, accepted'[p][j] # accepted[p][j],
                      ~(instant > Expiry[j])
               PROVE  ~(p \notin Unreliable /\ accepted[p][j] = 1) /\ j \notin life[p]
    BY DEF AcceptsAgain
  <2>1. PICK c \in Call : \E dbUp \in DbStates(c.proc) : Accept(c, dbUp)
    BY DEF DedupNext, dedupVars, VerifyToken, Refuse, RestartProcess, DieRecording, DedupTick
  <2>2. c.proc = p /\ c.jti = j
    BY <2>1 DEF Accept, DedupTypeOK, Call
  <2>3. j \notin Kept(p, Expiry, instant) /\ Coming(p, j)
    BY <2>1, <2>2 DEF Accept, Accepts, Coming
  <2>4. j \notin store[p]
    BY <2>3, KeptStays
  <2> QED
    BY <2>3, <2>4 DEF Remembered
<1> QED
  BY <1>1, <1>2, DedupTypeCorrect, StepRemembers, PTL DEF DedupSpec, AcceptedOnce

=============================================================================
