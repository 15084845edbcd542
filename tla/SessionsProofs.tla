--------------------------- MODULE SessionsProofs ---------------------------
(* What Sessions guarantees for every value of its constants, and that it  *)
(* implements SessionContract.                                             *)
EXTENDS Sessions, TLAPS

(***************************************************************************)
(* The strengthening.  Shape types the input of each request by what it is *)
(* doing.  LockInv says a request holds exactly the lock of the row it is  *)
(* working on, which is why SnapshotInv can say that what it read is still *)
(* the row and the ledger when it commits.                                 *)
(***************************************************************************)
Shape ==
  \A r \in Requests :
    /\ req[r].pc = "deciding" => req[r].in \in Inputs
    /\ req[r].pc = "creating" =>
         req[r].in \in [body : Bodies, key : Keys \cup {None}]
    /\ req[r].pc \in {"cascading", "setting"} => req[r].row.body.delegation \in Delegations
    /\ req[r].pc = "setting" => req[r].target \in req[r].marked

LockInv ==
  \A r \in Requests, s \in SessionIds :
    lock[s] = r <=> req[r].pc \in Working /\ req[r].session = s

SnapshotInv ==
  \A r \in Requests : req[r].pc \in Working =>
    /\ req[r].row = rows[req[r].session]
    /\ req[r].spent = spent[req[r].session]
    /\ req[r].now <= clock
    /\ req[r].row.status = "expired" => req[r].row.expires < req[r].now

\* "expired" is only ever written by a request that has seen the expiry pass.
ExpiredInv ==
  \A s \in SessionIds :
    Exists(s) /\ rows[s].status = "expired" => rows[s].expires < clock

Inv == TypeOK /\ Shape /\ LockInv /\ SnapshotInv /\ ExpiredInv

\* What the proofs use of the assumption on the constants.
LEMMA Constants ==
  /\ None \notin Requests /\ None \notin SessionIds /\ None \notin Nat
  /\ None \notin Currencies /\ None \notin Delegations /\ None \notin Keys
  /\ DefaultCurrency \in Currencies /\ Inputs \subseteq Input
  /\ Bodies \subseteq Body /\ Scores \subseteq 0..100 /\ MaxClock \in Nat
  /\ Parent \in [Delegations -> Delegations \cup {None}]
BY ConstantsAssumption

\* No row is the absent value.
LEMMA RowIsNotNone == ASSUME NEW s \in SessionIds, TypeOK, Exists(s)
                      PROVE  rows[s] \in Row
BY DEF TypeOK, Exists

\* The pure operators stay within their types.
LEMMA ScoreType ==
  ASSUME NEW row \in Row, NEW in \in Inputs
  PROVE  /\ Score(row, in) \in 0..100
         /\ DecideFromScore(Score(row, in)) \in {"allow", "step_up", "block"}
<1>1. in \in Input /\ None \notin 0..100
  BY Constants
<1>2. Score(row, in) \in 0..100
  BY <1>1 DEF Score, Row, Input, DefaultUnscored, StepUpThreshold
<1> QED
  BY <1>2 DEF DecideFromScore

\* A step-up's score stays between 0 and 100.
LEMMA RaisedType ==
  ASSUME NEW score \in (0..100) \cup {None}
  PROVE  Raised(score) \in 0..100
BY Constants DEF Raised, StepUpThreshold

\* The budget a decision is tested against is in a currency of the ledger.
LEMMA CurrencyType ==
  ASSUME NEW row \in Row, NEW in \in Inputs
  PROVE  BudgetCurrency(row.body.scope, in) \in Currencies
BY Constants DEF BudgetCurrency, Row, Body, Scope, Input

\* An idle request has its type.
LEMMA NoRequestType == NoRequest \in Request
BY Constants DEF NoRequest, Request

\* Changing fields of a row, or of a request, within their types.
LEMMA RowUpdate ==
  ASSUME NEW row \in Row, NEW status \in Statuses, NEW last \in Decisions,
         NEW score \in (0..100) \cup {None}, NEW up \in BOOLEAN,
         NEW named \in SUBSET Delegations
  PROVE  [row EXCEPT !.status = status, !.last = last, !.score = score,
                     !.steppedUp = up, !.cascaded = named] \in Row
BY DEF Row

-----------------------------------------------------------------------------
\* Initially the strengthened invariant holds.
LEMMA InitInv == Init => Inv
<1> SUFFICES ASSUME Init PROVE Inv
  OBVIOUS
<1>1. TypeOK
  BY Constants, NoRequestType DEF Init, TypeOK, NoRequest, Working, Ledger, Exists
<1>2. Shape /\ LockInv /\ SnapshotInv /\ ExpiredInv
  BY Constants DEF Init, Shape, LockInv, SnapshotInv, ExpiredInv, Exists,
                   NoRequest, Working
<1> QED
  BY <1>1, <1>2 DEF Inv

\* Every step that only moves the clock or nothing preserves it.
LEMMA TickInv == Inv /\ (Tick \/ UNCHANGED vars) => Inv'
<1> SUFFICES ASSUME Inv, Tick \/ UNCHANGED vars PROVE Inv'
  OBVIOUS
<1>1. clock' \in 0..MaxClock /\ clock \in Nat /\ clock' >= clock
  BY Constants DEF Inv, TypeOK, Tick, vars
<1>2. UNCHANGED <<rows, spent, lock, req, registry, bits>>
  BY DEF Tick, vars
<1>3. TypeOK' /\ Shape' /\ LockInv'
  BY <1>1, <1>2 DEF Inv, TypeOK, Shape, LockInv, Exists
<1>a. SnapshotInv'
  <2>1. \A r \in Requests : req[r].now \in Nat
    BY DEF Inv, TypeOK, Request
  <2> QED
    BY <1>1, <1>2, <2>1 DEF Inv, SnapshotInv
<1>4. ExpiredInv'
  <2> SUFFICES ASSUME NEW s \in SessionIds, Exists(s), rows[s].status = "expired"
               PROVE  rows[s].expires < clock'
    BY <1>2 DEF ExpiredInv, Exists
  <2>1. rows[s].expires \in Nat /\ rows[s].expires < clock
    BY RowIsNotNone DEF Inv, ExpiredInv, Row
  <2> QED
    BY <1>1, <2>1
<1> QED
  BY <1>3, <1>a, <1>4 DEF Inv

\* A request that starts: it locks a row and reads it and its ledger.
LEMMA LockRowInv ==
  ASSUME Inv, NEW r \in Requests, NEW s \in SessionIds, NEW in, NEW pc,
         LockRow(r, s, pc, in),
         \/ pc = "deciding" /\ in \in Inputs
         \/ pc \in {"steppingUp", "revoking"} /\ in = None
         \/ /\ pc = "cascading" /\ in = None
            /\ rows[s].body.delegation \in Delegations
  PROVE  Inv'
<1>1. pc \in Working /\ lock[s] = None /\ req[r].pc = "idle" /\ Exists(s)
  BY DEF LockRow, Working
<1>2. rows[s] \in Row /\ spent[s] \in Ledger /\ clock \in 0..MaxClock
  BY <1>1, RowIsNotNone DEF Inv, TypeOK
<1>3. req'[r] \in Request
  <2>1. req'[r] = [pc |-> pc, session |-> s, now |-> clock, row |-> rows[s], in |-> in,
                   spent |-> spent[s], marked |-> {}, target |-> None, seen |-> {},
                   cascaded |-> {}]
    BY DEF Inv, TypeOK, LockRow, NoRequest
  <2> QED
    BY <1>1, <1>2, <2>1 DEF Request
<1>4. TypeOK'
  BY <1>1, <1>3, Constants DEF Inv, TypeOK, LockRow, Exists, NoRequest
<1>5. Shape'
  BY <1>1 DEF Inv, TypeOK, Shape, LockRow, NoRequest
<1>6. LockInv'
  BY <1>1, Constants DEF Inv, TypeOK, LockInv, LockRow, NoRequest, Working
<1>7. SnapshotInv' /\ ExpiredInv'
  BY <1>1, <1>2 DEF Inv, TypeOK, SnapshotInv, ExpiredInv, LockRow, NoRequest, Exists
<1> QED
  BY <1>4, <1>5, <1>6, <1>7 DEF Inv

\* A hand-off that finds no row for its key, and the row it then inserts.
LEMMA CreateLookupInv ==
  ASSUME Inv, NEW r \in Requests, NEW body \in Bodies,
         NEW key \in Keys \cup {None}, CreateLookup(r, body, key)
  PROVE  Inv'
<1>1. req' = [req EXCEPT ![r].pc = "creating",
                         ![r].in = [body |-> body, key |-> key]]
  BY DEF CreateLookup
<1>a. req[r] \in Request /\ req[r].pc = "idle"
  BY DEF Inv, TypeOK, CreateLookup
<1>b. [body |-> body, key |-> key] \in [body : Bodies, key : Keys \cup {None}]
  OBVIOUS
<1>c. req'[r] = [req[r] EXCEPT !.pc = "creating",
                               !.in = [body |-> body, key |-> key]]
  BY <1>1 DEF Inv, TypeOK
<1>2. req'[r] \in Request /\ req[r].pc = "idle"
  BY <1>a, <1>b, <1>c DEF Request
<1>3. TypeOK'
  BY <1>1, <1>2 DEF Inv, TypeOK, CreateLookup, Exists, Working
<1>4. Shape' /\ LockInv' /\ SnapshotInv' /\ ExpiredInv'
  BY <1>1, <1>2 DEF Inv, TypeOK, Shape, LockInv, SnapshotInv, ExpiredInv, Exists,
                    CreateLookup, Working
<1> QED
  BY <1>3, <1>4 DEF Inv

\* The row a hand-off inserts.
LEMMA FreshRow ==
  ASSUME Inv, NEW r \in Requests, NEW s \in SessionIds,
         NEW total \in Scores \cup {None}, CreateInsert(r, s, total)
  PROVE  /\ rows'[s] \in Row /\ rows'[s] # None
         /\ rows'[s].status = "active" /\ rows'[s].last = "none"
         /\ rows'[s].score = total /\ rows'[s].scored = (total # None)
         /\ ~rows'[s].steppedUp /\ rows'[s].cascaded = {}
<1>1. req[r].pc = "creating" /\ clock \in 0..MaxClock
  BY DEF CreateInsert, Inv, TypeOK
<1>2. req[r].in \in [body : Bodies, key : Keys \cup {None}]
  BY <1>1 DEF Inv, Shape
<1>3. /\ rows'[s] \in Row /\ rows'[s].status = "active" /\ rows'[s].last = "none"
      /\ rows'[s].score = total /\ rows'[s].scored = (total # None)
      /\ ~rows'[s].steppedUp /\ rows'[s].cascaded = {}
  BY <1>1, <1>2, Constants DEF CreateInsert, Row, Body, Statuses, Decisions, Inv, TypeOK
<1> QED
  BY <1>3, AbsentAssumption

\* Inserting a new session's row keeps the invariant.
LEMMA CreateInsertInv ==
  ASSUME Inv, NEW r \in Requests, NEW s \in SessionIds,
         NEW total \in Scores \cup {None}, CreateInsert(r, s, total)
  PROVE  Inv'
<1>1. req[r].pc = "creating" /\ rows[s] = None
  BY DEF CreateInsert, Exists
<1>3. rows'[s] \in Row /\ rows'[s].status = "active"
  BY FreshRow
<1>4. rows' = [rows EXCEPT ![s] = rows'[s]]
  BY DEF CreateInsert, Inv, TypeOK
<1>5. /\ req' = [req EXCEPT ![r] = req'[r]] /\ req'[r] \in Request
      /\ req'[r].pc = "idle"
  BY NoRequestType DEF CreateInsert, Inv, TypeOK, NoRequest
<1>6. UNCHANGED <<clock, spent, lock, registry, bits>>
  BY DEF CreateInsert
<1>7. TypeOK'
  <2>1. None \notin Row
    BY AbsentAssumption
  <2>2. \A q \in Requests : req'[q].pc \in Working =>
          req'[q].session \in SessionIds /\ rows'[req'[q].session] # None
    BY <1>3, <1>4, <1>5, <2>1 DEF Inv, TypeOK, Exists, Working
  <2> QED
    BY <1>3, <1>4, <1>5, <1>6, <2>2 DEF Inv, TypeOK, Exists
<1>8. Shape' /\ LockInv'
  BY <1>1, <1>5, <1>6 DEF Inv, TypeOK, Shape, LockInv, Working
<1>9. SnapshotInv' /\ ExpiredInv'
  BY <1>1, <1>3, <1>4, <1>5, <1>6
  DEF Inv, TypeOK, SnapshotInv, ExpiredInv, Exists, Working
<1> QED
  BY <1>7, <1>8, <1>9 DEF Inv

\* A request at work that ends its transaction: it gives its lock back, may
\* have changed its own row and ledger, and nobody else had read that row.
LEMMA EndInv ==
  ASSUME Inv, NEW r \in Requests, req[r].pc \in Working,
         NEW s \in SessionIds, s = req[r].session,
         lock' = [lock EXCEPT ![s] = None],
         req' = [req EXCEPT ![r] = NoRequest],
         rows' = [rows EXCEPT ![s] = rows'[s]], rows'[s] \in Row,
         spent' = [spent EXCEPT ![s] = spent'[s]], spent'[s] \in Ledger,
         registry' \subseteq Delegations,
         UNCHANGED <<clock, bits>>,
         rows'[s].status = "expired" => rows'[s].expires < clock
  PROVE  Inv'
<1>1. lock[s] = r /\ Exists(s)
  BY DEF Inv, TypeOK, LockInv
<1>b. NoRequest \in Request /\ NoRequest.pc = "idle"
  BY NoRequestType DEF NoRequest
<1>a. rows'[s] # None
  BY AbsentAssumption
<1>2. \A q \in Requests : q # r /\ req[q].pc \in Working => req[q].session # s
  BY <1>1 DEF Inv, LockInv
<1>3. TypeOK'
  BY <1>1, <1>a, <1>b, Constants DEF Inv, TypeOK, Exists, Working
<1>4. Shape'
  BY <1>b DEF Inv, TypeOK, Shape
<1>5. LockInv'
  BY <1>1, <1>2, <1>b, Constants DEF Inv, TypeOK, LockInv, Working
<1>6. SnapshotInv' /\ ExpiredInv'
  BY <1>1, <1>2, <1>a, <1>b DEF Inv, TypeOK, SnapshotInv, ExpiredInv, Exists, Working
<1> QED
  BY <1>3, <1>4, <1>5, <1>6 DEF Inv

\* What a request at work knows: its session exists, its row is as it read it.
LEMMA AtWork ==
  ASSUME Inv, NEW r \in Requests, req[r].pc \in Working
  PROVE  LET s == req[r].session IN
         /\ s \in SessionIds /\ Exists(s) /\ lock[s] = r
         /\ rows[s] \in Row /\ req[r].row = rows[s]
         /\ spent[s] \in Ledger /\ req[r].spent = spent[s]
         /\ req[r].now \in 0..MaxClock
BY RowIsNotNone DEF Inv, TypeOK, SnapshotInv, LockInv, Request

\* A decision that writes nothing, the status "expired", or a policy block.
LEMMA DecideUnscoredInv ==
  ASSUME Inv, NEW r \in Requests,
         DecideRefused(r) \/ DecideExpired(r) \/ DecideBlocked(r)
  PROVE  Inv'
<1> DEFINE s == req[r].session
<1>1. req[r].pc = "deciding" /\ req[r].pc \in Working
  BY DEF DecideRefused, DecideExpired, DecideBlocked, Working
<1>2. /\ s \in SessionIds /\ Exists(s) /\ rows[s] \in Row /\ req[r].row = rows[s]
      /\ spent[s] \in Ledger
  BY <1>1, AtWork
<1>3. /\ lock' = [lock EXCEPT ![s] = None]
      /\ req' = [req EXCEPT ![r] = NoRequest]
      /\ UNCHANGED <<clock, spent, registry, bits>>
  BY DEF DecideRefused, DecideExpired, DecideBlocked, Answer, Release
<1>6. /\ rows' = [rows EXCEPT ![s] = rows'[s]] /\ rows'[s] \in Row
      /\ rows'[s].status = "expired" => rows'[s].expires < clock
  <2>1. CASE DecideRefused(r)
    BY <2>1, <1>2 DEF DecideRefused, Inv, TypeOK, ExpiredInv
  <2>2. CASE DecideExpired(r)
    <3>1. rows' = [rows EXCEPT ![s] = [rows[s] EXCEPT !.status = "expired",
                                                      !.last = "block"]]
      BY <2>2, <1>2 DEF DecideExpired, Inv, TypeOK
    <3>2. rows[s].expires < req[r].now
      BY <2>2, <1>2 DEF DecideExpired, ReadVerdict, Verdict, PolicyVerdict
    <3>3. req[r].now \in Nat /\ req[r].now <= clock
      BY <1>1 DEF Inv, TypeOK, SnapshotInv, Request
    <3>4. rows[s].expires < clock
      BY <3>2, <3>3, <1>2 DEF Inv, TypeOK, Row
    <3> QED
      BY <3>1, <3>4, <1>2 DEF Inv, TypeOK, Row, Statuses, Decisions
  <2>3. CASE DecideBlocked(r)
    <3>1. rows' = [rows EXCEPT ![s] = [rows[s] EXCEPT !.last = "block"]]
      BY <2>3, <1>2 DEF DecideBlocked, Inv, TypeOK
    <3> QED
      BY <3>1, <1>2 DEF Inv, TypeOK, ExpiredInv, Row, Decisions
  <2> QED
    BY <2>1, <2>2, <2>3
<1> QED
  BY <1>1, <1>2, <1>3, <1>6, EndInv DEF Inv, TypeOK

\* The trust decision: it rewrites the row and may charge one currency.
LEMMA DecideScoredInv ==
  ASSUME Inv, NEW r \in Requests, DecideScored(r)
  PROVE  Inv'
<1> DEFINE s        == req[r].session
           in       == req[r].in
           score    == Score(req[r].row, in)
           decision == DecideFromScore(score)
           currency == BudgetCurrency(req[r].row.body.scope, in)
           status   == IF decision = "step_up" THEN "step_up_required"
                       ELSE rows[s].status
<1>1. req[r].pc = "deciding" /\ req[r].pc \in Working
  BY DEF DecideScored, Working
<1>2. /\ s \in SessionIds /\ Exists(s) /\ rows[s] \in Row /\ req[r].row = rows[s]
      /\ spent[s] \in Ledger
  BY <1>1, AtWork
<1>3. in \in Inputs /\ in \in Input
  BY <1>1, Constants DEF Inv, Shape
<1>4. /\ score \in 0..100 /\ decision \in {"allow", "step_up", "block"}
      /\ currency \in Currencies
  BY <1>2, <1>3, ScoreType, CurrencyType
<1>5. rows' = [rows EXCEPT ![s] = [rows[s] EXCEPT !.score = score,
                                     !.last = decision, !.status = status]]
  BY <1>2 DEF DecideScored, Inv, TypeOK
<1>6. /\ rows' = [rows EXCEPT ![s] = rows'[s]] /\ rows'[s] \in Row
      /\ rows'[s].status = "expired" => rows'[s].expires < clock
  BY <1>2, <1>4, <1>5 DEF Inv, TypeOK, ExpiredInv, Row, Statuses, Decisions
<1>7. spent' = [spent EXCEPT ![s] = spent'[s]] /\ spent'[s] \in Ledger
  <2>1. CASE spent' = spent
    BY <2>1, <1>2 DEF Inv, TypeOK
  <2>2. CASE /\ spent' = [spent EXCEPT ![s][currency] = @ + in.amount]
             /\ IsPurchase(req[r].row, in)
    <3>1. in.amount \in Nat
      BY <2>2, <1>3 DEF IsPurchase, Input
    <3> DEFINE after == [spent[s] EXCEPT ![currency] = @ + in.amount]
    <3>2. spent[s][currency] + in.amount \in Nat
      BY <3>1, <1>2, <1>4 DEF Ledger
    <3>3. after \in Ledger
      BY <3>2, <1>2, <1>4 DEF Ledger
    <3>4. spent' = [spent EXCEPT ![s] = after]
      BY <2>2, <1>2
    <3> QED
      BY <3>3, <3>4, <1>2 DEF Inv, TypeOK
  <2> QED
    BY <2>1, <2>2 DEF DecideScored
<1>8. /\ lock' = [lock EXCEPT ![s] = None]
      /\ req' = [req EXCEPT ![r] = NoRequest]
      /\ UNCHANGED <<clock, registry, bits>>
  BY DEF DecideScored, Answer, Release
<1> QED
  BY <1>1, <1>2, <1>6, <1>7, <1>8, EndInv DEF Inv, TypeOK

\* Step-up, refused or granted.
LEMMA StepUpInv ==
  ASSUME Inv, NEW r \in Requests, StepUpRefused(r) \/ StepUpCommit(r)
  PROVE  Inv'
<1> DEFINE s == req[r].session
<1>1. req[r].pc \in Working
  BY DEF StepUpRefused, StepUpCommit, Working
<1>2. /\ s \in SessionIds /\ Exists(s) /\ rows[s] \in Row /\ req[r].row = rows[s]
      /\ spent[s] \in Ledger
  BY <1>1, AtWork
<1>3. /\ lock' = [lock EXCEPT ![s] = None]
      /\ req' = [req EXCEPT ![r] = NoRequest]
      /\ UNCHANGED <<clock, spent, registry, bits>>
  BY DEF StepUpRefused, StepUpCommit, Answer, Release
<1>4. /\ rows' = [rows EXCEPT ![s] = rows'[s]] /\ rows'[s] \in Row
      /\ rows'[s].status = "expired" => rows'[s].expires < clock
  <2>1. CASE StepUpRefused(r)
    BY <2>1, <1>2 DEF StepUpRefused, Inv, TypeOK, ExpiredInv
  <2>2. CASE StepUpCommit(r)
    <3>1. Raised(req[r].row.score) \in 0..100
      BY <1>2, RaisedType DEF Row
    <3>2. rows' = [rows EXCEPT ![s] = [rows[s] EXCEPT
            !.score = Raised(req[r].row.score), !.status = "active",
            !.steppedUp = TRUE, !.last = "allow"]]
      BY <1>2, <2>2 DEF StepUpCommit, Inv, TypeOK
    <3> QED
      BY <1>2, <3>1, <3>2 DEF Inv, TypeOK, Row, Statuses, Decisions
  <2> QED
    BY <2>1, <2>2
<1> QED
  BY <1>1, <1>2, <1>3, <1>4, EndInv DEF Inv, TypeOK

\* A step of the walk changes only the request, which keeps its lock, and the bits.
Walk(r) ==
  \/ \E d \in Delegations : MarkDelegation(r, d)
  \/ SetBit(r) \/ SkipBit(r) \/ CascadeDone(r) \/ CascadeFails(r)

\* What a step of the walk leaves of its request.
LEMMA WalkRequest ==
  ASSUME Inv, NEW r \in Requests, Walk(r)
  PROVE  /\ req[r].pc \in {"cascading", "setting"} /\ req[r] \in Request
         /\ req' = [req EXCEPT ![r] = req'[r]] /\ req'[r] \in Request
         /\ req'[r].pc \in {"cascading", "setting", "revoking"}
         /\ req'[r].session = req[r].session /\ req'[r].row = req[r].row
         /\ req'[r].spent = req[r].spent /\ req'[r].now = req[r].now
         /\ req'[r].pc = "setting" => req'[r].target \in req'[r].marked
         /\ UNCHANGED <<clock, rows, spent, lock, registry>>
         /\ bits' \subseteq Delegations
<1>0. req[r] \in Request /\ bits \subseteq Delegations /\ req = [q \in Requests |-> req[q]]
  BY DEF Inv, TypeOK
<1>1. ASSUME NEW d \in Delegations, MarkDelegation(r, d)
      PROVE  /\ req[r].pc = "cascading"
             /\ req' = [req EXCEPT ![r] = [req[r] EXCEPT !.pc = "setting",
                  !.marked = @ \cup {d}, !.target = d, !.seen = bits]]
             /\ [req[r] EXCEPT !.pc = "setting", !.marked = @ \cup {d},
                               !.target = d, !.seen = bits] \in Request
  BY <1>0, <1>1 DEF MarkDelegation, Request, Working
<1>2. ASSUME SetBit(r) \/ SkipBit(r)
      PROVE  /\ req[r].pc = "setting"
             /\ req' = [req EXCEPT ![r] = [req[r] EXCEPT !.pc = "cascading",
                  !.target = None, !.seen = {}]]
             /\ [req[r] EXCEPT !.pc = "cascading", !.target = None, !.seen = {}] \in Request
  BY <1>0, <1>2 DEF SetBit, SkipBit, Request, Working
<1>3. ASSUME CascadeDone(r)
      PROVE  /\ req[r].pc = "cascading"
             /\ req' = [req EXCEPT ![r] = [req[r] EXCEPT !.pc = "revoking",
                  !.cascaded = req[r].marked \ {req[r].row.body.delegation}]]
             /\ [req[r] EXCEPT !.pc = "revoking",
                  !.cascaded = req[r].marked \ {req[r].row.body.delegation}] \in Request
  BY <1>0, <1>3 DEF CascadeDone, Request, Working
<1>4. ASSUME CascadeFails(r)
      PROVE  /\ req[r].pc = "cascading"
             /\ req' = [req EXCEPT ![r] = [req[r] EXCEPT !.pc = "revoking"]]
             /\ [req[r] EXCEPT !.pc = "revoking"] \in Request
  BY <1>0, <1>4 DEF CascadeFails, Request, Working
<1>5. UNCHANGED <<clock, rows, spent, lock, registry>>
  BY DEF Walk, MarkDelegation, SetBit, SkipBit, CascadeDone, CascadeFails
<1>6. bits' \subseteq Delegations
  <2>1. SetBit(r) => req[r].target \in Delegations /\ req[r].seen \subseteq Delegations
    BY <1>0 DEF SetBit, Request, Inv, Shape
  <2> QED
    BY <1>0, <2>1 DEF Walk, MarkDelegation, SetBit, SkipBit, CascadeDone, CascadeFails
<1> DEFINE Kept == /\ req' = [req EXCEPT ![r] = req'[r]] /\ req'[r] \in Request
                   /\ req'[r].session = req[r].session /\ req'[r].row = req[r].row
                   /\ req'[r].spent = req[r].spent /\ req'[r].now = req[r].now
<1>7. ASSUME NEW d \in Delegations, MarkDelegation(r, d)
      PROVE  Kept /\ req'[r].pc = "setting" /\ req'[r].target \in req'[r].marked
  <2>1. req'[r] = [req[r] EXCEPT !.pc = "setting", !.marked = @ \cup {d},
                                !.target = d, !.seen = bits]
    BY <1>0, <1>1, <1>7
  <2>2. req' = [req EXCEPT ![r] = req'[r]] /\ req'[r] \in Request
    BY <1>1, <1>7, <2>1
  <2>3. /\ req'[r].session = req[r].session /\ req'[r].row = req[r].row
        /\ req'[r].spent = req[r].spent /\ req'[r].now = req[r].now
        /\ req'[r].pc = "setting" /\ req'[r].target = d
        /\ req'[r].marked = req[r].marked \cup {d}
    BY <1>0, <2>1 DEF Request
  <2> QED
    BY <2>2, <2>3
<1>8. ASSUME SetBit(r) \/ SkipBit(r)
      PROVE  Kept /\ req'[r].pc = "cascading"
  <2>1. req'[r] = [req[r] EXCEPT !.pc = "cascading", !.target = None, !.seen = {}]
    BY <1>0, <1>2, <1>8
  <2>2. req' = [req EXCEPT ![r] = req'[r]]
    BY <1>2, <1>8, <2>1
  <2> QED
    BY <1>0, <1>2, <1>8, <2>1, <2>2 DEF Request
<1>9. ASSUME CascadeDone(r) \/ CascadeFails(r)
      PROVE  Kept /\ req'[r].pc = "revoking"
  <2>1. PICK named \in {req[r].cascaded, req[r].marked \ {req[r].row.body.delegation}} :
          /\ req' = [req EXCEPT ![r] = [req[r] EXCEPT !.pc = "revoking", !.cascaded = named]]
          /\ [req[r] EXCEPT !.pc = "revoking", !.cascaded = named] \in Request
    <3>1. [req[r] EXCEPT !.pc = "revoking"]
            = [req[r] EXCEPT !.pc = "revoking", !.cascaded = req[r].cascaded]
      BY <1>0 DEF Request
    <3> QED
      BY <1>3, <1>4, <1>9, <3>1
  <2>2. req'[r] = [req[r] EXCEPT !.pc = "revoking", !.cascaded = named]
    BY <1>0, <2>1
  <2>3. req' = [req EXCEPT ![r] = req'[r]]
    BY <2>1, <2>2
  <2> QED
    BY <1>0, <2>1, <2>2, <2>3 DEF Request
<1> QED
  BY <1>0, <1>1, <1>2, <1>3, <1>4, <1>5, <1>6, <1>7, <1>8, <1>9 DEF Walk

\* The walk of a cascade keeps the invariant.
LEMMA CascadeInv ==
  ASSUME Inv, NEW r \in Requests, Walk(r)
  PROVE  Inv'
<1>1. /\ req[r].pc \in {"cascading", "setting"} /\ req[r] \in Request
      /\ req' = [req EXCEPT ![r] = req'[r]] /\ req'[r] \in Request
      /\ req'[r].pc \in {"cascading", "setting", "revoking"}
      /\ req'[r].row = req[r].row
      /\ req'[r].pc = "setting" => req'[r].target \in req'[r].marked
      /\ UNCHANGED <<clock, rows, spent, lock, registry>>
      /\ bits' \subseteq Delegations
  BY WalkRequest
<1>5. \A q \in Requests :
        /\ req'[q].pc \in Working <=> req[q].pc \in Working
        /\ req'[q].session = req[q].session /\ req'[q].row = req[q].row
        /\ req'[q].spent = req[q].spent /\ req'[q].now = req[q].now
  BY <1>1, WalkRequest DEF Inv, TypeOK, Working
<1>6. TypeOK'
  BY <1>1, <1>5 DEF Inv, TypeOK, Exists
<1>7. Shape'
  BY <1>1 DEF Inv, TypeOK, Shape
<1>8. LockInv' /\ SnapshotInv' /\ ExpiredInv'
  BY <1>1, <1>5 DEF Inv, LockInv, SnapshotInv, ExpiredInv, Exists
<1> QED
  BY <1>6, <1>7, <1>8 DEF Inv

\* The commit of a revocation, which frees the row's lock, keeps the invariant.
LEMMA RevokeCommitInv ==
  ASSUME Inv, NEW r \in Requests, RevokeCommit(r)
  PROVE  Inv'
<1> DEFINE s == req[r].session
<1>1. req[r].pc \in Working
  BY DEF RevokeCommit, Working
<1>2. /\ s \in SessionIds /\ Exists(s) /\ rows[s] \in Row /\ spent[s] \in Ledger
  BY <1>1, AtWork
<1>3. /\ lock' = [lock EXCEPT ![s] = None]
      /\ req' = [req EXCEPT ![r] = NoRequest]
      /\ registry' = registry \cup req[r].marked
      /\ UNCHANGED <<clock, spent, bits>>
  BY DEF RevokeCommit, Answer, Release
<1>4. registry' \subseteq Delegations
  BY <1>3 DEF Inv, TypeOK, Request
<1>5. rows' = [rows EXCEPT ![s] = [rows[s] EXCEPT !.status = "revoked", !.last = "block",
                                                  !.cascaded = req[r].cascaded]]
  BY <1>2 DEF RevokeCommit, Inv, TypeOK
<1>6. /\ rows' = [rows EXCEPT ![s] = rows'[s]] /\ rows'[s] \in Row
      /\ rows'[s].status = "revoked"
  BY <1>2, <1>5 DEF Inv, TypeOK, Row, Statuses, Decisions, Request
<1> QED
  BY <1>1, <1>2, <1>3, <1>4, <1>6, EndInv DEF Inv, TypeOK

\* After a rollback only the request and its lock have changed.
LEMMA CrashInv ==
  ASSUME Inv, NEW r \in Requests, Crash(r)
  PROVE  Inv'
<1> DEFINE s == req[r].session
<1>1. /\ req' = [req EXCEPT ![r] = NoRequest]
      /\ UNCHANGED <<clock, rows, spent, registry, bits>>
      /\ lock' = IF req[r].pc \in Working THEN [lock EXCEPT ![s] = None] ELSE lock
  BY DEF Crash, Release
<1>2. NoRequest.pc = "idle"
  BY DEF NoRequest
<1>3. TypeOK'
  BY <1>1, <1>2, NoRequestType DEF Inv, TypeOK, Exists, Working
<1>4. Shape' /\ SnapshotInv' /\ ExpiredInv'
  BY <1>1, <1>2 DEF Inv, TypeOK, Shape, SnapshotInv, ExpiredInv, Exists, Working
<1>5. LockInv'
  <2>1. CASE req[r].pc \in Working
    <3>1. lock[s] = r /\ s \in SessionIds
      BY <2>1, AtWork
    <3> QED
      BY <1>1, <1>2, <2>1, <3>1, Constants DEF Inv, TypeOK, LockInv, Working
  <2>2. CASE req[r].pc \notin Working
    BY <1>1, <1>2, <2>2 DEF Inv, TypeOK, LockInv, Working
  <2> QED
    BY <2>1, <2>2
<1> QED
  BY <1>3, <1>4, <1>5 DEF Inv

\* Every step preserves the strengthened invariant.
LEMMA StepInv == Inv /\ [Next]_vars => Inv'
<1> SUFFICES ASSUME Inv, [Next]_vars PROVE Inv'
  OBVIOUS
<1>1. CASE Tick \/ UNCHANGED vars
  BY <1>1, TickInv
<1>2. ASSUME NEW r \in Requests, Call(r) PROVE Inv'
  <2>1. ASSUME NEW body \in Bodies, NEW key \in Keys \cup {None},
               CreateLookup(r, body, key)
        PROVE  Inv'
    BY <2>1, CreateLookupInv
  <2>2. ASSUME NEW s \in SessionIds, NEW in \in Inputs, LockRow(r, s, "deciding", in)
        PROVE  Inv'
    BY <2>2, LockRowInv
  <2>3. ASSUME NEW s \in SessionIds, LockRow(r, s, "steppingUp", None)
        PROVE  Inv'
    BY <2>3, LockRowInv
  <2>4. ASSUME NEW s \in SessionIds, NEW cascade \in BOOLEAN, RevokeLock(r, s, cascade)
        PROVE  Inv'
    <3>1. Exists(s) /\ rows[s].body.delegation \in Delegations \cup {None}
      BY <2>4, RowIsNotNone DEF RevokeLock, LockRow, Inv, Row, Body
    <3>2. CASE cascade /\ rows[s].body.delegation # None
      <4>1. LockRow(r, s, "cascading", None)
        BY <2>4, <3>2 DEF RevokeLock
      <4> QED
        BY <3>1, <3>2, <4>1, LockRowInv
    <3>3. CASE ~(cascade /\ rows[s].body.delegation # None)
      <4>1. LockRow(r, s, "revoking", None)
        BY <2>4, <3>3 DEF RevokeLock
      <4> QED
        BY <4>1, LockRowInv
    <3> QED
      BY <3>2, <3>3
  <2> QED
    BY <1>2, <2>1, <2>2, <2>3, <2>4 DEF Call
<1>3. ASSUME NEW r \in Requests, Handle(r) PROVE Inv'
  <2>1. ASSUME NEW s \in SessionIds, NEW total \in Scores \cup {None},
               CreateInsert(r, s, total)
        PROVE  Inv'
    BY <2>1, CreateInsertInv
  <2>2. CASE DecideRefused(r) \/ DecideExpired(r) \/ DecideBlocked(r)
    BY <2>2, DecideUnscoredInv
  <2>3. CASE DecideScored(r)
    BY <2>3, DecideScoredInv
  <2>4. CASE StepUpRefused(r) \/ StepUpCommit(r)
    BY <2>4, StepUpInv
  <2>5. CASE Walk(r)
    BY <2>5, CascadeInv
  <2>6. CASE RevokeCommit(r)
    BY <2>6, RevokeCommitInv
  <2> QED
    BY <1>3, <2>1, <2>2, <2>3, <2>4, <2>5, <2>6 DEF Handle, Walk
<1>4. ASSUME NEW r \in Requests, Crash(r) PROVE Inv'
  BY <1>4, CrashInv
<1> QED
  BY <1>1, <1>2, <1>3, <1>4 DEF Next

\* The strengthened invariant holds in every reachable state.
THEOREM Strengthened == Spec => []Inv
<1> QED
  BY InitInv, StepInv, PTL DEF Spec

\* Every variable keeps its type whatever the requests, sessions and clock.
THEOREM TypeCorrect == Spec => []TypeOK
<1>1. Inv => TypeOK
  BY DEF Inv
<1> QED
  BY <1>1, Strengthened, PTL

-----------------------------------------------------------------------------
(* What one step can do to one session's row and ledger.                   *)

Fresh(s) ==
  /\ ~Exists(s) /\ rows'[s] \in Row
  /\ rows'[s].status = "active" /\ rows'[s].last = "none"
  /\ ~rows'[s].steppedUp /\ (~rows'[s].scored => rows'[s].score = None)
  /\ rows'[s].cascaded = {}
  /\ spent'[s] = spent[s]

Blocked(s) ==
  /\ Exists(s) /\ rows[s].status # "revoked"
  /\ \E status \in {"expired", rows[s].status} :
       rows'[s] = [rows[s] EXCEPT !.status = status, !.last = "block"]
  /\ spent'[s] = spent[s]

Scored(s, in) ==
  LET score    == Score(rows[s], in)
      decision == DecideFromScore(score)
      currency == BudgetCurrency(rows[s].body.scope, in)
  IN
  /\ Exists(s) /\ rows[s].status = "active"
  /\ IsPurchase(rows[s], in) => ~OverBudget(rows[s].body.scope, in, spent[s])
  /\ rows'[s] = [rows[s] EXCEPT
       !.score = score, !.last = decision,
       !.status = IF decision = "step_up" THEN "step_up_required" ELSE @]
  /\ \/ spent'[s] = spent[s]
     \/ /\ decision = "allow" /\ IsPurchase(rows[s], in)
        /\ spent'[s] = [spent[s] EXCEPT ![currency] = @ + in.amount]

SteppedUp(s) ==
  /\ Exists(s) /\ rows[s].status # "revoked"
  /\ rows'[s] = [rows[s] EXCEPT !.score = Raised(rows[s].score),
                   !.status = "active", !.steppedUp = TRUE, !.last = "allow"]
  /\ spent'[s] = spent[s]

Revoked(s) ==
  /\ Exists(s)
  /\ \E r \in Requests :
       /\ RevokeCommit(r) /\ req[r].session = s
       /\ rows'[s] = [rows[s] EXCEPT !.status = "revoked", !.last = "block",
                                    !.cascaded = req[r].cascaded]
  /\ spent'[s] = spent[s]

Untouched(s) == rows'[s] = rows[s] /\ spent'[s] = spent[s]

Effect(s) ==
  \/ Untouched(s) \/ Fresh(s) \/ Blocked(s) \/ SteppedUp(s) \/ Revoked(s)
  \/ \E in \in Inputs : Scored(s, in)

\* A request at work changes only the session it has locked.
LEMMA OnlyItsOwn ==
  ASSUME Inv, NEW r \in Requests, req[r].pc \in Working,
         NEW s \in SessionIds, s # req[r].session,
         NEW row, rows' = [rows EXCEPT ![req[r].session] = row],
         \/ spent' = spent
         \/ \E ledger : spent' = [spent EXCEPT ![req[r].session] = ledger]
  PROVE  Untouched(s)
BY DEF Untouched, Inv, TypeOK

\* A decision by score charges its session as its input says, steps it up or blocks it.
LEMMA ScoredEffect ==
  ASSUME Inv, NEW r \in Requests, DecideScored(r), NEW s \in SessionIds
  PROVE  Effect(s)
<1> DEFINE in       == req[r].in
           score    == Score(req[r].row, in)
           decision == DecideFromScore(score)
           currency == BudgetCurrency(req[r].row.body.scope, in)
           status   == IF decision = "step_up" THEN "step_up_required"
                       ELSE rows[req[r].session].status
           row      == [rows[req[r].session] EXCEPT !.score = score,
                          !.last = decision, !.status = status]
           ledger   == [spent[req[r].session] EXCEPT ![currency] = @ + in.amount]
<1>1. req[r].pc = "deciding" /\ req[r].pc \in Working /\ in \in Inputs
  BY DEF DecideScored, Working, Inv, Shape
<1>2. /\ req[r].session \in SessionIds /\ Exists(req[r].session)
      /\ rows[req[r].session] \in Row /\ req[r].row = rows[req[r].session]
      /\ req[r].spent = spent[req[r].session]
      /\ req[r].now \in 0..MaxClock
  BY <1>1, AtWork
<1>3. rows' = [rows EXCEPT ![req[r].session] = row]
  BY <1>2 DEF DecideScored, Inv, TypeOK
<1>4. \/ spent' = spent
      \/ /\ decision = "allow" /\ IsPurchase(req[r].row, in)
         /\ spent' = [spent EXCEPT ![req[r].session] = ledger]
  BY <1>2 DEF DecideScored, Inv, TypeOK
<1>5. CASE s # req[r].session
  BY <1>1, <1>3, <1>4, <1>5, OnlyItsOwn DEF Effect
<1>6. CASE s = req[r].session
  <2>1. Verdict(rows[s], in, req[r].now, spent[s]) = "scored"
    BY <1>2, <1>6 DEF DecideScored, ReadVerdict
  <2>2. /\ rows[s].status \notin {"revoked", "step_up_required"}
        /\ ~(rows[s].expires < req[r].now)
        /\ IsPurchase(rows[s], in) => ~OverBudget(rows[s].body.scope, in, spent[s])
    BY <2>1 DEF Verdict, PolicyVerdict
  <2>3. rows[s].status = "active"
    BY <1>1, <1>2, <1>6, <2>2 DEF Inv, SnapshotInv, Row, Statuses
  <2>4. rows'[s] = row
    BY <1>2, <1>3, <1>6 DEF Inv, TypeOK
  <2>5. \/ spent'[s] = spent[s]
        \/ decision = "allow" /\ IsPurchase(rows[s], in) /\ spent'[s] = ledger
    BY <1>2, <1>4, <1>6 DEF Inv, TypeOK
  <2> QED
    BY <1>1, <1>2, <1>6, <2>2, <2>3, <2>4, <2>5 DEF Effect, Scored
<1> QED
  BY <1>5, <1>6

\* What any step does to one session.
LEMMA StepEffect ==
  ASSUME Inv, [Next]_vars, NEW s \in SessionIds
  PROVE  Effect(s)
<1>1. CASE UNCHANGED <<rows, spent>>
  BY <1>1 DEF Effect, Untouched
<1>2. ASSUME NEW r \in Requests, NEW t \in SessionIds,
             NEW total \in Scores \cup {None}, CreateInsert(r, t, total)
      PROVE  Effect(s)
  <2>2. CASE s = t
    <3>1. ~Exists(s) /\ spent' = spent
      BY <1>2, <2>2 DEF CreateInsert
    <3> QED
      BY <1>2, <2>2, <3>1, FreshRow DEF Effect, Fresh
  <2>3. CASE s # t
    BY <1>2, <2>3 DEF CreateInsert, Effect, Untouched, Inv, TypeOK
  <2> QED
    BY <2>2, <2>3
<1>3. ASSUME NEW r \in Requests, DecideExpired(r) \/ DecideBlocked(r)
      PROVE  Effect(s)
  <2> DEFINE t == req[r].session
  <2>1. req[r].pc \in Working /\ spent' = spent
    BY <1>3 DEF DecideExpired, DecideBlocked, Working
  <2>2. /\ t \in SessionIds /\ Exists(t) /\ rows[t] \in Row /\ req[r].row = rows[t]
    BY <2>1, AtWork
  <2>3. rows[t].status # "revoked"
    BY <1>3, <2>2 DEF DecideExpired, DecideBlocked, ReadVerdict, Verdict, PolicyVerdict
  <2>4. \E status \in {"expired", rows[t].status} :
          rows' = [rows EXCEPT ![t] = [rows[t] EXCEPT !.status = status,
                                                      !.last = "block"]]
    <3>1. CASE DecideExpired(r)
      <4>1. rows' = [rows EXCEPT ![t] = [rows[t] EXCEPT !.status = "expired",
                                                        !.last = "block"]]
        BY <2>2, <3>1 DEF DecideExpired, Inv, TypeOK
      <4> QED
        BY <4>1
    <3>2. CASE DecideBlocked(r)
      <4>1. rows' = [rows EXCEPT ![t] = [rows[t] EXCEPT !.last = "block"]]
        BY <2>2, <3>2 DEF DecideBlocked, Inv, TypeOK
      <4>2. [rows[t] EXCEPT !.last = "block"] =
              [rows[t] EXCEPT !.status = rows[t].status, !.last = "block"]
        BY <2>2 DEF Row
      <4> QED
        BY <4>1, <4>2
    <3> QED
      BY <1>3, <3>1, <3>2
  <2>5. CASE s = t
    BY <2>1, <2>2, <2>3, <2>4, <2>5 DEF Effect, Blocked, Inv, TypeOK
  <2>6. CASE s # t
    BY <2>1, <2>4, <2>6, OnlyItsOwn DEF Effect
  <2> QED
    BY <2>5, <2>6
<1>4. ASSUME NEW r \in Requests, StepUpCommit(r) PROVE Effect(s)
  <2> DEFINE t == req[r].session
  <2>1. req[r].pc \in Working /\ spent' = spent
    BY <1>4 DEF StepUpCommit, Working
  <2>2. /\ t \in SessionIds /\ Exists(t) /\ rows[t] \in Row /\ req[r].row = rows[t]
    BY <2>1, AtWork
  <2>3. /\ rows[t].status # "revoked"
        /\ rows' = [rows EXCEPT ![t] = [rows[t] EXCEPT
             !.score = Raised(rows[t].score), !.status = "active",
             !.steppedUp = TRUE, !.last = "allow"]]
    <3>1. /\ req[r].row.status # "revoked"
          /\ rows' = [rows EXCEPT ![t].score = Raised(req[r].row.score),
               ![t].status = "active", ![t].steppedUp = TRUE, ![t].last = "allow"]
      BY <1>4 DEF StepUpCommit
    <3> HIDE DEF t
    <3> QED
      BY <2>2, <3>1 DEF Inv, TypeOK
  <2>4. CASE s = t
    BY <2>1, <2>2, <2>3, <2>4 DEF Effect, SteppedUp, Inv, TypeOK
  <2>5. CASE s # t
    BY <2>1, <2>3, <2>5, OnlyItsOwn DEF Effect
  <2> QED
    BY <2>4, <2>5
<1>5. ASSUME NEW r \in Requests, RevokeCommit(r) PROVE Effect(s)
  <2> DEFINE t == req[r].session
  <2>1. req[r].pc \in Working /\ spent' = spent
    BY <1>5 DEF RevokeCommit, Working
  <2>2. /\ t \in SessionIds /\ Exists(t) /\ rows[t] \in Row
    BY <2>1, AtWork
  <2>3. rows' = [rows EXCEPT ![t] = [rows[t] EXCEPT !.status = "revoked",
                          !.last = "block", !.cascaded = req[r].cascaded]]
    BY <1>5, <2>2 DEF RevokeCommit, Inv, TypeOK
  <2>4. CASE s = t
    BY <1>5, <2>1, <2>2, <2>3, <2>4 DEF Effect, Revoked, Inv, TypeOK
  <2>5. CASE s # t
    BY <2>1, <2>3, <2>5, OnlyItsOwn DEF Effect
  <2> QED
    BY <2>4, <2>5
<1>6. ASSUME NEW r \in Requests, Handle(r) PROVE Effect(s)
  <2>1. CASE DecideRefused(r) \/ StepUpRefused(r) \/ Walk(r)
    BY <1>1, <2>1, WalkRequest DEF DecideRefused, StepUpRefused
  <2> QED
    BY <1>2, <1>3, <1>4, <1>5, <1>6, <2>1, ScoredEffect DEF Handle, Walk
<1>7. ASSUME NEW r \in Requests, Call(r) PROVE Effect(s)
  BY <1>1, <1>7 DEF Call, CreateLookup, RevokeLock, LockRow
<1>8. CASE Tick \/ UNCHANGED vars \/ \E r \in Requests : Crash(r)
  BY <1>1, <1>8 DEF Tick, vars, Crash
<1> QED
  BY <1>6, <1>7, <1>8 DEF Next

\* A step never rewrites what a session was opened with.
LEMMA Fixed ==
  ASSUME Inv, NEW s \in SessionIds, Exists(s), Effect(s)
  PROVE  /\ Exists(s)' /\ rows'[s].body = rows[s].body
         /\ rows'[s].scored = rows[s].scored
<1>1. rows[s] \in Row
  BY RowIsNotNone DEF Inv
<1>2. rows'[s] \in Row
  <2>1. CASE Untouched(s) \/ Fresh(s)
    BY <1>1, <2>1 DEF Untouched, Fresh
  <2>5. CASE Revoked(s)
    <3>1. PICK r \in Requests :
            rows'[s] = [rows[s] EXCEPT !.status = "revoked", !.last = "block",
                                       !.cascaded = req[r].cascaded]
      BY <2>5 DEF Revoked
    <3>2. req[r].cascaded \subseteq Delegations
      BY DEF Inv, TypeOK, Request
    <3> QED
      BY <1>1, <3>1, <3>2 DEF Row, Statuses, Decisions
  <2>2. CASE Blocked(s)
    <3>1. PICK status \in {"expired", rows[s].status} :
            rows'[s] = [rows[s] EXCEPT !.status = status, !.last = "block"]
      BY <2>2 DEF Blocked
    <3>2. status \in Statuses
      BY <1>1 DEF Row, Statuses
    <3> QED
      BY <1>1, <3>1, <3>2 DEF Row, Decisions
  <2>3. CASE SteppedUp(s)
    <3>1. Raised(rows[s].score) \in 0..100
      BY <1>1, RaisedType DEF Row
    <3> QED
      BY <1>1, <2>3, <3>1 DEF SteppedUp, Row, Statuses, Decisions
  <2>4. ASSUME NEW in \in Inputs, Scored(s, in) PROVE rows'[s] \in Row
    <3>1. PICK score, decision, status :
            /\ score = Score(rows[s], in) /\ decision = DecideFromScore(score)
            /\ status = IF decision = "step_up" THEN "step_up_required" ELSE rows[s].status
      OBVIOUS
    <3>2. rows'[s] = [rows[s] EXCEPT !.score = score, !.last = decision, !.status = status]
      BY <2>4, <3>1 DEF Scored
    <3>3. score \in 0..100 /\ decision \in {"allow", "step_up", "block"}
      BY <1>1, <3>1, ScoreType
    <3>4. decision \in Decisions /\ status \in Statuses
      BY <1>1, <3>1, <3>3 DEF Row, Statuses, Decisions
    <3> QED
      BY <1>1, <3>2, <3>3, <3>4 DEF Row
  <2> QED
    BY <2>1, <2>2, <2>3, <2>4, <2>5 DEF Effect
<1>3. Exists(s)'
  BY <1>2, AbsentAssumption DEF Exists
<1>4. rows'[s].body = rows[s].body /\ rows'[s].scored = rows[s].scored
  BY <1>1 DEF Effect, Untouched, Fresh, Blocked, Revoked, SteppedUp, Scored, Row
<1> QED
  BY <1>3, <1>4

-----------------------------------------------------------------------------
(* The budget.                                                             *)

BudgetInv ==
  /\ BudgetRespected
  /\ \A s \in SessionIds : ~Exists(s) => \A c \in Currencies : spent[s][c] = 0

\* Every step keeps each session's spend within its maximum.
LEMMA BudgetStep ==
  ASSUME Inv, BudgetInv, [Next]_vars PROVE BudgetInv'
<1> SUFFICES ASSUME NEW s \in SessionIds, NEW c \in Currencies
             PROVE  /\ ~Exists(s)' => spent'[s][c] = 0
                    /\ Exists(s)' /\ rows'[s].body.scope.max # None
                          => spent'[s][c] <= rows'[s].body.scope.max
  BY DEF BudgetInv, BudgetRespected, Exists
<1>1. Effect(s)
  BY StepEffect
<1>2. CASE ~Exists(s)
  <2>1. spent'[s][c] = 0
    BY <1>1, <1>2 DEF Effect, Untouched, Fresh, Blocked, Revoked, SteppedUp, Scored,
                      BudgetInv
  <2>2. rows'[s] \in Row \/ ~Exists(s)'
    BY <1>1, <1>2 DEF Effect, Untouched, Fresh, Blocked, Revoked, SteppedUp, Scored,
                      Exists
  <2>3. Exists(s)' /\ rows'[s].body.scope.max # None => rows'[s].body.scope.max \in Nat
    BY <2>2 DEF Row, Body, Scope
  <2> QED
    BY <2>1, <2>3
<1>3. CASE Exists(s)
  <2> DEFINE max == rows[s].body.scope.max
  <2>1. Exists(s)' /\ rows'[s].body = rows[s].body /\ rows[s] \in Row
    BY <1>1, <1>3, Fixed, RowIsNotNone DEF Inv
  <2>2. max # None => spent[s][c] <= max
    BY <1>3 DEF BudgetInv, BudgetRespected
  <2>3. CASE spent'[s] = spent[s]
    BY <2>1, <2>2, <2>3
  <2>4. ASSUME NEW in \in Inputs, Scored(s, in), spent'[s] # spent[s], max # None
        PROVE  spent'[s][c] <= max
    <3> DEFINE currency == BudgetCurrency(rows[s].body.scope, in)
    <3>1. /\ ~(spent[s][currency] + in.amount > max)
          /\ spent'[s] = [spent[s] EXCEPT ![currency] = @ + in.amount]
          /\ in.amount # None
      BY <2>4 DEF Scored, OverBudget, IsPurchase
    <3>2. /\ in.amount \in Nat /\ max \in Nat
          /\ spent[s] \in [Currencies -> Nat] /\ currency \in Currencies
      BY <2>1, <2>4, <3>1, Constants, CurrencyType
      DEF Input, Row, Body, Scope, Inv, TypeOK, Ledger
    <3>3. CASE c = currency
      <4>1. spent'[s][c] = spent[s][currency] + in.amount
        BY <3>1, <3>2, <3>3
      <4>2. spent[s][currency] \in Nat
        BY <3>2
      <4> QED
        BY <3>1, <3>2, <4>1, <4>2
    <3>4. CASE c # currency
      <4>1. spent'[s][c] = spent[s][c]
        BY <3>1, <3>2, <3>4
      <4> QED
        BY <2>2, <2>4, <4>1
    <3> QED
      BY <3>3, <3>4
  <2>5. spent'[s] = spent[s] \/ \E in \in Inputs : Scored(s, in)
    BY <1>1 DEF Effect, Untouched, Fresh, Blocked, Revoked, SteppedUp
  <2> QED
    BY <2>1, <2>3, <2>4, <2>5
<1> QED
  BY <1>2, <1>3

\* However many requests decide on a commerce session at once, what it has
\* spent in any currency never passes the maximum it was opened with.
THEOREM Budget == Spec => []BudgetRespected
<1>1. Init => BudgetInv
  BY DEF Init, BudgetInv, BudgetRespected, Exists
<1>2. Inv /\ BudgetInv /\ [Next]_vars => BudgetInv'
  BY BudgetStep
<1>3. BudgetInv => BudgetRespected
  BY DEF BudgetInv
<1> QED
  BY <1>1, <1>2, <1>3, Strengthened, PTL DEF Spec

-----------------------------------------------------------------------------
(* Revocation.                                                             *)

RevokedIsBlocked ==
  \A s \in SessionIds : Exists(s) /\ rows[s].status = "revoked" => rows[s].last = "block"

\* A revoked session stays blocked and revoked and is charged nothing.
LEMMA RevokedStep ==
  ASSUME Inv, RevokedIsBlocked, [Next]_vars, NEW s \in SessionIds, Exists(s)
  PROVE  /\ rows'[s].status = "revoked" => rows'[s].last = "block"
         /\ rows[s].status = "revoked" =>
              rows'[s].status = "revoked" /\ spent'[s] = spent[s]
<1>1. Effect(s) /\ rows[s] \in Row
  BY StepEffect, RowIsNotNone DEF Inv
<1>2. CASE Untouched(s)
  BY <1>2 DEF Untouched, RevokedIsBlocked
<1>3. CASE Fresh(s)
  BY <1>3 DEF Fresh
<1>4. CASE Blocked(s) \/ SteppedUp(s) \/ Revoked(s)
  BY <1>1, <1>4 DEF Blocked, SteppedUp, Revoked, Row
<1>5. CASE \E in \in Inputs : Scored(s, in)
  BY <1>1, <1>5 DEF Scored, Row
<1> QED
  BY <1>1, <1>2, <1>3, <1>4, <1>5 DEF Effect

\* A revoked session's last decision is a block, after every step.
LEMMA BlockedStep ==
  ASSUME Inv, RevokedIsBlocked, [Next]_vars PROVE RevokedIsBlocked'
<1> SUFFICES ASSUME NEW s \in SessionIds, Exists(s)', rows'[s].status = "revoked"
             PROVE  rows'[s].last = "block"
  BY DEF RevokedIsBlocked, Exists
<1>1. CASE Exists(s)
  BY <1>1, RevokedStep
<1>2. CASE ~Exists(s)
  <2>1. Fresh(s) \/ Untouched(s)
    BY <1>2, StepEffect DEF Effect, Blocked, SteppedUp, Revoked, Scored
  <2> QED
    BY <1>2, <2>1 DEF Fresh, Untouched, Exists
<1> QED
  BY <1>1, <1>2

\* Once a session is revoked no request, however long ago it started, changes
\* its status, its last decision or its spend.
THEOREM RevokedStaysRevoked == Spec => RevokedIsFinal
<1> DEFINE Final == \A s \in SessionIds : Exists(s) /\ rows[s].status = "revoked" =>
                      /\ rows'[s].status = "revoked"
                      /\ rows'[s].last = "block"
                      /\ spent'[s] = spent[s]
<1>1. Init => RevokedIsBlocked
  BY DEF Init, RevokedIsBlocked, Exists
<1>2. Inv /\ RevokedIsBlocked /\ [Next]_vars => RevokedIsBlocked'
  BY BlockedStep
<1>3. Inv /\ RevokedIsBlocked /\ [Next]_vars => [Final]_vars
  BY RevokedStep
<1> QED
  BY <1>1, <1>2, <1>3, Strengthened, PTL DEF Spec, RevokedIsFinal

-----------------------------------------------------------------------------
(* Sessions opened without a scored credential, in production.             *)

UnscoredInv ==
  Production => \A s \in SessionIds :
    /\ ~Exists(s) => \A c \in Currencies : spent[s][c] = 0
    /\ Exists(s) /\ ~rows[s].scored /\ ~rows[s].steppedUp =>
         /\ rows[s].score \in {None, StepUpThreshold}
         /\ rows[s].last # "allow"
         /\ \A c \in Currencies : spent[s][c] = 0

\* Every step leaves an unscored session of production uncharged before its step-up.
LEMMA UnscoredStep ==
  ASSUME Inv, UnscoredInv, [Next]_vars PROVE UnscoredInv'
<1> SUFFICES ASSUME Production, NEW s \in SessionIds
             PROVE  /\ ~Exists(s)' => \A c \in Currencies : spent'[s][c] = 0
                    /\ Exists(s)' /\ ~rows'[s].scored /\ ~rows'[s].steppedUp =>
                         /\ rows'[s].score \in {None, StepUpThreshold}
                         /\ rows'[s].last # "allow"
                         /\ \A c \in Currencies : spent'[s][c] = 0
  BY DEF UnscoredInv, Exists
<1>1. Effect(s)
  BY StepEffect
<1>2. CASE ~Exists(s)
  <2>1. Fresh(s) \/ Untouched(s)
    BY <1>1, <1>2 DEF Effect, Blocked, SteppedUp, Revoked, Scored
  <2> QED
    BY <1>2, <2>1 DEF Fresh, Untouched, UnscoredInv, Exists
<1>3. CASE Exists(s)
  <2>1. Exists(s)' /\ rows'[s].scored = rows[s].scored /\ rows[s] \in Row
    BY <1>1, <1>3, Fixed, RowIsNotNone DEF Inv
  <2>2. CASE Untouched(s)
    BY <1>3, <2>1, <2>2 DEF Untouched, UnscoredInv
  <2>3. CASE Blocked(s) \/ Revoked(s)
    BY <1>3, <2>1, <2>3 DEF Blocked, Revoked, UnscoredInv, Row
  <2>4. CASE SteppedUp(s)
    BY <1>3, <2>1, <2>4 DEF SteppedUp, UnscoredInv, Row
  <2>5. ASSUME NEW in \in Inputs, Scored(s, in), ~rows[s].scored, ~rows'[s].steppedUp
        PROVE  /\ rows'[s].score = StepUpThreshold /\ rows'[s].last # "allow"
               /\ \A c \in Currencies : spent'[s][c] = 0
    <3>1. ~rows[s].steppedUp
      BY <2>1, <2>5 DEF Scored, Row
    <3>2. Score(rows[s], in) = StepUpThreshold
      BY <1>3, <2>5, <3>1 DEF Score, DefaultUnscored, UnscoredInv
    <3>3. DecideFromScore(Score(rows[s], in)) = "step_up"
      BY <3>2 DEF DecideFromScore, StepUpThreshold, AllowThreshold
    <3>4. spent'[s] = spent[s] /\ rows'[s].score = StepUpThreshold
          /\ rows'[s].last = "step_up"
      BY <2>1, <2>5, <3>2, <3>3 DEF Scored, Row
    <3> QED
      BY <1>3, <2>5, <3>1, <3>4 DEF UnscoredInv
  <2>6. CASE Fresh(s)
    BY <1>3, <2>6 DEF Fresh
  <2> QED
    BY <1>1, <2>1, <2>2, <2>3, <2>4, <2>5, <2>6 DEF Effect
<1> QED
  BY <1>2, <1>3

\* In production nothing is allowed, and nothing charged, on a session that
\* was opened without a scored credential until its step-up has completed.
THEOREM UnscoredIsSafe == Spec => []UnscoredNeedsStepUp
<1>1. Init => UnscoredInv
  BY DEF Init, UnscoredInv, Exists
<1>2. Inv /\ UnscoredInv /\ [Next]_vars => UnscoredInv'
  BY UnscoredStep
<1>3. UnscoredInv => UnscoredNeedsStepUp
  BY DEF UnscoredInv, UnscoredNeedsStepUp
<1> QED
  BY <1>1, <1>2, <1>3, Strengthened, PTL DEF Spec

\* While a step-up is pending no decision charges the session, and only the
\* step-up itself makes it active again.
THEOREM PendingHolds == Spec => PendingStepUpHolds
<1> DEFINE Holds == \A s \in SessionIds :
             Exists(s) /\ rows[s].status = "step_up_required" =>
               /\ spent'[s] = spent[s]
               /\ rows'[s].status = "active" => rows'[s].steppedUp
<1>1. Inv /\ [Next]_vars => [Holds]_vars
  <2> SUFFICES ASSUME Inv, [Next]_vars, NEW s \in SessionIds, Exists(s),
                      rows[s].status = "step_up_required"
               PROVE  /\ spent'[s] = spent[s]
                      /\ rows'[s].status = "active" => rows'[s].steppedUp
    OBVIOUS
  <2>1. Effect(s) /\ rows[s] \in Row
    BY StepEffect, RowIsNotNone DEF Inv
  <2>2. CASE Untouched(s) \/ Fresh(s)
    BY <2>2 DEF Untouched, Fresh
  <2>3. CASE Blocked(s) \/ Revoked(s) \/ SteppedUp(s)
    BY <2>1, <2>3 DEF Blocked, Revoked, SteppedUp, Row
  <2>4. CASE \E in \in Inputs : Scored(s, in)
    BY <2>4 DEF Scored
  <2> QED
    BY <2>1, <2>2, <2>3, <2>4 DEF Effect
<1> QED
  BY <1>1, Strengthened, PTL DEF Spec, PendingStepUpHolds

(***************************************************************************)
(* Charges and expiry.                                                     *)
(***************************************************************************)

\* No decision charges a session whose expiry had passed when it read the clock,
\* even when a step-up has put the expired session back to active.
THEOREM ChargesEnd == Spec => NoChargeAfterExpiry
<1> DEFINE Timely == \A s \in SessionIds : spent'[s] # spent[s] =>
             \E r \in Requests : /\ lock[s] = r
                                 /\ req[r].now <= rows[s].expires
<1>1. Inv /\ [Next]_vars => [Timely]_vars
  <2> SUFFICES ASSUME Inv, [Next]_vars, NEW s \in SessionIds, spent'[s] # spent[s]
               PROVE  \E r \in Requests : lock[s] = r /\ req[r].now <= rows[s].expires
    OBVIOUS
  <2>a. ~Tick /\ spent' # spent
    BY DEF Tick
  <2>b. PICK r \in Requests : Call(r) \/ Handle(r) \/ Crash(r)
    BY <2>a DEF Next, vars
  <2>c. ~Call(r) /\ ~Crash(r)
    BY <2>a DEF Call, CreateLookup, LockRow, RevokeLock, Crash
  <2>d. Handle(r)
    BY <2>b, <2>c
  <2>1. DecideScored(r)
    BY <2>a, <2>d, WalkRequest DEF Handle, Walk, CreateInsert, DecideRefused, DecideExpired,
       DecideBlocked, StepUpRefused, StepUpCommit, RevokeCommit
  <2>2. req[r].pc \in Working
    BY <2>1 DEF DecideScored, Working
  <2>3. req[r].session = s
    BY <2>1 DEF DecideScored, Inv, TypeOK
  <2>4. /\ lock[s] = r /\ rows[s] \in Row /\ req[r].row = rows[s]
        /\ req[r].now \in 0..MaxClock
    BY <2>2, <2>3, AtWork
  <2>5. Verdict(rows[s], req[r].in, req[r].now, req[r].spent) = "scored"
    BY <2>1, <2>4 DEF DecideScored, ReadVerdict
  <2>6. ~(rows[s].expires < req[r].now)
    BY <2>5 DEF Verdict
  <2>7. rows[s].expires \in Nat /\ req[r].now \in Nat
    BY <2>4, Constants DEF Row
  <2> QED
    BY <2>4, <2>6, <2>7
<1> QED
  BY <1>1, Strengthened, PTL DEF Spec, NoChargeAfterExpiry

(***************************************************************************)
(* The registry follows the session.  What a revocation marks hangs from   *)
(* its session's delegation, it names delegations only when its walk has   *)
(* come to an end, and the marks are committed with the session or die     *)
(* with the request.                                                       *)
(***************************************************************************)
Level ==
  CHOOSE depth \in [Delegations -> 0..16] : \A d \in Delegations :
    Parent[d] # None => depth[d] = depth[Parent[d]] + 1

\* A child is one level below its parent.
LEMMA Levels ==
  /\ Level \in [Delegations -> 0..16]
  /\ \A d \in Delegations : Parent[d] # None => Level[d] = Level[Parent[d]] + 1
BY TreeAssumption DEF Level

AtWalk == {"cascading", "setting", "revoking"}

Hangs(w) ==
  \A d \in w.marked : /\ d = w.row.body.delegation \/ Parent[d] \in w.marked
                      /\ Level[w.row.body.delegation] <= Level[d]

Reports(w) ==
  w.cascaded # {} =>
    /\ w.cascaded = w.marked \ {w.row.body.delegation}
    /\ \A d \in Delegations : Parent[d] \in w.marked => d \in w.marked

Sound(w) ==
  /\ w.pc \notin AtWalk => w.marked = {}
  /\ w.pc # "revoking" => w.cascaded = {}
  /\ w.marked # {} => w.row.body.delegation \in w.marked
  /\ Hangs(w)
  /\ Reports(w)

MarkedInv == \A r \in Requests : Sound(req[r])

CascadeInvariant ==
  MarkedInv /\ RevokedIsBlocked /\ MarkedFromTheTop /\ ReportIsComplete

\* A request that has marked nothing and reports nothing is sound.
LEMMA NothingMarked ==
  ASSUME NEW w, w.marked = {}, w.cascaded = {} PROVE Sound(w)
BY DEF Sound, Hangs, Reports

\* Every step of the walk keeps what it has marked hanging from the delegation.
LEMMA WalkSound ==
  ASSUME Inv, NEW r \in Requests, Sound(req[r]), Walk(r) PROVE Sound(req'[r])
<1> DEFINE w   == req[r]
           top == w.row.body.delegation
<1>1. /\ w \in Request /\ w.pc \in {"cascading", "setting"} /\ top \in Delegations
      /\ req \in [Requests -> Request] /\ w.marked \subseteq Delegations
  BY WalkRequest DEF Inv, TypeOK, Shape, Request
<1>2. ASSUME NEW d \in Delegations, MarkDelegation(r, d) PROVE Sound(req'[r])
  <2>1. /\ req'[r].pc = "setting" /\ req'[r].marked = w.marked \cup {d}
        /\ req'[r].row = w.row /\ req'[r].cascaded = w.cascaded /\ w.cascaded = {}
    BY <1>1, <1>2 DEF MarkDelegation, Request, Sound
  <2>2. Level[top] \in Nat /\ \A e \in Delegations : Level[e] \in Nat
    BY <1>1, Levels
  <2>3. CASE w.marked = {}
    <3>1. d = top
      BY <1>2, <2>3 DEF MarkDelegation, NextOfWalk
    <3> QED
      BY <2>1, <2>2, <2>3, <3>1 DEF Sound, Hangs, Reports, AtWalk
  <2>4. CASE w.marked # {}
    <3>1. Parent[d] \in w.marked /\ top \in w.marked
      BY <1>2, <2>4 DEF MarkDelegation, NextOfWalk, Sound
    <3>2. Level[top] <= Level[Parent[d]] /\ Level[d] = Level[Parent[d]] + 1
      BY <1>1, <3>1, Levels, Constants DEF Sound, Hangs
    <3>3. Level[top] <= Level[d]
      BY <1>1, <2>2, <3>1, <3>2
    <3> QED
      BY <2>1, <3>1, <3>3 DEF Sound, Hangs, Reports, AtWalk
  <2> QED
    BY <2>3, <2>4
<1>3. CASE SetBit(r) \/ SkipBit(r)
  <2>1. /\ req'[r].pc = "cascading" /\ req'[r].marked = w.marked
        /\ req'[r].row = w.row /\ req'[r].cascaded = w.cascaded
    BY <1>1, <1>3 DEF SetBit, SkipBit, Request
  <2> QED
    BY <1>1, <2>1 DEF Sound, Hangs, Reports, AtWalk
<1>4. CASE CascadeDone(r)
  <2>1. /\ req'[r].pc = "revoking" /\ req'[r].marked = w.marked
        /\ req'[r].row = w.row /\ req'[r].cascaded = w.marked \ {top}
    BY <1>1, <1>4 DEF CascadeDone, Request
  <2>2. \A d \in Delegations : Parent[d] \in w.marked => d \in w.marked
    BY <1>4 DEF CascadeDone, NextOfWalk
  <2> QED
    BY <1>1, <2>1, <2>2 DEF Sound, Hangs, Reports, AtWalk
<1>5. CASE CascadeFails(r)
  <2>1. /\ req'[r].pc = "revoking" /\ req'[r].marked = w.marked
        /\ req'[r].row = w.row /\ req'[r].cascaded = w.cascaded /\ w.cascaded = {}
    BY <1>1, <1>5 DEF CascadeFails, Request, Sound
  <2> QED
    BY <1>1, <2>1 DEF Sound, Hangs, Reports, AtWalk
<1> QED
  BY <1>2, <1>3, <1>4, <1>5 DEF Walk

\* Every step keeps what revocations have marked below their delegations.
LEMMA MarkedStep ==
  ASSUME Inv, MarkedInv, [Next]_vars PROVE MarkedInv'
<1> SUFFICES ASSUME NEW q \in Requests PROVE Sound(req'[q])
  BY DEF MarkedInv, Sound, Hangs, Reports
<1>a. req \in [Requests -> Request] /\ Sound(req[q])
  BY DEF Inv, TypeOK, MarkedInv
<1>1. CASE req'[q] = req[q]
  BY <1>a, <1>1
<1>b. NoRequest.marked = {} /\ NoRequest.cascaded = {}
  BY DEF NoRequest
<1>2. ASSUME NEW r \in Requests, req' = [req EXCEPT ![r] = NoRequest] PROVE Sound(req'[q])
  <2>1. req'[q] = req[q] \/ req'[q] = NoRequest
    BY <1>a, <1>2
  <2> QED
    BY <1>1, <1>b, <2>1, NothingMarked
<1>3. ASSUME NEW r \in Requests, NEW s \in SessionIds, NEW pc, NEW in, LockRow(r, s, pc, in)
      PROVE  Sound(req'[q])
  <2>1. req'[q] = req[q] \/ (req'[q].marked = {} /\ req'[q].cascaded = {})
    BY <1>a, <1>3 DEF LockRow, NoRequest
  <2> QED
    BY <1>1, <2>1, NothingMarked
<1>4. ASSUME NEW r \in Requests, Call(r) PROVE Sound(req'[q])
  <2>1. ASSUME NEW body \in Bodies, NEW key \in Keys \cup {None}, CreateLookup(r, body, key)
        PROVE  Sound(req'[q])
    <3>1. req[r].marked = {} /\ req[r].cascaded = {}
      BY <2>1 DEF CreateLookup, MarkedInv, Sound, AtWalk
    <3>2. req'[q] = req[q] \/ (req'[q].marked = {} /\ req'[q].cascaded = {})
      BY <1>a, <2>1, <3>1 DEF CreateLookup, Request
    <3> QED
      BY <1>1, <3>2, NothingMarked
  <2> QED
    BY <1>3, <1>4, <2>1 DEF Call, RevokeLock
<1>5. ASSUME NEW r \in Requests, Walk(r) PROVE Sound(req'[q])
  <2>1. q # r => req'[q] = req[q]
    BY <1>a, <1>5, WalkRequest
  <2>2. Sound(req'[r])
    BY <1>5, WalkSound DEF MarkedInv
  <2> QED
    BY <1>1, <2>1, <2>2
<1>6. ASSUME NEW r \in Requests, Handle(r) PROVE Sound(req'[q])
  BY <1>2, <1>5, <1>6 DEF Handle, Walk, CreateInsert, DecideRefused, DecideExpired,
     DecideBlocked, DecideScored, StepUpRefused, StepUpCommit, RevokeCommit, Answer
<1>7. CASE Tick \/ UNCHANGED vars
  BY <1>1, <1>7 DEF Tick, vars
<1> QED
  BY <1>2, <1>4, <1>6, <1>7 DEF Next, Crash

\* A revoked session stays revoked and keeps the delegation it was opened with.
LEMMA Accounts ==
  ASSUME Inv, RevokedIsBlocked, [Next]_vars, NEW s \in SessionIds, Exists(s),
         rows[s].status = "revoked"
  PROVE  Exists(s)' /\ rows'[s].status = "revoked" /\ rows'[s].body = rows[s].body
BY RevokedStep, StepEffect, Fixed

\* Only the commit of a revocation writes the registry, with what it has marked.
LEMMA RegistryGrows ==
  ASSUME Inv, [Next]_vars
  PROVE  \/ registry' = registry
         \/ \E r \in Requests : RevokeCommit(r) /\ registry' = registry \cup req[r].marked
<1> SUFFICES ASSUME registry' # registry
             PROVE  \E r \in Requests : RevokeCommit(r) /\ registry' = registry \cup req[r].marked
  OBVIOUS
<1>1. PICK r \in Requests : Call(r) \/ Handle(r) \/ Crash(r)
  BY DEF Next, vars, Tick
<1>2. ~Call(r) /\ ~Crash(r) /\ ~Walk(r)
  BY WalkRequest DEF Call, CreateLookup, LockRow, RevokeLock, Crash
<1>3. /\ \A s \in SessionIds, total \in Scores \cup {None} : ~CreateInsert(r, s, total)
      /\ ~DecideRefused(r) /\ ~DecideExpired(r) /\ ~DecideBlocked(r)
      /\ ~DecideScored(r) /\ ~StepUpRefused(r) /\ ~StepUpCommit(r)
  BY DEF CreateInsert, DecideRefused, DecideExpired, DecideBlocked, DecideScored,
         StepUpRefused, StepUpCommit
<1>4. RevokeCommit(r)
  BY <1>1, <1>2, <1>3 DEF Handle, Walk
<1> QED
  BY <1>4 DEF RevokeCommit

\* The session of a request that commits a revocation.
LEMMA Committed ==
  ASSUME Inv, NEW r \in Requests, RevokeCommit(r)
  PROVE  LET s == req[r].session IN
         /\ s \in SessionIds /\ rows[s] \in Row /\ req[r].row = rows[s] /\ rows'[s] # None
         /\ req[r].pc = "revoking" /\ registry' = registry \cup req[r].marked
         /\ rows'[s].status = "revoked" /\ rows'[s].body = rows[s].body
         /\ rows'[s].cascaded = req[r].cascaded
<1> DEFINE s == req[r].session
<1>1. req[r].pc = "revoking" /\ req[r].pc \in Working /\ registry' = registry \cup req[r].marked
  BY DEF RevokeCommit, Working
<1>2. s \in SessionIds /\ Exists(s) /\ rows[s] \in Row /\ req[r].row = rows[s]
  BY <1>1, AtWork
<1>3. rows' = [rows EXCEPT ![s] = [rows[s] EXCEPT !.status = "revoked", !.last = "block",
                                                  !.cascaded = req[r].cascaded]]
  BY <1>2 DEF RevokeCommit, Inv, TypeOK
<1>4. /\ rows'[s].status = "revoked" /\ rows'[s].body = rows[s].body /\ rows'[s] \in Row
      /\ rows'[s].cascaded = req[r].cascaded
  BY <1>2, <1>3 DEF Inv, TypeOK, Row, Statuses, Decisions, Request
<1>5. rows'[s] # None
  BY <1>4, AbsentAssumption
<1> QED
  BY <1>1, <1>2, <1>4, <1>5

\* Every step revokes registry rows from the session's delegation downwards.
LEMMA FromTheTopStep ==
  ASSUME Inv, CascadeInvariant, [Next]_vars PROVE MarkedFromTheTop'
<1> SUFFICES ASSUME NEW d \in registry'
             PROVE  \/ Parent[d] \in registry'
                    \/ \E s \in SessionIds : /\ Exists(s)' /\ rows'[s].status = "revoked"
                                            /\ rows'[s].body.delegation = d
  BY DEF MarkedFromTheTop, Exists
<1>0. registry \subseteq registry'
  BY RegistryGrows
<1>1. CASE d \in registry
  <2>1. CASE Parent[d] \in registry
    BY <1>0, <2>1
  <2>2. ASSUME NEW s \in SessionIds, Exists(s), rows[s].status = "revoked",
               rows[s].body.delegation = d
        PROVE  Exists(s)' /\ rows'[s].status = "revoked" /\ rows'[s].body.delegation = d
    BY <2>2, Accounts DEF CascadeInvariant
  <2> QED
    BY <1>1, <2>1, <2>2 DEF CascadeInvariant, MarkedFromTheTop
<1>2. CASE d \notin registry
  <2>1. PICK r \in Requests : RevokeCommit(r) /\ registry' = registry \cup req[r].marked
    BY <1>2, RegistryGrows
  <2>2. d \in req[r].marked /\ Sound(req[r])
    BY <1>2, <2>1 DEF CascadeInvariant, MarkedInv
  <2>3. d = req[r].row.body.delegation \/ Parent[d] \in req[r].marked
    BY <2>2 DEF Sound, Hangs
  <2> DEFINE s == req[r].session
  <2>4. /\ s \in SessionIds /\ req[r].row = rows[s] /\ rows'[s] # None
        /\ rows'[s].status = "revoked" /\ rows'[s].body = rows[s].body
    BY <2>1, Committed
  <2> QED
    BY <2>1, <2>3, <2>4 DEF Exists
<1> QED
  BY <1>1, <1>2

\* What a commit reports is all of the session's tree below its delegation.
LEMMA ReportOf ==
  ASSUME Inv, NEW r \in Requests, Sound(req[r]), req[r].cascaded # {},
         req[r].row.body.delegation \in Delegations \cup {None}
  PROVE  /\ req[r].cascaded \subseteq req[r].marked
         /\ \A d \in Delegations :
              Parent[d] \in {req[r].row.body.delegation} \cup req[r].cascaded =>
                d \in req[r].cascaded
<1> DEFINE w   == req[r]
           top == w.row.body.delegation
<1>1. /\ w.cascaded = w.marked \ {top} /\ w.marked # {} /\ top \in w.marked
      /\ \A d \in Delegations : Parent[d] \in w.marked => d \in w.marked
      /\ \A d \in w.marked : Level[top] <= Level[d]
  BY DEF Sound, Reports, Hangs
<1>2. w.marked \subseteq Delegations
  BY DEF Inv, TypeOK, Request
<1>3. Parent[top] \notin w.marked
  <2> SUFFICES ASSUME Parent[top] \in w.marked PROVE FALSE
    OBVIOUS
  <2>1. Level[top] = Level[Parent[top]] + 1 /\ Level[top] <= Level[Parent[top]]
    BY <1>1, <1>2, Levels, Constants
  <2>2. Level[Parent[top]] \in Nat
    BY <1>2, Levels
  <2> QED
    BY <2>1, <2>2
<1> QED
  BY <1>1, <1>3

\* Every step reports the whole of what it has revoked, or nothing.
LEMMA ReportStep ==
  ASSUME Inv, CascadeInvariant, [Next]_vars PROVE ReportIsComplete'
<1> SUFFICES ASSUME NEW s \in SessionIds, Exists(s)', rows'[s].cascaded # {}
             PROVE  /\ rows'[s].status = "revoked"
                    /\ rows'[s].cascaded \subseteq registry'
                    /\ \A d \in Delegations :
                         Parent[d] \in {rows'[s].body.delegation} \cup rows'[s].cascaded =>
                           d \in rows'[s].cascaded
  BY DEF ReportIsComplete, Exists
<1>0. registry \subseteq registry' /\ Effect(s)
  BY RegistryGrows, StepEffect
<1>1. ASSUME Exists(s), rows'[s].cascaded = rows[s].cascaded
      PROVE  /\ rows[s].status = "revoked" /\ rows'[s].body = rows[s].body
             /\ rows'[s].cascaded \subseteq registry'
             /\ \A d \in Delegations :
                  Parent[d] \in {rows'[s].body.delegation} \cup rows'[s].cascaded =>
                    d \in rows'[s].cascaded
  <2>1. /\ rows[s].status = "revoked" /\ rows[s].cascaded \subseteq registry
        /\ \A d \in Delegations :
             Parent[d] \in {rows[s].body.delegation} \cup rows[s].cascaded =>
               d \in rows[s].cascaded
    BY <1>1 DEF CascadeInvariant, ReportIsComplete
  <2>2. rows'[s].body = rows[s].body
    BY <1>1, <2>1, Accounts DEF CascadeInvariant
  <2> QED
    BY <1>0, <1>1, <2>1, <2>2
<1>2. CASE Untouched(s)
  BY <1>1, <1>2 DEF Untouched, Exists
<1>3. CASE Fresh(s)
  BY <1>3 DEF Fresh
<1>4. CASE Blocked(s) \/ SteppedUp(s) \/ \E in \in Inputs : Scored(s, in)
  <2>1. rows[s] \in Row /\ Exists(s) /\ rows[s].status # "revoked"
    BY <1>4, RowIsNotNone DEF Blocked, SteppedUp, Scored, Inv
  <2>2. rows'[s].cascaded = rows[s].cascaded
    BY <1>4, <2>1 DEF Blocked, SteppedUp, Scored, Row
  <2> QED
    BY <1>1, <2>1, <2>2
<1>5. CASE Revoked(s)
  <2>1. PICK r \in Requests : RevokeCommit(r) /\ req[r].session = s
    BY <1>5 DEF Revoked
  <2>2. /\ rows[s] \in Row /\ req[r].row = rows[s] /\ registry' = registry \cup req[r].marked
        /\ rows'[s].status = "revoked" /\ rows'[s].body = req[r].row.body
        /\ rows'[s].cascaded = req[r].cascaded /\ Sound(req[r])
    BY <2>1, Committed DEF CascadeInvariant, MarkedInv
  <2>3. req[r].row.body.delegation \in Delegations \cup {None}
    BY <2>2 DEF Row, Body
  <2> QED
    BY <2>2, <2>3, ReportOf
<1> QED
  BY <1>0, <1>2, <1>3, <1>4, <1>5 DEF Effect

\* Bits and the registry rows beside them, of which Stray is the difference.
InBits(d) == d \in bits \/ \E r \in Requests : d \in req[r].seen
Covered(d) == d \in registry \/ \E r \in Requests : d \in req[r].marked

\* Unless a request dies, what it has marked stays so or is committed.
LEMMA CoveredStep ==
  ASSUME Inv, MarkedInv, [Next]_vars, \A r \in Requests : ~Crash(r), NEW d, Covered(d)
  PROVE  Covered(d)'
<1>a. req \in [Requests -> Request] /\ registry \subseteq registry'
  BY RegistryGrows DEF Inv, TypeOK
<1>1. CASE d \in registry
  BY <1>a, <1>1 DEF Covered
<1>2. ASSUME NEW q \in Requests, d \in req[q].marked PROVE Covered(d)'
  <2>0. req[q].pc \in AtWalk
    BY <1>2 DEF MarkedInv, Sound
  <2>1. CASE req'[q] = req[q]
    BY <1>2, <2>1 DEF Covered
  <2>2. ASSUME NEW r \in Requests, Walk(r) PROVE d \in req'[q].marked
    <3>1. CASE q # r
      BY <1>a, <1>2, <2>2, <3>1, WalkRequest
    <3>2. CASE q = r
      <4>1. ASSUME NEW e \in Delegations, MarkDelegation(r, e)
            PROVE  req'[q].marked = req[q].marked \cup {e}
        BY <1>a, <3>2, <4>1 DEF MarkDelegation, Request
      <4>2. ASSUME SetBit(r) \/ SkipBit(r) \/ CascadeDone(r) \/ CascadeFails(r)
            PROVE  req'[q].marked = req[q].marked
        BY <1>a, <3>2, <4>2 DEF SetBit, SkipBit, CascadeDone, CascadeFails, Request
      <4> QED
        BY <1>2, <2>2, <4>1, <4>2 DEF Walk
    <3> QED
      BY <3>1, <3>2
  <2>3. ASSUME NEW r \in Requests, RevokeCommit(r) PROVE Covered(d)'
    BY <1>a, <1>2, <2>1, <2>3 DEF RevokeCommit, Answer, Covered
  <2>4. ASSUME NEW r \in Requests, Handle(r), ~Walk(r), ~RevokeCommit(r) PROVE req'[q] = req[q]
    BY <1>a, <2>0, <2>4 DEF Handle, Walk, CreateInsert, DecideRefused, DecideExpired,
       DecideBlocked, DecideScored, StepUpRefused, StepUpCommit, Answer, AtWalk
  <2>5. ASSUME NEW r \in Requests, Call(r) PROVE req'[q] = req[q]
    BY <1>a, <2>0, <2>5 DEF Call, CreateLookup, LockRow, RevokeLock, AtWalk
  <2>6. CASE Tick \/ UNCHANGED vars
    BY <2>1, <2>6 DEF Tick, vars
  <2> QED
    BY <2>1, <2>2, <2>3, <2>4, <2>5, <2>6 DEF Next, Covered
<1> QED
  BY <1>1, <1>2 DEF Covered

\* A bit that appears is that of a registry row marked in the same request.
LEMMA InBitsStep ==
  ASSUME Inv, MarkedInv, [Next]_vars, NEW d, InBits(d)'
  PROVE  InBits(d) \/ Covered(d)'
<1>a. req \in [Requests -> Request]
  BY DEF Inv, TypeOK
<1>b. NoRequest.seen = {}
  BY DEF NoRequest
<1>1. ASSUME NEW r \in Requests, bits' = bits,
             \A q \in Requests : req'[q].seen \in {req[q].seen, bits, {}}
      PROVE  InBits(d)
  BY <1>1 DEF InBits
<1>2. ASSUME NEW r \in Requests, SetBit(r) PROVE InBits(d) \/ Covered(d)'
  <2>1. /\ req[r].target \in req[r].marked /\ req'[r].marked = req[r].marked
        /\ \A q \in Requests : req'[q].seen \in {req[q].seen, {}}
    BY <1>a, <1>2 DEF SetBit, Inv, Shape, Request
  <2>2. bits' \subseteq bits \cup req[r].seen \cup {req[r].target}
    BY <1>2 DEF SetBit
  <2> QED
    BY <2>1, <2>2 DEF InBits, Covered
<1>3. ASSUME NEW r \in Requests, Walk(r), ~SetBit(r) PROVE InBits(d)
  <2>1. ASSUME NEW d0 \in Delegations, MarkDelegation(r, d0)
        PROVE  bits' = bits /\ \A q \in Requests : req'[q].seen \in {req[q].seen, bits, {}}
    BY <1>a, <2>1 DEF MarkDelegation, Request
  <2>2. ASSUME SkipBit(r) \/ CascadeDone(r) \/ CascadeFails(r)
        PROVE  bits' = bits /\ \A q \in Requests : req'[q].seen \in {req[q].seen, bits, {}}
    BY <1>a, <2>2 DEF SkipBit, CascadeDone, CascadeFails, Request
  <2> QED
    BY <1>1, <1>3, <2>1, <2>2 DEF Walk
<1>4. ASSUME NEW r \in Requests, Handle(r), ~Walk(r) PROVE InBits(d)
  BY <1>a, <1>b, <1>1, <1>4 DEF Handle, Walk, CreateInsert, DecideRefused, DecideExpired,
     DecideBlocked, DecideScored, StepUpRefused, StepUpCommit, RevokeCommit, Answer
<1>5. ASSUME NEW r \in Requests, NEW s \in SessionIds, NEW pc, NEW in, LockRow(r, s, pc, in)
      PROVE  InBits(d)
  <2>1. bits' = bits /\ \A q \in Requests : req'[q].seen \in {req[q].seen, {}}
    BY <1>a, <1>5 DEF LockRow, NoRequest
  <2> QED
    BY <1>1, <2>1
<1>6. ASSUME NEW r \in Requests, Call(r) PROVE InBits(d)
  <2>1. ASSUME NEW body \in Bodies, NEW key \in Keys \cup {None}, CreateLookup(r, body, key)
        PROVE  InBits(d)
    BY <1>a, <1>1, <2>1 DEF CreateLookup, Request
  <2> QED
    BY <1>5, <1>6, <2>1 DEF Call, RevokeLock
<1>7. ASSUME NEW r \in Requests, Crash(r) PROVE InBits(d)
  BY <1>a, <1>b, <1>1, <1>7 DEF Crash
<1>8. CASE Tick \/ UNCHANGED vars
  BY <1>8 DEF Tick, vars, InBits
<1> QED
  BY <1>2, <1>3, <1>4, <1>6, <1>7, <1>8 DEF Next

\* No step but the death of a request leaves a bit without its registry row.
LEMMA StrayStep ==
  Inv /\ MarkedInv /\ [Next]_vars =>
    [Stray' \subseteq Stray \/ \E r \in Requests : Crash(r)]_vars
<1> SUFFICES ASSUME Inv, MarkedInv, [Next]_vars, \A r \in Requests : ~Crash(r), NEW d \in Stray'
             PROVE  d \in Stray
  OBVIOUS
<1>1. InBits(d)' /\ ~Covered(d)'
  BY DEF Stray, InBits, Covered
<1>2. InBits(d)
  BY <1>1, InBitsStep
<1>3. ~Covered(d)
  BY <1>1, CoveredStep
<1> QED
  BY <1>2, <1>3 DEF Stray, InBits, Covered

\* Registry rows are revoked from the delegation of a revoked session downwards,
\* what a revocation reports is all it had to revoke, and a bit without its
\* registry row is left only by a request that dies: whatever the tree of
\* delegations, wherever the walk fails and whatever crashes in between.
THEOREM RegistryFollows == Spec => RegistryFollowsSession
<1>1. Init => CascadeInvariant
  BY NothingMarked DEF Init, CascadeInvariant, MarkedInv, RevokedIsBlocked, MarkedFromTheTop,
     ReportIsComplete, Exists, NoRequest
<1>2. Inv /\ CascadeInvariant /\ [Next]_vars => CascadeInvariant'
  <2> SUFFICES ASSUME Inv, CascadeInvariant, [Next]_vars PROVE CascadeInvariant'
    OBVIOUS
  <2>1. MarkedInv' /\ MarkedFromTheTop' /\ ReportIsComplete'
    BY MarkedStep, FromTheTopStep, ReportStep DEF CascadeInvariant
  <2>2. RevokedIsBlocked'
    BY BlockedStep DEF CascadeInvariant
  <2> QED
    BY <2>1, <2>2 DEF CascadeInvariant
<1>3. CascadeInvariant => MarkedFromTheTop /\ ReportIsComplete
  BY DEF CascadeInvariant
<1>4. Inv /\ CascadeInvariant /\ [Next]_vars =>
        [Stray' \subseteq Stray \/ \E r \in Requests : Crash(r)]_vars
  BY StrayStep DEF CascadeInvariant
<1> QED
  BY <1>1, <1>2, <1>3, <1>4, Strengthened, PTL DEF Spec, RegistryFollowsSession
-----------------------------------------------------------------------------
(***************************************************************************)
(* The refinement.  A step touches one session at most, and what it may do *)
(* to that session (Effect) is a step of the contract or none.             *)
(***************************************************************************)
LEMMA OneSession ==
  ASSUME Inv, [Next]_vars
  PROVE  \/ \A s \in SessionIds : Untouched(s)
         \/ \E t \in SessionIds : \A s \in SessionIds \ {t} : Untouched(s)
<1>1. CASE UNCHANGED <<rows, spent>>
  BY <1>1 DEF Untouched
<1>2. ASSUME NEW r \in Requests, NEW t \in SessionIds, NEW total \in Scores \cup {None},
             CreateInsert(r, t, total), NEW s \in SessionIds \ {t}
      PROVE  Untouched(s)
  BY <1>2 DEF CreateInsert, Untouched, Inv, TypeOK
<1>3. ASSUME NEW r \in Requests,
             DecideExpired(r) \/ DecideBlocked(r) \/ DecideScored(r) \/ StepUpCommit(r) \/ RevokeCommit(r)
      PROVE  \E t \in SessionIds : \A s \in SessionIds \ {t} : Untouched(s)
  <2> DEFINE t == req[r].session
  <2>1. req[r].pc \in Working
    BY <1>3 DEF DecideExpired, DecideBlocked, DecideScored, StepUpCommit, RevokeCommit, Working
  <2>2. t \in SessionIds
    BY <2>1, AtWork
  <2>3. ASSUME NEW s \in SessionIds \ {t} PROVE Untouched(s)
    <3>1. CASE DecideExpired(r) \/ DecideBlocked(r) \/ StepUpCommit(r) \/ RevokeCommit(r)
      BY <2>3, <3>1 DEF DecideExpired, DecideBlocked, StepUpCommit, RevokeCommit, Untouched, Inv, TypeOK
    <3>2. CASE DecideScored(r)
      BY <2>3, <3>2 DEF DecideScored, Untouched, Inv, TypeOK
    <3> QED
      BY <1>3, <3>1, <3>2
  <2> QED
    BY <2>2, <2>3
<1>4. ASSUME NEW r \in Requests, Handle(r)
      PROVE  \/ UNCHANGED <<rows, spent>>
             \/ \E t \in SessionIds : \A s \in SessionIds \ {t} : Untouched(s)
  BY <1>2, <1>3, <1>4, WalkRequest DEF Handle, DecideRefused, StepUpRefused, Walk
<1>5. ASSUME NEW r \in Requests, Call(r) \/ Crash(r) PROVE UNCHANGED <<rows, spent>>
  BY <1>5 DEF Call, CreateLookup, RevokeLock, LockRow, Crash
<1>6. CASE Tick \/ UNCHANGED vars
  BY <1>1, <1>6 DEF Tick, vars
<1> QED
  BY <1>1, <1>4, <1>5, <1>6 DEF Next

\* The contract's view of the state.
phase == [s \in SessionIds |-> Phase(s)]
limit == [s \in SessionIds |-> IF Exists(s) THEN rows[s].body.scope.max ELSE None]

\* The contract's view of a session is what the refinement mapping computes.
LEMMA ViewIsContract ==
  /\ Contract!Init <=> /\ phase = [s \in SessionIds |-> "none"]
                       /\ limit = [s \in SessionIds |-> None]
                       /\ spent = [s \in SessionIds |-> [c \in Currencies |-> 0]]
  /\ Contract!contract = <<phase, limit, spent>>
BY DEF Contract!Init, Contract!contract, phase, limit

\* The initial states map to the contract's.
LEMMA InitContract == Init => Contract!Init
BY ViewIsContract DEF Init, Exists, phase, limit, Phase

\* A session no step touches looks the same to the contract.
LEMMA UntouchedView ==
  ASSUME NEW s \in SessionIds, Untouched(s)
  PROVE  phase'[s] = phase[s] /\ limit'[s] = limit[s] /\ spent'[s] = spent[s]
BY DEF Untouched, phase, limit, Phase, Exists

\* Once a session is open its limit is what it was opened with.
LEMMA LimitFixed ==
  ASSUME Inv, [Next]_vars, NEW s \in SessionIds, Exists(s) PROVE limit'[s] = limit[s]
BY StepEffect, Fixed DEF limit, Exists

\* What a step does to one session, as the contract sees it.
ContractEffect(s) ==
  \/ phase'[s] = phase[s] /\ limit'[s] = limit[s] /\ spent'[s] = spent[s]
  \/ /\ phase[s] = "none" /\ phase'[s] = "open" /\ spent'[s] = spent[s]
     /\ limit'[s] \in {body.scope.max : body \in Bodies}
  \/ /\ limit'[s] = limit[s] /\ spent'[s] = spent[s]
     /\ \/ phase[s] = "open" /\ phase'[s] = "held"
        \/ phase[s] = "held" /\ phase'[s] = "open"
        \/ phase[s] \in {"open", "held"} /\ phase'[s] = "closed"
  \/ /\ phase[s] = "open" /\ phase'[s] = phase[s] /\ limit'[s] = limit[s]
     /\ \E c \in Currencies, n \in {in.amount : in \in Inputs} \ {None} :
          /\ limit[s] # None => spent[s][c] + n <= limit[s]
          /\ spent'[s] = [spent[s] EXCEPT ![c] = @ + n]

\* Only create_session makes a row where there was none.
LEMMA CreatedOnly ==
  ASSUME Inv, [Next]_vars, NEW s \in SessionIds, ~Exists(s), ~Untouched(s)
  PROVE  \E r \in Requests, t \in SessionIds, total \in Scores \cup {None} : CreateInsert(r, t, total)
<1>1. ASSUME NEW r \in Requests,
             DecideExpired(r) \/ DecideBlocked(r) \/ DecideScored(r) \/ StepUpCommit(r) \/ RevokeCommit(r)
      PROVE  FALSE
  <2>1. req[r].pc \in Working
    BY <1>1 DEF DecideExpired, DecideBlocked, DecideScored, StepUpCommit, RevokeCommit, Working
  <2>2. req[r].session # s
    BY <2>1, AtWork
  <2>3. CASE DecideExpired(r) \/ DecideBlocked(r) \/ StepUpCommit(r) \/ RevokeCommit(r)
    BY <2>2, <2>3 DEF DecideExpired, DecideBlocked, StepUpCommit, RevokeCommit, Untouched, Inv, TypeOK
  <2>4. CASE DecideScored(r)
    BY <2>2, <2>4 DEF DecideScored, Untouched, Inv, TypeOK
  <2> QED
    BY <1>1, <2>3, <2>4
<1>2. ~UNCHANGED <<rows, spent>>
  BY DEF Untouched
<1> QED
  BY <1>1, <1>2, WalkRequest DEF Next, vars, Tick, Crash, Call, CreateLookup, RevokeLock,
     LockRow, Handle, DecideRefused, StepUpRefused, Walk

\* Every step has an effect on a session that the contract admits, or none.
LEMMA StepContractEffect ==
  ASSUME Inv, [Next]_vars, NEW s \in SessionIds PROVE ContractEffect(s)
<1>1. CASE Untouched(s)
  BY <1>1, UntouchedView DEF ContractEffect
<1>2. CASE ~Exists(s) /\ ~Untouched(s)
  <2>2. PICK r \in Requests, t \in SessionIds, total \in Scores \cup {None} : CreateInsert(r, t, total)
    BY <1>2, CreatedOnly
  <2>3. t = s
    BY <1>2, <2>2 DEF CreateInsert, Untouched, Inv, TypeOK
  <2>4. req[r].in.body \in Bodies /\ rows'[s].body = req[r].in.body /\ spent' = spent /\ rows'[s].status = "active"
    BY <2>2, <2>3 DEF CreateInsert, Inv, TypeOK, Shape
  <2>5. Exists(s)'
    BY <2>2, <2>3, FreshRow, AbsentAssumption DEF Exists
  <2> QED
    BY <1>2, <2>4, <2>5 DEF ContractEffect, phase, limit, Phase, Exists
<1>3. CASE Exists(s)
  <2>1. rows[s] \in Row /\ Exists(s)' /\ limit'[s] = limit[s]
    BY <1>3, RowIsNotNone, StepEffect, Fixed, LimitFixed DEF Inv
  <2>2. /\ phase[s] = IF rows[s].status = "active" THEN "open"
                      ELSE IF rows[s].status = "revoked" THEN "closed" ELSE "held"
        /\ phase'[s] = IF rows'[s].status = "active" THEN "open"
                      ELSE IF rows'[s].status = "revoked" THEN "closed" ELSE "held"
        /\ limit[s] = rows[s].body.scope.max
    BY <1>3, <2>1 DEF phase, Phase, Exists, limit
  <2>3. CASE Blocked(s) \/ SteppedUp(s) \/ Revoked(s)
    BY <2>1, <2>2, <2>3 DEF Blocked, SteppedUp, Revoked, ContractEffect, Row, Statuses
  <2>4. ASSUME NEW in \in Inputs, Scored(s, in) PROVE ContractEffect(s)
    <3>1. rows[s].status = "active" /\ rows'[s].status \in {"active", "step_up_required"}
      BY <2>1, <2>4 DEF Scored, Row
    <3>2. CASE spent'[s] = spent[s]
      BY <2>1, <2>2, <3>1, <3>2 DEF ContractEffect
    <3>3. CASE spent'[s] # spent[s]
      <4> DEFINE c == BudgetCurrency(rows[s].body.scope, in)
      <4>1. c \in Currencies
        BY <2>1, CurrencyType
      <4>2. /\ IsPurchase(rows[s], in) /\ spent'[s] = [spent[s] EXCEPT ![c] = @ + in.amount]
            /\ DecideFromScore(Score(rows[s], in)) = "allow"
        BY <2>4, <3>3 DEF Scored
      <4>3. rows'[s].status = "active"
        BY <2>1, <2>4, <4>2 DEF Scored, Row
      <4>4. in.amount \in {x.amount : x \in Inputs} \ {None}
        BY <4>2 DEF IsPurchase
      <4>5. ~OverBudget(rows[s].body.scope, in, spent[s])
        BY <2>4, <4>2 DEF Scored
      <4>6. in.amount \in Nat /\ spent[s][c] \in Nat /\ limit[s] \in Nat \cup {None}
        BY <2>1, <2>2, <4>1, <4>4, Constants DEF Input, Inv, TypeOK, Ledger, Row, Body, Scope
      <4>7. limit[s] # None => spent[s][c] + in.amount <= limit[s]
        BY <2>2, <4>5, <4>6 DEF OverBudget
      <4> QED
        BY <2>1, <2>2, <3>1, <4>1, <4>2, <4>3, <4>4, <4>7 DEF ContractEffect
    <3> QED
      BY <3>2, <3>3
  <2>5. ~Fresh(s)
    BY <1>3 DEF Fresh
  <2> QED
    BY <1>1, <2>3, <2>4, <2>5, StepEffect DEF Effect
<1> QED
  BY <1>1, <1>2, <1>3

\* A function that differs from another at t only.
LEMMA DiffersAt ==
  ASSUME NEW S, NEW f, NEW g, f = [s \in S |-> f[s]], g = [s \in S |-> g[s]],
         NEW t \in S, \A s \in S \ {t} : g[s] = f[s]
  PROVE  g = [f EXCEPT ![t] = g[t]]
OBVIOUS

\* Every step maps to a step of the contract or to a stutter.
LEMMA StepContract == Inv /\ [Next]_vars => [Contract!Next]_(Contract!contract)
<1> SUFFICES ASSUME Inv, [Next]_vars
             PROVE  Contract!Next \/ UNCHANGED <<phase, limit, spent>>
  BY DEF Contract!contract, phase, limit
<1>1. /\ phase = [s \in SessionIds |-> phase[s]] /\ phase' = [s \in SessionIds |-> phase'[s]]
      /\ limit = [s \in SessionIds |-> limit[s]] /\ limit' = [s \in SessionIds |-> limit'[s]]
      /\ spent = [s \in SessionIds |-> spent[s]] /\ spent' = [s \in SessionIds |-> spent'[s]]
  BY StepInv DEF phase, limit, Inv, TypeOK
<1>2. CASE \A s \in SessionIds : Untouched(s)
  BY <1>1, <1>2, UntouchedView
<1>3. ASSUME NEW t \in SessionIds, \A s \in SessionIds \ {t} : Untouched(s)
      PROVE  Contract!Next \/ UNCHANGED <<phase, limit, spent>>
  <2>1. /\ phase' = [phase EXCEPT ![t] = phase'[t]]
        /\ limit' = [limit EXCEPT ![t] = limit'[t]]
        /\ spent' = [spent EXCEPT ![t] = spent'[t]]
    BY <1>1, <1>3, UntouchedView, DiffersAt
  <2>2. phase'[t] = phase[t] => phase' = phase
    BY <1>1, <2>1
  <2>3. limit'[t] = limit[t] => limit' = limit
    BY <1>1, <2>1
  <2>4. spent'[t] = spent[t] => spent' = spent
    BY <1>1, <2>1
  <2>5. CASE phase'[t] = phase[t] /\ limit'[t] = limit[t] /\ spent'[t] = spent[t]
    BY <2>2, <2>3, <2>4, <2>5
  <2>6. CASE /\ phase[t] = "none" /\ phase'[t] = "open" /\ spent'[t] = spent[t]
             /\ limit'[t] \in {body.scope.max : body \in Bodies}
    <3>1. Contract!Open(t)
      BY <2>1, <2>4, <2>6 DEF Contract!Open, Contract!Move, phase, limit
    <3> QED
      BY <3>1 DEF Contract!Next
  <2>7. CASE limit'[t] = limit[t] /\ spent'[t] = spent[t]
    <3>1. CASE phase[t] = "open" /\ phase'[t] = "held"
      BY <2>1, <2>3, <2>4, <2>7, <3>1 DEF Contract!Next, Contract!Hold, Contract!Move, phase, limit
    <3>2. CASE phase[t] = "held" /\ phase'[t] = "open"
      BY <2>1, <2>3, <2>4, <2>7, <3>2 DEF Contract!Next, Contract!Resume, Contract!Move, phase, limit
    <3>3. CASE phase[t] \in {"open", "held"} /\ phase'[t] = "closed"
      BY <2>1, <2>3, <2>4, <2>7, <3>3 DEF Contract!Next, Contract!Close, Contract!Move, phase, limit
    <3> QED
      BY <2>5, <2>6, <2>7, <3>1, <3>2, <3>3, StepContractEffect DEF ContractEffect
  <2>8. ASSUME phase[t] = "open", phase'[t] = phase[t], limit'[t] = limit[t],
               NEW c \in Currencies, NEW n \in {in.amount : in \in Inputs} \ {None},
               limit[t] # None => spent[t][c] + n <= limit[t],
               spent'[t] = [spent[t] EXCEPT ![c] = @ + n]
        PROVE  Contract!Next
    <3>1. spent' = [spent EXCEPT ![t][c] = @ + n]
      BY <1>1, <2>1, <2>8
    <3>2. Contract!Charge(t, c, n)
      BY <2>2, <2>3, <2>8, <3>1 DEF Contract!Charge, Contract!Within, phase, limit
    <3> QED
      BY <3>2 DEF Contract!Next
  <2> QED
    BY <2>5, <2>6, <2>7, <2>8, StepContractEffect DEF ContractEffect
<1> QED
  BY <1>2, <1>3, OneSession

\* The session runtime, with its locks, stale reads and crashes, does what the
\* contract allows and nothing else.
THEOREM Refinement == Spec => KeepsContract
<1> QED
  BY InitContract, StepContract, Strengthened, PTL DEF Spec, KeepsContract, Contract!Spec
=============================================================================
