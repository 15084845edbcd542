------------------------------ MODULE JtiDedup ------------------------------
(***************************************************************************)
(* Presenting signed tokens to the API: the signature and expiry of a      *)
(* token are verified first (core/vc.py), and only afterwards is the token *)
(* checked against the replay store (api/routes/commerce.py 324-369), so   *)
(* time passes and processes restart in between.                           *)
(***************************************************************************)
EXTENDS JtiStore

CONSTANTS
  Expiry,      \* [Jtis -> the time each token expires]
  Unreliable,  \* processes that cannot reach the table at times
  MaxInstant   \* bound: last instant the clock reaches

ASSUME TokenAssumption ==
  /\ Expiry \in [Jtis -> Nat]
  /\ Unreliable \subseteq Processes
  /\ MaxInstant \in Nat
  /\ None \notin Endpoints

VARIABLES
  instant,     \* the current time
  calls,       \* verified calls that have not reached the store
  accepted,    \* how often each process has accepted each token (at most 2)
  life         \* tokens each process has accepted since it started

dedupVars == <<store, table, instant, calls, accepted, life>>

Call == [proc : Processes, jti : Jtis, endpoint : Endpoints]

DedupInit ==
  /\ StoreInit
  /\ instant = 0
  /\ calls = {}
  /\ accepted = [p \in Processes |-> [j \in Jtis |-> 0]]
  /\ life = [p \in Processes |-> {}]

DbStates(p) == IF p \in Unreliable THEN BOOLEAN ELSE {TRUE}

VerifyToken(c) ==
  /\ instant < Expiry[c.jti]
  /\ calls' = calls \cup {c}
  /\ UNCHANGED <<store, table, instant, accepted, life>>

Accept(c, dbUp) ==
  /\ c \in calls
  /\ Accepts(c.proc, c.jti, c.endpoint, Expiry, instant, dbUp)
  /\ accepted' = [accepted EXCEPT ![c.proc][c.jti] = IF @ = 2 THEN 2 ELSE @ + 1]
  /\ life' = [life EXCEPT ![c.proc] = @ \cup {c.jti}]
  /\ calls' = calls \ {c}
  /\ UNCHANGED instant

Refuse(c, dbUp) ==
  /\ c \in calls
  /\ Refuses(c.proc, c.jti, c.endpoint, Expiry, instant, dbUp)
  /\ calls' = calls \ {c}
  /\ UNCHANGED <<instant, accepted, life>>

\* A process dies and a new one takes its place.
RestartProcess(p, dbUp) ==
  /\ Starts(p, Expiry, instant, dbUp)
  /\ calls' = {c \in calls : c.proc # p}
  /\ life' = [life EXCEPT ![p] = {}]
  /\ UNCHANGED <<instant, accepted>>

\* The process dies after the table was written and before it could answer.
DieRecording(c, dbUp) ==
  /\ c \in calls
  /\ c.jti \notin Kept(c.proc, Expiry, instant) /\ table[c.jti] = None
  /\ table' = [table EXCEPT ![c.jti] = c.endpoint]
  /\ store' = [store EXCEPT ![c.proc] =
       IF dbUp THEN {j \in Jtis : table'[j] # None /\ Expiry[j] > instant} ELSE {}]
  /\ calls' = {d \in calls : d.proc # c.proc}
  /\ life' = [life EXCEPT ![c.proc] = {}]
  /\ UNCHANGED <<instant, accepted>>

DedupTick ==
  /\ instant < MaxInstant
  /\ instant' = instant + 1
  /\ UNCHANGED <<store, table, calls, accepted, life>>

DedupNext ==
  \/ \E c \in Call : VerifyToken(c)
  \/ \E c \in Call : \E dbUp \in DbStates(c.proc) :
       Accept(c, dbUp) \/ Refuse(c, dbUp) \/ DieRecording(c, dbUp)
  \/ \E p \in Processes : \E dbUp \in DbStates(p) : RestartProcess(p, dbUp)
  \/ DedupTick

DedupSpec == DedupInit /\ [][DedupNext]_dedupVars

-----------------------------------------------------------------------------
\* The store, the table and the calls have their types; what a process that
\* always reaches the table remembers is recorded there.
DedupTypeOK ==
  /\ StoreTypeOK
  /\ \A p \in Processes \ Unreliable : \A j \in store[p] : table[j] # None
  /\ instant \in 0..MaxInstant
  /\ calls \subseteq Call
  /\ accepted \in [Processes -> [Jtis -> 0..2]]
  /\ life \in [Processes -> SUBSET Jtis]

AcceptsAgain(p, j) == accepted[p][j] = 1 /\ accepted'[p][j] = 2

\* A process accepts a valid token once: if it reaches the table, however often it
\* restarts and whatever processes that cannot reach it accept (startup.py: "Warm
\* JTI dedup cache from DB so replay protection survives restarts"), and if it does
\* not, for as long as it runs (_db_record_jti: "Optimistic: let in-memory store
\* handle it").
AcceptedOnce ==
  [][\A p \in Processes, j \in Jtis :
       /\ p \notin Unreliable /\ AcceptsAgain(p, j) => instant > Expiry[j]
       /\ j \in life[p] /\ accepted'[p][j] # accepted[p][j] => instant > Expiry[j]]_dedupVars
=============================================================================
