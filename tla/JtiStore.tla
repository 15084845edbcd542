------------------------------ MODULE JtiStore ------------------------------
(***************************************************************************)
(* The replay store of backend/core/jti_dedup.py: one in-memory store per  *)
(* API process in front of one seen_jtis table.  check_and_record_jti      *)
(* holds the process's lock from the eviction to its answer, so a check is *)
(* one step.  `expires` maps a token id to the expiry it carries.          *)
(***************************************************************************)
EXTENDS Naturals

CONSTANTS
  Processes,   \* API processes (machines)
  Jtis,        \* token ids
  Endpoints,   \* names callers pass as endpoint
  None         \* an absent value

VARIABLES
  store,       \* _store of each process
  table        \* seen_jtis: the endpoint a token was first recorded for

StoreInit ==
  /\ store = [p \in Processes |-> {}]
  /\ table = [j \in Jtis |-> None]

StoreTypeOK ==
  /\ store \in [Processes -> SUBSET Jtis]
  /\ table \in [Jtis -> Endpoints \cup {None}]

\* _evict_expired: what is left in the store of p.
Kept(p, expires, now) == {j \in store[p] : expires[j] >= now}

\* _db_record_jti: new unless the row found names another endpoint.
RecordedAsNew(j, endpoint) == table[j] \in {None, endpoint}

\* Broken variant: the token is remembered in memory only.
AcceptsUnrecorded(p, j, endpoint, expires, now, dbUp) ==
  /\ j \notin Kept(p, expires, now)
  /\ dbUp => RecordedAsNew(j, endpoint)
  /\ store' = [store EXCEPT ![p] = Kept(p, expires, now) \cup {j}]
  /\ UNCHANGED table

\* check_and_record_jti answers None and remembers the token.  When the table
\* cannot be written the in-memory store alone decides.
Accepts(p, j, endpoint, expires, now, dbUp) ==
  /\ j \notin Kept(p, expires, now)
  /\ dbUp => RecordedAsNew(j, endpoint)
  /\ table' = IF dbUp /\ table[j] = None THEN [table EXCEPT ![j] = endpoint] ELSE table
  /\ store' = [store EXCEPT ![p] = Kept(p, expires, now) \cup {j}]

\* It answers that the token was seen.
Refuses(p, j, endpoint, expires, now, dbUp) ==
  /\ j \in Kept(p, expires, now) \/ (dbUp /\ ~RecordedAsNew(j, endpoint))
  /\ store' = [store EXCEPT ![p] = Kept(p, expires, now) \cup {j}]
  /\ UNCHANGED table

\* Broken variant: a started process does not load what was recorded.
StartsCold(p, expires, now, dbUp) ==
  /\ store' = [store EXCEPT ![p] = {}]
  /\ UNCHANGED table

\* init_db calls warm_jti_cache before the process serves requests.
Starts(p, expires, now, dbUp) ==
  /\ store' = [store EXCEPT ![p] =
                 IF dbUp THEN {j \in Jtis : table[j] # None /\ expires[j] > now} ELSE {}]
  /\ UNCHANGED table
=============================================================================
