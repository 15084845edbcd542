------------------------------ MODULE Registry ------------------------------
(***************************************************************************)
(* The rows of the backend that identity rests on: tenants, agents, their  *)
(* signing keys and DID documents, and the credentials signed with them.   *)
(*                                                                         *)
(* An agent's DID is made of a fresh uuid, so the agent stands for it and  *)
(* is inserted once.  The status-list issuer alone has a fixed DID and may *)
(* be made again after its rows were deleted: its keys then carry the      *)
(* number of deletions so far (gen), which tells the old key number 1 from *)
(* the new one.  Agents are numbered so that the next new one is the least *)
(* unused.                                                                 *)
(*                                                                         *)
(* The keys of an agent are in the order of created_at, and the kid of a   *)
(* key is the DID with its number; kids, DIDs and SPIFFE IDs are unique.   *)
(***************************************************************************)
EXTENDS Naturals, Sequences, FiniteSetsExt

CONSTANTS
  Agents,         \* numbers
  StatusIssuer,   \* the agent that signs status lists
  Tenants,
  DefaultTenant,
  Spiffes,        \* SPIFFE IDs that workloads attest
  Creds,          \* numbers
  None            \* an absent value

VARIABLES
  tenants,     \* tenants with a row
  agents,      \* row of each agent, None when there was none yet
  keys,        \* keys of each agent
  creds,       \* the credentials signed so far, by their numbers
  lists,       \* tenants with a status list
  revoked,     \* credentials whose bit is set
  struck,      \* credentials whose bit was set at some time
  resets       \* how often each tenant's rows were deleted

registryVars == <<tenants, agents, keys, creds, lists, revoked, struck, resets>>

Agent == [tenant : Tenants, spiffe : Spiffes \cup {None}, deleted : BOOLEAN]
\* stored: there is a row of the credentials table; list: the generation of the
\* tenant's status list; by: the request that signed it.
Cred == [issuer : Agents, subject : Agents, kid : Nat, gen : Nat, tenant : Tenants,
         list : Nat, exp : Nat, stored : BOOLEAN, spiffe : Spiffes \cup {None}, depth : Nat, by : Nat]

ASSUME RegistryAssumption ==
  /\ Agents \in SUBSET Nat /\ Creds \in SUBSET Nat /\ IsFiniteSet(Creds)
  /\ StatusIssuer \in Agents /\ DefaultTenant \in Tenants
  /\ None \notin BOOLEAN /\ None \notin Spiffes /\ None \notin Agent

Registered == {a \in Agents : agents[a] # None /\ ~agents[a].deleted}
AgentsOf(tenant) == {a \in Registered : agents[a].tenant = tenant}

\* Agent.spiffe_id == spiffe_id, in whatever tenant.
HoldersOf(spiffe) == {a \in Registered : agents[a].spiffe = spiffe /\ spiffe # None}

Unused == {a \in Agents \ {StatusIssuer} : agents[a] = None}
Unsigned == Creds \ DOMAIN creds

\* One more credential.
CredsWith(c, cred) == [d \in DOMAIN creds \cup {c} |-> IF d = c THEN cred ELSE creds[d]]

\* Bounds: there is a number left for a new agent, a new credential.
RoomForAgent == Unused # {}
RoomForCred == Unsigned # {}

NewKey(a, tenant, time) ==
  [active |-> TRUE, at |-> time, gen |-> IF a = StatusIssuer THEN resets[tenant] ELSE 0]

\* The agent and its first key, in one transaction.
Insert(a, tenant, spiffe, time) ==
  /\ agents' = [agents EXCEPT ![a] = [tenant |-> tenant, spiffe |-> spiffe, deleted |-> FALSE]]
  /\ keys' = [keys EXCEPT ![a] = <<NewKey(a, tenant, time)>>]

-----------------------------------------------------------------------------
(* rotate_agent_key, having read n keys of the agent                       *)

\* The kid is the number of keys read plus one; it must be new.
KidIsFree(a, n) == n + 1 \notin DOMAIN keys[a]

Rotated(a, n, time) ==
  Append([i \in DOMAIN keys[a] |-> IF i <= n THEN [keys[a][i] EXCEPT !.active = FALSE]
                                             ELSE keys[a][i]],
         NewKey(a, agents[a].tenant, time))

\* issue_vc_jwt: the newest active key, or else the newest.
SigningKey(a) ==
  LET active == {n \in DOMAIN keys[a] : keys[a][n].active} IN
  IF active # {} THEN Max(active) ELSE Len(keys[a])

-----------------------------------------------------------------------------
(* DID documents: the generation of each key, by its number                *)

\* build_did_document_multi over all keys of an agent, rotated ones too.
DidDocument(ks) == [n \in DOMAIN ks |-> ks[n].gen]

\* _resolve_local_did; empty when the agent is not found.
Document(a) == IF a \in Registered THEN DidDocument(keys[a]) ELSE <<>>

\* _resolve_spiffe_id: the keys of the one agent that holds it.
SpiffeDocument(spiffe) ==
  LET holders == HoldersOf(spiffe) IN
  IF Cardinality(holders) # 1 THEN <<>>
  ELSE DidDocument(keys[CHOOSE a \in holders : TRUE])

Signature(a, n) == [kid |-> n, gen |-> keys[a][n].gen]

\* Broken variant: the first method of the document is taken.
FirstMethod(document, kid) == 1

\* verify_vc_jwt: the verification method that the header names, or else the
\* first of the document.
Method(document, kid) == IF kid \in DOMAIN document THEN kid ELSE 1

\* The signature is checked with the key so found.
SignedBy(sig, document) ==
  /\ document # <<>>
  /\ Method(document, sig.kid) = sig.kid
  /\ document[sig.kid] = sig.gen

-----------------------------------------------------------------------------
(* Credentials and status lists                                            *)

RowsOf(tenant) == {c \in Creds \cap DOMAIN creds : creds[c].stored /\ creds[c].tenant = tenant}

\* The status list that the credential names is still there.
Listed(c) == creds[c].tenant \in lists /\ creds[c].list = resets[creds[c].tenant]

\* Which list that is; what a revocation has read of it are the bits it holds.
ListOf(c) == [tenant |-> creds[c].tenant, list |-> creds[c].list]
Bits(c) == [of |-> ListOf(c), set |-> {d \in revoked : ListOf(d) = ListOf(c)}]

\* Broken variant: the byte is replaced by the credential's own bit (= for |=).
WrittenAlone(c, bits) ==
  IF c \in bits.set THEN revoked ELSE {d \in revoked : ListOf(d) # bits.of} \cup {c}

\* The list is written as it was read, with one bit more; a bit that was set leaves it
\* unwritten.
Written(c, bits) ==
  IF c \in bits.set THEN revoked
  ELSE {d \in revoked : ListOf(d) # bits.of} \cup bits.set \cup {c}

Expired(c, time) == creds[c].exp # 0 /\ time >= creds[c].exp

\* Another credential for the same workload is stored or not, but signed.
AttestationsOf(spiffe) == {c \in DOMAIN creds : creds[c].spiffe = spiffe}
=============================================================================
