----------------------------- MODULE StatusLists -----------------------------
(***************************************************************************)
(* Issuing and revoking credentials through BitstringStatusLists           *)
(* (backend/core/status_list.py, api/routes/credentials.py and revoke.py). *)
(*                                                                         *)
(* Every helper opens a database session of its own, so an issuance is     *)
(* four transactions and a revocation three; each action below is one of   *)
(* them, or one statement where a transaction reads before it writes.      *)
(***************************************************************************)
EXTENDS Naturals, FiniteSets

CONSTANTS
  Threads,       \* request threads
  Tenants,
  ListIds,       \* ids new status lists can get
  CredIds,       \* ids new credentials can get
  Size,          \* entries of a list (DEFAULT_LIST_SIZE)
  Absent         \* a value that is none

Indexes == 0..(Size - 1)
StatusList == [tenant : Tenants, next : 0..Size, bits : SUBSET Indexes]
Entry == [list : ListIds, index : Indexes]

ASSUME ListsAssumption ==
  /\ Size \in Nat \ {0}
  /\ Absent \notin StatusList \cup Entry \cup ListIds \cup CredIds \cup Tenants \cup Nat

VARIABLES
  lists,       \* status_lists rows, Absent where there is none
  entries,     \* credentials rows: the entry of each, Absent where there is none
  doing,       \* what each request is doing and has read
  asked,       \* credentials somebody has called revoke on
  answered,    \* credentials whose revocation was answered revoked: true
  overlapped   \* history: credentials whose set_revoked was between its read and
               \* its write together with another one of the list, and has not
               \* been repeated alone since

listVars == <<lists, entries, doing, asked, answered, overlapped>>

NoJob == [pc |-> "idle", tenant |-> Absent, list |-> Absent, index |-> Absent,
          cred |-> Absent, seen |-> {}]

ListOf(tenant) == {l \in ListIds : lists[l] # Absent /\ lists[l].tenant = tenant}

\* status_check and is_revoked: what a verifier sees now.
IsRevoked(c) == entries[c].index \in lists[entries[c].list].bits

ListsInit ==
  /\ lists = [l \in ListIds |-> Absent]
  /\ entries = [c \in CredIds |-> Absent]
  /\ doing = [r \in Threads |-> NoJob]
  /\ asked = {}
  /\ answered = {}
  /\ overlapped = {}

GoOn(r, next) == doing' = [doing EXCEPT ![r] = next]

-----------------------------------------------------------------------------
(* POST /v1/credentials/issue                                              *)

\* _ensure_list: take the first list of the tenant, in no particular order.
FindList(r, tenant) ==
  /\ doing[r].pc = "idle"
  /\ \/ \E l \in ListOf(tenant) :
          GoOn(r, [NoJob EXCEPT !.pc = "allocating", !.list = l])
     \/ /\ ListOf(tenant) = {}
        /\ GoOn(r, [NoJob EXCEPT !.pc = "inserting", !.tenant = tenant])
  /\ UNCHANGED <<lists, entries, asked, answered, overlapped>>

InsertList(r, l) ==
  /\ doing[r].pc = "inserting"
  /\ lists[l] = Absent
  /\ lists' = [lists EXCEPT ![l] = [tenant |-> doing[r].tenant, next |-> 0, bits |-> {}]]
  /\ GoOn(r, [NoJob EXCEPT !.pc = "allocating", !.list = l])
  /\ UNCHANGED <<entries, asked, answered, overlapped>>

\* allocate_index: UPDATE ... SET next_index = next_index + 1 RETURNING.
Allocate(r) ==
  /\ doing[r].pc = "allocating"
  /\ lists[doing[r].list].next < Size
  /\ GoOn(r, [doing[r] EXCEPT !.pc = "storing", !.index = lists[doing[r].list].next])
  /\ lists' = [lists EXCEPT ![doing[r].list].next = @ + 1]
  /\ UNCHANGED <<entries, asked, answered, overlapped>>

\* "Status list is full": the increment is rolled back.
AllocateFull(r) ==
  /\ doing[r].pc = "allocating"
  /\ lists[doing[r].list].next >= Size
  /\ GoOn(r, NoJob)
  /\ UNCHANGED <<lists, entries, asked, answered, overlapped>>

\* Broken variant: the index is given back.
IssueRefusedReturning(r) ==
  /\ doing[r].pc = "storing"
  /\ lists' = [lists EXCEPT ![doing[r].list].next = @ - 1]
  /\ GoOn(r, NoJob)
  /\ UNCHANGED <<entries, asked, answered, overlapped>>

\* The issuer is unknown or has no key: the index stays used.
IssueRefused(r) ==
  /\ doing[r].pc = "storing"
  /\ GoOn(r, NoJob)
  /\ UNCHANGED <<lists, entries, asked, answered, overlapped>>

StoreCredential(r, c) ==
  /\ doing[r].pc = "storing"
  /\ entries[c] = Absent
  /\ entries' = [entries EXCEPT ![c] = [list |-> doing[r].list, index |-> doing[r].index]]
  /\ GoOn(r, NoJob)
  /\ UNCHANGED <<lists, asked, answered, overlapped>>

-----------------------------------------------------------------------------
(* POST /v1/credentials/{id}/revoke                                        *)

RevokeLookup(r, c) ==
  /\ doing[r].pc = "idle"
  /\ entries[c] # Absent
  /\ asked' = asked \cup {c}
  /\ GoOn(r, [NoJob EXCEPT !.pc = "reading", !.cred = c,
              !.list = entries[c].list, !.index = entries[c].index])
  /\ UNCHANGED <<lists, entries, answered, overlapped>>

\* set_revoked reads the whole bitstring ...
ReadBits(r) ==
  /\ doing[r].pc = "reading"
  /\ GoOn(r, [doing[r] EXCEPT !.pc = "writing", !.seen = lists[doing[r].list].bits])
  /\ UNCHANGED <<lists, entries, asked, answered, overlapped>>

\* A set_revoked that writes beside others, or alone what it has just read.
Overlap(r) ==
  LET others == {q \in Threads \ {r} :
                   doing[q].pc = "writing" /\ doing[q].list = doing[r].list}
  IN overlapped' =
       IF others # {} THEN overlapped \cup {doing[q].cred : q \in others \cup {r}}
       ELSE IF lists[doing[r].list].bits = doing[r].seen THEN overlapped \ {doing[r].cred}
       ELSE overlapped

\* Broken variant: the byte is replaced by the entry's own bit (= for |=).
WriteOwnBit(r) ==
  /\ doing[r].pc = "writing"
  /\ lists' = IF doing[r].index \in doing[r].seen THEN lists
              ELSE [lists EXCEPT ![doing[r].list].bits = {doing[r].index}]
  /\ Overlap(r)
  /\ GoOn(r, [doing[r] EXCEPT !.pc = "answering"])
  /\ UNCHANGED <<entries, asked, answered>>

\* ... and writes it back with its own bit set.  Nothing locks the row; a bit
\* that was already set leaves the column clean and the row unwritten.
WriteBits(r) ==
  /\ doing[r].pc = "writing"
  /\ lists' = IF doing[r].index \in doing[r].seen THEN lists
              ELSE [lists EXCEPT ![doing[r].list].bits = doing[r].seen \cup {doing[r].index}]
  /\ Overlap(r)
  /\ GoOn(r, [doing[r] EXCEPT !.pc = "answering"])
  /\ UNCHANGED <<entries, asked, answered>>

AnswerRevoked(r) ==
  /\ doing[r].pc = "answering"
  /\ answered' = answered \cup {doing[r].cred}
  /\ GoOn(r, NoJob)
  /\ UNCHANGED <<lists, entries, asked, overlapped>>

\* An exception or a killed process: committed transactions stay.
Crash(r) ==
  /\ doing[r].pc # "idle"
  /\ GoOn(r, NoJob)
  /\ UNCHANGED <<lists, entries, asked, answered, overlapped>>

Issue(r) ==
  \/ \E l \in ListIds : InsertList(r, l)
  \/ Allocate(r) \/ AllocateFull(r) \/ IssueRefused(r)
  \/ \E c \in CredIds : StoreCredential(r, c)

Revoke(r) == ReadBits(r) \/ WriteBits(r) \/ AnswerRevoked(r)

ListsNext ==
  \E r \in Threads :
    \/ \E tenant \in Tenants : FindList(r, tenant)
    \/ \E c \in CredIds : RevokeLookup(r, c)
    \/ Issue(r) \/ Revoke(r) \/ Crash(r)

ListsSpec == ListsInit /\ [][ListsNext]_listVars

-----------------------------------------------------------------------------
Stops == {"idle", "inserting", "allocating", "storing", "reading", "writing",
          "answering"}

Job == [pc : Stops, tenant : Tenants \cup {Absent}, list : ListIds \cup {Absent},
        index : Indexes \cup {Absent}, cred : CredIds \cup {Absent},
        seen : SUBSET Indexes]

\* The tables and what the requests hold have their types: in particular the
\* counter of a list never passes its size, full or not.
ListsTypeOK ==
  /\ lists \in [ListIds -> StatusList \cup {Absent}]
  /\ entries \in [CredIds -> Entry \cup {Absent}]
  /\ doing \in [Threads -> Job]
  /\ asked \subseteq CredIds
  /\ answered \subseteq CredIds
  /\ overlapped \subseteq CredIds

\* Two credentials never share an entry of a status list, however their
\* issuances interleave (allocate_index: "concurrent callers always receive
\* distinct indices").
IndexNamesOneCredential ==
  \A c, d \in CredIds : entries[c] # Absent /\ entries[c] = entries[d] => c = d

\* The lists, credentials and requests have their types, and no two credentials share an entry.
ListsAreSound == ListsTypeOK /\ IndexNamesOneCredential

\* A credential is seen as revoked only if its own revocation was asked for:
\* no issuance, retry or crash revokes somebody else's credential.
OnlyAskedIsRevoked ==
  \A c \in CredIds : entries[c] # Absent /\ IsRevoked(c) => c \in asked

\* A credential whose revocation was answered is seen as revoked from then on
\* (docs: "verify_vc() -> revoked=True").
RevokedStaysRevoked == \A c \in answered : IsRevoked(c)

\* The bits of the lists are revocations asked for, and all that were answered but
\* those whose set_revoked overlapped another one of the same list and was not
\* repeated: issuances, crashes and revocations before and after take no bit away,
\* and a retry alone brings a lost one back.
LostOnlyByOverlap ==
  /\ OnlyAskedIsRevoked
  /\ \A c \in answered \ overlapped : IsRevoked(c)
=============================================================================
