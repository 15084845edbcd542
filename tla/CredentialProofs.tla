--------------------------- MODULE CredentialProofs ---------------------------
(* What the routes that issue credentials guarantee for every value of their *)
(* constants: status lists, and the confirmation of requirement intents.     *)
EXTENDS StatusLists, RequirementIntents, FiniteSetTheorems, TLAPS

-----------------------------------------------------------------------------
(***************************************************************************)
(* Status lists                                                            *)
(*                                                                         *)
(* The strengthening.  What a request carries names a list that exists     *)
(* (Shape).  Every index given out, to a row or to an issuance that has    *)
(* not stored its row yet, lies below its list's counter (Below) and       *)
(* nobody else has it (Apart).                                             *)
(***************************************************************************)
There(l) == l \in ListIds /\ lists[l] # Absent

Shape ==
  \A r \in Threads :
    /\ doing[r].pc = "inserting" => doing[r].tenant \in Tenants
    /\ doing[r].pc \in {"allocating", "storing", "reading", "writing", "answering"} =>
         There(doing[r].list)
    /\ doing[r].pc \in {"storing", "reading", "writing", "answering"} => doing[r].index \in Indexes
    /\ doing[r].pc \in {"reading", "writing", "answering"} =>
         /\ doing[r].cred \in asked /\ doing[r].cred \in CredIds
         /\ entries[doing[r].cred] = [list |-> doing[r].list, index |-> doing[r].index]

Below ==
  /\ \A c \in CredIds : entries[c] # Absent =>
       There(entries[c].list) /\ entries[c].index < lists[entries[c].list].next
  /\ \A r \in Threads : doing[r].pc = "storing" => doing[r].index < lists[doing[r].list].next

Apart ==
  /\ IndexNamesOneCredential
  /\ \A r \in Threads, c \in CredIds : doing[r].pc = "storing" /\ entries[c] # Absent =>
       entries[c].list # doing[r].list \/ entries[c].index # doing[r].index
  /\ \A r, q \in Threads : doing[r].pc = "storing" /\ doing[q].pc = "storing" /\ r # q =>
       doing[r].list # doing[q].list \/ doing[r].index # doing[q].index

ListsInv == ListsTypeOK /\ Shape /\ Below /\ Apart

\* What the assumptions on the constants say, as the proofs use it.
LEMMA ListsConstants ==
  /\ Size \in Nat /\ Absent \notin StatusList /\ Absent \notin Entry
  /\ Absent \notin ListIds /\ Absent \notin CredIds /\ Absent \notin Tenants /\ Absent \notin Indexes
BY ListsAssumption DEF Indexes

\* An idle request has its type.
LEMMA NoJobType == NoJob \in Job /\ NoJob.pc = "idle"
BY DEF NoJob, Job, Stops

\* A list that is there has a counter up to its size and bits among its indexes.
LEMMA ListType ==
  ASSUME ListsTypeOK, NEW l, There(l)
  PROVE  /\ lists[l] \in StatusList /\ lists[l].next \in 0..Size /\ lists[l].bits \subseteq Indexes
BY DEF ListsTypeOK, There, StatusList

\* Empty tables satisfy the invariant.
LEMMA ListsInitInv == ListsInit => ListsInv
<1> SUFFICES ASSUME ListsInit PROVE ListsInv
  OBVIOUS
<1>1. ListsTypeOK
  BY NoJobType DEF ListsInit, ListsTypeOK
<1>2. Shape /\ Below /\ Apart
  BY NoJobType DEF ListsInit, Shape, Below, Apart, IndexNamesOneCredential
<1> QED
  BY <1>1, <1>2 DEF ListsInv

\* A request that ends, or crashes, and leaves the tables alone.
LEMMA ListsEndInv ==
  ASSUME ListsInv, NEW r \in Threads, GoOn(r, NoJob), UNCHANGED <<lists, entries, asked>>,
         answered' \subseteq CredIds, overlapped' = overlapped
  PROVE  ListsInv'
<1>1. \A q \in Threads : doing'[q] = IF q = r THEN NoJob ELSE doing[q]
  BY DEF GoOn, ListsInv, ListsTypeOK
<1>2. ListsTypeOK'
  BY NoJobType DEF GoOn, ListsInv, ListsTypeOK
<1>3. Shape' /\ Below' /\ Apart'
  BY <1>1, NoJobType DEF ListsInv, Shape, Below, Apart, There, IndexNamesOneCredential
<1> QED
  BY <1>2, <1>3 DEF ListsInv

\* A request that goes on without touching a table.
LEMMA GoOnInv ==
  ASSUME ListsInv, NEW r \in Threads, NEW next \in Job, GoOn(r, next),
         UNCHANGED <<lists, entries, answered, overlapped>>,
         asked \subseteq asked', asked' \subseteq CredIds,
         next.pc # "storing",
         next.pc = "inserting" => next.tenant \in Tenants,
         next.pc \in {"allocating", "reading", "writing", "answering"} => There(next.list),
         next.pc \in {"reading", "writing", "answering"} =>
           /\ next.index \in Indexes
           /\ next.cred \in asked' /\ next.cred \in CredIds
           /\ entries[next.cred] = [list |-> next.list, index |-> next.index]
  PROVE  ListsInv'
<1>1. \A q \in Threads : doing'[q] = IF q = r THEN next ELSE doing[q]
  BY DEF GoOn, ListsInv, ListsTypeOK
<1>2. ListsTypeOK'
  BY DEF GoOn, ListsInv, ListsTypeOK
<1>3. Shape'
  BY <1>1 DEF ListsInv, Shape, There
<1>4. Below' /\ Apart'
  BY <1>1 DEF ListsInv, Below, Apart, There, IndexNamesOneCredential
<1> QED
  BY <1>2, <1>3, <1>4 DEF ListsInv

\* A list inserted by _ensure_list is empty, so it keeps the invariant.
LEMMA InsertListInv ==
  ASSUME ListsInv, NEW r \in Threads, NEW l \in ListIds, InsertList(r, l) PROVE ListsInv'
<1> DEFINE row  == [tenant |-> doing[r].tenant, next |-> 0, bits |-> {}]
           next == [NoJob EXCEPT !.pc = "allocating", !.list = l]
<1>a. doing[r].tenant \in Tenants /\ 0 \in 0..Size
  <2>1. doing[r].pc = "inserting"
    BY DEF InsertList
  <2>2. doing[r].tenant \in Tenants
    BY <2>1 DEF ListsInv, Shape
  <2>3. 0 \in 0..Size
    BY ListsConstants
  <2> QED
    BY <2>2, <2>3
<1>b. row \in StatusList
  BY <1>a DEF StatusList
<1>1. row \in StatusList /\ row # Absent
  BY <1>b, ListsConstants
<1>2. next \in Job /\ next.pc = "allocating" /\ next.list = l
  BY DEF NoJob, Job, Stops
<1>3. /\ lists[l] = Absent /\ lists' = [lists EXCEPT ![l] = row]
      /\ doing' = [doing EXCEPT ![r] = next] /\ UNCHANGED <<entries, asked, answered, overlapped>>
  BY DEF InsertList, GoOn
<1> HIDE DEF row, next
<1>4. ListsTypeOK'
  BY <1>1, <1>2, <1>3 DEF ListsInv, ListsTypeOK
<1>5. \A k : There(k) => There(k)' /\ lists'[k] = lists[k]
  BY <1>1, <1>3 DEF There, ListsInv, ListsTypeOK
<1>6. There(l)' /\ (\A q \in Threads : doing'[q] = IF q = r THEN next ELSE doing[q])
  BY <1>1, <1>3 DEF There, ListsInv, ListsTypeOK
<1>7. Shape'
  BY <1>2, <1>3, <1>5, <1>6 DEF ListsInv, Shape
<1>8. Below'
  <2>1. ASSUME NEW c \in CredIds, entries[c] # Absent
        PROVE  There(entries[c].list)' /\ entries'[c].index < lists'[entries'[c].list].next
    BY <1>3, <1>5, <2>1 DEF ListsInv, Below, There
  <2>2. ASSUME NEW q \in Threads, doing'[q].pc = "storing"
        PROVE  doing'[q].index < lists'[doing'[q].list].next
    <3>1. q # r /\ doing'[q] = doing[q]
      BY <1>2, <1>6, <2>2
    <3>2. There(doing[q].list) /\ doing[q].index < lists[doing[q].list].next
      BY <2>2, <3>1 DEF ListsInv, Below, Shape
    <3>3. lists'[doing[q].list] = lists[doing[q].list]
      BY <1>5, <3>2
    <3> QED
      BY <3>1, <3>2, <3>3
  <2> QED
    BY <1>3, <2>1, <2>2 DEF Below, There
<1>9. Apart'
  BY <1>2, <1>3, <1>6 DEF ListsInv, Apart, IndexNamesOneCredential
<1> QED
  BY <1>4, <1>7, <1>8, <1>9 DEF ListsInv

\* The counter is read and advanced in one statement, so the index is new.
LEMMA AllocateInv ==
  ASSUME ListsInv, NEW r \in Threads, Allocate(r) PROVE ListsInv'
<1> DEFINE l    == doing[r].list
           i    == lists[l].next
           next == [doing[r] EXCEPT !.pc = "storing", !.index = i]
           row  == [lists[l] EXCEPT !.next = i + 1]
<1>1. /\ doing[r].pc = "allocating" /\ There(l) /\ i < Size
      /\ lists[l] \in StatusList /\ i \in 0..Size
  BY ListType DEF Allocate, ListsInv, Shape
<1>2. i \in Indexes /\ i + 1 \in 0..Size
  BY <1>1, ListsConstants DEF Indexes
<1>3. row \in StatusList /\ row # Absent /\ row.next = i + 1
  BY <1>1, <1>2, ListsConstants DEF StatusList
<1>4. next \in Job /\ next.pc = "storing" /\ next.list = l /\ next.index = i
  BY <1>1, <1>2 DEF ListsInv, ListsTypeOK, Job, Stops
<1>5. /\ lists' = [lists EXCEPT ![l] = row] /\ doing' = [doing EXCEPT ![r] = next]
      /\ UNCHANGED <<entries, asked, answered, overlapped>>
  BY <1>1 DEF Allocate, GoOn, ListsInv, ListsTypeOK, There
<1> HIDE DEF row, next
<1>6. ListsTypeOK'
  BY <1>1, <1>3, <1>4, <1>5 DEF ListsInv, ListsTypeOK, There
<1>7. /\ \A k : There(k) => /\ There(k)'
                            /\ lists'[k].next = IF k = l THEN i + 1 ELSE lists[k].next
      /\ \A q \in Threads : doing'[q] = IF q = r THEN next ELSE doing[q]
  <2>1. ASSUME NEW k, There(k)
        PROVE  There(k)' /\ lists'[k].next = IF k = l THEN i + 1 ELSE lists[k].next
    <3>1. k \in ListIds /\ lists[k] # Absent /\ lists \in [ListIds -> StatusList \cup {Absent}]
      BY <2>1 DEF There, ListsInv, ListsTypeOK
    <3>2. lists'[k] = IF k = l THEN row ELSE lists[k]
      BY <1>5, <3>1
    <3> QED
      BY <1>3, <3>1, <3>2 DEF There
  <2>2. \A q \in Threads : doing'[q] = IF q = r THEN next ELSE doing[q]
    BY <1>5 DEF ListsInv, ListsTypeOK
  <2> QED
    BY <2>1, <2>2
<1>8. Shape'
  BY <1>1, <1>2, <1>4, <1>5, <1>7 DEF ListsInv, Shape
<1>9. /\ \A c \in CredIds : entries[c] # Absent => entries[c].index \in Nat
      /\ \A q \in Threads : doing[q].pc = "storing" => doing[q].index \in Nat
      /\ i \in Nat
  <2>1. Indexes \subseteq Nat
    BY ListsConstants DEF Indexes
  <2>2. \A c \in CredIds : entries[c] # Absent => entries[c].index \in Indexes
    BY DEF ListsInv, ListsTypeOK, Entry
  <2>3. \A q \in Threads : doing[q].pc = "storing" => doing[q].index \in Indexes
    BY DEF ListsInv, Shape
  <2> QED
    BY <1>2, <2>1, <2>2, <2>3
<1>a. \A k : There(k) => lists[k].next \in Nat
  BY ListType DEF ListsInv
<1>10. Below'
  <2>1. ASSUME NEW c \in CredIds, entries[c] # Absent
        PROVE  There(entries[c].list)' /\ entries'[c].index < lists'[entries'[c].list].next
    <3>1. There(entries[c].list) /\ entries[c].index < lists[entries[c].list].next
          /\ entries[c].index \in Nat /\ lists[entries[c].list].next \in Nat
      BY <1>9, <1>a, <2>1 DEF ListsInv, Below
    <3> QED
      BY <1>5, <1>7, <1>9, <3>1 DEF There
  <2>2. ASSUME NEW q \in Threads, doing'[q].pc = "storing"
        PROVE  doing'[q].index < lists'[doing'[q].list].next
    <3>1. CASE q = r
      BY <1>1, <1>4, <1>7, <1>9, <3>1
    <3>2. CASE q # r
      <4>1. /\ doing'[q] = doing[q] /\ There(doing[q].list) /\ doing[q].index \in Nat
            /\ doing[q].index < lists[doing[q].list].next
        BY <1>7, <1>9, <2>2, <3>2 DEF ListsInv, Below, Shape
      <4> QED
        BY <1>7, <1>9, <1>a, <4>1
    <3> QED
      BY <3>1, <3>2
  <2> QED
    BY <1>5, <2>1, <2>2 DEF Below, There
<1>11. /\ \A c \in CredIds : entries[c] # Absent => entries[c].list # l \/ entries[c].index # i
       /\ \A q \in Threads : doing[q].pc = "storing" => doing[q].list # l \/ doing[q].index # i
  BY <1>9 DEF ListsInv, Below
<1>12. Apart'
  BY <1>4, <1>5, <1>7, <1>11 DEF ListsInv, Apart, IndexNamesOneCredential
<1> QED
  BY <1>6, <1>8, <1>10, <1>12 DEF ListsInv

\* A stored credential has an index below its list's counter that nobody else holds.
LEMMA StoreEntryInv ==
  ASSUME ListsInv, NEW r \in Threads, NEW c \in CredIds, StoreCredential(r, c) PROVE ListsInv'
<1> DEFINE row == [list |-> doing[r].list, index |-> doing[r].index]
<1>1. /\ doing[r].pc = "storing" /\ There(doing[r].list) /\ doing[r].index \in Indexes
      /\ doing[r].index < lists[doing[r].list].next
  BY DEF StoreCredential, ListsInv, Shape, Below
<1>2. /\ row \in Entry /\ row # Absent
      /\ row.list = doing[r].list /\ row.index = doing[r].index
  BY <1>1, ListsConstants DEF Entry, There
<1>3. /\ entries[c] = Absent /\ entries' = [entries EXCEPT ![c] = row]
      /\ doing' = [doing EXCEPT ![r] = NoJob] /\ UNCHANGED <<lists, asked, answered, overlapped>>
  BY DEF StoreCredential, GoOn
<1> HIDE DEF row
<1>4. ListsTypeOK'
  BY <1>2, <1>3, NoJobType DEF ListsInv, ListsTypeOK
<1>5. /\ \A q \in Threads : doing'[q] = IF q = r THEN NoJob ELSE doing[q]
      /\ \A d \in CredIds : entries'[d] = IF d = c THEN row ELSE entries[d]
  BY <1>3 DEF ListsInv, ListsTypeOK
<1>6. Shape'
  <2> SUFFICES ASSUME NEW q \in Threads \ {r},
                      doing[q].pc \in {"reading", "writing", "answering"}
               PROVE  entries'[doing[q].cred] = [list |-> doing[q].list, index |-> doing[q].index]
    BY <1>3, <1>5, NoJobType DEF ListsInv, Shape, There
  <2>1. entries[doing[q].cred] = [list |-> doing[q].list, index |-> doing[q].index]
        /\ doing[q].cred \in CredIds /\ doing[q].index \in Indexes /\ There(doing[q].list)
    BY DEF ListsInv, Shape
  <2>2. entries[doing[q].cred] \in Entry
    BY <2>1 DEF Entry, There
  <2> QED
    BY <1>3, <1>5, <2>1, <2>2, ListsConstants
<1>7. Below'
  BY <1>1, <1>2, <1>3, <1>5, NoJobType DEF ListsInv, Below, There
<1>8. \A d \in CredIds : entries[d] # Absent =>
        entries[d].list # row.list \/ entries[d].index # row.index
  BY <1>1, <1>2 DEF ListsInv, Apart
<1>9. Apart'
  <2>1. IndexNamesOneCredential'
    BY <1>2, <1>5, <1>8 DEF ListsInv, Apart, IndexNamesOneCredential
  <2>2. \A q \in Threads : q # r /\ doing[q].pc = "storing" =>
          row.list # doing[q].list \/ row.index # doing[q].index
    BY <1>1, <1>2 DEF ListsInv, Apart
  <2> QED
    BY <1>5, <2>1, <2>2, NoJobType DEF ListsInv, Apart
<1> QED
  BY <1>4, <1>6, <1>7, <1>9 DEF ListsInv

\* Writing the bits back (set_revoked) keeps the invariant.
LEMMA WriteBitsInv ==
  ASSUME ListsInv, NEW r \in Threads, WriteBits(r) PROVE ListsInv'
<1> DEFINE l    == doing[r].list
           next == [doing[r] EXCEPT !.pc = "answering"]
<1>1. /\ doing[r].pc = "writing" /\ There(l) /\ doing[r].index \in Indexes
      /\ lists[l] \in StatusList /\ doing[r].seen \subseteq Indexes
  BY ListType DEF WriteBits, ListsInv, Shape, ListsTypeOK, Job
<1>2. next \in Job /\ next.pc = "answering" /\ next.list = l /\ next.index = doing[r].index
      /\ next.cred = doing[r].cred
  BY DEF ListsInv, ListsTypeOK, Job, Stops
<1>o. overlapped' \subseteq CredIds
  <2>1. \A q \in Threads : doing[q].pc = "writing" => doing[q].cred \in CredIds
    BY DEF ListsInv, Shape
  <2>2. overlapped \subseteq CredIds
    BY DEF ListsInv, ListsTypeOK
  <2> QED
    BY <1>1, <2>1, <2>2 DEF WriteBits, Overlap
<1>3. /\ doing' = [doing EXCEPT ![r] = next] /\ UNCHANGED <<entries, asked, answered>>
      /\ \E bits \in SUBSET Indexes : lists' = [lists EXCEPT ![l] = [lists[l] EXCEPT !.bits = bits]]
  <2>1. CASE doing[r].index \in doing[r].seen
    <3>1. lists' = [lists EXCEPT ![l] = [lists[l] EXCEPT !.bits = lists[l].bits]]
      BY <1>1, <2>1 DEF WriteBits, ListsInv, ListsTypeOK, StatusList
    <3> QED
      BY <1>1, <3>1 DEF WriteBits, GoOn, StatusList
  <2>2. CASE doing[r].index \notin doing[r].seen
    <3>1. lists' = [lists EXCEPT ![l] = [lists[l] EXCEPT !.bits = doing[r].seen \cup {doing[r].index}]]
      BY <1>1, <2>2 DEF WriteBits, ListsInv, ListsTypeOK, There
    <3> QED
      BY <1>1, <3>1 DEF WriteBits, GoOn
  <2> QED
    BY <2>1, <2>2
<1>4. PICK bits \in SUBSET Indexes : lists' = [lists EXCEPT ![l] = [lists[l] EXCEPT !.bits = bits]]
  BY <1>3
<1> DEFINE row == [lists[l] EXCEPT !.bits = bits]
<1>5. row \in StatusList /\ row # Absent /\ row.next = lists[l].next
  BY <1>1, <1>4, ListsConstants DEF StatusList
<1> HIDE DEF next, row
<1>6. ListsTypeOK'
  BY <1>1, <1>2, <1>3, <1>4, <1>5, <1>o DEF ListsInv, ListsTypeOK, row
<1>7. /\ \A k : There(k) => There(k)' /\ lists'[k].next = lists[k].next
      /\ \A q \in Threads : doing'[q] = IF q = r THEN next ELSE doing[q]
  BY <1>1, <1>3, <1>4, <1>5 DEF There, ListsInv, ListsTypeOK, row
<1>8. Shape'
  BY <1>1, <1>2, <1>3, <1>7 DEF ListsInv, Shape
<1>9. Below' /\ Apart'
  BY <1>2, <1>3, <1>7 DEF ListsInv, Below, Apart, Shape, IndexNamesOneCredential
<1> QED
  BY <1>6, <1>8, <1>9 DEF ListsInv

\* Every step keeps the invariant.
LEMMA ListsStepInv == ListsInv /\ [ListsNext]_listVars => ListsInv'
<1> SUFFICES ASSUME ListsInv, [ListsNext]_listVars PROVE ListsInv'
  OBVIOUS
<1>1. CASE UNCHANGED listVars
  BY <1>1 DEF listVars, ListsInv, ListsTypeOK, Shape, Below, Apart, There, IndexNamesOneCredential
<1>2. ASSUME NEW r \in Threads, NEW tenant \in Tenants, FindList(r, tenant) PROVE ListsInv'
  <2>1. ASSUME NEW l \in ListOf(tenant), GoOn(r, [NoJob EXCEPT !.pc = "allocating", !.list = l])
        PROVE  ListsInv'
    <3> DEFINE next == [NoJob EXCEPT !.pc = "allocating", !.list = l]
    <3>1. There(l) /\ next \in Job /\ next.pc = "allocating" /\ next.list = l
      BY <2>1 DEF ListOf, There, NoJob, Job, Stops
    <3> QED
      BY <1>2, <2>1, <3>1, GoOnInv DEF FindList, ListsInv, ListsTypeOK
  <2>2. CASE GoOn(r, [NoJob EXCEPT !.pc = "inserting", !.tenant = tenant])
    <3> DEFINE next == [NoJob EXCEPT !.pc = "inserting", !.tenant = tenant]
    <3>1. next \in Job /\ next.pc = "inserting" /\ next.tenant = tenant
      BY <1>2 DEF NoJob, Job, Stops
    <3> QED
      BY <1>2, <2>2, <3>1, GoOnInv DEF FindList, ListsInv, ListsTypeOK
  <2> QED
    BY <1>2, <2>1, <2>2 DEF FindList
<1>3. ASSUME NEW r \in Threads, Issue(r) PROVE ListsInv'
  <2>1. CASE AllocateFull(r) \/ IssueRefused(r)
    BY <2>1, ListsEndInv DEF AllocateFull, IssueRefused, ListsInv, ListsTypeOK
  <2> QED
    BY <1>3, <2>1, InsertListInv, AllocateInv, StoreEntryInv DEF Issue
<1>4. ASSUME NEW r \in Threads, NEW c \in CredIds, RevokeLookup(r, c) PROVE ListsInv'
  <2> DEFINE next == [NoJob EXCEPT !.pc = "reading", !.cred = c,
                        !.list = entries[c].list, !.index = entries[c].index]
  <2>1. entries[c] \in Entry /\ There(entries[c].list)
    BY <1>4 DEF RevokeLookup, ListsInv, ListsTypeOK, Below
  <2>2. /\ next \in Job /\ next.pc = "reading" /\ next.cred = c
        /\ next.list = entries[c].list /\ next.index = entries[c].index
        /\ entries[c] = [list |-> entries[c].list, index |-> entries[c].index]
        /\ entries[c].index \in Indexes
    BY <2>1 DEF NoJob, Job, Stops, Entry
  <2>3. GoOn(r, next) /\ asked' = asked \cup {c}
        /\ UNCHANGED <<lists, entries, answered, overlapped>>
    BY <1>4 DEF RevokeLookup
  <2> HIDE DEF next
  <2> QED
    BY <2>1, <2>2, <2>3, GoOnInv DEF ListsInv, ListsTypeOK
<1>5. ASSUME NEW r \in Threads, Revoke(r) PROVE ListsInv'
  <2>1. CASE ReadBits(r)
    <3> DEFINE next == [doing[r] EXCEPT !.pc = "writing", !.seen = lists[doing[r].list].bits]
    <3>1. doing[r].pc = "reading" /\ There(doing[r].list) /\ lists[doing[r].list].bits \subseteq Indexes
      BY <2>1, ListType DEF ReadBits, ListsInv, Shape
    <3>2. /\ next \in Job /\ next.pc = "writing" /\ next.cred = doing[r].cred
          /\ next.list = doing[r].list /\ next.index = doing[r].index
      BY <3>1 DEF ListsInv, ListsTypeOK, Job, Stops
    <3>3. GoOn(r, next) /\ UNCHANGED <<lists, entries, asked, answered, overlapped>>
      BY <2>1 DEF ReadBits
    <3> HIDE DEF next
    <3> QED
      BY <3>1, <3>2, <3>3, GoOnInv DEF ListsInv, ListsTypeOK, Shape
  <2>2. CASE AnswerRevoked(r)
    <3>1. doing[r].cred \in CredIds
      BY <2>2 DEF AnswerRevoked, ListsInv, Shape
    <3> QED
      BY <2>2, <3>1, ListsEndInv DEF AnswerRevoked, ListsInv, ListsTypeOK
  <2> QED
    BY <1>5, <2>1, <2>2, WriteBitsInv DEF Revoke
<1>6. ASSUME NEW r \in Threads, Crash(r) PROVE ListsInv'
  BY <1>6, ListsEndInv DEF Crash, ListsInv, ListsTypeOK
<1> QED
  BY <1>1, <1>2, <1>3, <1>4, <1>5, <1>6 DEF ListsNext

\* The invariant holds throughout: allocated indexes are below their list's counter and apart.
THEOREM Strengthened == ListsSpec => []ListsInv
<1> QED
  BY ListsInitInv, ListsStepInv, PTL DEF ListsSpec

\* However many issuances interleave, are refused or crash, over however many lists,
\* no two credentials share an entry (allocate_index).
THEOREM EntriesApart == ListsSpec => []ListsAreSound
<1>1. ListsInv => ListsAreSound
  BY DEF ListsInv, Apart, ListsAreSound
<1> QED
  BY <1>1, Strengthened, PTL

(***************************************************************************)
(* The bits.  Every bit, set or read by a set_revoked that is about to     *)
(* write, is an asked credential's own entry.  A bit is settled when no    *)
(* set_revoked is about to write back a reading without it: it then stays  *)
(* set.  A revocation that overlapped no other one settles its bit when it *)
(* writes, since what it has read is what it overwrites.                   *)
(***************************************************************************)
Settled(l, i) ==
  /\ i \in lists[l].bits
  /\ \A r \in Threads : doing[r].pc = "writing" /\ doing[r].list = l => i \in doing[r].seen

HasAsked(l, i) == \E c \in asked : entries[c] = [list |-> l, index |-> i]

BitsAsked ==
  /\ \A l \in ListIds : There(l) => \A i \in lists[l].bits : HasAsked(l, i)
  /\ \A r \in Threads : doing[r].pc = "writing" =>
       \A i \in doing[r].seen : HasAsked(doing[r].list, i)

BitsKept ==
  /\ \A r \in Threads : doing[r].cred \notin overlapped =>
       /\ doing[r].pc = "writing" => doing[r].seen = lists[doing[r].list].bits
       /\ doing[r].pc = "answering" => Settled(doing[r].list, doing[r].index)
  /\ \A c \in answered : c \notin overlapped =>
       entries[c] # Absent /\ Settled(entries[c].list, entries[c].index)

Bits == BitsAsked /\ BitsKept

\* What was asked for stays so while entries are only added.
LEMMA KeepsAsked ==
  ASSUME ListsInv, asked \subseteq asked',
         \A c \in CredIds : entries[c] # Absent => entries'[c] = entries[c],
         NEW l \in ListIds, NEW i \in Indexes, HasAsked(l, i)
  PROVE  HasAsked(l, i)'
<1>1. PICK c \in asked : entries[c] = [list |-> l, index |-> i]
  BY DEF HasAsked
<1>2. c \in CredIds /\ entries[c] # Absent
  BY <1>1, ListsConstants DEF ListsInv, ListsTypeOK, Entry
<1> QED
  BY <1>1, <1>2 DEF HasAsked

\* A step that keeps every row and every bit and moves no request to writing or answering.
LEMMA KeepsBits ==
  ASSUME ListsInv, Bits, ListsInv', asked \subseteq asked', UNCHANGED <<answered, overlapped>>,
         \A c \in CredIds : entries[c] # Absent => entries'[c] = entries[c],
         \A l \in ListIds : There(l) => There(l)' /\ lists'[l].bits = lists[l].bits,
         \A l \in ListIds : There(l)' /\ ~There(l) => lists'[l].bits = {},
         \A r \in Threads : doing'[r].pc \in {"writing", "answering"} => doing'[r] = doing[r]
  PROVE  Bits'
<1>1. BitsAsked'
  <2>1. ASSUME NEW l \in ListIds, There(l)', NEW i \in lists'[l].bits PROVE HasAsked(l, i)'
    <3>1. There(l) /\ i \in lists[l].bits
      BY <2>1
    <3>2. i \in Indexes
      BY <3>1, ListType DEF ListsInv
    <3> QED
      BY <2>1, <3>1, <3>2, KeepsAsked DEF Bits, BitsAsked
  <2>2. ASSUME NEW r \in Threads, doing'[r].pc = "writing", NEW i \in doing'[r].seen
        PROVE  HasAsked(doing[r].list, i)' /\ doing'[r] = doing[r]
    <3>1. doing'[r] = doing[r] /\ doing[r].list \in ListIds
      BY <2>2 DEF ListsInv, Shape, There
    <3>2. i \in Indexes
      BY <2>2, <3>1 DEF ListsInv, ListsTypeOK, Job
    <3> DEFINE l == doing[r].list
    <3>3. l \in ListIds /\ HasAsked(l, i)
      BY <2>2, <3>1 DEF Bits, BitsAsked
    <3>4. \A k \in ListIds : HasAsked(k, i) => HasAsked(k, i)'
      BY <3>2, KeepsAsked
    <3> QED
      BY <3>1, <3>3, <3>4 DEF HasAsked
  <2> QED
    BY <2>1, <2>2 DEF BitsAsked, There, HasAsked
<1>2. ASSUME NEW l \in ListIds, There(l), NEW i, Settled(l, i) PROVE Settled(l, i)'
  <2>1. lists'[l].bits = lists[l].bits
    BY <1>2
  <2> QED
    BY <1>2, <2>1 DEF Settled
<1>3. ASSUME NEW r \in Threads, doing'[r].cred \notin overlapped',
             doing'[r].pc \in {"writing", "answering"}
      PROVE  /\ doing'[r].pc = "writing" => doing'[r].seen = lists'[doing'[r].list].bits
             /\ doing'[r].pc = "answering" => Settled(doing[r].list, doing[r].index)'
             /\ doing'[r] = doing[r]
  <2>1. doing'[r] = doing[r] /\ doing[r].cred \notin overlapped
    BY <1>3
  <2>2. doing[r].list \in ListIds /\ There(doing[r].list)
    BY <1>3, <2>1 DEF ListsInv, Shape, There
  <2>3. lists'[doing[r].list].bits = lists[doing[r].list].bits
    BY <2>2
  <2>4. /\ doing[r].pc = "writing" => doing[r].seen = lists[doing[r].list].bits
        /\ doing[r].pc = "answering" => Settled(doing[r].list, doing[r].index)
    BY <2>1 DEF Bits, BitsKept
  <2>5. Settled(doing[r].list, doing[r].index) =>
          /\ doing[r].index \in lists'[doing[r].list].bits
          /\ \A q \in Threads : doing'[q].pc = "writing" /\ doing'[q].list = doing[r].list =>
               doing[r].index \in doing'[q].seen
    BY <2>3 DEF Settled
  <2> QED
    BY <2>1, <2>3, <2>4, <2>5 DEF Settled
<1>4. ASSUME NEW c \in answered', c \notin overlapped'
      PROVE  entries'[c] # Absent /\ Settled(entries[c].list, entries[c].index)'
  <2>1. c \in CredIds /\ entries[c] # Absent /\ Settled(entries[c].list, entries[c].index)
    BY <1>4 DEF ListsInv, ListsTypeOK, Bits, BitsKept
  <2>2. There(entries[c].list) /\ entries[c].list \in ListIds /\ entries'[c] = entries[c]
    BY <2>1 DEF ListsInv, Below, There
  <2>3. lists'[entries[c].list].bits = lists[entries[c].list].bits
    BY <2>2
  <2> QED
    BY <2>1, <2>2, <2>3 DEF Settled
<1> QED
  BY <1>1, <1>3, <1>4 DEF Bits, BitsKept, Settled

\* What a request that changed no row does to them.
LEMMA KeepsBitsAlone ==
  ASSUME ListsInv, Bits, ListsInv', UNCHANGED <<lists, entries, answered, overlapped>>,
         asked \subseteq asked',
         \A r \in Threads : doing'[r].pc \in {"writing", "answering"} => doing'[r] = doing[r]
  PROVE  Bits'
BY KeepsBits DEF There

\* A write sets the entry's bit and takes away none that everybody about to write has read.
LEMMA WriteEffect ==
  ASSUME ListsInv, NEW r \in Threads, WriteBits(r)
  PROVE  LET l == doing[r].list
             i == doing[r].index
         IN
         /\ doing[r].pc = "writing" /\ l \in ListIds /\ There(l) /\ i \in Indexes
         /\ doing[r].seen \subseteq Indexes
         /\ doing[r].cred \in asked /\ entries[doing[r].cred] = [list |-> l, index |-> i]
         /\ UNCHANGED <<entries, asked, answered>>
         /\ doing'[r] = [doing[r] EXCEPT !.pc = "answering"]
         /\ doing'[r].pc = "answering" /\ doing'[r].list = l /\ doing'[r].index = i
         /\ doing'[r].cred = doing[r].cred
         /\ \A q \in Threads \ {r} : doing'[q] = doing[q]
         /\ \A k \in ListIds : k # l => lists'[k] = lists[k]
         /\ \A k \in ListIds : There(k)' <=> There(k)
         /\ lists'[l].bits = IF i \in doing[r].seen THEN lists[l].bits
                             ELSE doing[r].seen \cup {i}
<1> DEFINE l == doing[r].list
           i == doing[r].index
<1>1. /\ doing[r].pc = "writing" /\ l \in ListIds /\ There(l) /\ i \in Indexes
      /\ doing[r].seen \subseteq Indexes /\ doing[r] \in Job
      /\ doing[r].cred \in asked /\ entries[doing[r].cred] = [list |-> l, index |-> i]
  BY DEF WriteBits, ListsInv, ListsTypeOK, Shape, There, Job
<1>2. /\ doing' = [doing EXCEPT ![r] = [doing[r] EXCEPT !.pc = "answering"]]
      /\ UNCHANGED <<entries, asked, answered>>
  BY DEF WriteBits, GoOn
<1>3. /\ doing'[r] = [doing[r] EXCEPT !.pc = "answering"]
      /\ \A q \in Threads \ {r} : doing'[q] = doing[q]
  BY <1>2 DEF ListsInv, ListsTypeOK
<1>4. /\ doing'[r].pc = "answering" /\ doing'[r].list = l /\ doing'[r].index = i
      /\ doing'[r].cred = doing[r].cred
  BY <1>1, <1>3 DEF Job
<1>5. lists \in [ListIds -> StatusList \cup {Absent}] /\ lists[l] \in StatusList
      /\ lists[l] # Absent
  BY <1>1, ListType DEF ListsInv, ListsTypeOK, There
<1>6. CASE i \in doing[r].seen
  <2>1. lists' = lists
    BY <1>6 DEF WriteBits
  <2> QED
    BY <1>1, <1>2, <1>3, <1>4, <1>6, <2>1 DEF There
<1>7. CASE i \notin doing[r].seen
  <2> DEFINE row == [lists[l] EXCEPT !.bits = doing[r].seen \cup {i}]
  <2>1. lists' = [lists EXCEPT ![l] = row]
    BY <1>7 DEF WriteBits
  <2>2. row.bits = doing[r].seen \cup {i} /\ row \in StatusList /\ row # Absent
    BY <1>1, <1>5, ListsConstants DEF StatusList
  <2> HIDE DEF row
  <2>3. lists'[l] = row /\ \A k \in ListIds : k # l => lists'[k] = lists[k]
    BY <1>1, <1>5, <2>1
  <2>4. \A k \in ListIds : There(k)' <=> There(k)
    BY <1>1, <2>2, <2>3 DEF There
  <2> QED
    BY <1>1, <1>2, <1>3, <1>4, <1>7, <2>2, <2>3, <2>4
<1> QED
  BY <1>6, <1>7

\* A settled bit survives every write.
LEMMA WriteKeepsSettled ==
  ASSUME ListsInv, NEW r \in Threads, WriteBits(r),
         NEW k \in ListIds, NEW j, Settled(k, j)
  PROVE  Settled(k, j)'
<1> DEFINE l == doing[r].list
           i == doing[r].index
<1>1. /\ doing[r].pc = "writing" /\ doing'[r].pc = "answering"
      /\ \A q \in Threads \ {r} : doing'[q] = doing[q]
      /\ k # l => lists'[k] = lists[k]
      /\ lists'[l].bits = IF i \in doing[r].seen THEN lists[l].bits ELSE doing[r].seen \cup {i}
  BY WriteEffect
<1>2. j \in lists'[k].bits
  BY <1>1 DEF Settled
<1> QED
  BY <1>1, <1>2 DEF Settled

\* A write keeps the bits, unless it overlaps another one.
LEMMA WriteKeepsBits ==
  ASSUME ListsInv, Bits, ListsInv', NEW r \in Threads, WriteBits(r)
  PROVE  Bits'
<1> DEFINE l == doing[r].list
           i == doing[r].index
           x == doing[r].cred
           others == {q \in Threads \ {r} : doing[q].pc = "writing" /\ doing[q].list = l}
<1>1. /\ doing[r].pc = "writing" /\ l \in ListIds /\ There(l) /\ i \in Indexes
      /\ doing[r].seen \subseteq Indexes
      /\ x \in asked /\ entries[x] = [list |-> l, index |-> i]
      /\ UNCHANGED <<entries, asked, answered>>
      /\ doing'[r].pc = "answering" /\ doing'[r].list = l /\ doing'[r].index = i
      /\ doing'[r].cred = x
      /\ \A q \in Threads \ {r} : doing'[q] = doing[q]
      /\ \A k \in ListIds : k # l => lists'[k] = lists[k]
      /\ \A k \in ListIds : There(k)' <=> There(k)
      /\ lists'[l].bits = IF i \in doing[r].seen THEN lists[l].bits
                          ELSE doing[r].seen \cup {i}
  BY WriteEffect
<1>2. overlapped' = IF others # {} THEN overlapped \cup {doing[q].cred : q \in others \cup {r}}
                    ELSE IF lists[l].bits = doing[r].seen THEN overlapped \ {x}
                    ELSE overlapped
  BY DEF WriteBits, Overlap
<1>3. BitsAsked'
  <2>1. \A k, j : HasAsked(k, j) => HasAsked(k, j)'
    BY <1>1 DEF HasAsked
  <2>2. HasAsked(l, i)
    BY <1>1 DEF HasAsked
  <2>3. \A k \in ListIds : There(k)' => \A j \in lists'[k].bits : HasAsked(k, j)
    BY <1>1, <2>2 DEF Bits, BitsAsked
  <2>4. \A q \in Threads : doing'[q].pc = "writing" =>
          doing'[q] = doing[q] /\ \A j \in doing[q].seen : HasAsked(doing[q].list, j)
    BY <1>1 DEF Bits, BitsAsked
  <2> QED
    BY <1>1, <2>3, <2>4 DEF BitsAsked, HasAsked, There
<1>4. \A k \in ListIds : \A j : Settled(k, j) =>
        /\ j \in lists'[k].bits
        /\ \A q \in Threads : doing'[q].pc = "writing" /\ doing'[q].list = k => j \in doing'[q].seen
  BY WriteKeepsSettled DEF Settled
<1>5. x \notin overlapped' =>
        /\ i \in lists'[l].bits
        /\ \A q \in Threads : doing'[q].pc = "writing" /\ doing'[q].list = l => i \in doing'[q].seen
  <2> SUFFICES ASSUME x \notin overlapped'
               PROVE  /\ i \in lists'[l].bits
                      /\ \A q \in Threads : doing'[q].pc = "writing" => doing'[q].list # l
    OBVIOUS
  <2>1. others = {}
    BY <1>2
  <2>2. lists[l].bits = doing[r].seen
    <3> SUFFICES ASSUME lists[l].bits # doing[r].seen PROVE FALSE
      OBVIOUS
    <3>1. x \notin overlapped
      BY <1>2, <2>1
    <3> QED
      BY <1>1, <3>1 DEF Bits, BitsKept
  <2>3. i \in lists'[l].bits
    BY <1>1, <2>2
  <2> QED
    BY <1>1, <2>1, <2>3
<1>6. \A c : c \in overlapped /\ c \notin overlapped' => c = x
  BY <1>2
<1>7. ASSUME NEW q \in Threads, doing'[q].cred \notin overlapped'
      PROVE  /\ doing'[q].pc = "writing" => doing'[q].seen = lists'[doing'[q].list].bits
             /\ doing'[q].pc = "answering" => Settled(doing[q].list, doing[q].index)'
             /\ doing'[q].list = doing[q].list /\ doing'[q].index = doing[q].index
  <2>1. CASE q = r
    BY <1>1, <1>5, <1>7, <2>1 DEF Settled
  <2>2. CASE q # r
    <3>1. doing'[q] = doing[q]
      BY <1>1, <2>2
    <3>2. ASSUME doing[q].pc = "writing" PROVE doing[q].seen = lists'[doing[q].list].bits
      <4>1. doing[q].list # l
        <5> SUFFICES ASSUME doing[q].list = l PROVE FALSE
          OBVIOUS
        <5>1. q \in others
          BY <2>2, <3>2
        <5> QED
          BY <1>2, <1>7, <3>1, <5>1
      <4>a. entries[doing[q].cred] = [list |-> doing[q].list, index |-> doing[q].index]
        BY <3>2 DEF ListsInv, Shape
      <4>2. doing[q].list \in ListIds /\ entries[doing[q].cred].list = doing[q].list
        BY <3>2, <4>a DEF ListsInv, Shape, There
      <4>3. doing[q].cred \notin overlapped
        BY <1>1, <1>6, <1>7, <3>1, <4>1, <4>2
      <4> QED
        BY <1>1, <3>2, <4>1, <4>2, <4>3 DEF Bits, BitsKept
    <3>3. ASSUME doing[q].pc = "answering"
          PROVE  /\ doing[q].index \in lists'[doing[q].list].bits
                 /\ \A p \in Threads : doing'[p].pc = "writing" /\ doing'[p].list = doing[q].list =>
                      doing[q].index \in doing'[p].seen
      <4>1. /\ doing[q].list \in ListIds
            /\ entries[doing[q].cred] = [list |-> doing[q].list, index |-> doing[q].index]
        BY <3>3 DEF ListsInv, Shape, There
      <4>2. CASE doing[q].cred \notin overlapped
        BY <1>4, <3>3, <4>1, <4>2 DEF Bits, BitsKept
      <4>3. CASE doing[q].cred \in overlapped
        <5>1. doing[q].cred = x
          BY <1>6, <1>7, <3>1, <4>3
        <5>2. doing[q].list = l /\ doing[q].index = i
          BY <1>1, <4>1, <5>1
        <5> QED
          BY <1>5, <1>7, <3>1, <5>1, <5>2
      <4> QED
        BY <4>2, <4>3
    <3> QED
      BY <3>1, <3>2, <3>3 DEF Settled
  <2> QED
    BY <2>1, <2>2
<1>8. ASSUME NEW c \in answered, c \notin overlapped'
      PROVE  entries[c] # Absent /\ Settled(entries[c].list, entries[c].index)'
  <2>1. CASE c \notin overlapped
    <3>1. entries[c] # Absent /\ Settled(entries[c].list, entries[c].index) /\ c \in CredIds
      BY <2>1 DEF Bits, BitsKept, ListsInv, ListsTypeOK
    <3>2. entries[c].list \in ListIds
      BY <3>1 DEF ListsInv, Below, There
    <3> QED
      BY <1>1, <1>4, <3>1, <3>2 DEF Settled
  <2>2. CASE c \in overlapped
    <3>1. c = x
      BY <1>6, <1>8, <2>2
    <3>2. entries[c] # Absent /\ entries[c].list = l /\ entries[c].index = i
      BY <1>1, <3>1, ListsConstants DEF Entry
    <3> QED
      BY <1>1, <1>5, <1>8, <3>1, <3>2 DEF Settled
  <2> QED
    BY <2>1, <2>2
<1> QED
  BY <1>1, <1>3, <1>7, <1>8 DEF Bits, BitsKept, Settled

\* Every step keeps the bits.
LEMMA StepBits == ListsInv /\ Bits /\ [ListsNext]_listVars /\ ListsInv' => Bits'
<1> SUFFICES ASSUME ListsInv, Bits, [ListsNext]_listVars, ListsInv' PROVE Bits'
  OBVIOUS
<1> USE DEF GoOn
<1>t. doing \in [Threads -> Job] /\ entries \in [CredIds -> Entry \cup {Absent}]
      /\ lists \in [ListIds -> StatusList \cup {Absent}]
  BY DEF ListsInv, ListsTypeOK
<1>1. CASE UNCHANGED listVars
  BY <1>1, KeepsBitsAlone DEF listVars
<1>2. ASSUME NEW r \in Threads, NEW tenant \in Tenants, FindList(r, tenant) PROVE Bits'
  <2>1. \A q \in Threads : doing'[q].pc \in {"writing", "answering"} => doing'[q] = doing[q]
    BY <1>2, <1>t DEF FindList, NoJob
  <2> QED
    BY <1>2, <2>1, KeepsBitsAlone DEF FindList
<1>3. ASSUME NEW r \in Threads, NEW l \in ListIds, InsertList(r, l) PROVE Bits'
  <2>1. \A q \in Threads : doing'[q].pc \in {"writing", "answering"} => doing'[q] = doing[q]
    BY <1>3, <1>t DEF InsertList, NoJob
  <2>2. \A k \in ListIds : There(k) => There(k)' /\ lists'[k].bits = lists[k].bits
    BY <1>3, <1>t DEF InsertList, There
  <2>3. \A k \in ListIds : There(k)' /\ ~There(k) => lists'[k].bits = {}
    BY <1>3, <1>t DEF InsertList, There
  <2> QED
    BY <1>3, <2>1, <2>2, <2>3, KeepsBits DEF InsertList
<1>4. ASSUME NEW r \in Threads, Allocate(r) PROVE Bits'
  <2>1. \A q \in Threads : doing'[q].pc \in {"writing", "answering"} => doing'[q] = doing[q]
    BY <1>4, <1>t DEF Allocate, Job
  <2>2. There(doing[r].list) /\ lists[doing[r].list] \in StatusList
    BY <1>4, ListType DEF Allocate, ListsInv, Shape
  <2>3. PICK row : lists' = [lists EXCEPT ![doing[r].list] = row] /\ row \in StatusList
                   /\ row.bits = lists[doing[r].list].bits
    <3> DEFINE row == [lists[doing[r].list] EXCEPT !.next = @ + 1]
    <3>1. lists' = [lists EXCEPT ![doing[r].list] = row]
      BY <1>4, <1>t, <2>2 DEF Allocate, There
    <3>2. lists[doing[r].list].next \in 0..Size /\ lists[doing[r].list].next < Size
      BY <1>4, <2>2 DEF Allocate, StatusList
    <3>3. lists[doing[r].list].next + 1 \in 0..Size
      BY <3>2, ListsConstants
    <3>4. row \in StatusList /\ row.bits = lists[doing[r].list].bits
      BY <2>2, <3>3 DEF StatusList
    <3> QED
      BY <3>1, <3>4
  <2>4. doing[r].list \in ListIds /\ lists[doing[r].list] # Absent /\ row # Absent
    BY <2>2, <2>3, ListsConstants DEF There
  <2>5. \A k \in ListIds : lists'[k] = IF k = doing[r].list THEN row ELSE lists[k]
    BY <1>t, <2>3, <2>4
  <2>6. \A k \in ListIds : (There(k) => There(k)' /\ lists'[k].bits = lists[k].bits)
                            /\ (There(k)' => There(k))
    BY <2>3, <2>4, <2>5 DEF There
  <2> QED
    BY <1>4, <2>1, <2>6, KeepsBits DEF Allocate
<1>5. ASSUME NEW r \in Threads, AllocateFull(r) \/ IssueRefused(r) \/ Crash(r) PROVE Bits'
  <2>1. \A q \in Threads : doing'[q].pc \in {"writing", "answering"} => doing'[q] = doing[q]
    BY <1>5, <1>t DEF AllocateFull, IssueRefused, Crash, NoJob
  <2> QED
    BY <1>5, <2>1, KeepsBitsAlone DEF AllocateFull, IssueRefused, Crash
<1>6. ASSUME NEW r \in Threads, NEW c \in CredIds, StoreCredential(r, c) PROVE Bits'
  <2>1. \A q \in Threads : doing'[q].pc \in {"writing", "answering"} => doing'[q] = doing[q]
    BY <1>6, <1>t DEF StoreCredential, NoJob
  <2>2. \A d \in CredIds : entries[d] # Absent => entries'[d] = entries[d]
    BY <1>6, <1>t DEF StoreCredential
  <2> QED
    BY <1>6, <2>1, <2>2, KeepsBits DEF StoreCredential, There
<1>7. ASSUME NEW r \in Threads, NEW c \in CredIds, RevokeLookup(r, c) PROVE Bits'
  <2>1. \A q \in Threads : doing'[q].pc \in {"writing", "answering"} => doing'[q] = doing[q]
    BY <1>7, <1>t DEF RevokeLookup, NoJob
  <2> QED
    BY <1>7, <2>1, KeepsBitsAlone DEF RevokeLookup
<1>8. ASSUME NEW r \in Threads, ReadBits(r) PROVE Bits'
  <2>1. \A q \in Threads : q # r => doing'[q] = doing[q]
    BY <1>8, <1>t DEF ReadBits
  <2>2. /\ doing'[r].pc = "writing" /\ doing'[r].seen = lists[doing'[r].list].bits
        /\ doing'[r].list \in ListIds /\ There(doing'[r].list)
    BY <1>8, <1>t DEF ReadBits, Job, ListsInv, Shape, There
  <2>3. UNCHANGED <<lists, entries, asked, answered, overlapped>>
    BY <1>8 DEF ReadBits
  <2>4. BitsAsked'
    BY <2>1, <2>2, <2>3 DEF Bits, BitsAsked, HasAsked, There
  <2>5. \A l, i : Settled(l, i) =>
          \A q \in Threads : doing'[q].pc = "writing" /\ doing'[q].list = l => i \in doing'[q].seen
    BY <2>1, <2>2 DEF Settled
  <2>6. BitsKept'
    <3>1. ASSUME NEW q \in Threads, doing'[q].cred \notin overlapped
          PROVE  /\ doing'[q].pc = "writing" => doing'[q].seen = lists[doing'[q].list].bits
                 /\ doing'[q].pc = "answering" =>
                      /\ doing'[q].index \in lists[doing'[q].list].bits
                      /\ \A p \in Threads : doing'[p].pc = "writing" /\ doing'[p].list = doing'[q].list =>
                           doing'[q].index \in doing'[p].seen
      <4>1. CASE q = r
        BY <2>2, <4>1
      <4>2. CASE q # r
        <5>1. doing'[q] = doing[q]
          BY <2>1, <4>2
        <5>2. doing[q].pc = "answering" => Settled(doing[q].list, doing[q].index)
          BY <3>1, <5>1 DEF Bits, BitsKept
        <5>3. doing[q].pc = "writing" => doing[q].seen = lists[doing[q].list].bits
          BY <3>1, <5>1 DEF Bits, BitsKept
        <5> QED
          BY <2>5, <5>1, <5>2, <5>3 DEF Settled
      <4> QED
        BY <4>1, <4>2
    <3>2. \A c \in answered : c \notin overlapped =>
            entries[c] # Absent /\ Settled(entries[c].list, entries[c].index)
      BY DEF Bits, BitsKept
    <3> QED
      BY <2>3, <2>5, <3>1, <3>2 DEF BitsKept, Settled
  <2> QED
    BY <2>4, <2>6 DEF Bits
<1>9. ASSUME NEW r \in Threads, AnswerRevoked(r) PROVE Bits'
  <2>1. UNCHANGED <<lists, entries, asked, overlapped>> /\ answered' = answered \cup {doing[r].cred}
    BY <1>9 DEF AnswerRevoked
  <2>2. \A q \in Threads : doing'[q].pc \in {"writing", "answering"} => doing'[q] = doing[q]
    BY <1>9, <1>t DEF AnswerRevoked, NoJob
  <2>3. /\ doing[r].cred \notin overlapped => Settled(doing[r].list, doing[r].index)
        /\ doing[r].cred \in CredIds
        /\ entries[doing[r].cred] = [list |-> doing[r].list, index |-> doing[r].index]
        /\ doing[r].index \in Indexes /\ doing[r].list \in ListIds
    BY <1>9 DEF AnswerRevoked, Bits, BitsKept, ListsInv, Shape, There
  <2>4. entries[doing[r].cred] \in Entry /\ entries[doing[r].cred] # Absent
    BY <2>3, ListsConstants DEF Entry
  <2>5. entries[doing[r].cred].list = doing[r].list /\ entries[doing[r].cred].index = doing[r].index
    BY <2>3
  <2>6. \A l, i : Settled(l, i) => Settled(l, i)'
    BY <2>1, <2>2 DEF Settled
  <2>7. \A c \in answered' : c \notin overlapped =>
          entries[c] # Absent /\ Settled(entries[c].list, entries[c].index)
    BY <2>1, <2>3, <2>4, <2>5 DEF Bits, BitsKept
  <2>8. \A q \in Threads : doing'[q].pc \in {"writing", "answering"} =>
          /\ doing'[q] = doing[q]
          /\ doing[q].cred \notin overlapped =>
               /\ doing[q].pc = "writing" => doing[q].seen = lists[doing[q].list].bits
               /\ doing[q].pc = "answering" => Settled(doing[q].list, doing[q].index)
    BY <2>2 DEF Bits, BitsKept
  <2>9. BitsAsked'
    BY <2>1, <2>2 DEF Bits, BitsAsked, HasAsked, There
  <2>10. BitsKept'
    BY <2>1, <2>2, <2>6, <2>7, <2>8 DEF BitsKept, Settled
  <2> QED
    BY <2>9, <2>10 DEF Bits
<1>10. ASSUME NEW r \in Threads, WriteBits(r) PROVE Bits'
  BY <1>10, WriteKeepsBits
<1> QED
  BY <1>1, <1>2, <1>3, <1>4, <1>5, <1>6, <1>7, <1>8, <1>9, <1>10 DEF ListsNext, Issue, Revoke

\* The bits are revocations asked for, and all that were answered but those whose
\* set_revoked overlapped another one of their list, whatever the number of requests
\* that issue, revoke, retry and crash (set_revoked reads and writes the whole list
\* with nothing locked).
THEOREM RevocationsLast == ListsSpec => []LostOnlyByOverlap
<1>1. ListsInit => Bits
  BY DEF ListsInit, Bits, BitsAsked, BitsKept, There, NoJob
<1>2. ListsInv /\ Bits => LostOnlyByOverlap
  <2> SUFFICES ASSUME ListsInv, Bits PROVE LostOnlyByOverlap
    OBVIOUS
  <2>1. ASSUME NEW c \in CredIds, entries[c] # Absent, IsRevoked(c) PROVE c \in asked
    <3>1. entries[c] \in Entry
      BY <2>1 DEF ListsInv, ListsTypeOK
    <3>2. There(entries[c].list) /\ entries[c].list \in ListIds
      BY <2>1, <3>1 DEF ListsInv, Below, Entry
    <3>3. PICK d \in asked : entries[d] = [list |-> entries[c].list, index |-> entries[c].index]
      BY <2>1, <3>2 DEF Bits, BitsAsked, HasAsked, IsRevoked
    <3>4. entries[c] = [list |-> entries[c].list, index |-> entries[c].index]
      BY <3>1 DEF Entry
    <3>5. d \in CredIds /\ entries[c] = entries[d]
      BY <3>3, <3>4 DEF ListsInv, ListsTypeOK
    <3> QED
      BY <2>1, <3>3, <3>5 DEF ListsInv, Apart, IndexNamesOneCredential
  <2> QED
    BY <2>1 DEF LostOnlyByOverlap, OnlyAskedIsRevoked, IsRevoked, Bits, BitsKept, Settled
<1>3. ListsInv /\ Bits /\ [ListsNext]_listVars /\ ListsInv' => Bits'
  BY StepBits
<1> QED
  BY <1>1, <1>2, <1>3, Strengthened, PTL DEF ListsSpec

-----------------------------------------------------------------------------
(***************************************************************************)
(* Requirement intents                                                     *)
(*                                                                         *)
(* The strengthening.  A confirmation at work has issued its credentials   *)
(* for its intent, the n-th for the n-th requirement, and each of them is  *)
(* good, or revoked, or still to be verified.  The bundle of a row is one  *)
(* confirmation's, since it is one column.  And while no two confirmations *)
(* have written the row at once, what one that is about to store has read  *)
(* still stands but for the status, which marks and cancellations change:  *)
(* so the columns it writes and those it leaves are together its outcome.  *)
(***************************************************************************)
Whole(i, b) == b \subseteq Of(i) /\ {creds[c].nth : c \in b} = 1..Count /\ Cardinality(b) = Count

Confirmed(q) ==
  /\ IsFiniteSet(q.issued) /\ q.issued \subseteq Of(q.intent)
  /\ {creds[c].nth : c \in q.issued} = 1..Cardinality(q.issued)
  /\ q.good \subseteq q.issued
  /\ \A c \in q.issued : \/ c \in q.good \cup revoked
                         \/ q.pc = "verifying" /\ creds[c].nth = Cardinality(q.issued)
  /\ Cardinality(q.issued) <= Count
  /\ q.pc = "storing" => Cardinality(q.issued) = Count

Fits(q) ==
  /\ q.pc = "creating" => q.body \in Bodies
  /\ q.pc \notin {"idle", "creating"} => q.intent \in Intents /\ intents[q.intent] # None
  /\ q.pc \in {"marking", "storing"} => q.seen \in Intent
  /\ IF q.pc \in Confirming THEN Confirmed(q) ELSE q.issued = {} /\ q.good = {}

Founded(i, row) ==
  /\ row.bundle # {} => Whole(i, row.bundle)
  /\ row.status = "failed" => Of(i) \cap revoked # {}
  /\ i \in mixed \/ OutcomeAgrees(row)

\* What a mark or a cancellation does to a row.
Mild(old, new) ==
  /\ new.decision = old.decision /\ new.bundle = old.bundle
  /\ new.status \in {old.status, "processing", "canceled"}

Undisturbed(q) == q.pc = "storing" /\ q.intent \notin mixed => Mild(q.seen, intents[q.intent])

Tables ==
  /\ intents \in [Intents -> Intent \cup {None}]
  /\ creds \in [Creds -> Credential \cup {None}]
  /\ revoked \subseteq Creds
  /\ req \in [Requests -> Request]
  /\ abandoned \subseteq Intents /\ mixed \subseteq Intents

Rows == \A i \in Intents : intents[i] # None => Founded(i, intents[i])

Steady == \A r \in Requests : Undisturbed(req[r])

Inv == Tables /\ Rows /\ Steady /\ \A r \in Requests : Fits(req[r])

\* Rows stay, credentials stay as they were issued, and revocations last.
Grows ==
  /\ \A i \in Intents : intents[i] # None => intents'[i] # None
  /\ \A c \in Creds : creds[c] # None => creds'[c] = creds[c]
  /\ revoked \subseteq revoked'

-----------------------------------------------------------------------------
\* The assumption on None, taken apart.
LEMMA Assumptions ==
  /\ Count \in Nat \ {0}
  /\ None \notin Intent /\ None \notin Credential
  /\ None \notin Intents /\ None \notin Keys /\ None \notin Bodies
BY ConstantsAssumption

\* A thread at rest has the type of a request and holds nothing.
LEMMA RestingFits ==
  /\ NoRequest \in Request /\ NoRequest.pc = "idle"
  /\ NoRequest.issued = {} /\ NoRequest.good = {}
  /\ NoRequest.intent = None /\ NoRequest.key = None /\ NoRequest.body = None /\ NoRequest.seen = None
BY DEF NoRequest, Request, Steps

\* A flush leaves a row: each column as it is stored, or as it is written where that
\* differs from what was read.
LEMMA FlushedRow ==
  ASSUME NEW row \in Intent, NEW seen \in Intent, NEW new \in Intent
  PROVE  LET x == [f \in DOMAIN new |-> IF new[f] = seen[f] THEN row[f] ELSE new[f]] IN
         /\ x \in Intent
         /\ x.bundle = (IF new.bundle = seen.bundle THEN row.bundle ELSE new.bundle)
         /\ x.status = (IF new.status = seen.status THEN row.status ELSE new.status)
         /\ x.decision = (IF new.decision = seen.decision THEN row.decision ELSE new.decision)
<1> DEFINE columns == {"status", "key", "body", "ckey", "cbody", "decision", "bundle"}
           x == [f \in DOMAIN new |-> IF new[f] = seen[f] THEN row[f] ELSE new[f]]
<1>1. DOMAIN new = columns
  BY DEF Intent
<1>2. x = [status |-> x.status, key |-> x.key, body |-> x.body, ckey |-> x.ckey,
           cbody |-> x.cbody, decision |-> x.decision, bundle |-> x.bundle]
  BY <1>1
<1>3. \A f \in columns : x[f] = IF new[f] = seen[f] THEN row[f] ELSE new[f]
  BY <1>1
<1>4. \A f \in columns : x[f] \in {row[f], new[f]}
  BY <1>3
<1>5. /\ x.status \in Statuses /\ x.key \in Keys \cup {None} /\ x.body \in Bodies
      /\ x.ckey \in Keys \cup {None} /\ x.cbody \in Bodies \cup {None}
      /\ x.decision \in Decisions /\ x.bundle \in SUBSET Creds
  <2> HIDE DEF x
  <2>1. /\ x.status \in {row.status, new.status} /\ x.key \in {row.key, new.key}
        /\ x.body \in {row.body, new.body} /\ x.ckey \in {row.ckey, new.ckey}
        /\ x.cbody \in {row.cbody, new.cbody} /\ x.decision \in {row.decision, new.decision}
        /\ x.bundle \in {row.bundle, new.bundle}
    BY <1>4
  <2> QED
    BY <2>1 DEF Intent
<1>6. x \in Intent
  <2> HIDE DEF x
  <2> QED
    BY <1>2, <1>5 DEF Intent
<1> QED
  BY <1>3, <1>4, <1>6

\* What holds of a bundle, of a row and of a request goes on holding.
LEMMA StaysWhole ==
  ASSUME Tables, Grows, NEW i, NEW b, Whole(i, b)
  PROVE  Whole(i, b)'
<1>1. Of(i) \subseteq Of(i)' /\ \A c \in Of(i) : creds'[c] = creds[c]
  BY DEF Of, Grows
<1>2. {creds'[c].nth : c \in b} = {creds[c].nth : c \in b}
  BY <1>1 DEF Whole
<1> QED
  BY <1>1, <1>2 DEF Whole

LEMMA StaysFounded ==
  ASSUME Tables, Grows, NEW i, NEW row, Founded(i, row), i \in mixed => i \in mixed'
  PROVE  Founded(i, row)'
<1>1. Of(i) \subseteq Of(i)'
  BY DEF Of, Grows
<1>2. OutcomeAgrees(row) => OutcomeAgrees(row)'
  BY DEF OutcomeAgrees, Grows
<1> QED
  BY <1>1, <1>2, StaysWhole DEF Founded, Grows

\* A confirmation about to store is not disturbed by marks and cancellations, and one
\* that reads or writes nothing of the rows disturbs nobody.
LEMMA StaysSteady ==
  ASSUME Inv, NEW r \in Requests, NEW q, req' = [req EXCEPT ![r] = q], Undisturbed(q)',
         mixed' = mixed,
         \A i \in Intents : intents[i] # None =>
           intents'[i] = intents[i] \/ Mild(intents[i], intents'[i])
  PROVE  Steady'
<1> SUFFICES ASSUME NEW s \in Requests PROVE Undisturbed(req[s])'
  BY DEF Steady
<1>1. CASE s = r
  <2>1. req'[s] = q
    BY <1>1 DEF Inv, Tables
  <2> QED
    BY <2>1 DEF Undisturbed, Mild
<1>2. CASE s # r
  <2>1. req'[s] = req[s]
    BY <1>2 DEF Inv, Tables
  <2> SUFFICES ASSUME req[s].pc = "storing", req[s].intent \notin mixed
               PROVE  Mild(req[s].seen, intents'[req[s].intent])
    BY <2>1 DEF Undisturbed, Mild
  <2>2. Mild(req[s].seen, intents[req[s].intent])
    BY DEF Inv, Steady, Undisturbed
  <2>3. req[s].intent \in Intents /\ intents[req[s].intent] # None
    BY DEF Inv, Fits
  <2> QED
    BY <2>2, <2>3 DEF Mild
<1> QED
  BY <1>1, <1>2

LEMMA StaysFit ==
  ASSUME Tables, Grows, NEW q, Fits(q)
  PROVE  Fits(q)'
<1>1. q.pc \in Confirming => Confirmed(q)'
  <2> SUFFICES ASSUME q.pc \in Confirming PROVE Confirmed(q)'
    OBVIOUS
  <2>1. Confirmed(q)
    BY DEF Fits
  <2>2. Of(q.intent) \subseteq Of(q.intent)' /\ \A c \in Of(q.intent) : creds'[c] = creds[c]
    BY DEF Of, Grows
  <2>3. {creds'[c].nth : c \in q.issued} = {creds[c].nth : c \in q.issued}
    BY <2>1, <2>2 DEF Confirmed
  <2> QED
    BY <2>1, <2>2, <2>3 DEF Confirmed, Grows
<1> QED
  BY <1>1 DEF Fits, Grows

\* A thread goes on with what fits it; the tables are as they should be.
LEMMA GoInv ==
  ASSUME Inv, Grows, NEW r \in Requests, NEW q, req' = [req EXCEPT ![r] = q],
         q \in Request, Fits(q)', Rows', Steady',
         intents' \in [Intents -> Intent \cup {None}],
         creds' \in [Creds -> Credential \cup {None}],
         revoked' \subseteq Creds, abandoned' \subseteq Intents, mixed' \subseteq Intents
  PROVE  Inv'
<1>1. Tables'
  BY DEF Inv, Tables
<1>2. \A s \in Requests : Fits(req[s])'
  <2> SUFFICES ASSUME NEW s \in Requests PROVE Fits(req[s])'
    OBVIOUS
  <2>1. CASE s = r
    <3>1. req'[s] = q
      BY <2>1 DEF Inv, Tables
    <3> QED
      BY <3>1 DEF Fits, Confirmed
  <2>2. CASE s # r
    <3>1. req'[s] = req[s]
      BY <2>2 DEF Inv, Tables
    <3>2. PICK p : p = req[s]
      OBVIOUS
    <3>3. Fits(p)'
      BY <3>2, StaysFit DEF Inv
    <3> QED
      BY <3>1, <3>2, <3>3 DEF Fits, Confirmed
  <2> QED
    BY <2>1, <2>2
<1> QED
  BY <1>1, <1>2 DEF Inv

\* Rows that nobody writes stay founded.
LEMMA RowsStay ==
  ASSUME Inv, Grows, UNCHANGED <<intents, mixed>>
  PROVE  Rows'
<1> SUFFICES ASSUME NEW i \in Intents, intents[i] # None PROVE Founded(i, intents[i])'
  BY DEF Rows
<1>1. PICK row : row = intents[i]
  OBVIOUS
<1>2. Founded(i, row)'
  BY <1>1, StaysFounded DEF Inv, Rows
<1> QED
  BY <1>1, <1>2 DEF Founded, Whole, OutcomeAgrees

\* ... and so do they when one row is written that is founded.
LEMMA RowWritten ==
  ASSUME Inv, Grows, NEW i \in Intents, NEW row, intents' = [intents EXCEPT ![i] = row],
         Founded(i, row)', mixed \ {i} \subseteq mixed'
  PROVE  Rows'
<1> SUFFICES ASSUME NEW j \in Intents, intents'[j] # None PROVE Founded(j, intents[j])'
  BY DEF Rows
<1>1. CASE j = i
  <2>1. intents'[j] = row
    BY <1>1 DEF Inv, Tables
  <2> QED
    BY <1>1, <2>1 DEF Founded, Whole, OutcomeAgrees
<1>2. CASE j # i
  <2>1. intents'[j] = intents[j]
    BY <1>2 DEF Inv, Tables
  <2>2. PICK old : old = intents[j]
    OBVIOUS
  <2>3. Founded(j, old)'
    BY <1>2, <2>1, <2>2, StaysFounded DEF Inv, Rows
  <2> QED
    BY <2>1, <2>2, <2>3 DEF Founded, Whole, OutcomeAgrees
<1> QED
  BY <1>1, <1>2

\* Nothing but requests has changed, and every row is still there.
LEMMA StillGrows ==
  ASSUME Inv, UNCHANGED <<intents, creds, revoked>>
  PROVE  Grows
BY DEF Grows

-----------------------------------------------------------------------------
\* A thread that ends leaves nothing behind that has to fit.
LEMMA EndInv ==
  ASSUME Inv, Grows, NEW r \in Requests, Go(r, NoRequest), Rows', Steady',
         intents' \in [Intents -> Intent \cup {None}],
         UNCHANGED <<creds, revoked>>, abandoned' \subseteq Intents, mixed' \subseteq Intents
  PROVE  Inv'
<1>1. Fits(NoRequest)'
  BY RestingFits DEF Fits, Confirming
<1>2. creds' \in [Creds -> Credential \cup {None}] /\ revoked' \subseteq Creds
  BY DEF Inv, Tables
<1> QED
  BY <1>1, <1>2, GoInv, RestingFits DEF Go

\* A thread that only reads goes on.
LEMMA ReadInv ==
  ASSUME Inv, NEW r \in Requests, NEW q, Go(r, q), q \in Request, Fits(q),
         Undisturbed(q), UNCHANGED <<intents, creds, revoked, abandoned, mixed>>
  PROVE  Inv'
<1>1. Grows /\ Rows'
  BY StillGrows, RowsStay
<1>2. Fits(q)'
  BY <1>1, StaysFit DEF Inv
<1>3. Undisturbed(q)'
  BY DEF Undisturbed, Mild
<1>4. Steady'
  BY <1>3, StaysSteady DEF Go
<1> QED
  BY <1>1, <1>2, <1>4, GoInv DEF Go, Inv, Tables

LEMMA CreateInv ==
  ASSUME Inv, NEW r \in Requests, Create(r)
  PROVE  Inv'
<1>1. CASE \E key \in Keys \cup {None}, body \in Bodies : CreateLookup(r, key, body)
  <2>1. PICK key \in Keys \cup {None}, body \in Bodies : CreateLookup(r, key, body)
    BY <1>1
  <2> DEFINE q == [NoRequest EXCEPT !.pc = "creating", !.key = key, !.body = body]
  <2>2. /\ q \in Request /\ q.pc = "creating" /\ q.body = body /\ q.issued = {} /\ q.good = {}
    BY RestingFits DEF NoRequest, Request, Steps
  <2> HIDE DEF q
  <2>3. Fits(q) /\ Undisturbed(q)
    BY <2>2 DEF Fits, Confirming, Undisturbed
  <2>4. Go(r, q) /\ UNCHANGED <<intents, creds, revoked, abandoned, mixed>>
    BY <2>1 DEF CreateLookup, q
  <2> QED
    BY <2>2, <2>3, <2>4, ReadInv
<1>2. CASE \E i \in Intents : CreateInsert(r, i)
  <2>1. PICK i \in Intents : CreateInsert(r, i)
    BY <1>2
  <2>2. PICK row : row = [status |-> "requires_confirmation", key |-> req[r].key,
                          body |-> req[r].body, ckey |-> None, cbody |-> None,
                          decision |-> "none", bundle |-> {}]
    OBVIOUS
  <2>3. row \in Intent /\ row.bundle = {} /\ row.status = "requires_confirmation"
    <3>1. req[r].key \in Keys \cup {None} /\ req[r].body \in Bodies
      BY <2>1 DEF CreateInsert, Inv, Tables, Fits, Request
    <3> QED
      BY <2>2, <3>1 DEF Intent, Statuses, Decisions
  <2>4. intents' = [intents EXCEPT ![i] = row] /\ Go(r, NoRequest) /\ UNCHANGED <<creds, revoked, abandoned, mixed>>
    BY <2>1, <2>2 DEF CreateInsert
  <2>5. Grows
    BY <2>3, <2>4, Assumptions DEF Grows, Inv, Tables
  <2>6. Founded(i, row)'
    BY <2>3 DEF Founded, OutcomeAgrees
  <2>7. Rows'
    BY <2>5, <2>6, <2>4, RowWritten
  <2>8. Steady'
    <3>1. Undisturbed(NoRequest)'
      BY RestingFits DEF Undisturbed
    <3>2. \A j \in Intents : intents[j] # None => intents'[j] = intents[j]
      BY <2>1, <2>4 DEF CreateInsert, Inv, Tables
    <3> QED
      BY <2>4, <3>1, <3>2, StaysSteady DEF Go
  <2> QED
    BY <2>3, <2>5, <2>7, <2>8, <2>4, EndInv DEF Inv, Tables
<1> QED
  BY <1>1, <1>2 DEF Create

LEMMA ConfirmInv ==
  ASSUME Inv, NEW r \in Requests, NEW i \in Intents, NEW key \in Keys \cup {None}, NEW body \in Bodies,
         ConfirmLookup(r, i, key, body)
  PROVE  Inv'
<1> DEFINE q == [NoRequest EXCEPT !.pc = "marking", !.intent = i, !.key = key,
                   !.body = body, !.seen = intents[i]]
<1>1. intents[i] \in Intent /\ intents[i] # None
  BY DEF ConfirmLookup, Inv, Tables
<1>2. /\ q \in Request /\ q.pc = "marking" /\ q.intent = i /\ q.seen = intents[i]
      /\ q.issued = {} /\ q.good = {}
  BY <1>1, RestingFits DEF NoRequest, Request, Steps
<1>3. Go(r, q) /\ UNCHANGED <<intents, creds, revoked, abandoned, mixed>>
  BY DEF ConfirmLookup
<1> HIDE DEF q
<1>4. Fits(q) /\ Undisturbed(q)
  BY <1>1, <1>2 DEF Fits, Confirming, Undisturbed
<1> QED
  BY <1>2, <1>3, <1>4, ReadInv

\* What a write of a founded row leaves.
LEMMA FlushInv ==
  ASSUME Inv, NEW i \in Intents, intents[i] # None, NEW x \in Intent,
         intents' = [intents EXCEPT ![i] = x], UNCHANGED <<creds, revoked>>,
         mixed \ {i} \subseteq mixed',
         x.bundle = intents[i].bundle \/ x.bundle = {} \/ Whole(i, x.bundle),
         x.status = intents[i].status \/ x.status # "failed" \/ Of(i) \cap revoked # {},
         i \in mixed' \/ OutcomeAgrees(x)
  PROVE  Grows /\ Rows' /\ intents' \in [Intents -> Intent \cup {None}]
<1>1. Grows
  BY Assumptions DEF Grows, Inv, Tables
<1>2. Founded(i, intents[i])
  BY DEF Inv, Rows
<1>3. /\ x.bundle # {} => Whole(i, x.bundle)
      /\ x.status = "failed" => Of(i) \cap revoked # {}
  BY <1>2 DEF Founded
<1>4. Whole(i, x.bundle) => Whole(i, x.bundle)'
  BY <1>1, StaysWhole DEF Inv
<1>5. Of(i) \subseteq Of(i)'
  BY <1>1 DEF Of, Grows
<1>6. OutcomeAgrees(x) => OutcomeAgrees(x)'
  BY DEF OutcomeAgrees
<1>7. Founded(i, x)'
  BY <1>3, <1>4, <1>5, <1>6 DEF Founded
<1> QED
  BY <1>1, <1>7, RowWritten DEF Inv, Tables

LEMMA MarkInv ==
  ASSUME Inv, NEW r \in Requests, MarkProcessing(r)
  PROVE  Inv'
<1>1. PICK p, i, seen : p = req[r] /\ i = p.intent /\ seen = p.seen
  OBVIOUS
<1> DEFINE new == [seen EXCEPT !.status = "processing", !.ckey = p.key, !.cbody = p.body]
           q == [p EXCEPT !.pc = "issuing", !.seen = None]
           x == [f \in DOMAIN new |-> IF new[f] = seen[f] THEN intents[i][f] ELSE new[f]]
<1>2. /\ p \in Request /\ p.pc = "marking" /\ i \in Intents /\ intents[i] # None /\ seen \in Intent
      /\ p.issued = {} /\ p.good = {}
  BY <1>1 DEF MarkProcessing, Inv, Tables, Fits, Confirming
<1>3. /\ new \in Intent /\ new.bundle = seen.bundle /\ new.status = "processing"
      /\ new.decision = seen.decision
  BY <1>2 DEF Intent, Request, Statuses
<1>4. q \in Request /\ q.pc = "issuing" /\ q.intent = i /\ q.issued = {} /\ q.good = {}
  BY <1>1, <1>2 DEF Request, Steps
<1>5. /\ intents' = [intents EXCEPT ![i] = x] /\ abandoned' = abandoned \ {i} /\ Go(r, q)
      /\ UNCHANGED <<creds, revoked, mixed>>
  BY <1>1 DEF MarkProcessing, Flushed
<1>6. intents[i] \in Intent
  BY <1>2 DEF Inv, Tables
<1> HIDE DEF new, q
<1>7. x \in Intent /\ Mild(intents[i], x) /\ x.status \in {intents[i].status, "processing"}
  BY <1>2, <1>3, <1>6, FlushedRow DEF Mild
<1> HIDE DEF x
<1>8. i \in mixed \/ OutcomeAgrees(x)
  <2>1. i \in mixed \/ OutcomeAgrees(intents[i])
    BY <1>2 DEF Inv, Rows, Founded
  <2> QED
    BY <1>7, <2>1 DEF OutcomeAgrees, Mild
<1>9. Grows /\ Rows' /\ intents' \in [Intents -> Intent \cup {None}]
  BY <1>2, <1>5, <1>7, <1>8, FlushInv DEF Mild
<1>10. Fits(q)'
  <2>1. IsFiniteSet({}) /\ Cardinality({}) = 0
    BY FS_EmptySet
  <2>2. Confirmed(q)'
    BY <1>4, <2>1, Assumptions DEF Confirmed
  <2> QED
    BY <1>2, <1>4, <1>9, <2>2 DEF Fits, Confirming, Grows
<1>11. Steady'
  <2>1. Undisturbed(q)'
    BY <1>4 DEF Undisturbed
  <2>2. \A j \in Intents : intents[j] # None =>
          intents'[j] = intents[j] \/ Mild(intents[j], intents'[j])
    BY <1>2, <1>5, <1>7 DEF Inv, Tables
  <2> QED
    BY <1>5, <2>1, <2>2, StaysSteady DEF Go
<1> QED
  BY <1>4, <1>5, <1>9, <1>10, <1>11, GoInv DEF Go, Inv, Tables

LEMMA IssueInv ==
  ASSUME Inv, NEW r \in Requests, IssueCredential(r)
  PROVE  Inv'
<1>1. PICK p, c, n : p = req[r] /\ c = FreshCred /\ n = Cardinality(p.issued)
  OBVIOUS
<1>2. /\ p \in Request /\ p.pc = "issuing" /\ p.intent \in Intents /\ intents[p.intent] # None
      /\ Confirmed(p) /\ n < Count
  BY <1>1 DEF IssueCredential, Inv, Tables, Fits, Confirming
<1>3. c \in Creds /\ creds[c] = None
  BY <1>1 DEF IssueCredential, RoomToIssue, FreshCred
<1>4. IsFiniteSet(p.issued) /\ n \in Nat /\ c \notin p.issued
  BY <1>1, <1>2, <1>3, FS_CardinalityType DEF Confirmed, Of
<1>5. PICK row : row = [intent |-> p.intent, key |-> p.key, nth |-> n + 1]
  OBVIOUS
<1>6. row \in Credential /\ row.intent = p.intent /\ row.nth = n + 1
  BY <1>2, <1>4, <1>5, Assumptions DEF Credential, Request
<1> DEFINE q == [p EXCEPT !.pc = "verifying", !.issued = @ \cup {c}]
<1>7. /\ q \in Request /\ q.pc = "verifying" /\ q.intent = p.intent /\ q.good = p.good
      /\ q.issued = p.issued \cup {c}
  BY <1>2, <1>3 DEF Request, Steps
<1>8. /\ creds' = [creds EXCEPT ![c] = row] /\ Go(r, q) /\ UNCHANGED <<intents, revoked, abandoned, mixed>>
  BY <1>1, <1>5 DEF IssueCredential
<1> HIDE DEF q
<1>9. creds' \in [Creds -> Credential \cup {None}] /\ creds'[c] = row
      /\ \A d \in Creds : d # c => creds'[d] = creds[d]
  BY <1>3, <1>6, <1>8 DEF Inv, Tables
<1>10. Grows
  BY <1>3, <1>8, <1>9 DEF Grows
<1>11. IsFiniteSet(q.issued) /\ Cardinality(q.issued) = n + 1
  <2>1. IsFiniteSet(p.issued \cup {c}) /\ Cardinality(p.issued \cup {c}) = n + 1
    BY <1>1, <1>4, FS_AddElement
  <2> QED
    BY <1>7, <2>1
<1>12. q.issued \subseteq Of(q.intent)'
  <2>1. Of(p.intent) \subseteq Of(p.intent)'
    BY <1>10 DEF Of, Grows
  <2>2. c \in Of(p.intent)'
    BY <1>3, <1>6, <1>9, Assumptions DEF Of
  <2> QED
    BY <1>2, <1>7, <2>1, <2>2 DEF Confirmed
<1>13. {creds'[d].nth : d \in q.issued} = 1..(n + 1)
  <2>1. \A d \in p.issued : creds'[d] = creds[d]
    BY <1>2, <1>4, <1>9 DEF Confirmed, Of
  <2>2. {creds[d].nth : d \in p.issued} = 1..n
    BY <1>1, <1>2 DEF Confirmed
  <2>3. {creds'[d].nth : d \in q.issued} = {creds[d].nth : d \in p.issued} \cup {n + 1}
    BY <1>6, <1>7, <1>9, <2>1
  <2>4. 1..(n + 1) = (1..n) \cup {n + 1}
    BY <1>4
  <2> QED
    BY <2>2, <2>3, <2>4
<1>14. Confirmed(q)'
  <2>1. \A d \in q.issued : d \in q.good \cup revoked' \/ creds'[d].nth = n + 1
    BY <1>2, <1>6, <1>7, <1>8, <1>9 DEF Confirmed
  <2>2. q.good \subseteq q.issued /\ n + 1 <= Count /\ q.pc # "storing"
    BY <1>2, <1>4, <1>7, Assumptions DEF Confirmed
  <2> QED
    BY <1>7, <1>11, <1>12, <1>13, <2>1, <2>2 DEF Confirmed
<1>15. Fits(q)'
  BY <1>2, <1>7, <1>8, <1>14 DEF Fits, Confirming
<1>16. Rows'
  BY <1>8, <1>10, RowsStay
<1>17. Steady'
  <2>1. Undisturbed(q)'
    BY <1>7 DEF Undisturbed
  <2> QED
    BY <1>8, <2>1, StaysSteady DEF Go
<1> QED
  BY <1>7, <1>8, <1>9, <1>10, <1>15, <1>16, <1>17, GoInv DEF Go, Inv, Tables

LEMMA VerifyInv ==
  ASSUME Inv, NEW r \in Requests, VerifyCredential(r)
  PROVE  Inv'
<1> DEFINE p == req[r]
           more == {c \in p.issued : creds[c].nth = Cardinality(p.issued) /\ c \notin revoked}
           q == [p EXCEPT !.pc = "issuing", !.good = @ \cup more]
<1>1. /\ p \in Request /\ p.pc = "verifying" /\ p.intent \in Intents /\ intents[p.intent] # None
      /\ Confirmed(p)
  BY DEF VerifyCredential, Inv, Tables, Fits, Confirming
<1>2. Go(r, q) /\ UNCHANGED <<intents, creds, revoked, abandoned, mixed>>
  BY DEF VerifyCredential
<1>3. more \subseteq p.issued /\ \A c \in p.issued : c \in p.good \cup revoked \cup more
  BY <1>1 DEF Confirmed
<1> HIDE DEF more, p
<1>4. /\ q \in Request /\ q.pc = "issuing" /\ q.intent = p.intent /\ q.issued = p.issued
      /\ q.good = p.good \cup more
  BY <1>1, <1>3 DEF Request, Steps
<1> HIDE DEF q
<1>5. Confirmed(q)
  BY <1>1, <1>3, <1>4 DEF Confirmed
<1>6. Fits(q) /\ Undisturbed(q)
  BY <1>1, <1>4, <1>5 DEF Fits, Confirming, Undisturbed
<1> QED
  BY <1>2, <1>4, <1>6, ReadInv

LEMMA ReadAgainInv ==
  ASSUME Inv, NEW r \in Requests, ReadAgain(r)
  PROVE  Inv'
<1> DEFINE p == req[r]
           q == [p EXCEPT !.pc = "storing", !.seen = intents[p.intent]]
<1>1. /\ p \in Request /\ p.pc = "issuing" /\ p.intent \in Intents /\ intents[p.intent] \in Intent
      /\ intents[p.intent] # None /\ Confirmed(p) /\ Cardinality(p.issued) = Count
  BY DEF ReadAgain, Inv, Tables, Fits, Confirming
<1>2. Go(r, q) /\ UNCHANGED <<intents, creds, revoked, abandoned, mixed>>
  BY DEF ReadAgain
<1> HIDE DEF p
<1>3. /\ q \in Request /\ q.pc = "storing" /\ q.intent = p.intent /\ q.seen = intents[p.intent]
      /\ q.issued = p.issued /\ q.good = p.good
  BY <1>1 DEF Request, Steps
<1> HIDE DEF q
<1>4. Confirmed(q)
  BY <1>1, <1>3 DEF Confirmed
<1>5. Fits(q) /\ Undisturbed(q)
  BY <1>1, <1>3, <1>4 DEF Fits, Confirming, Undisturbed, Mild
<1> QED
  BY <1>2, <1>3, <1>5, ReadInv

\* What a confirmation stores that was not disturbed is its outcome: a column it leaves
\* as it was read has the value it would have written, or is a status that says nothing.
LEMMA StoredAgrees ==
  ASSUME Inv, NEW i \in Intents, intents[i] # None, NEW seen \in Intent, NEW new \in Intent,
         NEW x \in Intent, Mild(seen, intents[i]), OutcomeAgrees(new),
         x.bundle = (IF new.bundle = seen.bundle THEN intents[i].bundle ELSE new.bundle),
         x.status = (IF new.status = seen.status THEN intents[i].status ELSE new.status),
         x.decision = (IF new.decision = seen.decision THEN intents[i].decision ELSE new.decision)
  PROVE  OutcomeAgrees(x)
<1>1. x.bundle = new.bundle /\ x.decision = new.decision
  BY DEF Mild
<1>2. x.status \in {new.status, "processing", "canceled"}
  BY DEF Mild
<1> QED
  BY <1>1, <1>2 DEF OutcomeAgrees

\* The bundle stored is whole, a failure is due to a revoked credential of it, and the
\* row is one confirmation's outcome unless another was about to store as well.
LEMMA StoreInv ==
  ASSUME Inv, NEW r \in Requests, StoreOutcome(r)
  PROVE  Inv'
<1>1. PICK p, i, seen : p = req[r] /\ i = p.intent /\ seen = p.seen
  OBVIOUS
<1>2. /\ p \in Request /\ p.pc = "storing" /\ i \in Intents /\ intents[i] # None /\ seen \in Intent
      /\ Confirmed(p) /\ Cardinality(p.issued) = Count
  BY <1>1 DEF StoreOutcome, Inv, Tables, Fits, Confirming, Confirmed
<1> DEFINE ok == p.good = p.issued
           decision == IF ok THEN "satisfied" ELSE "not_satisfied"
           Outcome(mode) == [seen EXCEPT !.status = IF ok THEN "succeeded" ELSE "failed",
                               !.decision = IF mode = "bundle" THEN "none" ELSE decision,
                               !.bundle = IF mode = "decision" THEN {} ELSE p.issued]
<1>3. PICK mode \in {"decision", "bundle", "both"} : intents' = Flushed(i, seen, Outcome(mode))
  BY <1>1 DEF StoreOutcome
<1>4. Go(r, NoRequest) /\ UNCHANGED <<creds, revoked, abandoned>> /\ mixed' = MixedBy(r)
  BY DEF StoreOutcome
<1>5. PICK new : new = Outcome(mode)
  OBVIOUS
<1>6. PICK x : x = [f \in DOMAIN new |-> IF new[f] = seen[f] THEN intents[i][f] ELSE new[f]]
  OBVIOUS
<1>7. intents' = [intents EXCEPT ![i] = x]
  BY <1>3, <1>5, <1>6 DEF Flushed
<1>8. /\ new \in Intent /\ new.bundle \in {{}, p.issued}
      /\ new.status = (IF ok THEN "succeeded" ELSE "failed")
      /\ new.decision \in {"none", decision}
  <2>1. PICK status, outcome, bundle :
          /\ status = IF ok THEN "succeeded" ELSE "failed"
          /\ outcome = IF mode = "bundle" THEN "none" ELSE decision
          /\ bundle = IF mode = "decision" THEN {} ELSE p.issued
    OBVIOUS
  <2>2. new = [seen EXCEPT !.status = status, !.decision = outcome, !.bundle = bundle]
    BY <1>5, <2>1
  <2>3. /\ status \in Statuses /\ outcome \in Decisions /\ bundle \in SUBSET Creds
        /\ bundle \in {{}, p.issued} /\ outcome \in {"none", decision}
    BY <1>2, <2>1 DEF Request, Statuses, Terminal, Decisions
  <2>4. status = (IF ok THEN "succeeded" ELSE "failed")
    BY <2>1
  <2> HIDE DEF ok, decision, Outcome
  <2>5. new \in Intent /\ new.bundle = bundle /\ new.status = status /\ new.decision = outcome
    BY <1>2, <2>2, <2>3 DEF Intent
  <2> QED
    BY <2>3, <2>4, <2>5
<1>9. Whole(i, p.issued)
  BY <1>1, <1>2 DEF Confirmed, Whole
<1>10. ~ok => p.issued \cap revoked # {} /\ p.issued \subseteq Of(i)
  BY <1>1, <1>2 DEF Confirmed
<1>11. OutcomeAgrees(new)
  BY <1>8, <1>10 DEF OutcomeAgrees
<1>12. intents[i] \in Intent
  BY <1>2 DEF Inv, Tables
<1> HIDE DEF ok, decision, Outcome
<1>13. /\ x \in Intent
       /\ x.bundle = (IF new.bundle = seen.bundle THEN intents[i].bundle ELSE new.bundle)
       /\ x.status = (IF new.status = seen.status THEN intents[i].status ELSE new.status)
       /\ x.decision = (IF new.decision = seen.decision THEN intents[i].decision ELSE new.decision)
  BY <1>2, <1>6, <1>8, <1>12, FlushedRow
<1>14. i \in mixed' \/ OutcomeAgrees(x)
  <2> SUFFICES ASSUME i \notin mixed' PROVE OutcomeAgrees(x)
    OBVIOUS
  <2>1. CASE intents[i] = seen
    <3>1. Mild(seen, intents[i])
      BY <2>1 DEF Mild
    <3> QED
      BY <1>2, <1>8, <1>11, <1>13, <3>1, StoredAgrees
  <2>2. CASE intents[i] # seen
    <3>1. i \notin mixed
      BY <1>1, <1>4, <2>2 DEF MixedBy
    <3>2. Mild(seen, intents[i])
      BY <1>1, <1>2, <3>1 DEF Inv, Steady, Undisturbed
    <3> QED
      BY <1>2, <1>8, <1>11, <1>13, <3>2, StoredAgrees
  <2> QED
    BY <2>1, <2>2
<1>15. mixed \ {i} \subseteq mixed' /\ mixed' \subseteq Intents
  BY <1>1, <1>2, <1>4 DEF MixedBy, Inv, Tables
<1>16. /\ x.bundle = intents[i].bundle \/ x.bundle = {} \/ Whole(i, x.bundle)
       /\ x.status = intents[i].status \/ x.status # "failed" \/ Of(i) \cap revoked # {}
  BY <1>8, <1>9, <1>10, <1>13
<1>17. Grows /\ Rows' /\ intents' \in [Intents -> Intent \cup {None}]
  BY <1>2, <1>4, <1>7, <1>13, <1>14, <1>15, <1>16, FlushInv
<1>18. Steady'
  <2> SUFFICES ASSUME NEW s \in Requests, req'[s].pc = "storing", req'[s].intent \notin mixed'
               PROVE  Mild(req'[s].seen, intents'[req'[s].intent])
    BY DEF Steady, Undisturbed, Mild
  <2>1. s # r
    BY <1>4, RestingFits DEF Go, Inv, Tables
  <2>2. req'[s] = req[s]
    BY <1>4, <2>1 DEF Go, Inv, Tables
  <2>3. req[s].intent # i
    BY <1>1, <1>4, <2>1, <2>2 DEF MixedBy
  <2>4. req[s].intent \in Intents /\ req[s].intent \notin mixed
    BY <1>15, <2>2, <2>3 DEF Inv, Fits
  <2>5. intents'[req[s].intent] = intents[req[s].intent]
    BY <1>7, <2>3, <2>4 DEF Inv, Tables
  <2>6. Mild(req[s].seen, intents[req[s].intent])
    BY <2>2, <2>4 DEF Inv, Steady, Undisturbed
  <2> QED
    BY <2>2, <2>5, <2>6
<1> QED
  BY <1>4, <1>15, <1>17, <1>18, EndInv DEF Inv, Tables

LEMMA CancelInv ==
  ASSUME Inv, NEW r \in Requests, NEW i \in Intents, CancelLookup(r, i)
  PROVE  Inv'
<1> DEFINE q == [NoRequest EXCEPT !.pc = "canceling", !.intent = i, !.seen = intents[i]]
<1>1. intents[i] \in Intent /\ intents[i] # None
  BY DEF CancelLookup, Inv, Tables
<1>2. /\ q \in Request /\ q.pc = "canceling" /\ q.intent = i /\ q.issued = {} /\ q.good = {}
  BY <1>1, RestingFits DEF NoRequest, Request, Steps
<1>3. Go(r, q) /\ UNCHANGED <<intents, creds, revoked, abandoned, mixed>>
  BY DEF CancelLookup
<1> HIDE DEF q
<1>4. Fits(q) /\ Undisturbed(q)
  BY <1>1, <1>2 DEF Fits, Confirming, Undisturbed
<1> QED
  BY <1>2, <1>3, <1>4, ReadInv

LEMMA CancelStoreInv ==
  ASSUME Inv, NEW r \in Requests, CancelStore(r)
  PROVE  Inv'
<1>1. PICK i, row : i = req[r].intent /\ row = [intents[i] EXCEPT !.status = "canceled"]
  OBVIOUS
<1>2. i \in Intents /\ intents[i] \in Intent
  BY <1>1 DEF CancelStore, Inv, Tables, Fits
<1>3. row \in Intent /\ Mild(intents[i], row) /\ row.status = "canceled"
  BY <1>1, <1>2 DEF Intent, Statuses, Terminal, Mild
<1>4. intents' = [intents EXCEPT ![i] = row] /\ Go(r, NoRequest) /\ UNCHANGED <<creds, revoked, abandoned, mixed>>
  BY <1>1 DEF CancelStore
<1>5. Grows
  BY <1>2, <1>3, <1>4, Assumptions DEF Grows, Inv, Tables
<1>6. Founded(i, row)
  BY <1>2, <1>3, Assumptions DEF Inv, Rows, Founded, OutcomeAgrees, Mild
<1>7. Rows'
  BY <1>2, <1>4, <1>5, <1>6, StaysFounded, RowWritten DEF Inv
<1>8. Steady'
  <2>1. Undisturbed(NoRequest)'
    BY RestingFits DEF Undisturbed
  <2>2. \A j \in Intents : intents[j] # None =>
          intents'[j] = intents[j] \/ Mild(intents[j], intents'[j])
    BY <1>2, <1>3, <1>4 DEF Inv, Tables
  <2> QED
    BY <1>4, <2>1, <2>2, StaysSteady DEF Go
<1> QED
  BY <1>2, <1>3, <1>4, <1>5, <1>7, <1>8, EndInv DEF Inv, Tables

LEMMA RevokeInv ==
  ASSUME Inv, NEW c \in Creds, RevokeCredential(c)
  PROVE  Inv'
<1>1. Grows /\ revoked' \subseteq Creds /\ UNCHANGED <<intents, creds, req, abandoned, mixed>>
  BY DEF RevokeCredential, Grows, Inv, Tables
<1>2. Rows'
  BY <1>1, RowsStay
<1>3. \A r \in Requests : Fits(req[r])'
  <2> SUFFICES ASSUME NEW r \in Requests PROVE Fits(req[r])'
    OBVIOUS
  <2>1. PICK q : q = req[r]
    OBVIOUS
  <2>2. Fits(q)'
    BY <1>1, <2>1, StaysFit DEF Inv
  <2> QED
    BY <1>1, <2>1, <2>2 DEF Fits, Confirmed
<1>4. Steady'
  BY <1>1 DEF Inv, Steady, Undisturbed, Mild
<1> QED
  BY <1>1, <1>2, <1>3, <1>4 DEF Inv, Tables

LEMMA DieInv == ASSUME Inv, NEW r \in Requests, Die(r) PROVE Inv'
<1>1. /\ Go(r, NoRequest) /\ UNCHANGED <<intents, creds, revoked, mixed>>
      /\ abandoned' \in {abandoned, abandoned \cup {req[r].intent}}
      /\ abandoned' # abandoned => req[r].pc \in Confirming
  BY DEF Die
<1>2. abandoned' \subseteq Intents
  BY <1>1 DEF Inv, Tables, Fits, Confirming
<1>3. Grows /\ Rows'
  BY <1>1, StillGrows, RowsStay
<1>4. Steady'
  <2>1. Undisturbed(NoRequest)'
    BY RestingFits DEF Undisturbed
  <2> QED
    BY <1>1, <2>1, StaysSteady DEF Go
<1> QED
  BY <1>1, <1>2, <1>3, <1>4, EndInv DEF Inv, Tables

LEMMA Untouched == ASSUME Inv, UNCHANGED vars PROVE Inv'
<1>1. /\ UNCHANGED intents /\ UNCHANGED creds /\ UNCHANGED revoked /\ UNCHANGED req /\ UNCHANGED abandoned
      /\ UNCHANGED mixed
  BY DEF vars
<1>2. Grows /\ Rows'
  BY <1>1, StillGrows, RowsStay
<1>3. \A r \in Requests : Fits(req[r])'
  <2> SUFFICES ASSUME NEW r \in Requests PROVE Fits(req[r])'
    OBVIOUS
  <2>1. PICK q : q = req[r]
    OBVIOUS
  <2>2. Fits(q)'
    BY <1>2, <2>1, StaysFit DEF Inv
  <2> QED
    BY <1>1, <2>1, <2>2 DEF Fits, Confirmed
<1>4. Steady'
  BY <1>1 DEF Inv, Steady, Undisturbed, Mild
<1> QED
  BY <1>1, <1>2, <1>3, <1>4 DEF Inv, Tables

LEMMA StepInv == Inv /\ [Next]_vars => Inv'
<1> SUFFICES ASSUME Inv, [Next]_vars PROVE Inv'
  OBVIOUS
<1>1. ASSUME NEW r \in Requests, Create(r) \/ Work(r) \/ Die(r) PROVE Inv'
  BY <1>1, CreateInv, MarkInv, IssueInv, VerifyInv, ReadAgainInv, StoreInv, DieInv DEF Work
<1>2. ASSUME NEW r \in Requests, NEW i \in Intents, NEW key \in Keys \cup {None}, NEW body \in Bodies,
             Confirm(r, i, key, body)
      PROVE  Inv'
  BY <1>2, ConfirmInv, Untouched DEF Confirm, ConfirmReplay
<1>3. ASSUME NEW r \in Requests, NEW i \in Intents, CancelLookup(r, i) \/ CancelNothing(r, i)
      PROVE  Inv'
  BY <1>3, CancelInv, Untouched DEF CancelNothing
<1> QED
  BY <1>1, <1>2, <1>3, CancelStoreInv, RevokeInv, Untouched DEF Next

LEMMA InitInv == Init => Inv
<1> SUFFICES ASSUME Init PROVE Inv
  OBVIOUS
<1>1. Tables
  BY RestingFits DEF Init, Tables
<1>2. Rows
  BY DEF Init, Rows
<1>3. \A r \in Requests : Fits(req[r])
  BY RestingFits DEF Init, Fits, Confirming
<1>4. Steady
  BY RestingFits DEF Init, Steady, Undisturbed
<1> QED
  BY <1>1, <1>2, <1>3, <1>4 DEF Inv

-----------------------------------------------------------------------------
\* A bundle is always that of one whole confirmation: it has one credential of its
\* intent for each requirement, however many confirmations wrote columns of the row at
\* once (requirement_intents.py 305-344).  Status, decision and bundle are together one
\* confirmation's, whatever marked or canceled the intent in between, unless another
\* had read the row as well when this one stored; two such mix their columns, until
\* one stores alone.
THEOREM BundlesSound == Spec => []BundlesAreSound
<1>1. Inv => BundlesAreSound
  <2> SUFFICES ASSUME Inv PROVE BundlesAreSound
    OBVIOUS
  <2>1. \A r \in Requests : Cardinality(req[r].issued) <= Count
    <3> SUFFICES ASSUME NEW r \in Requests PROVE Cardinality(req[r].issued) <= Count
      OBVIOUS
    <3>1. Cardinality({}) = 0
      BY FS_EmptySet
    <3>2. Confirmed(req[r]) \/ req[r].issued = {}
      BY DEF Inv, Fits
    <3>3. CASE Confirmed(req[r])
      BY <3>3 DEF Confirmed
    <3>4. CASE req[r].issued = {}
      BY <3>1, <3>4, Assumptions
    <3> QED
      BY <3>2, <3>3, <3>4
  <2>2. OutcomeIsWhole
    BY DEF Inv, Rows, Founded, Whole, OutcomeIsWhole, BundleIsWhole
  <2> QED
    BY <2>1, <2>2 DEF BundlesAreSound, TypeOK, Inv, Tables
<1> QED
  BY <1>1, InitInv, StepInv, PTL DEF Spec
=============================================================================
