-------------------------- MODULE DelegationChains --------------------------
(***************************************************************************)
(* Delegation chains: an agent that holds a delegation delegates part of   *)
(* it further (delegate_further of the SDK), and verifiers walk a chain    *)
(* from its last delegation to the first, asking the status list of each   *)
(* for revocation over the network, and then combine the scopes on the way *)
(* back (verify_delegation_chain of the SDK, used by the gateway, and      *)
(* _verify_delegation_chain_backend of the backend).                       *)
(*                                                                         *)
(* The first delegation of a chain comes from the identity bridge, which   *)
(* this module extends.  Sub-delegations carry no status entry unless the  *)
(* caller names one; here they carry none.                                 *)
(***************************************************************************)
EXTENDS IdpBridge, Sequences, FiniteSets

CONSTANTS
  Verifiers,
  FailClosed,      \* what the gateway makes of a status list it cannot read
  NarrowedScopes,  \* scopes that delegate_further is asked for
  ForeignScopes,   \* scopes of links made without delegate_further
  MaxRecursion     \* _max_recursion (10)

ASSUME ChainAssumption ==
  /\ NarrowedScopes \cup ForeignScopes \subseteq Scope
  /\ FailClosed \in BOOLEAN
  /\ MaxRecursion \in Nat /\ IsFiniteSet(Jtis)

VARIABLES
  draft,           \* the delegate_further at work, None when there is none
  verif            \* what each verifier is doing

chainVars == <<bridgeVars, draft, verif>>

\* path: the delegations reached so far, the topmost first; pos, eff: how many of
\* them are combined and to which scope.  whole, alive and boot are for the
\* properties: at the beginning no link was revoked, none had expired, and the
\* bridge was in that run.
Resting == [pc |-> "resting", by |-> "sdk", path |-> <<>>, pos |-> 0, eff |-> None,
            whole |-> TRUE, alive |-> TRUE, boot |-> 0]

Init == BridgeInit /\ draft = None /\ verif = [v \in Verifiers |-> Resting]

DelegationsIssued == {j \in Jtis : issued[j] # None /\ issued[j].kind = "delegation"}

Expired(j) == now >= issued[j].exp

Go(v, next) == verif' = [verif EXCEPT ![v] = next] /\ UNCHANGED <<bridgeVars, draft>>

-----------------------------------------------------------------------------
(* delegate_further                                                        *)

\* The parent is verified without a status checker, its depth and scope are
\* compared, and what is left of its life is computed; issue_vc raises when
\* nothing is left, and reads the clock again.
DelegateFurther(parent, scope) ==
  /\ draft = None /\ parent \in DelegationsIssued /\ ~Expired(parent)
  /\ issued[parent].depth < issued[parent].max
  /\ Narrows(issued[parent].scope, scope)
  /\ draft' = [pc |-> "allowed", parent |-> parent, scope |-> scope, ttl |-> Ttl]
  /\ UNCHANGED <<bridgeVars, verif>>

BoundTtl ==
  /\ draft # None /\ draft.pc = "allowed"
  /\ LET left == issued[draft.parent].exp - now IN
     draft' = IF left <= 0 THEN None
              ELSE [draft EXCEPT !.pc = "bounded", !.ttl = IF left < Ttl THEN left ELSE Ttl]
  /\ UNCHANGED <<bridgeVars, verif>>

IssueChild(j) ==
  /\ draft # None /\ draft.pc = "bounded" /\ Free(j)
  /\ issued' = [issued EXCEPT ![j] =
       LET parent == issued[draft.parent] IN
       Credential("delegation", draft.scope, parent.depth + 1, parent.max,
                  now + draft.ttl, None, draft.parent, TRUE)]
  /\ draft' = None
  /\ UNCHANGED <<now, provider, bridge, verif>>

-----------------------------------------------------------------------------
(* A link that its issuer signed with other means: neither its scope nor its   *)
(* life need fit the parent's.                                                 *)

IssueForeign(j, parent, scope) ==
  /\ Free(j) /\ parent \in DelegationsIssued
  /\ issued' = [issued EXCEPT ![j] =
       LET p == issued[parent] IN
       Credential("delegation", scope, p.depth + 1, p.max, now + Ttl, None, parent, TRUE)]
  /\ UNCHANGED <<now, provider, bridge, draft, verif>>

-----------------------------------------------------------------------------
(* Verification                                                            *)

\* The delegations from j to its root.
ChainOf(j) ==
  LET up[n \in 0..Cardinality(Jtis)] ==
        IF n = 0 THEN {j}
        ELSE up[n - 1] \cup ({issued[i].parent : i \in up[n - 1]} \ {None})
  IN up[Cardinality(Jtis)]

Begin(v, j, by) ==
  /\ verif[v].pc \in {"resting", "verified"} /\ j \in DelegationsIssued
  /\ Go(v, [pc |-> "checking", by |-> by, path |-> <<j>>, pos |-> 0, eff |-> None,
            whole |-> ChainOf(j) \cap RevokedNow = {},
            alive |-> \A i \in ChainOf(j) : ~Expired(i),
            boot |-> boot])

\* What the bridge's status list says of an entry.  The gateway's checker fails
\* closed in production when it cannot read the list; the backend's finds no
\* signed list there and takes every entry as not revoked.
Revoked(j, by, readable) ==
  /\ issued[j].index # None /\ by = "sdk"
  /\ IF readable THEN issued[j].index \in bits ELSE FailClosed

\* Broken variant: only the delegation presented is asked for.
CheckLeafOnly(v, readable) ==
  LET top == verif[v].path[1] IN
  /\ verif[v].pc = "checking"
  /\ IF Len(verif[v].path) > MaxRecursion + 1
        \/ (Len(verif[v].path) = 1 /\ Revoked(top, verif[v].by, readable))
        \/ Expired(top)
     THEN Go(v, Resting)
     ELSE IF issued[top].parent # None
     THEN Go(v, [verif[v] EXCEPT !.path = <<issued[top].parent>> \o @])
     ELSE Go(v, [verif[v] EXCEPT !.pc = "combining", !.pos = 1, !.eff = issued[top].scope])

\* One call of the recursion, on its way up.
Check(v, readable) ==
  LET top == verif[v].path[1] IN
  /\ verif[v].pc = "checking"
  /\ IF Len(verif[v].path) > MaxRecursion + 1 \/ Revoked(top, verif[v].by, readable)
        \/ Expired(top)
     THEN Go(v, Resting)
     ELSE IF issued[top].parent # None
     THEN Go(v, [verif[v] EXCEPT !.path = <<issued[top].parent>> \o @])
     ELSE Go(v, [verif[v] EXCEPT !.pc = "combining", !.pos = 1, !.eff = issued[top].scope])

\* On its way back: the backend compares the scopes first, the SDK does not.
Combine(v) ==
  LET me == verif[v]
      child == issued[me.path[me.pos + 1]].scope IN
  /\ me.pc = "combining" /\ me.pos < Len(me.path)
  /\ IF me.by = "backend" /\ ~BackendNarrows(me.eff, child)
     THEN Go(v, Resting)
     ELSE Go(v, [me EXCEPT !.pos = @ + 1,
                   !.eff = IF me.by = "backend" THEN BackendIntersect(me.eff, child)
                           ELSE Intersect(me.eff, child)])

\* The action asked for is looked up in what is left.
Answer(v, action) ==
  LET me == verif[v] IN
  /\ me.pc = "combining" /\ me.pos = Len(me.path)
  /\ Go(v, IF action = None \/ action \in me.eff.actions
           THEN [me EXCEPT !.pc = "verified"] ELSE Resting)

Work(v) ==
  \/ \E readable \in BOOLEAN : Check(v, readable)
  \/ Combine(v)
  \/ \E action \in Actions \cup {None} : Answer(v, action)

Next ==
  \/ BridgeNext /\ UNCHANGED <<draft, verif>>
  \/ \E parent \in Jtis, s \in NarrowedScopes : DelegateFurther(parent, s)
  \/ BoundTtl \/ (\E j \in Jtis : IssueChild(j))
  \/ \E j, parent \in Jtis, s \in ForeignScopes : IssueForeign(j, parent, s)
  \/ \E v \in Verifiers :
       \/ \E j \in Jtis, by \in {"sdk", "backend"} : Begin(v, j, by)
       \/ Work(v)

Spec == Init /\ [][Next]_chainVars

-----------------------------------------------------------------------------
Link == [kind : {"identity", "agent", "delegation"}, scope : Scope \cup {None}, depth : Nat,
         max : Nat, exp : Nat, index : Nat \cup {None}, parent : Jtis \cup {None},
         trusted : BOOLEAN]

ASSUME LinkAssumption == None \notin Link

Verification == [pc : {"resting", "checking", "combining", "verified"},
                 by : {"sdk", "backend"}, path : Seq(Jtis), pos : Nat,
                 eff : Scope \cup {None}, whole : BOOLEAN, alive : BOOLEAN, boot : Nat]

\* Credentials and verifications have their types, no two credentials of one run
\* of the bridge share a status entry, and parents are delegations.
TypeOK ==
  /\ now \in Nat /\ issued \in [Jtis -> Link \cup {None}]
  /\ verif \in [Verifiers -> Verification]
  /\ nextIndex \in 0..ListSize /\ bits \subseteq 0..(nextIndex - 1)
  /\ \A i, j \in Jtis :
       indexOf[i] # None /\ indexOf[i] = indexOf[j] => i = j
  /\ \A j \in DelegationsIssued : issued[j].parent \in DelegationsIssued \cup {None}

\* What a verification has combined so far never exceeds a scope on the way: not
\* the root's, and none of those below it, an empty list standing for what was
\* there before.  (README.md:50, "Authority narrows monotonically".)
EffectiveNarrows ==
  \A v \in Verifiers : LET me == verif[v] IN
    \A i \in 1..me.pos : LET s == issued[me.path[i]].scope IN
      /\ me.eff.actions \subseteq s.actions \/ s.actions = {}
      /\ s.amount # Unset => Amount(me.eff) <= s.amount
      /\ i = 1 => Within(me.eff, s)

\* Credentials have their types and status entries of their own, and what is combined narrows.
ScopesAreSound == TypeOK /\ EffectiveNarrows

\* A chain that a gateway which fails closed has verified was whole when the
\* verification began, although its links are asked for one after the other: no
\* link of it was revoked by then, unless the bridge has been restarted since,
\* and none had expired.
VerifiedWasValid ==
  \A v \in Verifiers : LET me == verif[v] IN
    me.pc = "verified" =>
      me.alive /\ (me.by = "sdk" /\ me.boot = boot /\ FailClosed => me.whole)

\* A credential of the bridge rests on an id_token whose key the identity
\* provider still published, or had withdrawn no longer ago than key sets are
\* cached for: also the delegation that /bind issues after its second check.
IssuedOnTrust ==
  \A j \in Jtis : issued[j] # None => issued[j].trusted
=============================================================================
