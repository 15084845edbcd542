--------------------------- MODULE Presentations ---------------------------
(***************************************************************************)
(* Credentials and presentations of the Python SDK (credentials.py), and   *)
(* the two ways a presentation is judged: verify_request of an MCP server  *)
(* (integrations/mcp.py, which the gateway uses) and                       *)
(* verify_blended_presentation.                                            *)
(*                                                                         *)
(* What the verifiers compute depends on the time and on which credentials *)
(* the status lists report as revoked: "at" and "dead" below.  Signatures, *)
(* key look-ups and encodings are the one bit "signed".                    *)
(***************************************************************************)
EXTENDS Scopes, Sequences

CONSTANTS
  Creds, Cred,            \* credentials, and what each says
  Vps, Vp,                \* presentations, and what each holds
  Dids,
  Me,                     \* the verifier's DID, the audience it expects
  TrustedIssuers,         \* policies of MCPAuthConfig; empty: no restriction
  RequiredTypes,
  RequiredActions,
  DelegatorTypes,
  RequireDelegatorIdentity,
  MaxRecursion,           \* _max_recursion (10)
  None

CredentialType == {"identity", "agent", "delegation"}

\* delegator is delegatedBy, parent the parentDelegation; listed: it has an entry of
\* a status list.
CredentialRecord ==
  [type : CredentialType, issuer : Dids, subject : Dids, delegator : Dids \cup {None},
   scope : Scope \cup {None}, parent : Creds \cup {None}, exp : Nat, listed : BOOLEAN,
   signed : BOOLEAN]

VpRecord == [holder : Dids, aud : Dids, exp : Nat, signed : BOOLEAN, creds : Seq(Creds)]

\* What may be wrong with a presentation.
Faults ==
  {"no header", "signature", "expired", "audience", "empty", "revoked", "untrusted",
   "missing type", "no delegation", "recursion", "action", "no delegator", "delegator type"}

ASSUME PresentationAssumption ==
  /\ Cred \in [Creds -> CredentialRecord] /\ Vp \in [Vps -> VpRecord]
  /\ TrustedIssuers \cup {Me} \subseteq Dids
  /\ RequiredTypes \cup DelegatorTypes \subseteq CredentialType
  /\ RequireDelegatorIdentity \in BOOLEAN /\ MaxRecursion \in Nat
  /\ None \notin Faults \cup Creds \cup Vps \cup Dids

\* create_blended_presentation: it must begin with a delegation.
Blended(delegation, identity, others) ==
  IF Cred[delegation].type # "delegation" THEN None
  ELSE <<delegation>> \o (IF identity = None THEN <<>> ELSE <<identity>>) \o others

-----------------------------------------------------------------------------
\* verify_vc: what is wrong with a credential, None if nothing is.  Revocation is
\* reported before expiry.
VcFault(c, at, dead) ==
  IF ~Cred[c].signed THEN "signature"
  ELSE IF Cred[c].listed /\ c \in dead THEN "revoked"
  ELSE IF at >= Cred[c].exp THEN "expired" ELSE None

\* verify_presentation; the first credential with a fault is the one reported.
VpFault(v, at, dead) ==
  LET vp == Vp[v]
      bad == {i \in 1..Len(vp.creds) : VcFault(vp.creds[i], at, dead) # None}
  IN IF ~vp.signed THEN "signature"
     ELSE IF at >= vp.exp THEN "expired"
     ELSE IF vp.aud # Me THEN "audience"
     ELSE IF vp.creds = <<>> THEN "empty"
     ELSE IF bad = {} THEN None
     ELSE VcFault(vp.creds[CHOOSE i \in bad : \A j \in bad : i <= j], at, dead)

-----------------------------------------------------------------------------
\* The credentials from the root of a chain down to c, as far up as the recursion
\* goes.
PathTo(c) ==
  LET up[n \in 0..MaxRecursion + 1] ==
        IF n = 0 THEN <<c>>
        ELSE LET below == up[n - 1] IN
             IF Cred[below[1]].parent = None THEN below
             ELSE <<Cred[below[1]].parent>> \o below
  IN up[MaxRecursion + 1]

\* verify_delegation_chain: faults are found on the way up, from c on, and the
\* credential beyond the limit is not looked at.
ChainFault(c, at, dead) ==
  LET path == PathTo(c)
      bad == {i \in 1..Len(path) :
                Len(path) - i <= MaxRecursion /\ VcFault(path[i], at, dead) # None}
  IN IF bad # {} THEN VcFault(path[CHOOSE i \in bad : \A j \in bad : j <= i], at, dead)
     ELSE IF Len(path) > MaxRecursion + 1 THEN "recursion" ELSE None

ScopeOf(c) == IF Cred[c].scope # None THEN Cred[c].scope ELSE EmptyScope

EffectiveScope(c) ==
  LET path == PathTo(c)
      down[i \in 1..Len(path)] ==
        IF i = 1 THEN ScopeOf(path[1]) ELSE Intersect(down[i - 1], ScopeOf(path[i]))
  IN down[Len(path)]

\* "delegator" of the first link: delegatedBy, or else the issuer.
RootDelegator(c) ==
  LET root == Cred[PathTo(c)[1]] IN
  IF root.delegator # None THEN root.delegator ELSE root.issuer

-----------------------------------------------------------------------------
First(s, Test(_)) ==
  LET hits == {i \in 1..Len(s) : Test(s[i])} IN
  IF hits = {} THEN None ELSE s[CHOOSE i \in hits : \A j \in hits : i <= j]

IsDelegation(c) == Cred[c].type = "delegation"

SameParties(c, d) == Cred[c].subject = Cred[d].subject /\ Cred[c].issuer = Cred[d].issuer

\* Broken variant: whichever credential has the same parties.
DelegationByParties(v) ==
  IF First(Vp[v].creds, IsDelegation) = None THEN None
  ELSE First(Vp[v].creds, LAMBDA d : SameParties(d, First(Vp[v].creds, IsDelegation)))

\* _find_delegation_jwt: the first delegation with the parties of the first one.
DelegationOf(v) == First(Vp[v].creds, IsDelegation)

\* A credential about the root delegator that is no delegation.
DelegatorCredential(v, c) ==
  First(Vp[v].creds, LAMBDA d : Cred[d].subject = RootDelegator(c) /\ ~IsDelegation(d))

Refusal(reason) ==
  [ok |-> FALSE, reason |-> reason, agent |-> None, delegator |-> None,
   scope |-> EmptyScope, blended |-> FALSE, depth |-> 1]

\* The policies of verify_request on a presentation that is valid and holds the
\* delegation c: the fault, or None.
PolicyFault(v, c, at, dead) ==
  LET held == {Vp[v].creds[i] : i \in 1..Len(Vp[v].creds)}
      who == DelegatorCredential(v, c)
      chainFault == ChainFault(c, at, dead)
  IN IF TrustedIssuers # {} /\ \E d \in held : Cred[d].issuer \notin TrustedIssuers
     THEN "untrusted"
     ELSE IF ~(RequiredTypes \subseteq {Cred[d].type : d \in held}) THEN "missing type"
     ELSE IF c = None THEN "no delegation"
     ELSE IF chainFault # None THEN chainFault
     ELSE IF ~(RequiredActions \subseteq EffectiveScope(c).actions) THEN "action"
     ELSE IF RequireDelegatorIdentity /\ who = None THEN "no delegator"
     ELSE IF DelegatorTypes # {} /\ who # None /\ Cred[who].type \notin DelegatorTypes
     THEN "delegator type" ELSE None

\* verify_request with require_delegation, the gateway's setting; v is None when
\* there is no Authorization header.
VerifyRequest(v, at, dead) ==
  LET c == DelegationOf(v)
      vpFault == VpFault(v, at, dead)
      fault == IF vpFault # None THEN vpFault ELSE PolicyFault(v, c, at, dead)
      blended == DelegatorCredential(v, c) # None
  IN IF v = None THEN Refusal("no header")
     ELSE IF fault # None THEN Refusal(fault)
     ELSE [ok |-> TRUE, reason |-> None, agent |-> Vp[v].holder,
           delegator |-> IF blended THEN RootDelegator(c) ELSE None,
           scope |-> EffectiveScope(c), blended |-> blended, depth |-> Len(PathTo(c))]

\* verify_blended_presentation finds the delegation's token by its parties alone:
\* the last credential with them.
BlendedDelegation(v) ==
  LET c == First(Vp[v].creds, IsDelegation)
      same == {i \in 1..Len(Vp[v].creds) : SameParties(Vp[v].creds[i], c)}
  IN IF c = None THEN None
     ELSE Vp[v].creds[CHOOSE i \in same : \A j \in same : j <= i]

VerifyBlended(v, at, dead) ==
  LET c == BlendedDelegation(v) IN
  IF VpFault(v, at, dead) # None THEN Refusal(VpFault(v, at, dead))
  ELSE IF c = None
  THEN [Refusal(None) EXCEPT !.ok = TRUE, !.agent = Vp[v].holder]
  ELSE IF ChainFault(c, at, dead) # None THEN Refusal(ChainFault(c, at, dead))
  ELSE [ok |-> TRUE, reason |-> None, agent |-> Vp[v].holder,
        delegator |-> RootDelegator(c), scope |-> EffectiveScope(c),
        blended |-> DelegatorCredential(v, c) # None, depth |-> Len(PathTo(c))]
=============================================================================
