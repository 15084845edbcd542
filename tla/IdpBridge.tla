------------------------------ MODULE IdpBridge ------------------------------
(***************************************************************************)
(* The enterprise identity bridge (idp_bridge): it checks the OIDC token   *)
(* of a person, remembers an identity for them and issues an identity      *)
(* credential and, for /bind, a delegation to an agent, each with an entry *)
(* of the status list that the process keeps in memory.                    *)
(*                                                                         *)
(* Its handlers run on one event loop and never wait for it, so they do    *)
(* not interleave; but /bind checks the token twice, and the identity      *)
(* provider and the clock go on between the two.                           *)
(***************************************************************************)
EXTENDS Scopes

CONSTANTS
  Jtis,          \* jtis of credentials
  Users,         \* subjects of OIDC tokens
  IdpKeys,       \* signing keys of the identity provider, used in this order
  BindScopes,    \* scopes that /bind is asked for
  ListSize,      \* entries of the status list (16384)
  JwksLifespan,  \* how long a key set is cached (300 s)
  TokenTtl,      \* life of an id_token (3600 s)
  Ttl,           \* ttl_seconds of requests
  MaxDepth,      \* max_depth of requests
  MaxTime,       \* bound: the clock
  MaxBoots,      \* bound: restarts of the bridge
  None

ASSUME BridgeAssumption ==
  /\ BindScopes \subseteq Scope
  /\ {ListSize, TokenTtl, Ttl, MaxDepth, MaxTime, MaxBoots, JwksLifespan} \subseteq Nat
  /\ Ttl > 0 /\ None \notin Jtis \cup Int /\ IdpKeys \subseteq Nat /\ 0 \in IdpKeys

VARIABLES
  now,           \* the clock
  signing,       \* the key the identity provider signs with and publishes
  retired,       \* when each earlier key was withdrawn
  jwks,          \* the bridge's cached key set, None before the first fetch
  known,         \* people the bridge has an identity for
  bits,          \* entries set in its status list
  nextIndex,     \* its next free entry
  indexOf,       \* jti -> entry, for the credentials it can revoke
  busy,          \* the /bind at work, None when there is none
  boot,          \* which run of the process this is
  issued         \* credentials in the world, None for jtis not used

bridge == <<jwks, known, bits, nextIndex, indexOf, busy, boot>>
provider == <<signing, retired>>
bridgeVars == <<now, provider, bridge, issued>>

\* The id_tokens a person can hold: signed at some time with the key of that time.
Tokens == {t \in [user : Users, kid : IdpKeys, iat : 0..MaxTime] :
             /\ t.iat <= now /\ t.kid <= signing
             /\ t.kid \in DOMAIN retired => t.iat <= retired[t.kid]
             /\ t.kid > 0 => retired[t.kid - 1] <= t.iat}

\* A delegation names its parent and, in depth and max, how deep it is and how
\* deep the chain may become; a credential without index has no status entry.
\* trusted is for the properties: its issuer had reason to trust what it rests on.
Credential(kind, scope, depth, max, exp, index, parent, trusted) ==
  [kind |-> kind, scope |-> scope, depth |-> depth, max |-> max, exp |-> exp,
   index |-> index, parent |-> parent, trusted |-> trusted]

BridgeInit ==
  /\ now = 0 /\ signing = 0 /\ retired = <<>>
  /\ jwks = None /\ known = {} /\ bits = {} /\ nextIndex = 0
  /\ indexOf = [j \in Jtis |-> None] /\ busy = None /\ boot = 0
  /\ issued = [j \in Jtis |-> None]

-----------------------------------------------------------------------------
(* The clock and the identity provider                                     *)

Tick == now < MaxTime /\ now' = now + 1 /\ UNCHANGED <<provider, bridge, issued>>

RotateIdpKey ==
  /\ signing + 1 \in IdpKeys
  /\ signing' = signing + 1
  /\ retired' = [k \in 0..signing |-> IF k = signing THEN now ELSE retired[k]]
  /\ UNCHANGED <<now, bridge, issued>>

-----------------------------------------------------------------------------
(* MultiIssuerOIDCValidator.validate_token                                 *)

\* Broken variant: a key set, once fetched, is used for good.
CachedForever(kid) == jwks # None /\ jwks.kid = kid

\* PyJWKClient answers from its cache if that is young enough and has the key.
CachedKey(kid) == jwks # None /\ now <= jwks.at + JwksLifespan /\ jwks.kid = kid

\* Otherwise it fetches the key set; a fetch that fails empties the cache.
Fetched(reachable) == IF reachable THEN [kid |-> signing, at |-> now] ELSE None

KeysAfter(kid, reachable) == IF CachedKey(kid) THEN jwks ELSE Fetched(reachable)

Valid(t, reachable) ==
  /\ KeysAfter(t.kid, reachable) # None
  /\ KeysAfter(t.kid, reachable).kid = t.kid
  /\ now < t.iat + TokenTtl

-----------------------------------------------------------------------------
(* _do_attest, of /attest and /bind                                        *)

\* The provider publishes the token's key, or did so as long ago as key sets live.
Trusted(t) == t.kid \in DOMAIN retired => now <= retired[t.kid] + JwksLifespan

NewIdentity(t) ==
  Credential("identity", None, 0, 0, now + Ttl, nextIndex, None, Trusted(t))

NewDelegation(t, scope) ==
  Credential("delegation", scope, 0, MaxDepth, now + Ttl, nextIndex, None, Trusted(t))

Free(j) == issued[j] = None

\* allocate_index, and the credential with that entry.
Issues(j, credential) ==
  /\ Free(j) /\ nextIndex < ListSize
  /\ nextIndex' = nextIndex + 1
  /\ issued' = [issued EXCEPT ![j] = credential]
  /\ indexOf' = [indexOf EXCEPT ![j] = nextIndex]

\* The token is rejected (401).
AttestRefused(t, reachable) ==
  /\ busy = None /\ ~Valid(t, reachable)
  /\ jwks' = KeysAfter(t.kid, reachable)
  /\ UNCHANGED <<now, provider, known, bits, nextIndex, indexOf, busy, boot, issued>>

\* Of the status list nothing is left: the person is remembered all the same.
AttestFull(t, reachable) ==
  /\ busy = None /\ Valid(t, reachable) /\ nextIndex = ListSize
  /\ jwks' = KeysAfter(t.kid, reachable)
  /\ known' = known \cup {t.user}
  /\ UNCHANGED <<now, provider, bits, nextIndex, indexOf, busy, boot, issued>>

\* next is what busy becomes: None for /attest, the request for /bind.
AttestIssued(t, reachable, j, next) ==
  /\ busy = None /\ Valid(t, reachable)
  /\ jwks' = KeysAfter(t.kid, reachable)
  /\ known' = known \cup {t.user}
  /\ Issues(j, NewIdentity(t))
  /\ busy' = next
  /\ UNCHANGED <<now, provider, bits, boot>>

\* /bind validates the token again; if it has expired meanwhile, or its key is
\* not found any more, or the list is full, the answer is 500 and the identity
\* credential stays issued.
BindFails(reachable) ==
  /\ busy # None
  /\ ~Valid(busy.token, reachable) \/ nextIndex = ListSize
  /\ jwks' = KeysAfter(busy.token.kid, reachable)
  /\ busy' = None
  /\ UNCHANGED <<now, provider, known, bits, nextIndex, indexOf, boot, issued>>

BindIssues(reachable, j) ==
  /\ busy # None /\ Valid(busy.token, reachable)
  /\ jwks' = KeysAfter(busy.token.kid, reachable)
  /\ Issues(j, NewDelegation(busy.token, busy.scope))
  /\ busy' = None
  /\ UNCHANGED <<now, provider, known, bits, boot>>

\* /bind-with-vp goes on from there: for the agent the bridge issues a credential that
\* no status list has, and the presentation that it signs holds all three.
BindWithVp(reachable, j, k) ==
  /\ busy # None /\ Valid(busy.token, reachable)
  /\ jwks' = KeysAfter(busy.token.kid, reachable)
  /\ j # k /\ Free(j) /\ Free(k) /\ nextIndex < ListSize
  /\ nextIndex' = nextIndex + 1
  /\ issued' = [issued EXCEPT
       ![j] = NewDelegation(busy.token, busy.scope),
       ![k] = Credential("agent", None, 0, 0, now + Ttl, None, None, Trusted(busy.token))]
  /\ indexOf' = [indexOf EXCEPT ![j] = nextIndex]
  /\ busy' = None
  /\ UNCHANGED <<now, provider, known, bits, boot>>

-----------------------------------------------------------------------------
\* POST /bridge/revoke; 404 for a jti this process has not issued.
Revoke(j) ==
  /\ busy = None /\ indexOf[j] # None
  /\ bits' = bits \cup {indexOf[j]}
  /\ UNCHANGED <<now, provider, jwks, known, nextIndex, indexOf, busy, boot, issued>>

\* The process ends and starts again: what it kept in memory is gone.
Restart ==
  /\ boot < MaxBoots
  /\ jwks' = None /\ known' = {} /\ bits' = {} /\ nextIndex' = 0
  /\ indexOf' = [j \in Jtis |-> None] /\ busy' = None /\ boot' = boot + 1
  /\ UNCHANGED <<now, provider, issued>>

BridgeNext ==
  \/ Tick \/ RotateIdpKey \/ Restart
  \/ \E j \in Jtis : Revoke(j)
  \/ \E reachable \in BOOLEAN :
       \/ \E t \in Tokens : AttestRefused(t, reachable) \/ AttestFull(t, reachable)
       \/ \E t \in Tokens, j \in Jtis :
            \/ AttestIssued(t, reachable, j, None)
            \/ \E s \in BindScopes :
                 AttestIssued(t, reachable, j, [token |-> t, scope |-> s])
       \/ BindFails(reachable)
       \/ \E j \in Jtis : BindIssues(reachable, j) \/ \E k \in Jtis : BindWithVp(reachable, j, k)

-----------------------------------------------------------------------------
\* Credentials revoked with this run of the bridge.
RevokedNow == {j \in Jtis : indexOf[j] # None /\ indexOf[j] \in bits}
=============================================================================
