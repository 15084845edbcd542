------------------------------ MODULE MCGateway ------------------------------
(* An instance of the gateway for TLC: a person p delegates to agent a1, and a1 to
   a2; i is the issuer of identities, g the gateway. *)
EXTENDS Detection, TLC

CONSTANTS p, a1, a2, i, g, buy, look, t1, d1, d2, d3, idp, ida, ag, v1, v2

S(actions) ==
  [EmptyScope EXCEPT !.actions = actions, !.amount = 1, !.merchants = Anywhere]

Credential(type, issuer, subject, scope, parent, exp) ==
  [type |-> type, issuer |-> issuer, subject |-> subject,
   delegator |-> IF type = "delegation" THEN issuer ELSE None, scope |-> scope,
   parent |-> parent, exp |-> exp, listed |-> type = "delegation" /\ parent = None, signed |-> TRUE]

CredTable ==
  d1 :> Credential("delegation", p, a1, S({buy, look}), None, 9)
  @@ d2 :> Credential("delegation", a1, a2, S({}), d1, 9)
  @@ d3 :> Credential("delegation", a1, a2, S({look}), d1, 9)
  @@ idp :> Credential("identity", i, p, None, None, 9)
  @@ ida :> Credential("identity", i, a1, None, None, 9)
  @@ ag :> Credential("agent", a1, a2, None, None, 1)

Presents(holder, creds, exp) ==
  [holder |-> holder, aud |-> g, exp |-> exp, signed |-> TRUE, creds |-> creds]

VpTable ==
  v1 :> Presents(a2, <<ag, d2, idp, ida>>, 9) @@ v2 :> Presents(a2, Blended(d3, idp, <<>>), 1)

RequiredTable == t1 :> buy
RateTable == <<1, 2, 3>>

\* TLC keeps the value of a definition, but not that of a substituted constant.
MCCred == CredTable
MCVp == VpTable
MCRequired == RequiredTable
MCRates == RateTable
=============================================================================
