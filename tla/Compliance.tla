----------------------------- MODULE Compliance -----------------------------
(***************************************************************************)
(* What api/routes/compliance.py makes of the numbers it has counted: the  *)
(* controls of each framework, the evidence each one asks for, and whether *)
(* it passes.                                                              *)
(*                                                                         *)
(* A tally is a record of the counted rows and of the walk of the audit    *)
(* chain.                                                                  *)
(***************************************************************************)
EXTENDS Naturals, Sequences, FiniteSets

\* CONTROL_LIBRARY: the evidence_query of each control.
ControlLibrary ==
  [SOC2     |-> <<"agents", "creds", "delegations", "chain", "revoked">>,
   HIPAA    |-> <<"creds", "chain", "creds", "agents">>,
   EUAIAct  |-> <<"highRisk", "trust", "chain", "creds", "limitedRisk">>,
   ISO42001 |-> <<"trust", "creds", "events", "trust">>]

Frameworks == DOMAIN ControlLibrary

\* What a control counts; nothing for the credentials of high or limited risk,
\* which are looked for as words in the encoded token.
Evidence(tally, query) ==
  IF query \in DOMAIN tally THEN tally[query] ELSE 0

\* passing: the walk for the chain's control, a row at least for the others.
Passing(tally, query) ==
  IF query = "chain" THEN tally.valid ELSE Evidence(tally, query) > 0

\* controls_passing of the report, as the numbers of the controls.
Report(tally, framework) ==
  {i \in DOMAIN ControlLibrary[framework] : Passing(tally, ControlLibrary[framework][i])}
=============================================================================
