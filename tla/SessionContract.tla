-------------------------- MODULE SessionContract --------------------------
(***************************************************************************)
(* What an authorization session promises to the human who opened it: the  *)
(* agent charges it only while it is open, never past the limit agreed     *)
(* when it was opened, and a closed session stays closed.  Sessions.tla    *)
(* implements this under concurrent requests, locks and crashes.           *)
(***************************************************************************)
EXTENDS Naturals

CONSTANTS
  SessionIds,    \* sessions that can ever be opened
  Currencies,    \* currencies a charge can be made in
  Limits,        \* limits a session can be opened with
  NoLimit,       \* the limit of an unlimited session
  Amounts        \* amounts a single charge can have

VARIABLES
  phase,         \* [SessionIds -> {"none", "open", "held", "closed"}]
  limit,         \* the limit agreed at opening, per session
  used           \* amount charged so far, per session and currency

contract == <<phase, limit, used>>

Within(n, l) == l # NoLimit => n <= l

Init ==
  /\ phase = [s \in SessionIds |-> "none"]
  /\ limit = [s \in SessionIds |-> NoLimit]
  /\ used = [s \in SessionIds |-> [c \in Currencies |-> 0]]

Move(s, from, to) ==
  /\ phase[s] \in from
  /\ phase' = [phase EXCEPT ![s] = to]
  /\ UNCHANGED used

Open(s) ==
  /\ Move(s, {"none"}, "open")
  /\ \E l \in Limits : limit' = [limit EXCEPT ![s] = l]

Hold(s)   == Move(s, {"open"}, "held") /\ UNCHANGED limit
Resume(s) == Move(s, {"held"}, "open") /\ UNCHANGED limit
Close(s)  == Move(s, {"open", "held"}, "closed") /\ UNCHANGED limit

Charge(s, c, n) ==
  /\ phase[s] = "open"
  /\ Within(used[s][c] + n, limit[s])
  /\ used' = [used EXCEPT ![s][c] = @ + n]
  /\ UNCHANGED <<phase, limit>>

Next ==
  \E s \in SessionIds :
    \/ Open(s) \/ Hold(s) \/ Resume(s) \/ Close(s)
    \/ \E c \in Currencies, n \in Amounts : Charge(s, c, n)

Spec == Init /\ [][Next]_contract
=============================================================================
