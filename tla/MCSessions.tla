----------------------------- MODULE MCSessions -----------------------------
(* Instances of Sessions for TLC. *)
EXTENDS Sessions, TLC

CONSTANTS buy, read, star, m1, m2, usd, eur, d1, d2, d3

MCActions == {buy, read, star}
MCParent  == [d \in {d1, d2, d3} |-> IF d = d1 THEN None ELSE d1]

Budgeted == [actions |-> {buy}, max |-> 5, currency |-> None, merchants |-> {m1}]
Plain    == [actions |-> {}, max |-> 4, currency |-> usd, merchants |-> {}]

CommerceBody ==
  [scope |-> Budgeted, commerce |-> TRUE, ttl |-> 0, delegation |-> d1]
PlainBody ==
  [scope |-> Plain, commerce |-> FALSE, ttl |-> 0, delegation |-> None]

Ask(a, n, c, m, sim) ==
  [action |-> a, amount |-> n, currency |-> c, merchant |-> m, simulate |-> sim]

Purchases == {Ask(buy, 3, None, m1, None), Ask(buy, 2, eur, m1, 90)}
OffPolicy == {Ask(buy, 2, usd, m2, None)}
Unpriced  == {Ask(star, None, None, None, None)}

BothBodies == {CommerceBody, PlainBody}
FewInputs  == Purchases \cup OffPolicy \cup Unpriced

Symmetric == Permutations(Requests)
=============================================================================
