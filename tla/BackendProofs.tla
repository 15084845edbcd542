---------------------------- MODULE BackendProofs ----------------------------
(* What the backend's handlers guarantee for every value of the constants: *)
(* any agents, tenants, credentials and SPIFFE IDs, any loads of requests, *)
(* any pool, and any roster that seeding works through.                    *)
EXTENDS Backend, SequenceTheorems, FiniteSetTheorems, NaturalsInduction,
        WellFoundedInduction, TLAPS

(***************************************************************************)
(* Least elements, induction and recursive functions.                      *)
(***************************************************************************)

\* A set of numbers that is not empty has a least element.
LEMMA Least ==
  ASSUME NEW T, T \subseteq Nat, T # {}
  PROVE  \E n \in T : \A m \in T : n <= m
<1> DEFINE R == {ss \in Nat \X Nat : ss[1] < ss[2]}
<1>1. IsWellFoundedOn(R, Nat)
  BY NatLessThanWellFounded DEF OpToRel
<1>2. PICK n \in T : \A m \in T : <<m, n>> \notin R
  <2> HIDE DEF R
  <2> QED
    BY <1>1, WFMin
<1>3. ASSUME NEW m \in Nat, m < n PROVE <<m, n>> \in R
  <2>1. <<m, n>> \in Nat \X Nat /\ <<m, n>>[1] < <<m, n>>[2]
    BY <1>3
  <2> QED
    BY <2>1, Zenon
<1> HIDE DEF R
<1>4. ASSUME NEW m \in T PROVE n <= m
  <2>1. m \in Nat /\ n \in Nat
    OBVIOUS
  <2>2. ~(m < n)
    BY <2>1, <1>2, <1>3, Zenon
  <2> QED
    BY <2>1, <2>2
<1> QED
  BY <1>4

\* Induction, over a set in place of a predicate.
LEMMA Induction ==
  ASSUME NEW S, 0 \in S, \A n \in Nat : n \in S => n + 1 \in S
  PROVE  Nat \subseteq S
<1> DEFINE T == Nat \ S
<1> SUFFICES ASSUME T # {} PROVE FALSE
  OBVIOUS
<1>1. PICK n \in T : \A m \in T : n <= m
  BY Least
<1>2. n \in Nat \ {0} /\ n - 1 \in Nat /\ n - 1 \notin T
  BY <1>1
<1> QED
  BY <1>1, <1>2

Iterates(f, V, base, step, K) ==
  f \in [0..K -> V] /\ f[0] = base /\ \A n \in 1..K : f[n] = step[n][f[n - 1]]

\* A function is defined by its value at 0 and a step from each number to the next.
LEMMA Recursion ==
  ASSUME NEW V, NEW base \in V, NEW step \in [Nat -> [V -> V]], NEW K \in Nat
  PROVE  \E f : Iterates(f, V, base, step, K)
<1> DEFINE Upto(f, m) == Iterates(f, V, base, step, m)
           S == {m \in Nat : \E f : Upto(f, m)}
<1>1. 0 \in S
  <2>1. Upto([n \in 0..0 |-> base], 0)
    BY DEF Iterates
  <2> QED
    BY <2>1
<1>2. ASSUME NEW m \in Nat, m \in S PROVE m + 1 \in S
  <2>1. PICK f : Upto(f, m)
    BY <1>2
  <2> DEFINE g == [n \in 0..m + 1 |-> IF n = m + 1 THEN step[m + 1][f[m]] ELSE f[n]]
  <2>2. f[m] \in V /\ step[m + 1][f[m]] \in V
    <3>1. m \in 0..m /\ m + 1 \in Nat
      OBVIOUS
    <3>2. f[m] \in V
      BY <2>1, <3>1 DEF Iterates
    <3>3. step[m + 1] \in [V -> V]
      BY <3>1
    <3> QED
      BY <3>2, <3>3
  <2>3. g \in [0..m + 1 -> V]
    <3>1. \A n \in 0..m + 1 : n # m + 1 => n \in 0..m
      OBVIOUS
    <3> QED
      BY <2>1, <2>2, <3>1 DEF Iterates
  <2>4. ASSUME NEW n \in 1..m + 1 PROVE g[n] = step[n][g[n - 1]]
    <3>0. n \in 0..m + 1 /\ n - 1 \in 0..m + 1 /\ n - 1 # m + 1
      OBVIOUS
    <3>1. g[n - 1] = f[n - 1]
      BY <3>0
    <3>2. CASE n = m + 1
      BY <3>0, <3>1, <3>2
    <3>3. CASE n # m + 1
      <4>1. n \in 1..m /\ g[n] = f[n]
        BY <3>0, <3>3
      <4> QED
        BY <2>1, <3>1, <4>1 DEF Iterates
    <3> QED
      BY <3>2, <3>3
  <2>5. g[0] = base
    BY <2>1 DEF Iterates
  <2>6. Upto(g, m + 1)
    <3> HIDE DEF g
    <3> QED
      BY <2>3, <2>4, <2>5 DEF Iterates
  <2> HIDE DEF Upto
  <2> QED
    BY <2>6
<1> HIDE DEF Upto
<1>3. Nat \subseteq S
  <2> HIDE DEF S
  <2> QED
    BY <1>1, <1>2, Induction
<1> QED
  BY <1>3 DEF Upto

(***************************************************************************)
(* Scripts: which step comes right after which.                            *)
(***************************************************************************)

Steps ==
  {"allocate", "append", "checkCred", "checkEmpty", "countEvents", "countRows", "deleteCreds",
   "deleteRest", "dispatch", "dropHook", "ensureIssuer", "ensureTenant", "fetch", "findCred",
   "findHolder", "findHook", "findIssuer", "flush", "get", "insert", "insertHook", "makeIssuer",
   "readAgents", "readBits", "readBoard", "readEvents", "readHistory", "readIssuer", "readKeys", "readList",
   "readNewest", "record", "refetch", "register", "reply", "resolve", "rotate", "seedAgents",
   "seedCart", "seedCreds", "seedEvents", "seedIntent", "seedRevoked", "seedTree", "set",
   "setRevoked", "sign", "spend", "stamp", "store", "walkChain"}

AttestSteps == {"findHolder", "ensureTenant", "register", "refetch", "allocate", "sign"} \cup AuditSteps

\* Only a peer takes these.
PeerSteps == {"get", "fetch", "set"}

\* Step y of a handler of kind k may stand right before step x: what x works on, y has
\* left behind.
Leads(k, y, x) ==
  /\ k # "peer" => x \notin PeerSteps
  /\ x = "rotate" => y = "readKeys"
  /\ x = "setRevoked" => y = "readBits"
  /\ x = "stamp" => y = "readNewest"
  /\ x = "append" => y = "stamp"
  /\ x = "store" => y = "sign"
  /\ k = "attest" /\ x = "allocate" => y \in {"findHolder", "register", "refetch"}
  /\ k = "attest" /\ x = "sign" => y = "allocate"

\* Steps that some other has to prepare, or that are none of this kind.
Awaits(k, x) ==
  \/ k # "peer" /\ x \in PeerSteps
  \/ x \in {"rotate", "setRevoked", "stamp", "append", "store"}
  \/ k = "attest" /\ x \in {"allocate", "sign"}

\* Steps that prepare another one.
Prepares(k, y) ==
  \/ y \in {"readKeys", "readBits", "readNewest", "stamp", "sign"}
  \/ k = "attest" /\ y \in {"findHolder", "register", "refetch", "allocate"}

Ordered(k, t) == \A i \in 2..Len(t) : Leads(k, t[i - 1], t[i])

\* Whoever seeds agents has the tree before it.
TreeComes(t) == \A j \in 1..Len(t) : t[j] = "seedAgents" => \E i \in j + 1..Len(t) : t[i] = "seedTree"

\* What is left of one agent of the roster, and then the turn to the next one.
Inner == {"ensureTenant", "insert"} \cup AuditSteps
AmidRoster(t) ==
  \E j \in 1..Len(t) : t[j] = "seedAgents" /\ \A i \in 1..j - 1 : t[i] \in Inner

\* The script t of a handler of kind k that works for the SPIFFE ID s.
Scripted(k, s, t) ==
  /\ t \in Seq(Steps) /\ t # <<>>
  /\ Ordered(k, t)
  /\ k = "attest" => \A i \in 1..Len(t) : t[i] \in AttestSteps
  /\ k = "seed" => TreeComes(t) /\ (s # None => AmidRoster(t))
  /\ k # "seed" => \A i \in 1..Len(t) : t[i] # "seedAgents"
  /\ k \notin {"attest", "seed"} => s = None

\* What a step is followed by needs no preparation, unless the step prepares it.
LEMMA NextIsReady ==
  ASSUME NEW k, NEW y, NEW x, Leads(k, y, x), ~Prepares(k, y)
  PROVE  ~Awaits(k, x)
BY DEF Leads, Prepares, Awaits, PeerSteps

\* A step that needs none may come after any other.
LEMMA LeadsToReady ==
  ASSUME NEW k, NEW y, NEW x, ~Awaits(k, x)
  PROVE  Leads(k, y, x)
BY DEF Leads, Awaits, PeerSteps

\* The rest of a script is one, unless the agent's turn ends.
LEMMA TailScripted ==
  ASSUME NEW k, NEW s, NEW t, Scripted(k, s, t), Tail(t) # <<>>,
         k = "seed" /\ s # None => Head(t) # "seedAgents"
  PROVE  Scripted(k, s, Tail(t)) /\ Leads(k, Head(t), Head(Tail(t)))
<1> DEFINE u == Tail(t)
<1>1. /\ t \in Seq(Steps) /\ t # <<>> /\ Len(t) \in Nat /\ Head(t) = t[1]
      /\ u \in Seq(Steps) /\ Len(u) = Len(t) - 1 /\ \A i \in 1..Len(u) : u[i] = t[i + 1]
  BY DEF Scripted
<1>2. u # <<>> /\ Len(u) \in Nat \ {0} /\ Head(u) = u[1] /\ u[1] = t[2] /\ 2 \in 2..Len(t)
  BY <1>1
<1> HIDE DEF u
<1>3. Ordered(k, u) /\ Leads(k, Head(t), Head(u))
  <2>1. Leads(k, t[2 - 1], t[2])
    BY <1>2 DEF Scripted, Ordered
  <2>2. ASSUME NEW i \in 2..Len(u) PROVE Leads(k, u[i - 1], u[i])
    <3>1. i \in 1..Len(u) /\ i - 1 \in 1..Len(u) /\ i + 1 \in 2..Len(t) /\ (i - 1) + 1 = (i + 1) - 1
      BY <1>1, <1>2
    <3>2. u[i] = t[i + 1] /\ u[i - 1] = t[(i + 1) - 1]
      BY <1>1, <3>1
    <3>3. Leads(k, t[(i + 1) - 1], t[i + 1])
      BY <3>1 DEF Scripted, Ordered
    <3> QED
      BY <3>2, <3>3, Zenon
  <2> QED
    BY <1>1, <1>2, <2>1, <2>2 DEF Ordered
<1>4. k = "attest" => \A i \in 1..Len(u) : u[i] \in AttestSteps
  <2> SUFFICES ASSUME k = "attest", NEW i \in 1..Len(u) PROVE u[i] \in AttestSteps
    OBVIOUS
  <2>1. i + 1 \in 1..Len(t)
    BY <1>1
  <2>2. t[i + 1] \in AttestSteps
    BY <2>1, Zenon DEF Scripted
  <2> QED
    BY <1>1, <2>2
<1>5. k # "seed" => \A i \in 1..Len(u) : u[i] # "seedAgents"
  <2> SUFFICES ASSUME k # "seed", NEW i \in 1..Len(u) PROVE u[i] # "seedAgents"
    OBVIOUS
  <2>1. i + 1 \in 1..Len(t)
    BY <1>1
  <2>2. t[i + 1] # "seedAgents"
    BY <2>1, Zenon DEF Scripted
  <2> QED
    BY <1>1, <2>2
<1>6. k = "seed" => TreeComes(u)
  <2> SUFFICES ASSUME k = "seed", NEW j \in 1..Len(u), u[j] = "seedAgents"
               PROVE  \E i \in j + 1..Len(u) : u[i] = "seedTree"
    BY DEF TreeComes
  <2>1. j + 1 \in 1..Len(t) /\ t[j + 1] = "seedAgents"
    BY <1>1
  <2>2. PICK i \in (j + 1) + 1..Len(t) : t[i] = "seedTree"
    BY <2>1 DEF Scripted, TreeComes
  <2>3. i - 1 \in j + 1..Len(u) /\ i - 1 \in 1..Len(u) /\ (i - 1) + 1 = i
    BY <1>1
  <2> QED
    BY <1>1, <2>2, <2>3
<1>7. k = "seed" /\ s # None => AmidRoster(u)
  <2> SUFFICES ASSUME k = "seed", s # None PROVE AmidRoster(u)
    OBVIOUS
  <2>1. PICK j \in 1..Len(t) : t[j] = "seedAgents" /\ \A i \in 1..j - 1 : t[i] \in Inner
    BY DEF Scripted, AmidRoster
  <2>2. j # 1
    BY <1>1, <2>1
  <2>3. j - 1 \in 1..Len(u) /\ (j - 1) + 1 = j
    BY <1>1, <2>2
  <2>4. u[j - 1] = "seedAgents"
    BY <1>1, <2>1, <2>3
  <2>5. ASSUME NEW i \in 1..(j - 1) - 1 PROVE u[i] \in Inner
    <3>1. i + 1 \in 1..j - 1 /\ i \in 1..Len(u)
      BY <1>1, <2>3
    <3> QED
      BY <1>1, <2>1, <3>1
  <2> QED
    BY <2>3, <2>4, <2>5 DEF AmidRoster
<1> QED
  BY <1>1, <1>2, <1>3, <1>4, <1>5, <1>6, <1>7 DEF Scripted, u

\* Steps that a handler puts before the rest of its script.
Inserted(k, s, w) ==
  /\ w \in Seq(Steps) /\ w # <<>>
  /\ Ordered(k, w)
  /\ k = "attest" => \A i \in 1..Len(w) : w[i] \in AttestSteps
  /\ \A i \in 1..Len(w) : w[i] # "seedAgents"
  /\ k = "seed" /\ s # None => \A i \in 1..Len(w) : w[i] \in Inner

\* What the two parts of a sequence say of the whole.
LEMMA Concatenated ==
  ASSUME NEW A, NEW w \in Seq(A), NEW u \in Seq(A)
  PROVE  /\ w \o u \in Seq(A) /\ Len(w \o u) = Len(w) + Len(u)
         /\ Len(w) \in Nat /\ Len(u) \in Nat
         /\ \A i \in 1..Len(w) : (w \o u)[i] = w[i]
         /\ \A i \in 1..Len(u) : (w \o u)[Len(w) + i] = u[i]
         /\ \A i \in Len(w) + 1..Len(w) + Len(u) : (w \o u)[i] = u[i - Len(w)]
OBVIOUS

\* One member put before others.
LEMMA OneBefore ==
  ASSUME NEW A, NEW a \in A, NEW u \in Seq(A)
  PROVE  <<a>> \o u \in Seq(A) /\ <<a>> \o u # <<>> /\ Head(<<a>> \o u) = a /\ Tail(<<a>> \o u) = u
<1> DEFINE t == <<a>> \o u
           v == Tail(t)
<1>1. /\ t \in Seq(A) /\ Len(t) = 1 + Len(u) /\ Len(u) \in Nat /\ t[1] = a
      /\ \A i \in 1..Len(u) : t[1 + i] = u[i]
  <2>1. <<a>> \in Seq(A) /\ Len(<<a>>) = 1 /\ <<a>>[1] = a
    OBVIOUS
  <2>2. PICK w : w = <<a>>
    OBVIOUS
  <2>3. w \in Seq(A) /\ Len(w) = 1 /\ w[1] = a
    BY <2>1, <2>2
  <2>4. /\ w \o u \in Seq(A) /\ Len(w \o u) = Len(w) + Len(u) /\ Len(u) \in Nat
        /\ \A i \in 1..Len(w) : (w \o u)[i] = w[i]
        /\ \A i \in 1..Len(u) : (w \o u)[Len(w) + i] = u[i]
    BY <2>3, Concatenated
  <2> QED
    BY <2>2, <2>3, <2>4
<1> HIDE DEF t
<1>2. t # <<>> /\ Head(t) = a /\ v \in Seq(A) /\ Len(v) = Len(u) /\ \A i \in 1..Len(v) : v[i] = t[i + 1]
  <2>1. Len(t) # 0
    BY <1>1
  <2> QED
    BY <1>1, <2>1
<1> HIDE DEF v
<1>3. \A i \in 1..Len(v) : v[i] = u[i]
  BY <1>1, <1>2
<1>4. v = u
  BY <1>2, <1>3
<1> QED
  BY <1>1, <1>2, <1>4 DEF t, v

\* A sequence is its head before its tail.
LEMMA HeadBefore ==
  ASSUME NEW A, NEW t \in Seq(A), t # <<>>
  PROVE  <<Head(t)>> \o Tail(t) = t
<1> DEFINE y == <<Head(t)>> \o Tail(t)
<1>1. Head(t) \in A /\ Tail(t) \in Seq(A)
  OBVIOUS
<1>2. y \in Seq(A) /\ y # <<>> /\ Head(y) = Head(t) /\ Tail(y) = Tail(t)
  BY <1>1, OneBefore
<1> HIDE DEF y
<1>3. /\ Len(t) \in Nat \ {0} /\ Len(Tail(t)) = Len(t) - 1 /\ t[1] = Head(t)
      /\ \A i \in 1..Len(Tail(t)) : Tail(t)[i] = t[i + 1]
  OBVIOUS
<1>4. /\ Len(y) \in Nat \ {0} /\ Len(Tail(y)) = Len(y) - 1 /\ y[1] = Head(y)
      /\ \A i \in 1..Len(Tail(y)) : Tail(y)[i] = y[i + 1]
  BY <1>2
<1>5. Len(y) = Len(t)
  <2>1. PICK n, m : n = Len(y) /\ m = Len(t)
    OBVIOUS
  <2>2. n \in Nat /\ m \in Nat /\ n - 1 = m - 1
    BY <1>2, <1>3, <1>4, <2>1
  <2> QED
    BY <2>1, <2>2
<1>6. ASSUME NEW i \in 1..Len(y) PROVE y[i] = t[i]
  <2>1. CASE i = 1
    BY <1>2, <1>3, <1>4, <2>1
  <2>2. CASE i # 1
    <3>1. i - 1 \in 1..Len(Tail(t)) /\ (i - 1) + 1 = i
      BY <1>3, <1>5, <2>2
    <3> QED
      BY <1>2, <1>3, <1>4, <3>1
  <2> QED
    BY <2>1, <2>2
<1>7. y = t
  BY <1>2, <1>5, <1>6, SeqEqual
<1> QED
  BY <1>7 DEF y

\* A property of the steps of both parts is one of all steps.
LEMMA BothParts ==
  ASSUME NEW A, NEW w \in Seq(A), NEW u \in Seq(A), NEW B,
         \A i \in 1..Len(w) : w[i] \in B, \A i \in 1..Len(u) : u[i] \in B
  PROVE  \A i \in 1..Len(w \o u) : (w \o u)[i] \in B
<1> SUFFICES ASSUME NEW i \in 1..Len(w \o u) PROVE (w \o u)[i] \in B
  OBVIOUS
<1>1. CASE i \in 1..Len(w)
  BY <1>1, Concatenated
<1>2. CASE i \notin 1..Len(w)
  <2>1. i \in Len(w) + 1..Len(w) + Len(u) /\ i - Len(w) \in 1..Len(u)
    BY <1>2, Concatenated
  <2> QED
    BY <2>1, Concatenated
<1> QED
  BY <1>1, <1>2

\* Two ordered parts that fit together are in order.
LEMMA OrderedConcat ==
  ASSUME NEW k, NEW w \in Seq(Steps), NEW u \in Seq(Steps), w # <<>>, u # <<>>,
         Ordered(k, w), Ordered(k, u), Leads(k, w[Len(w)], Head(u))
  PROVE  Ordered(k, w \o u)
<1> DEFINE v == w \o u
<1>1. /\ Len(v) = Len(w) + Len(u) /\ Len(w) \in Nat \ {0} /\ Len(u) \in Nat \ {0} /\ Head(u) = u[1]
      /\ \A i \in 1..Len(w) : v[i] = w[i]
      /\ \A i \in Len(w) + 1..Len(w) + Len(u) : v[i] = u[i - Len(w)]
  BY Concatenated
<1> HIDE DEF v
<1> SUFFICES ASSUME NEW i \in 2..Len(v) PROVE Leads(k, v[i - 1], v[i])
  BY DEF Ordered, v
<1>2. CASE i \in 2..Len(w)
  <2>1. i \in 1..Len(w) /\ i - 1 \in 1..Len(w)
    BY <1>1, <1>2
  <2>2. v[i] = w[i] /\ v[i - 1] = w[i - 1]
    BY <1>1, <2>1
  <2> QED
    BY <1>2, <2>2 DEF Ordered
<1>3. CASE i = Len(w) + 1
  <2>1. i - 1 = Len(w) /\ Len(w) \in 1..Len(w) /\ i \in Len(w) + 1..Len(w) + Len(u) /\ i - Len(w) = 1
    BY <1>1, <1>3
  <2>2. v[i - 1] = w[Len(w)] /\ v[i] = Head(u)
    BY <1>1, <2>1
  <2> QED
    BY <2>2, Zenon
<1>4. CASE i > Len(w) + 1
  <2>1. /\ i \in Len(w) + 1..Len(w) + Len(u) /\ i - 1 \in Len(w) + 1..Len(w) + Len(u)
        /\ i - Len(w) \in 2..Len(u) /\ (i - 1) - Len(w) = (i - Len(w)) - 1
    BY <1>1, <1>4
  <2>2. v[i] = u[i - Len(w)] /\ v[i - 1] = u[(i - Len(w)) - 1]
    BY <1>1, <2>1
  <2>3. Leads(k, u[(i - Len(w)) - 1], u[i - Len(w)])
    BY <2>1 DEF Ordered
  <2> QED
    BY <2>2, <2>3, Zenon
<1> QED
  BY <1>1, <1>2, <1>3, <1>4

\* Steps may be put before a script that they lead to.
LEMMA InsertScripted ==
  ASSUME NEW k, NEW s, NEW w, NEW u, Inserted(k, s, w), Scripted(k, s, u), Leads(k, w[Len(w)], Head(u))
  PROVE  Scripted(k, s, w \o u)
<1> DEFINE v == w \o u
<1>1. w \in Seq(Steps) /\ w # <<>> /\ u \in Seq(Steps) /\ u # <<>> /\ Ordered(k, w) /\ Ordered(k, u)
  BY DEF Inserted, Scripted
<1>2. /\ v \in Seq(Steps) /\ Len(v) = Len(w) + Len(u) /\ Len(w) \in Nat /\ Len(u) \in Nat
      /\ \A i \in 1..Len(w) : v[i] = w[i]
      /\ \A i \in Len(w) + 1..Len(w) + Len(u) : v[i] = u[i - Len(w)]
      /\ \A i \in 1..Len(u) : v[Len(w) + i] = u[i]
  BY <1>1, Concatenated
<1>3. v # <<>>
  BY <1>1, <1>2
<1>4. Ordered(k, v)
  BY <1>1, OrderedConcat
<1>5. k = "attest" => \A i \in 1..Len(v) : v[i] \in AttestSteps
  BY <1>1, BothParts DEF Inserted, Scripted
<1> HIDE DEF v
<1>6. k # "seed" => \A i \in 1..Len(v) : v[i] # "seedAgents"
  <2> SUFFICES ASSUME k # "seed", NEW i \in 1..Len(v) PROVE v[i] # "seedAgents"
    OBVIOUS
  <2>1. CASE i \in 1..Len(w)
    BY <1>2, <2>1 DEF Inserted
  <2>2. CASE i \notin 1..Len(w)
    <3>1. i \in Len(w) + 1..Len(w) + Len(u) /\ i - Len(w) \in 1..Len(u)
      BY <1>2, <2>2
    <3> QED
      BY <1>2, <3>1 DEF Scripted
  <2> QED
    BY <2>1, <2>2
<1>7. k = "seed" => TreeComes(v)
  <2> SUFFICES ASSUME k = "seed", NEW j \in 1..Len(v), v[j] = "seedAgents"
               PROVE  \E i \in j + 1..Len(v) : v[i] = "seedTree"
    BY DEF TreeComes
  <2>1. j \notin 1..Len(w)
    BY <1>2 DEF Inserted
  <2>2. j \in Len(w) + 1..Len(w) + Len(u) /\ j - Len(w) \in 1..Len(u)
    BY <1>2, <2>1
  <2>3. u[j - Len(w)] = "seedAgents"
    BY <1>2, <2>2
  <2>4. PICK i \in (j - Len(w)) + 1..Len(u) : u[i] = "seedTree"
    BY <2>2, <2>3 DEF Scripted, TreeComes
  <2>5. i \in 1..Len(u) /\ Len(w) + i \in j + 1..Len(v)
    BY <1>2, <2>2
  <2> QED
    BY <1>2, <2>4, <2>5
<1>8. k = "seed" /\ s # None => AmidRoster(v)
  <2> SUFFICES ASSUME k = "seed", s # None PROVE AmidRoster(v)
    OBVIOUS
  <2>1. PICK j \in 1..Len(u) : u[j] = "seedAgents" /\ \A i \in 1..j - 1 : u[i] \in Inner
    BY DEF Scripted, AmidRoster
  <2>2. Len(w) + j \in 1..Len(v) /\ v[Len(w) + j] = "seedAgents"
    BY <1>2, <2>1
  <2>3. ASSUME NEW i \in 1..(Len(w) + j) - 1 PROVE v[i] \in Inner
    <3>1. CASE i \in 1..Len(w)
      BY <1>2, <3>1 DEF Inserted
    <3>2. CASE i \notin 1..Len(w)
      <4>1. i \in Len(w) + 1..Len(w) + Len(u) /\ i - Len(w) \in 1..j - 1
        BY <1>2, <3>2
      <4> QED
        BY <1>2, <2>1, <4>1
    <3> QED
      BY <3>1, <3>2
  <2> QED
    BY <2>2, <2>3 DEF AmidRoster
<1> QED
  BY <1>2, <1>3, <1>4, <1>5, <1>6, <1>7, <1>8 DEF Scripted, v

\* Steps alone are a script too, but for an agent's turn.
LEMMA InsertedAlone ==
  ASSUME NEW k, NEW s, NEW w, Inserted(k, s, w), ~(k = "seed" /\ s # None), k \notin {"attest", "seed"} => s = None
  PROVE  Scripted(k, s, w)
BY DEF Inserted, Scripted, TreeComes

\* The script from the next of the given steps on is a script, or empty.
LEMMA FromIs ==
  ASSUME NEW t \in Seq(Steps), NEW S, From(t, S) # <<>>
  PROVE  \E m \in 2..Len(t) : /\ t[m] \in S /\ \A i \in 2..m - 1 : t[i] \notin S
                              /\ From(t, S) = SubSeq(t, m, Len(t))
<1> DEFINE next == {i \in 2..Len(t) : t[i] \in S}
<1>1. next # {} /\ From(t, S) = SubSeq(t, Min(next), Len(t))
  BY DEF From
<1>2. PICK n \in next : \A i \in next : n <= i
  <2>1. next \subseteq Nat
    OBVIOUS
  <2> HIDE DEF next
  <2> QED
    BY <1>1, <2>1, Least
<1>3. Min(next) \in next /\ \A i \in next : Min(next) <= i
  BY <1>2 DEF Min
<1>4. PICK m : m = Min(next)
  OBVIOUS
<1>5. m \in 2..Len(t) /\ t[m] \in S
  BY <1>3, <1>4
<1>6. ASSUME NEW i \in 2..m - 1 PROVE t[i] \notin S
  <2>1. i \in 2..Len(t) /\ ~(m <= i)
    BY <1>5
  <2> QED
    BY <1>3, <1>4, <2>1
<1> QED
  BY <1>1, <1>4, <1>5, <1>6

\* A later part of a script is one.
LEMMA SuffixScripted ==
  ASSUME NEW k, NEW s, NEW t, Scripted(k, s, t), NEW m \in 2..Len(t),
         k = "seed" /\ s # None => AmidRoster(SubSeq(t, m, Len(t)))
  PROVE  Scripted(k, s, SubSeq(t, m, Len(t))) /\ Head(SubSeq(t, m, Len(t))) = t[m]
<1> DEFINE u == SubSeq(t, m, Len(t))
<1>1. t \in Seq(Steps) /\ Len(t) \in Nat
  BY DEF Scripted
<1>2. /\ u \in Seq(Steps) /\ Len(u) = Len(t) - m + 1 /\ Len(u) \in Nat
      /\ \A i \in 1..Len(u) : u[i] = t[i + m - 1]
  BY <1>1
<1> HIDE DEF u
<1>3. u # <<>> /\ Head(u) = t[m]
  <2>1. Len(u) >= 1 /\ 1 \in 1..Len(u) /\ 1 + m - 1 = m
    BY <1>1, <1>2
  <2>2. u[1] = t[m]
    BY <1>2, <2>1
  <2> QED
    BY <1>2, <2>1, <2>2
<1>4. Ordered(k, u)
  <2> SUFFICES ASSUME NEW i \in 2..Len(u) PROVE Leads(k, u[i - 1], u[i])
    BY DEF Ordered
  <2>1. /\ i \in 1..Len(u) /\ i - 1 \in 1..Len(u) /\ i + m - 1 \in 2..Len(t)
        /\ (i - 1) + m - 1 = (i + m - 1) - 1
    BY <1>1, <1>2
  <2>2. u[i] = t[i + m - 1] /\ u[i - 1] = t[(i + m - 1) - 1]
    BY <1>2, <2>1
  <2>3. Leads(k, t[(i + m - 1) - 1], t[i + m - 1])
    BY <2>1 DEF Scripted, Ordered
  <2> QED
    BY <2>2, <2>3, Zenon
<1>5. ASSUME NEW i \in 1..Len(u) PROVE i + m - 1 \in 1..Len(t) /\ u[i] = t[i + m - 1]
  BY <1>1, <1>2
<1>6. k = "attest" => \A i \in 1..Len(u) : u[i] \in AttestSteps
  BY <1>5, Zenon DEF Scripted
<1>7. k # "seed" => \A i \in 1..Len(u) : u[i] # "seedAgents"
  BY <1>5, Zenon DEF Scripted
<1>8. k = "seed" => TreeComes(u)
  <2> SUFFICES ASSUME k = "seed", NEW j \in 1..Len(u), u[j] = "seedAgents"
               PROVE  \E i \in j + 1..Len(u) : u[i] = "seedTree"
    BY DEF TreeComes
  <2>1. j + m - 1 \in 1..Len(t) /\ t[j + m - 1] = "seedAgents"
    BY <1>5
  <2>2. PICK i \in (j + m - 1) + 1..Len(t) : t[i] = "seedTree"
    BY <2>1 DEF Scripted, TreeComes
  <2>3. i - m + 1 \in j + 1..Len(u) /\ i - m + 1 \in 1..Len(u) /\ (i - m + 1) + m - 1 = i
    BY <1>1, <1>2
  <2> QED
    BY <1>5, <2>2, <2>3
<1>9. k = "seed" /\ s # None => AmidRoster(u)
  BY DEF u
<1> QED
  BY <1>2, <1>3, <1>4, <1>6, <1>7, <1>8, <1>9 DEF Scripted, u

\* ... and what an agent's turn fails with leads to the next turn.
LEMMA FromScripted ==
  ASSUME NEW k, NEW s, NEW t, Scripted(k, s, t), NEW S, From(t, S) # <<>>,
         k = "seed" /\ s # None => "seedAgents" \in S /\ S \cap Inner = {} /\ Head(t) # "seedAgents"
  PROVE  Scripted(k, s, From(t, S)) /\ Head(From(t, S)) \in S
<1>1. t \in Seq(Steps) /\ t # <<>> /\ Len(t) \in Nat /\ Head(t) = t[1]
  BY DEF Scripted
<1>2. PICK m \in 2..Len(t) : /\ t[m] \in S /\ \A i \in 2..m - 1 : t[i] \notin S
                             /\ From(t, S) = SubSeq(t, m, Len(t))
  BY <1>1, FromIs
<1>3. k = "seed" /\ s # None => AmidRoster(SubSeq(t, m, Len(t)))
  <2> SUFFICES ASSUME k = "seed", s # None PROVE AmidRoster(SubSeq(t, m, Len(t)))
    OBVIOUS
  <2>1. PICK j \in 1..Len(t) : t[j] = "seedAgents" /\ \A i \in 1..j - 1 : t[i] \in Inner
    BY DEF Scripted, AmidRoster
  <2>2. j # 1 /\ j \in 2..Len(t)
    BY <1>1, <2>1
  <2>3. ~(m < j)
    <3> SUFFICES ASSUME m < j PROVE FALSE
      OBVIOUS
    <3>1. m \in 1..j - 1
      BY <1>1
    <3> QED
      BY <1>2, <2>1, <3>1
  <2>4. ~(j < m)
    <3> SUFFICES ASSUME j < m PROVE FALSE
      OBVIOUS
    <3>1. j \in 2..m - 1
      BY <1>1, <2>2
    <3> QED
      BY <1>2, <2>1, <3>1
  <2>5. j = m
    BY <1>1, <2>3, <2>4
  <2> DEFINE u == SubSeq(t, m, Len(t))
  <2>6. 1 \in 1..Len(u) /\ u[1] = "seedAgents"
    BY <1>1, <2>1, <2>5
  <2>7. \A i \in 1..1 - 1 : u[i] \in Inner
    OBVIOUS
  <2> QED
    BY <2>6, <2>7 DEF AmidRoster
<1>4. Scripted(k, s, SubSeq(t, m, Len(t))) /\ Head(SubSeq(t, m, Len(t))) = t[m]
  BY <1>3, SuffixScripted
<1> QED
  BY <1>2, <1>4

-----------------------------------------------------------------------------
(* The scripts of the handlers.                                            *)

\* A part of a script: in order, from step a to step z, of steps in B.
Fragment(k, w, a, z, B) ==
  /\ w \in Seq(Steps) /\ w # <<>> /\ Ordered(k, w)
  /\ Head(w) = a /\ w[Len(w)] = z /\ \A i \in 1..Len(w) : w[i] \in B

\* Fragments of a script: of one step ...
LEMMA OneStep ==
  ASSUME NEW k, NEW x \in Steps, NEW B, x \in B
  PROVE  Fragment(k, <<x>>, x, x, B)
BY DEF Ordered, Fragment

\* ... and two that may follow one another, put together.
LEMMA TwoFragments ==
  ASSUME NEW k, NEW B, NEW w, NEW a, NEW z, NEW u, NEW b, NEW y,
         Fragment(k, w, a, z, B), Fragment(k, u, b, y, B), Leads(k, z, b)
  PROVE  Fragment(k, w \o u, a, y, B)
<1>1. w \in Seq(Steps) /\ w # <<>> /\ u \in Seq(Steps) /\ u # <<>> /\ Ordered(k, w) /\ Ordered(k, u)
  BY DEF Fragment
<1>2. Len(w) \in Nat \ {0} /\ Len(u) \in Nat \ {0} /\ Head(w) = w[1]
  BY <1>1
<1>3. Ordered(k, w \o u)
  BY <1>1, OrderedConcat DEF Fragment
<1>4. \A i \in 1..Len(w \o u) : (w \o u)[i] \in B
  BY <1>1, BothParts DEF Fragment
<1>5. /\ w \o u \in Seq(Steps) /\ Len(w \o u) = Len(w) + Len(u)
      /\ (w \o u)[1] = w[1] /\ (w \o u)[Len(w) + Len(u)] = u[Len(u)]
  <2>1. 1 \in 1..Len(w) /\ Len(u) \in 1..Len(u)
    BY <1>2
  <2> QED
    BY <1>1, <2>1, Concatenated
<1>6. w \o u # <<>> /\ Head(w \o u) = (w \o u)[1]
  BY <1>2, <1>5
<1> QED
  BY <1>1, <1>2, <1>3, <1>4, <1>5, <1>6, Zenon DEF Fragment

\* A step that needs no preparation goes before any fragment that needs none.
LEMMA OneMore ==
  ASSUME NEW k, NEW B, NEW x \in Steps, x \in B, NEW u, NEW b, NEW y,
         Fragment(k, u, b, y, B), Leads(k, x, b)
  PROVE  Fragment(k, <<x>> \o u, x, y, B)
BY OneStep, TwoFragments

\* write_audit is a fragment.
LEMMA AuditFragment ==
  ASSUME NEW k, NEW B, AuditSteps \subseteq B
  PROVE  Fragment(k, Audit, "readNewest", "append", B)
<1>1. Audit \in Seq(Steps) /\ Audit # <<>> /\ Len(Audit) = 3 /\ Head(Audit) = "readNewest"
  BY DEF Audit, Steps
<1>2. Audit[1] = "readNewest" /\ Audit[2] = "stamp" /\ Audit[3] = "append"
  BY DEF Audit
<1>3. Leads(k, "readNewest", "stamp") /\ Leads(k, "stamp", "append")
  BY DEF Leads, PeerSteps
<1>4. \A i \in 2..3 : i - 1 \in 1..2 /\ (i = 2 \/ i = 3)
  OBVIOUS
<1>5. Ordered(k, Audit)
  BY <1>1, <1>2, <1>3, <1>4 DEF Ordered
<1>6. \A i \in 1..3 : i = 1 \/ i = 2 \/ i = 3
  OBVIOUS
<1> QED
  BY <1>1, <1>2, <1>5, <1>6 DEF AuditSteps, Fragment

\* Two steps, one after the other.
LEMMA TwoSteps ==
  ASSUME NEW k, NEW B, NEW x \in Steps, NEW y \in Steps, x \in B, y \in B, Leads(k, x, y)
  PROVE  Fragment(k, <<x, y>>, x, y, B)
<1> DEFINE w == <<x, y>>
<1>1. w \in Seq(Steps) /\ w # <<>> /\ Len(w) = 2 /\ Head(w) = x /\ w[1] = x /\ w[2] = y
  OBVIOUS
<1> HIDE DEF w
<1>2. Ordered(k, w)
  BY <1>1 DEF Ordered
<1>3. \A i \in 1..2 : i = 1 \/ i = 2
  OBVIOUS
<1> QED
  BY <1>1, <1>2, <1>3 DEF Fragment, w

\* Fragments of three steps ...
LEMMA ThreeSteps ==
  ASSUME NEW k, NEW B, NEW x \in Steps, NEW y \in Steps, NEW z \in Steps, x \in B, y \in B, z \in B,
         Leads(k, x, y), Leads(k, y, z)
  PROVE  Fragment(k, <<x, y, z>>, x, z, B)
<1> DEFINE w == <<x, y, z>>
<1>1. /\ w \in Seq(Steps) /\ w # <<>> /\ Len(w) = 3 /\ Head(w) = x
      /\ w[1] = x /\ w[2] = y /\ w[3] = z
  OBVIOUS
<1> HIDE DEF w
<1>2. Ordered(k, w)
  BY <1>1 DEF Ordered
<1>3. \A i \in 1..3 : i = 1 \/ i = 2 \/ i = 3
  OBVIOUS
<1> QED
  BY <1>1, <1>2, <1>3 DEF Fragment, w

\* ... and of four.
LEMMA FourSteps ==
  ASSUME NEW k, NEW B, NEW x \in Steps, NEW y \in Steps, NEW z \in Steps, NEW v \in Steps,
         x \in B, y \in B, z \in B, v \in B, Leads(k, x, y), Leads(k, y, z), Leads(k, z, v)
  PROVE  Fragment(k, <<x, y, z, v>>, x, v, B)
<1> DEFINE w == <<x, y, z, v>>
<1>1. /\ w \in Seq(Steps) /\ w # <<>> /\ Len(w) = 4 /\ Head(w) = x
      /\ w[1] = x /\ w[2] = y /\ w[3] = z /\ w[4] = v
  OBVIOUS
<1> HIDE DEF w
<1>2. Ordered(k, w)
  BY <1>1 DEF Ordered
<1>3. \A i \in 1..4 : i = 1 \/ i = 2 \/ i = 3 \/ i = 4
  OBVIOUS
<1> QED
  BY <1>1, <1>2, <1>3 DEF Fragment, w

\* Steps none of which needs preparation are in order.
LEMMA PlainOrdered ==
  ASSUME NEW k, NEW t, \A i \in 1..Len(t) : ~Awaits(k, t[i]), t \in Seq(Steps)
  PROVE  Ordered(k, t)
<1> SUFFICES ASSUME NEW i \in 2..Len(t) PROVE Leads(k, t[i - 1], t[i])
  BY DEF Ordered
<1>1. i \in 1..Len(t)
  OBVIOUS
<1> QED
  BY <1>1, LeadsToReady

Plain == Steps \ {"seedAgents"}

\* The parts that scripts are made of, for any kind of request but an attestation.
LEMMA Parts ==
  ASSUME NEW k, k # "attest"
  PROVE  /\ Fragment(k, Audit, "readNewest", "append", Plain)
         /\ Fragment(k, Check, "resolve", "resolve", Plain)
         /\ k = "peer" => Fragment(k, CheckAtPeer, "get", "get", Plain)
         /\ Fragment(k, Signing, "sign", "store", Plain)
         /\ Fragment(k, SetBit, "readBits", "setRevoked", Plain)
         /\ Fragment(k, SeededAgent, "ensureTenant", "insert", Plain)
         /\ Fragment(k, SeededCredential, "allocate", "store", Plain)
<1>1. /\ {"resolve", "readList", "ensureIssuer"} \subseteq Steps /\ {"get", "sign", "store"} \subseteq Steps
      /\ {"ensureTenant", "insert", "allocate"} \subseteq Steps /\ AuditSteps \subseteq Plain
      /\ {"readBits", "setRevoked"} \subseteq Steps
  BY DEF Steps, AuditSteps, Plain
<1>2. /\ {"resolve", "readList", "ensureIssuer"} \subseteq Plain /\ {"get", "sign", "store"} \subseteq Plain
      /\ {"ensureTenant", "insert", "allocate"} \subseteq Plain /\ {"readBits", "setRevoked"} \subseteq Plain
  BY <1>1 DEF Plain
<1>3. /\ Leads(k, "resolve", "readList") /\ Leads(k, "readList", "ensureIssuer")
      /\ Leads(k, "ensureIssuer", "resolve") /\ Leads(k, "get", "readList")
      /\ (k = "peer" => Leads(k, "ensureIssuer", "get")) /\ Leads(k, "sign", "store")
      /\ Leads(k, "ensureTenant", "insert") /\ Leads(k, "allocate", "sign") /\ Leads(k, "readBits", "setRevoked")
  BY DEF Leads, PeerSteps
<1>4. Fragment(k, Audit, "readNewest", "append", Plain)
  BY <1>1, AuditFragment
<1>5. Fragment(k, Check, "resolve", "resolve", Plain)
  BY <1>1, <1>2, <1>3, FourSteps DEF Check
<1>6. k = "peer" => Fragment(k, CheckAtPeer, "get", "get", Plain)
  BY <1>1, <1>2, <1>3, FourSteps DEF CheckAtPeer
<1>7. Fragment(k, Signing, "sign", "store", Plain)
  BY <1>1, <1>2, <1>3, TwoSteps DEF Signing
<1>8. Fragment(k, SeededAgent, "ensureTenant", "insert", Plain)
  BY <1>1, <1>2, <1>3, TwoSteps DEF SeededAgent
<1>9. Fragment(k, SeededCredential, "allocate", "store", Plain)
  BY <1>1, <1>2, <1>3, <1>7, OneMore DEF SeededCredential
<1>10. Fragment(k, SetBit, "readBits", "setRevoked", Plain)
  BY <1>1, <1>2, <1>3, TwoSteps DEF SetBit
<1> QED
  BY <1>4, <1>5, <1>6, <1>7, <1>8, <1>9, <1>10

\* Kinds whose handlers are short.
LEMMA ShortHandlers ==
  ASSUME NEW k, k # "attest"
  PROVE  /\ Fragment(k, CreateAgent, "ensureTenant", "insert", Plain)
         /\ Fragment(k, RotateKey, "readKeys", "rotate", Plain)
         /\ Fragment(k, ComplianceReport, "countRows", "reply", Plain)
         /\ Fragment(k, RiskDashboard, "readAgents", "reply", Plain)
         /\ Fragment(k, DemoReset, "deleteCreds", "deleteRest", Plain)
         /\ Fragment(k, TestWebhook, "findHook", "reply", Plain)
         /\ Fragment(k, <<"flush">>, "flush", "flush", Plain)
<1>1. /\ {"readKeys", "rotate", "flush"} \subseteq Plain /\ {"countRows", "countEvents"} \subseteq Plain
      /\ {"walkChain", "reply", "readAgents", "readBoard"} \subseteq Plain
      /\ {"deleteCreds", "deleteRest"} \subseteq Plain /\ {"findHook", "dispatch"} \subseteq Plain
      /\ {"ensureTenant", "insert"} \subseteq Plain
  BY DEF Steps, Plain
<1>2. Plain \subseteq Steps
  BY DEF Plain
<1>3. /\ Leads(k, "readKeys", "rotate") /\ Leads(k, "countRows", "countEvents")
      /\ Leads(k, "countEvents", "walkChain") /\ Leads(k, "walkChain", "reply")
      /\ Leads(k, "readAgents", "readBoard") /\ Leads(k, "readBoard", "reply")
      /\ Leads(k, "deleteCreds", "deleteRest") /\ Leads(k, "findHook", "dispatch")
      /\ Leads(k, "dispatch", "reply") /\ Leads(k, "ensureTenant", "insert")
  BY DEF Leads, PeerSteps
<1>4. Fragment(k, CreateAgent, "ensureTenant", "insert", Plain)
  BY <1>1, <1>2, <1>3, TwoSteps DEF CreateAgent
<1>5. Fragment(k, RotateKey, "readKeys", "rotate", Plain)
  BY <1>1, <1>2, <1>3, TwoSteps DEF RotateKey
<1>6. Fragment(k, ComplianceReport, "countRows", "reply", Plain)
  BY <1>1, <1>2, <1>3, FourSteps DEF ComplianceReport
<1>7. Fragment(k, RiskDashboard, "readAgents", "reply", Plain)
  BY <1>1, <1>2, <1>3, ThreeSteps DEF RiskDashboard
<1>8. Fragment(k, DemoReset, "deleteCreds", "deleteRest", Plain)
  BY <1>1, <1>2, <1>3, TwoSteps DEF DemoReset
<1>9. Fragment(k, TestWebhook, "findHook", "reply", Plain)
  BY <1>1, <1>2, <1>3, ThreeSteps DEF TestWebhook
<1>10. Fragment(k, <<"flush">>, "flush", "flush", Plain)
  BY <1>1, <1>2, OneStep
<1> QED
  BY <1>4, <1>5, <1>6, <1>7, <1>8, <1>9, <1>10

\* Kinds whose handlers end with an audit event, and those that then dispatch.
LEMMA AuditedHandlers ==
  ASSUME NEW k, k # "attest"
  PROVE  /\ Fragment(k, Check \o Audit, "resolve", "append", Plain)
         /\ Fragment(k, AgentProfile, "readEvents", "append", Plain)
         /\ Fragment(k, CreateWebhook, "insertHook", "append", Plain)
         /\ Fragment(k, DeleteWebhook, "dropHook", "append", Plain)
         /\ Fragment(k, Revoke, "findCred", "dispatch", Plain)
         /\ Fragment(k, IssueCredential, "allocate", "dispatch", Plain)
         /\ Fragment(k, ScoreCredential, "resolve", "dispatch", Plain)
<1>1. /\ {"readEvents", "insertHook", "dropHook"} \subseteq Plain
      /\ {"findCred", "dispatch"} \subseteq Plain
      /\ {"allocate", "findIssuer"} \subseteq Plain
      /\ {"readIssuer", "readHistory", "record"} \subseteq Plain
  BY DEF Steps, Plain
<1>2. Plain \subseteq Steps
  BY DEF Plain
<1>3. /\ Leads(k, "resolve", "readNewest") /\ Leads(k, "readEvents", "readNewest")
      /\ Leads(k, "insertHook", "readNewest") /\ Leads(k, "dropHook", "readNewest")
      /\ Leads(k, "findCred", "readBits") /\ Leads(k, "setRevoked", "readNewest")
      /\ Leads(k, "append", "dispatch") /\ Leads(k, "allocate", "findIssuer")
      /\ Leads(k, "findIssuer", "sign") /\ Leads(k, "store", "readNewest")
      /\ Leads(k, "resolve", "readIssuer") /\ Leads(k, "readIssuer", "readHistory")
      /\ Leads(k, "readHistory", "record") /\ Leads(k, "record", "readNewest")
  BY DEF Leads, PeerSteps
<1>4. /\ Fragment(k, Audit, "readNewest", "append", Plain) /\ Fragment(k, Check, "resolve", "resolve", Plain)
      /\ Fragment(k, Signing, "sign", "store", Plain) /\ Fragment(k, SetBit, "readBits", "setRevoked", Plain)
  BY Parts
<1>5. Fragment(k, <<"dispatch">>, "dispatch", "dispatch", Plain)
  BY <1>1, <1>2, OneStep
<1>6. Fragment(k, Check \o Audit, "resolve", "append", Plain)
  BY <1>3, <1>4, TwoFragments
<1>7. Fragment(k, AgentProfile, "readEvents", "append", Plain)
  BY <1>1, <1>2, <1>3, <1>4, OneMore DEF AgentProfile
<1>8. Fragment(k, CreateWebhook, "insertHook", "append", Plain)
  BY <1>1, <1>2, <1>3, <1>4, OneMore DEF CreateWebhook
<1>9. Fragment(k, DeleteWebhook, "dropHook", "append", Plain)
  BY <1>1, <1>2, <1>3, <1>4, OneMore DEF DeleteWebhook
<1>10. Fragment(k, Revoke, "findCred", "dispatch", Plain)
  <2>1. Fragment(k, <<"findCred">> \o SetBit, "findCred", "setRevoked", Plain)
    BY <1>1, <1>2, <1>3, <1>4, OneMore
  <2>2. Fragment(k, <<"findCred">> \o SetBit \o Audit, "findCred", "append", Plain)
    BY <1>3, <1>4, <2>1, TwoFragments
  <2> QED
    BY <1>3, <1>5, <2>2, TwoFragments DEF Revoke
<1>11. Fragment(k, IssueCredential, "allocate", "dispatch", Plain)
  <2>1. Fragment(k, <<"allocate", "findIssuer">>, "allocate", "findIssuer", Plain)
    BY <1>1, <1>2, <1>3, TwoSteps
  <2>2. Fragment(k, <<"allocate", "findIssuer">> \o Signing, "allocate", "store", Plain)
    BY <1>3, <1>4, <2>1, TwoFragments
  <2>3. Fragment(k, <<"allocate", "findIssuer">> \o Signing \o Audit, "allocate", "append", Plain)
    BY <1>3, <1>4, <2>2, TwoFragments
  <2> QED
    BY <1>3, <1>5, <2>3, TwoFragments DEF IssueCredential
<1>12. Fragment(k, ScoreCredential, "resolve", "dispatch", Plain)
  <2>1. Fragment(k, <<"readIssuer", "readHistory", "record">>, "readIssuer", "record", Plain)
    BY <1>1, <1>2, <1>3, ThreeSteps
  <2>2. Fragment(k, Check \o <<"readIssuer", "readHistory", "record">>, "resolve", "record", Plain)
    BY <1>3, <1>4, <2>1, TwoFragments
  <2>3. Fragment(k, Check \o <<"readIssuer", "readHistory", "record">> \o Audit, "resolve", "append", Plain)
    BY <1>3, <1>4, <2>2, TwoFragments
  <2> QED
    BY <1>3, <1>5, <2>3, TwoFragments DEF ScoreCredential
<1> QED
  BY <1>6, <1>7, <1>8, <1>9, <1>10, <1>11, <1>12

\* The drift demo: two agents, a credential, and what becomes of its verification.
LEMMA DriftHandler ==
  ASSUME NEW k, k # "attest"
  PROVE  Fragment(k, DriftDemo, "ensureTenant", "resolve", Plain)
<1>1. /\ Fragment(k, CreateAgent, "ensureTenant", "insert", Plain)
      /\ Fragment(k, Signing, "sign", "store", Plain) /\ Fragment(k, Audit, "readNewest", "append", Plain)
      /\ Fragment(k, Check, "resolve", "resolve", Plain) /\ Fragment(k, SetBit, "readBits", "setRevoked", Plain)
  BY Parts, ShortHandlers
<1>2. "allocate" \in Plain /\ "allocate" \in Steps
  BY DEF Steps, Plain
<1>3. Fragment(k, <<"allocate">>, "allocate", "allocate", Plain)
  BY <1>2, OneStep
<1>4. /\ Leads(k, "insert", "ensureTenant") /\ Leads(k, "insert", "allocate") /\ Leads(k, "allocate", "sign")
      /\ Leads(k, "store", "readNewest") /\ Leads(k, "append", "resolve") /\ Leads(k, "resolve", "readBits")
      /\ Leads(k, "setRevoked", "readNewest")
  BY DEF Leads, PeerSteps
<1>5. Fragment(k, CreateAgent \o CreateAgent, "ensureTenant", "insert", Plain)
  BY <1>1, <1>4, TwoFragments
<1>6. Fragment(k, CreateAgent \o CreateAgent \o <<"allocate">>, "ensureTenant", "allocate", Plain)
  BY <1>3, <1>4, <1>5, TwoFragments
<1>7. Fragment(k, CreateAgent \o CreateAgent \o <<"allocate">> \o Signing, "ensureTenant", "store", Plain)
  BY <1>1, <1>4, <1>6, TwoFragments
<1>8. Fragment(k, CreateAgent \o CreateAgent \o <<"allocate">> \o Signing \o Audit, "ensureTenant", "append", Plain)
  BY <1>1, <1>4, <1>7, TwoFragments
<1>9. Fragment(k, CreateAgent \o CreateAgent \o <<"allocate">> \o Signing \o Audit \o Check,
               "ensureTenant", "resolve", Plain)
  BY <1>1, <1>4, <1>8, TwoFragments
<1>10. Fragment(k, CreateAgent \o CreateAgent \o <<"allocate">> \o Signing \o Audit \o Check \o SetBit,
                "ensureTenant", "setRevoked", Plain)
  BY <1>1, <1>4, <1>9, TwoFragments
<1>11. Fragment(k, CreateAgent \o CreateAgent \o <<"allocate">> \o Signing \o Audit \o Check \o SetBit
                     \o Audit, "ensureTenant", "append", Plain)
  BY <1>1, <1>4, <1>10, TwoFragments
<1> QED
  BY <1>1, <1>4, <1>11, TwoFragments DEF DriftDemo

\* The script of an attestation ...
LEMMA AttestHandler == Fragment("attest", AttestWorkload, "findHolder", "append", AttestSteps)
<1>1. /\ {"findHolder", "allocate", "sign"} \subseteq Steps /\ {"findHolder", "allocate", "sign"} \subseteq AttestSteps
      /\ AuditSteps \subseteq AttestSteps
  BY DEF Steps, AttestSteps
<1>2. /\ Leads("attest", "findHolder", "allocate") /\ Leads("attest", "allocate", "sign")
      /\ Leads("attest", "sign", "readNewest")
  BY DEF Leads, PeerSteps
<1>3. Fragment("attest", <<"findHolder", "allocate", "sign">>, "findHolder", "sign", AttestSteps)
  BY <1>1, <1>2, ThreeSteps
<1>4. Fragment("attest", Audit, "readNewest", "append", AttestSteps)
  BY <1>1, AuditFragment
<1> QED
  BY <1>2, <1>3, <1>4, TwoFragments DEF AttestWorkload

\* Before its audit event, seeding takes the tree last but one, and agents first.
LEMMA SeedItemsOrdered ==
  LET w == <<"checkEmpty", "seedAgents", "seedCreds", "seedRevoked", "seedTree", "seedIntent">> IN
  /\ Fragment("seed", w, "checkEmpty", "seedIntent", Steps)
  /\ w[2] = "seedAgents" /\ w[5] = "seedTree" /\ Len(w) = 6
  /\ \A i \in 1..6 : i # 2 => w[i] # "seedAgents"
<1> DEFINE w == <<"checkEmpty", "seedAgents", "seedCreds", "seedRevoked", "seedTree", "seedIntent">>
<1>1. /\ w[1] = "checkEmpty" /\ w[2] = "seedAgents" /\ w[3] = "seedCreds" /\ w[4] = "seedRevoked"
      /\ w[5] = "seedTree" /\ w[6] = "seedIntent" /\ Len(w) = 6 /\ Head(w) = w[1] /\ w # <<>>
  OBVIOUS
<1>2. w \in Seq(Steps)
  BY DEF Steps
<1> HIDE DEF w
<1>3. \A i \in 1..6 : i = 1 \/ i = 2 \/ i = 3 \/ i = 4 \/ i = 5 \/ i = 6
  OBVIOUS
<1>4. \A i \in 1..6 : ~Awaits("seed", w[i])
  BY <1>1, <1>3 DEF Awaits, PeerSteps
<1>5. Ordered("seed", w)
  BY <1>1, <1>2, <1>4, PlainOrdered
<1>6. \A i \in 1..6 : i # 2 => w[i] # "seedAgents"
  BY <1>1, <1>3
<1>7. \A i \in 1..Len(w) : w[i] \in Steps
  BY <1>2
<1>8. Fragment("seed", w, "checkEmpty", "seedIntent", Steps)
  BY <1>1, <1>2, <1>5, <1>7 DEF Fragment
<1> QED
  BY <1>1, <1>6, <1>8 DEF w

\* The tree still comes when steps without agents follow.
LEMMA TreeBefore ==
  ASSUME NEW w \in Seq(Steps), NEW u \in Seq(Steps), TreeComes(w), \A i \in 1..Len(u) : u[i] # "seedAgents"
  PROVE  TreeComes(w \o u)
<1> DEFINE v == w \o u
<1>1. /\ v \in Seq(Steps) /\ Len(v) = Len(w) + Len(u) /\ Len(w) \in Nat /\ Len(u) \in Nat
      /\ \A i \in 1..Len(w) : v[i] = w[i]
      /\ \A i \in Len(w) + 1..Len(w) + Len(u) : v[i] = u[i - Len(w)]
  BY Concatenated
<1> HIDE DEF v
<1> SUFFICES ASSUME NEW j \in 1..Len(v), v[j] = "seedAgents"
             PROVE  \E i \in j + 1..Len(v) : v[i] = "seedTree"
  BY DEF TreeComes, v
<1>2. j \in 1..Len(w)
  <2> SUFFICES ASSUME j \notin 1..Len(w) PROVE FALSE
    OBVIOUS
  <2>1. j \in Len(w) + 1..Len(w) + Len(u) /\ j - Len(w) \in 1..Len(u)
    BY <1>1
  <2> QED
    BY <1>1, <2>1
<1>3. PICK i \in j + 1..Len(w) : w[i] = "seedTree"
  BY <1>1, <1>2 DEF TreeComes
<1>4. i \in j + 1..Len(v) /\ i \in 1..Len(w)
  BY <1>1, <1>2
<1> QED
  BY <1>1, <1>3, <1>4

\* ... and of seeding.
LEMMA SeedHandler ==
  Fragment("seed", SeedTenant, "checkEmpty", "seedEvents", Steps) /\ TreeComes(SeedTenant)
<1> DEFINE w == <<"checkEmpty", "seedAgents", "seedCreds", "seedRevoked", "seedTree", "seedIntent">>
<1>1. /\ Fragment("seed", w, "checkEmpty", "seedIntent", Steps)
      /\ w[2] = "seedAgents" /\ w[5] = "seedTree" /\ Len(w) = 6
      /\ \A i \in 1..6 : i # 2 => w[i] # "seedAgents"
  BY SeedItemsOrdered
<1>2. SeedTenant = w \o Audit \o <<"seedEvents">>
  BY DEF SeedTenant
<1> HIDE DEF w
<1>3. Fragment("seed", Audit, "readNewest", "append", Plain) /\ Plain \subseteq Steps
  BY Parts DEF Plain
<1>4. Fragment("seed", <<"seedEvents">>, "seedEvents", "seedEvents", Plain)
  <2>1. "seedEvents" \in Steps /\ "seedEvents" \in Plain
    BY DEF Steps, Plain
  <2> QED
    BY <2>1, OneStep
<1>5. Fragment("seed", Audit, "readNewest", "append", Steps) /\ Fragment("seed", <<"seedEvents">>, "seedEvents", "seedEvents", Steps)
  BY <1>3, <1>4 DEF Fragment
<1>6. Leads("seed", "seedIntent", "readNewest") /\ Leads("seed", "append", "seedEvents")
  BY DEF Leads, PeerSteps
<1>7. Fragment("seed", w \o Audit, "checkEmpty", "append", Steps)
  BY <1>1, <1>5, <1>6, TwoFragments
<1>8. Fragment("seed", w \o Audit \o <<"seedEvents">>, "checkEmpty", "seedEvents", Steps)
  BY <1>5, <1>6, <1>7, TwoFragments
<1>9. TreeComes(w)
  <2> SUFFICES ASSUME NEW j \in 1..6, w[j] = "seedAgents" PROVE \E i \in j + 1..6 : w[i] = "seedTree"
    BY <1>1 DEF TreeComes
  <2>1. j = 2 /\ 5 \in j + 1..6
    BY <1>1
  <2> QED
    BY <1>1, <2>1
<1>10. w \in Seq(Steps) /\ Audit \in Seq(Steps) /\ <<"seedEvents">> \in Seq(Steps) /\ w \o Audit \in Seq(Steps)
  BY <1>1, <1>5, <1>7 DEF Fragment
<1>11. /\ \A i \in 1..Len(Audit) : Audit[i] # "seedAgents"
       /\ \A i \in 1..Len(<<"seedEvents">>) : <<"seedEvents">>[i] # "seedAgents"
  BY <1>3, <1>4 DEF Fragment, Plain
<1>12. TreeComes(w \o Audit)
  BY <1>9, <1>10, <1>11, TreeBefore
<1>13. TreeComes((w \o Audit) \o <<"seedEvents">>)
  BY <1>10, <1>11, <1>12, TreeBefore
<1> QED
  BY <1>2, <1>8, <1>13

Kinds == DOMAIN Handlers

\* The kinds of requests.
LEMMA KindsAre ==
  Kinds = {"create", "rotate", "attest", "issue", "revoke", "verify", "score", "profile", "report", "board",
           "reset", "addHook", "dropHook", "testHook", "flush", "peer", "seed", "drift"}
BY DEF Kinds, Handlers

\* The script of each kind.
LEMMA HandlersAre ==
  /\ Handlers["create"] = CreateAgent /\ Handlers["rotate"] = RotateKey /\ Handlers["attest"] = AttestWorkload
  /\ Handlers["issue"] = IssueCredential /\ Handlers["revoke"] = Revoke /\ Handlers["verify"] = Check \o Audit
  /\ Handlers["score"] = ScoreCredential /\ Handlers["profile"] = AgentProfile
  /\ Handlers["report"] = ComplianceReport /\ Handlers["board"] = RiskDashboard /\ Handlers["reset"] = DemoReset
  /\ Handlers["addHook"] = CreateWebhook /\ Handlers["dropHook"] = DeleteWebhook
  /\ Handlers["testHook"] = TestWebhook /\ Handlers["flush"] = <<"flush">> /\ Handlers["peer"] = CheckAtPeer
  /\ Handlers["seed"] = SeedTenant /\ Handlers["drift"] = DriftDemo
BY DEF Handlers

\* Every handler is a script, and its first step needs no preparation.
LEMMA HandlersScripted ==
  ASSUME NEW k \in Kinds, NEW s, k # "attest" => s = None
  PROVE  Scripted(k, s, Handlers[k]) /\ ~Awaits(k, Head(Handlers[k]))
<1>1. CASE k = "attest"
  <2>1. Fragment(k, Handlers[k], "findHolder", "append", AttestSteps)
    BY <1>1, AttestHandler, HandlersAre
  <2> QED
    BY <1>1, <2>1 DEF Fragment, Scripted, Awaits, AttestSteps, AuditSteps, PeerSteps
<1>2. CASE k = "seed"
  <2>1. Fragment(k, Handlers[k], "checkEmpty", "seedEvents", Steps) /\ TreeComes(Handlers[k])
    BY <1>2, SeedHandler, HandlersAre
  <2> QED
    BY <1>2, <2>1 DEF Fragment, Scripted, Awaits, PeerSteps
<1>3. CASE k \notin {"attest", "seed"}
  <2>1. \E a, z : Fragment(k, Handlers[k], a, z, Plain) /\ ~Awaits(k, a)
    <3>1. /\ ~Awaits(k, "ensureTenant") /\ ~Awaits(k, "readKeys") /\ ~Awaits(k, "countRows")
          /\ ~Awaits(k, "readAgents") /\ ~Awaits(k, "deleteCreds") /\ ~Awaits(k, "findHook")
          /\ ~Awaits(k, "flush") /\ ~Awaits(k, "resolve") /\ ~Awaits(k, "readEvents")
          /\ ~Awaits(k, "insertHook") /\ ~Awaits(k, "dropHook") /\ ~Awaits(k, "findCred")
          /\ ~Awaits(k, "allocate") /\ (k = "peer" => ~Awaits(k, "get"))
      BY <1>3 DEF Awaits, PeerSteps
    <3>2. CASE k \in {"create", "rotate", "report", "board", "reset", "testHook", "flush"}
      BY <1>3, <3>1, <3>2, ShortHandlers, HandlersAre
    <3>3. CASE k \in {"verify", "profile", "addHook", "dropHook", "revoke", "issue", "score"}
      BY <1>3, <3>1, <3>3, AuditedHandlers, HandlersAre
    <3>4. CASE k \in {"peer", "drift"}
      BY <1>3, <3>1, <3>4, Parts, DriftHandler, HandlersAre
    <3> QED
      BY <1>3, <3>2, <3>3, <3>4, KindsAre
  <2>2. PICK a, z : Fragment(k, Handlers[k], a, z, Plain) /\ ~Awaits(k, a)
    BY <2>1
  <2> QED
    BY <1>3, <2>2 DEF Fragment, Scripted, Plain
<1> QED
  BY <1>1, <1>2, <1>3

(***************************************************************************)
(* Requests: how they go on.                                               *)
(***************************************************************************)

Fields == DOMAIN Blank

\* The fields of a request.
LEMMA FieldsAre ==
  Fields = {"kind", "tenant", "agent", "subject", "spiffe", "cred", "hook", "void", "topics", "did", "sig", "bits", "bit",
            "verdicts", "fresh", "seen", "tally", "start", "score", "since", "ttl", "prev", "at", "made", "issued",
            "deals", "intent", "carts", "spent", "price", "targets", "code", "alone", "todo"}
BY DEF Fields, Blank

\* What a request keeps from its beginning to its end, and a script.
Request(q) ==
  /\ DOMAIN q = Fields
  /\ q.kind \in Kinds /\ q.tenant \in Tenants /\ q.spiffe \in Spiffes \cup {None} /\ q.ttl \in Nat
  /\ q.made \in Seq(Agents \cup {None}) /\ Len(q.made) <= Len(Roster)
  /\ Scripted(q.kind, q.spiffe, q.todo) /\ (q.kind # "peer" => Head(q.todo) \notin PeerSteps)

RequestsInv == DOMAIN req = Jobs /\ \A r \in Jobs : req[r] # None => Request(req[r])

\* p is q but for what steps leave behind for one another.
Alike(q, p) == p.kind = q.kind /\ p.tenant = q.tenant /\ p.spiffe = q.spiffe /\ p.ttl = q.ttl /\ p.todo = q.todo
Same(q, p) == DOMAIN p = Fields /\ Alike(q, p) /\ p.made = q.made

Only(r) == DOMAIN req' = Jobs /\ \A s \in Jobs : s # r => req'[s] = req[s]

\* Request r has ended, or goes on with q at a step that the last one leads to.
Goes(r, q) ==
  /\ Only(r)
  /\ req'[r] # None =>
       \E t : /\ req'[r] = [q EXCEPT !.todo = t]
              /\ Scripted(q.kind, q.spiffe, t) /\ Leads(q.kind, Doing(r), Head(t))

\* ... at a step that needs no preparation.
Rests(r) == req'[r] # None => ~Awaits(req'[r].kind, Head(req'[r].todo))

\* An agent's turn is not over.
Turning(r) == req[r].kind = "seed" /\ req[r].spiffe # None

\* A request that ends goes nowhere, ...
LEMMA EndGoes ==
  ASSUME RequestsInv, NEW r \in Jobs, NEW q, NEW c, End(r, c)
  PROVE  Goes(r, q)
BY DEF RequestsInv, End, Goes, Only

\* ... nor does one that is refused.
LEMMA RefuseGoes ==
  ASSUME RequestsInv, NEW r \in Jobs, NEW q, Refuse(r)
  PROVE  Goes(r, q)
BY EndGoes DEF Refuse

\* A request goes on with the script it is given, ...
LEMMA FollowGoes ==
  ASSUME RequestsInv, NEW r \in Jobs, NEW q, NEW t, Follow(r, q, t),
         t # <<>> => Scripted(q.kind, q.spiffe, t) /\ Leads(q.kind, Doing(r), Head(t))
  PROVE  Goes(r, q)
<1>1. CASE t = <<>>
  BY <1>1, EndGoes DEF Follow
<1>2. CASE t # <<>>
  <2>1. req' = [req EXCEPT ![r] = [q EXCEPT !.todo = t]]
    BY <1>2 DEF Follow
  <2>2. req'[r] = [q EXCEPT !.todo = t] /\ Only(r)
    BY <2>1 DEF RequestsInv, Only
  <2> QED
    BY <1>2, <2>2, Zenon DEF Goes
<1> QED
  BY <1>1, <1>2

\* ... or with the rest of the one it has.
LEMMA ProceedGoes ==
  ASSUME RequestsInv, NEW r \in Jobs, req[r] # None, NEW q, Alike(req[r], q), Proceed(r, q),
         Turning(r) => Doing(r) # "seedAgents"
  PROVE  Goes(r, q)
<1>1. Scripted(q.kind, q.spiffe, q.todo) /\ Head(q.todo) = Doing(r)
  BY DEF RequestsInv, Request, Same, Alike, Doing
<1>2. Tail(q.todo) # <<>> => Scripted(q.kind, q.spiffe, Tail(q.todo)) /\ Leads(q.kind, Doing(r), Head(Tail(q.todo)))
  BY <1>1, TailScripted DEF Turning, Alike
<1> QED
  BY <1>2, FollowGoes DEF Proceed

\* Steps put before the rest: the last of them leads to whatever the step at hand does.
LEMMA InsistGoes ==
  ASSUME RequestsInv, NEW r \in Jobs, req[r] # None, NEW q, Alike(req[r], q), NEW w, Insist(r, q, w),
         Inserted(q.kind, q.spiffe, w), ~Awaits(q.kind, Head(w)),
         \A x : Leads(q.kind, Doing(r), x) => Leads(q.kind, w[Len(w)], x),
         Turning(r) => Doing(r) # "seedAgents"
  PROVE  Goes(r, q)
<1> DEFINE u == Tail(q.todo)
           t == w \o u
<1>1. Scripted(q.kind, q.spiffe, q.todo) /\ Head(q.todo) = Doing(r)
  BY DEF RequestsInv, Request, Same, Alike, Doing
<1>2. u # <<>> => Scripted(q.kind, q.spiffe, u) /\ Leads(q.kind, Doing(r), Head(u))
  BY <1>1, TailScripted DEF Turning, Alike
<1>3. w \in Seq(Steps) /\ w # <<>> /\ u \in Seq(Steps)
  <2>1. q.todo \in Seq(Steps) /\ q.todo # <<>>
    BY <1>1 DEF Scripted
  <2> QED
    BY <2>1 DEF Inserted
<1>4. Follow(r, q, t)
  BY DEF Insist
<1> HIDE DEF u
<1>5. Scripted(q.kind, q.spiffe, t)
  <2>1. CASE u # <<>>
    BY <1>2, <2>1, InsertScripted
  <2>2. CASE u = <<>>
    <3>1. t = w
      BY <1>3, <2>2
    <3>2. ~Turning(r)
      <4> SUFFICES ASSUME Turning(r) PROVE FALSE
        OBVIOUS
      <4>1. PICK j \in 1..Len(q.todo) : q.todo[j] = "seedAgents"
        BY <1>1 DEF Scripted, AmidRoster, Turning, Same, Alike
      <4>2. q.todo \in Seq(Steps) /\ q.todo # <<>> /\ q.todo[1] # "seedAgents"
        BY <1>1 DEF Scripted
      <4>3. Len(q.todo) \in Nat /\ Len(q.todo) # 1
        BY <4>1, <4>2
      <4>4. Len(Tail(q.todo)) = Len(q.todo) - 1 /\ Len(q.todo) # 0
        BY <4>2
      <4>5. Tail(q.todo) # <<>>
        <5>1. PICK v : v = Tail(q.todo)
          OBVIOUS
        <5>2. Len(v) # 0
          BY <4>3, <4>4, <5>1
        <5>3. v # <<>>
          BY <5>2
        <5> QED
          BY <5>1, <5>3
      <4> QED
        BY <2>2, <4>5 DEF u
    <3>3. q.kind \notin {"attest", "seed"} => q.spiffe = None
      BY <1>1 DEF Scripted
    <3> QED
      BY <3>1, <3>2, <3>3, InsertedAlone DEF Turning, Alike
  <2> QED
    BY <2>1, <2>2
<1>6. Head(t) = Head(w)
  <2>1. Len(w) \in Nat \ {0} /\ 1 \in 1..Len(w) /\ Head(w) = w[1]
    BY <1>3
  <2>2. t \in Seq(Steps) /\ t[1] = w[1] /\ Len(t) = Len(w) + Len(u) /\ Len(u) \in Nat
    BY <1>3, <2>1, Concatenated
  <2>3. t # <<>> /\ Head(t) = t[1]
    BY <2>1, <2>2
  <2> QED
    BY <2>1, <2>2, <2>3
<1>7. Leads(q.kind, Doing(r), Head(t))
  BY <1>6, LeadsToReady
<1> QED
  BY <1>4, <1>5, <1>7, FollowGoes

\* An exception: the request ends, or goes on at a step that needs no preparation.
LEMMA FailGoes ==
  ASSUME RequestsInv, NEW r \in Jobs, req[r] # None, Fail(r), Doing(r) # "seedAgents"
  PROVE  Goes(r, req[r]) /\ Rests(r)
<1> DEFINE q == req[r]
<1>1. Scripted(q.kind, q.spiffe, q.todo) /\ Head(q.todo) = Doing(r)
  BY DEF RequestsInv, Request, Doing
<1>2. ASSUME NEW S, Follow(r, q, From(q.todo, S)), ~Turning(r) \/ S = SeedItems,
             \A x \in S : ~Awaits(q.kind, x)
      PROVE  Goes(r, q) /\ Rests(r)
  <2>1. S = SeedItems => "seedAgents" \in S /\ S \cap Inner = {}
    BY DEF SeedItems, Inner, AuditSteps
  <2>2. From(q.todo, S) # <<>> =>
          Scripted(q.kind, q.spiffe, From(q.todo, S)) /\ Head(From(q.todo, S)) \in S
    BY <1>1, <1>2, <2>1, FromScripted DEF Turning
  <2>3. From(q.todo, S) # <<>> => Leads(q.kind, Doing(r), Head(From(q.todo, S)))
    BY <1>2, <2>2, LeadsToReady
  <2>4. Goes(r, q)
    BY <1>2, <2>2, <2>3, FollowGoes
  <2>5. From(q.todo, S) # <<>> => req'[r].todo = From(q.todo, S) /\ req'[r].kind = q.kind
    <3> SUFFICES ASSUME From(q.todo, S) # <<>>
                 PROVE  req'[r].todo = From(q.todo, S) /\ req'[r].kind = q.kind
      OBVIOUS
    <3>1. req' = [req EXCEPT ![r] = [q EXCEPT !.todo = From(q.todo, S)]]
      BY <1>2 DEF Follow
    <3>2. req'[r] = [q EXCEPT !.todo = From(q.todo, S)] /\ DOMAIN q = Fields
      BY <3>1 DEF RequestsInv, Request
    <3> QED
      BY <3>2, FieldsAre
  <2>6. From(q.todo, S) = <<>> => req'[r] = None
    BY <1>2 DEF Follow, End, RequestsInv
  <2> QED
    BY <1>2, <2>2, <2>4, <2>5, <2>6 DEF Rests
<1>3. q.kind = "seed" /\ SeedGoesOn(q) /\ Head(q.todo) \in AuditSteps => ~Turning(r)
  <2> SUFFICES ASSUME q.kind = "seed", SeedGoesOn(q), Head(q.todo) \in AuditSteps, Turning(r) PROVE FALSE
    OBVIOUS
  <2>1. PICK j \in 1..Len(q.todo) : q.todo[j] = "seedAgents"
    BY <1>1 DEF Scripted, AmidRoster, Turning
  <2>2. PICK i \in j + 1..Len(q.todo) : q.todo[i] = "seedTree"
    BY <1>1, <2>1 DEF Scripted, TreeComes
  <2>3. q.todo \in Seq(Steps) /\ i \in 1..Len(q.todo)
    BY <1>1, <2>1 DEF Scripted
  <2>4. "seedTree" \in ToSet(q.todo)
    BY <2>2, <2>3 DEF ToSet
  <2> QED
    BY <2>4 DEF SeedGoesOn
<1>4. /\ \A x \in {"readIssuer"} : ~Awaits(q.kind, x)
      /\ \A x \in {"readNewest"} : ~Awaits(q.kind, x)
      /\ \A x \in {"seedIntent"} : ~Awaits(q.kind, x)
      /\ \A x \in {"seedEvents"} : ~Awaits(q.kind, x)
      /\ \A x \in SeedItems : ~Awaits(q.kind, x)
  BY DEF Awaits, SeedItems, PeerSteps
<1>5. \/ q.kind = "score" /\ Follow(r, q, From(q.todo, {"readIssuer"}))
      \/ q.kind = "score" /\ Follow(r, q, From(q.todo, {"readNewest"}))
      \/ q.kind = "seed" /\ SeedGoesOn(q) /\ Follow(r, q, AfterSeedFailure(q))
      \/ End(r, q.code) \/ Refuse(r) \/ End(r, "error")
  BY DEF Fail
<1>6. CASE q.kind = "score" /\ Follow(r, q, From(q.todo, {"readIssuer"}))
  <2>1. ~Turning(r)
    BY <1>6 DEF Turning
  <2> QED
    BY <1>2, <1>4, <1>6, <2>1
<1>7. CASE q.kind = "score" /\ Follow(r, q, From(q.todo, {"readNewest"}))
  <2>1. ~Turning(r)
    BY <1>7 DEF Turning
  <2> QED
    BY <1>2, <1>4, <1>7, <2>1
<1>8. CASE q.kind = "seed" /\ SeedGoesOn(q) /\ Follow(r, q, AfterSeedFailure(q))
  <2>1. CASE Head(q.todo) \notin AuditSteps
    <3>1. Follow(r, q, From(q.todo, SeedItems))
      BY <1>8, <2>1 DEF AfterSeedFailure
    <3> QED
      BY <1>2, <1>4, <3>1
  <2>2. CASE Head(q.todo) \in AuditSteps
    <3>1. \/ Follow(r, q, From(q.todo, {"seedIntent"})) \/ Follow(r, q, From(q.todo, {"seedEvents"}))
      BY <1>8, <2>2 DEF AfterSeedFailure
    <3> QED
      BY <1>2, <1>3, <1>4, <1>8, <2>2, <3>1
  <2> QED
    BY <2>1, <2>2
<1>9. CASE End(r, q.code) \/ Refuse(r) \/ End(r, "error")
  <2>1. Goes(r, q) /\ req'[r] = None
    BY <1>9, EndGoes, RefuseGoes DEF Refuse, End, RequestsInv
  <2> QED
    BY <2>1 DEF Rests
<1> QED
  BY <1>5, <1>6, <1>7, <1>8, <1>9

\* What is true of a request at any step.
Data(q) ==
  /\ DOMAIN q = Fields
  /\ q.kind \in Kinds /\ q.tenant \in Tenants /\ q.spiffe \in Spiffes \cup {None} /\ q.ttl \in Nat
  /\ q.made \in Seq(Agents \cup {None}) /\ Len(q.made) <= Len(Roster)

\* What is the same but for what steps leave behind has the same types, ...
LEMMA SameData ==
  ASSUME RequestsInv, NEW r \in Jobs, req[r] # None, NEW q, Same(req[r], q)
  PROVE  Data(q)
BY DEF RequestsInv, Request, Same, Alike, Data

\* ... and a request is the same as itself.
LEMMA OwnData ==
  ASSUME RequestsInv, NEW r \in Jobs, req[r] # None
  PROVE  Data(req[r]) /\ Same(req[r], req[r])
BY DEF RequestsInv, Request, Same, Alike, Data

\* What a step has left behind for the next.
Left(q, p) ==
  /\ p.kind = q.kind /\ p.tenant = q.tenant /\ p.spiffe = q.spiffe /\ p.agent = q.agent /\ p.cred = q.cred
  /\ p.seen = q.seen /\ p.bits = q.bits /\ p.prev = q.prev /\ p.at = q.at /\ p.ttl = q.ttl

\* Where a request goes on, it has the types and the script of a request.
LEMMA Landed ==
  ASSUME NEW r \in Jobs, NEW q, Data(q), Goes(r, q), req'[r] # None
  PROVE  Request(req'[r]) /\ Left(q, req'[r]) /\ Leads(q.kind, Doing(r), Head(req'[r].todo))
<1>1. PICK t : /\ req'[r] = [q EXCEPT !.todo = t]
               /\ Scripted(q.kind, q.spiffe, t) /\ Leads(q.kind, Doing(r), Head(t))
  BY DEF Goes
<1>2. PICK p : p = req'[r]
  OBVIOUS
<1>3. /\ DOMAIN p = Fields /\ p.todo = t /\ p.kind = q.kind /\ p.tenant = q.tenant /\ p.spiffe = q.spiffe
      /\ p.made = q.made /\ p.ttl = q.ttl
  BY <1>1, <1>2, FieldsAre DEF Data
<1>4. Left(q, p)
  BY <1>1, <1>2, FieldsAre DEF Data, Left
<1>5. q.kind # "peer" => Head(t) \notin PeerSteps
  BY <1>1 DEF Leads
<1>6. Request(p)
  BY <1>1, <1>3, <1>5 DEF Data, Request
<1> QED
  BY <1>1, <1>2, <1>3, <1>4, <1>6

\* Request r goes on, for the same tenant, where nothing was prepared for it.
Moves(r) ==
  /\ Only(r) /\ Rests(r)
  /\ req'[r] # None => /\ Request(req'[r])
                       /\ req'[r].kind = req[r].kind /\ req'[r].tenant = req[r].tenant

Quiet(r) == Moves(r) /\ UNCHANGED <<agents, keys, creds, resets, arrivalVars, auditVars>>

\* A step that prepares nothing leads to one that needs no preparation.
LEMMA GoesMoves ==
  ASSUME NEW r \in Jobs, NEW q, Data(q), q.kind = req[r].kind, q.tenant = req[r].tenant, Goes(r, q),
         Rests(r) \/ ~Prepares(q.kind, Doing(r))
  PROVE  Moves(r)
<1>1. Only(r)
  BY DEF Goes
<1>2. req'[r] # None =>
        Request(req'[r]) /\ Left(q, req'[r]) /\ Leads(q.kind, Doing(r), Head(req'[r].todo))
  BY Landed
<1>3. Rests(r)
  BY <1>2, NextIsReady DEF Rests, Left
<1> QED
  BY <1>1, <1>2, <1>3 DEF Moves, Left

\* Steps that prepare none, whatever the kind of request.
Ordinary ==
  Steps \ {"readKeys", "readBits", "readNewest", "stamp", "sign", "findHolder", "register", "refetch", "allocate", "seedAgents"}

\* Ways to go on that prepare nothing: with the next step of the script, ...
LEMMA ProceedMoves ==
  ASSUME RequestsInv, NEW r \in Jobs, req[r] # None, Doing(r) \in Ordinary, NEW q, Same(req[r], q), Proceed(r, q)
  PROVE  Moves(r)
<1>1. Goes(r, q)
  BY ProceedGoes DEF Ordinary, Same
<1>2. ~Prepares(q.kind, Doing(r))
  BY DEF Ordinary, Prepares
<1>3. Data(q)
  BY SameData
<1> QED
  BY <1>1, <1>2, <1>3, GoesMoves DEF Same, Alike

\* ... with steps put before it, ...
LEMMA InsistMoves ==
  ASSUME RequestsInv, NEW r \in Jobs, req[r] # None, Doing(r) \in Ordinary, NEW q, Same(req[r], q),
         NEW w, Insist(r, q, w), Inserted(q.kind, q.spiffe, w), ~Awaits(q.kind, Head(w))
  PROVE  Moves(r)
<1>1. ~Prepares(q.kind, Doing(r)) /\ Doing(r) # "seedAgents"
  BY DEF Ordinary, Prepares
<1>2. \A x : Leads(q.kind, Doing(r), x) => Leads(q.kind, w[Len(w)], x)
  BY <1>1, NextIsReady, LeadsToReady
<1>3. Goes(r, q)
  BY <1>1, <1>2, InsistGoes DEF Same
<1>4. Data(q)
  BY SameData
<1> QED
  BY <1>1, <1>3, <1>4, GoesMoves DEF Same, Alike

\* ... with an error, ...
LEMMA FailMoves ==
  ASSUME RequestsInv, NEW r \in Jobs, req[r] # None, Fail(r), Doing(r) # "seedAgents"
  PROVE  Moves(r)
BY FailGoes, OwnData, GoesMoves

\* ... with the answer, ...
LEMMA EndMoves ==
  ASSUME RequestsInv, NEW r \in Jobs, req[r] # None, NEW c, End(r, c)
  PROVE  Moves(r)
<1>1. req'[r] = None
  BY DEF End, RequestsInv
<1>2. Goes(r, req[r])
  BY EndGoes
<1> QED
  BY <1>1, <1>2 DEF Moves, Rests, Goes

\* ... or with a refusal.
LEMMA RefuseMoves ==
  ASSUME RequestsInv, NEW r \in Jobs, req[r] # None, Refuse(r)
  PROVE  Moves(r)
BY EndMoves DEF Refuse

\* The script goes on at one of some later steps.
LEMMA FollowMoves ==
  ASSUME RequestsInv, NEW r \in Jobs, req[r] # None, NEW q, Same(req[r], q), ~Turning(r), NEW x,
         ~Awaits(q.kind, x), Doing(r) \in Ordinary, Follow(r, q, From(q.todo, {x}))
  PROVE  Moves(r)
<1>1. Scripted(q.kind, q.spiffe, q.todo)
  BY DEF RequestsInv, Request, Same, Alike
<1>2. From(q.todo, {x}) # <<>> => Scripted(q.kind, q.spiffe, From(q.todo, {x})) /\ Head(From(q.todo, {x})) = x
  BY <1>1, FromScripted DEF Turning, Same, Alike
<1>3. Goes(r, q)
  BY <1>2, FollowGoes, LeadsToReady
<1>4. ~Prepares(q.kind, Doing(r))
  BY DEF Ordinary, Prepares
<1>5. Data(q)
  BY SameData
<1> QED
  BY <1>3, <1>4, <1>5, GoesMoves DEF Same, Alike

(***************************************************************************)
(* The steps that leave agents, keys, credentials and audit events alone.  *)
(***************************************************************************)

\* A request that may do a step.
LEMMA Standing ==
  ASSUME RequestsInv, NEW r \in Jobs, NEW step, Ready(r, step)
  PROVE  req[r] # None /\ Doing(r) = step /\ DOMAIN req[r] = Fields
BY DEF RequestsInv, Request, Ready

\* Seeding does only some steps in an agent's turn.
LEMMA NotTurning ==
  ASSUME RequestsInv, NEW r \in Jobs, req[r] # None, Doing(r) \notin Inner \cup {"seedAgents"}
  PROVE  ~Turning(r)
<1> SUFFICES ASSUME Turning(r) PROVE FALSE
  OBVIOUS
<1> DEFINE t == req[r].todo
<1>1. t \in Seq(Steps) /\ t # <<>> /\ AmidRoster(t)
  BY DEF RequestsInv, Request, Scripted, Turning
<1>2. PICK j \in 1..Len(t) : t[j] = "seedAgents" /\ \A i \in 1..j - 1 : t[i] \in Inner
  BY <1>1 DEF AmidRoster
<1>3. Head(t) = t[1] /\ (j = 1 \/ 1 \in 1..j - 1)
  BY <1>1, <1>2
<1> QED
  BY <1>2, <1>3 DEF Doing

\* ... and so does an attestation.
LEMMA NotAttesting ==
  ASSUME RequestsInv, NEW r \in Jobs, req[r] # None, Doing(r) \notin AttestSteps
  PROVE  req[r].kind # "attest"
<1> SUFFICES ASSUME req[r].kind = "attest" PROVE FALSE
  OBVIOUS
<1> DEFINE t == req[r].todo
<1>1. t \in Seq(Steps) /\ t # <<>> /\ \A i \in 1..Len(t) : t[i] \in AttestSteps
  BY DEF RequestsInv, Request, Scripted
<1>2. Head(t) = t[1] /\ 1 \in 1..Len(t)
  BY <1>1
<1> QED
  BY <1>1, <1>2 DEF Doing

\* Steps that end the request or go on with what they have found.
Onward(r) ==
  \/ Fail(r) \/ \E c : End(r, c)
  \/ \E q : Same(req[r], q) /\ Proceed(r, q)

\* Such a step moves the request, if it is none that prepares another.
LEMMA OnwardMoves ==
  ASSUME RequestsInv, NEW r \in Jobs, req[r] # None, Doing(r) \in Ordinary, Onward(r)
  PROVE  Moves(r)
<1>1. Doing(r) # "seedAgents"
  BY DEF Ordinary
<1>2. CASE Fail(r)
  BY <1>1, <1>2, FailMoves
<1>3. CASE \E c : End(r, c)
  BY <1>3, EndMoves
<1>4. CASE \E q : Same(req[r], q) /\ Proceed(r, q)
  BY <1>4, ProceedMoves
<1> QED
  BY <1>2, <1>3, <1>4 DEF Onward

\* Steps that look something up.
LEMMA LookUps ==
  ASSUME RequestsInv, NEW r \in Jobs,
         \/ EnsureTenant(r) \/ FindIssuer(r) \/ FindCred(r) \/ ReadList(r) \/ Fetch(r)
         \/ Flush(r) \/ ReadEvents(r) \/ ReadAgents(r) \/ Record(r) \/ Reply(r)
         \/ DeleteCreds(r) \/ InsertHook(r) \/ DropHook(r) \/ FindHook(r) \/ WalkChain(r)
         \/ Dispatch(r) \/ SeedTrustEvents(r)
  PROVE  Quiet(r)
<1>1. CASE EnsureTenant(r)
  <2>1. req[r] # None /\ Doing(r) \in Ordinary /\ DOMAIN req[r] = Fields
    BY <1>1, Standing DEF EnsureTenant, Ordinary, Steps
  <2>2. Same(req[r], [req[r] EXCEPT !.fresh = req[r].tenant \notin tenants])
    BY <2>1, FieldsAre DEF Same, Alike
  <2>3. Onward(r)
    BY <1>1, <2>2 DEF EnsureTenant, Onward
  <2> QED
    BY <1>1, <2>1, <2>3, OnwardMoves DEF EnsureTenant, Quiet, registryVars
<1>2. CASE FindIssuer(r)
  <2>1. req[r] # None /\ Doing(r) \in Ordinary
    BY <1>2, Standing DEF FindIssuer, Ordinary, Steps
  <2>2. Onward(r)
    BY <1>2, <2>1, OwnData DEF FindIssuer, Onward, Refuse
  <2> QED
    BY <1>2, <2>1, <2>2, OnwardMoves DEF FindIssuer, Quiet, registryVars
<1>3. CASE FindCred(r)
  <2>1. req[r] # None /\ Doing(r) \in Ordinary
    BY <1>3, Standing DEF FindCred, Ordinary, Steps
  <2>2. Onward(r)
    BY <1>3, <2>1, OwnData DEF FindCred, Onward, Refuse
  <2> QED
    BY <1>3, <2>1, <2>2, OnwardMoves DEF FindCred, Quiet, registryVars
<1>4. CASE ReadList(r)
  <2>1. req[r] # None /\ Doing(r) \in Ordinary /\ DOMAIN req[r] = Fields
    BY <1>4, Standing DEF ReadList, Ordinary, Steps
  <2>2. Same(req[r], [req[r] EXCEPT !.bit = req[r].cred \in revoked, !.did = StatusIssuer])
    BY <2>1, FieldsAre DEF Same, Alike
  <2>3. Onward(r)
    BY <1>4, <2>2 DEF ReadList, Onward
  <2> QED
    BY <1>4, <2>1, <2>3, OnwardMoves DEF ReadList, Quiet, registryVars
<1>5. CASE Fetch(r)
  <2>1. req[r] # None /\ Doing(r) \in Ordinary /\ DOMAIN req[r] = Fields
    BY <1>5, Standing DEF Fetch, Ordinary, Steps
  <2>2. Same(req[r], [req[r] EXCEPT !.seen = Document(req[r].did)])
    BY <2>1, FieldsAre DEF Same, Alike
  <2>3. Onward(r)
    BY <1>5, <2>2 DEF Fetch, Onward, Refuse
  <2> QED
    BY <1>5, <2>1, <2>3, OnwardMoves DEF Fetch, Quiet, registryVars
<1>6. CASE Flush(r)
  <2>1. req[r] # None /\ Doing(r) \in Ordinary
    BY <1>6, Standing DEF Flush, Ordinary, Steps
  <2>2. Onward(r)
    BY <1>6, <2>1, OwnData DEF Flush, Onward
  <2> QED
    BY <1>6, <2>1, <2>2, OnwardMoves DEF Flush, Quiet, registryVars
<1>7. CASE ReadEvents(r)
  <2>1. req[r] # None /\ Doing(r) \in Ordinary /\ DOMAIN req[r] = Fields
    BY <1>7, Standing DEF ReadEvents, Ordinary, Steps
  <2>2. Same(req[r], [req[r] EXCEPT !.tally = Profile(Of(events, req[r].agent, req[r].tenant))])
    BY <2>1, FieldsAre DEF Same, Alike
  <2>3. Onward(r)
    BY <1>7, <2>2 DEF ReadEvents, Onward
  <2> QED
    BY <1>7, <2>1, <2>3, OnwardMoves DEF ReadEvents, Quiet, registryVars
<1>8. CASE ReadAgents(r)
  <2>1. req[r] # None /\ Doing(r) \in Ordinary /\ DOMAIN req[r] = Fields
    BY <1>8, Standing DEF ReadAgents, Ordinary, Steps
  <2>2. Same(req[r], [req[r] EXCEPT !.seen = AgentsOf(req[r].tenant)])
    BY <2>1, FieldsAre DEF Same, Alike
  <2>3. Onward(r)
    BY <1>8, <2>2 DEF ReadAgents, Onward
  <2> QED
    BY <1>8, <2>1, <2>3, OnwardMoves DEF ReadAgents, Quiet, registryVars
<1>9. CASE Record(r)
  <2>1. req[r] # None /\ Doing(r) \in Ordinary
    BY <1>9, Standing DEF Record, Ordinary, Steps
  <2>2. Onward(r)
    BY <1>9, <2>1, OwnData DEF Record, Onward
  <2> QED
    BY <1>9, <2>1, <2>2, OnwardMoves DEF Record, Quiet, registryVars
<1>10. CASE Reply(r)
  <2>1. req[r] # None /\ Doing(r) \in Ordinary
    BY <1>10, Standing DEF Reply, Ordinary, Steps
  <2>2. Onward(r)
    BY <1>10, <2>1, OwnData DEF Reply, Onward
  <2> QED
    BY <1>10, <2>1, <2>2, OnwardMoves DEF Reply, Quiet, registryVars
<1>11. CASE DeleteCreds(r)
  <2>1. req[r] # None /\ Doing(r) \in Ordinary /\ DOMAIN req[r] = Fields
    BY <1>11, Standing DEF DeleteCreds, Ordinary, Steps
  <2>2. Same(req[r], [req[r] EXCEPT !.seen = <<AgentsOf(req[r].tenant), RowsOf(req[r].tenant)>>])
    BY <2>1, FieldsAre DEF Same, Alike
  <2>3. Onward(r)
    BY <1>11, <2>2 DEF DeleteCreds, Onward
  <2> QED
    BY <1>11, <2>1, <2>3, OnwardMoves DEF DeleteCreds, Quiet, registryVars
<1>12. CASE InsertHook(r)
  <2>1. req[r] # None /\ Doing(r) \in Ordinary
    BY <1>12, Standing DEF InsertHook, Ordinary, Steps
  <2>2. Onward(r)
    BY <1>12, <2>1, OwnData DEF InsertHook, Onward
  <2> QED
    BY <1>12, <2>1, <2>2, OnwardMoves DEF InsertHook, Quiet, registryVars
<1>13. CASE DropHook(r)
  <2>1. req[r] # None /\ Doing(r) \in Ordinary
    BY <1>13, Standing DEF DropHook, Ordinary, Steps
  <2>2. Onward(r)
    BY <1>13, <2>1, OwnData DEF DropHook, Onward, Refuse
  <2> QED
    BY <1>13, <2>1, <2>2, OnwardMoves DEF DropHook, Quiet, registryVars
<1>14. CASE FindHook(r)
  <2>1. req[r] # None /\ Doing(r) \in Ordinary /\ DOMAIN req[r] = Fields
    BY <1>14, Standing DEF FindHook, Ordinary, Steps
  <2>2. Same(req[r], [req[r] EXCEPT !.topics = hooks[req[r].hook].topics])
    BY <2>1, FieldsAre DEF Same, Alike
  <2>3. Onward(r)
    BY <1>14, <2>2 DEF FindHook, Onward, Refuse
  <2> QED
    BY <1>14, <2>1, <2>3, OnwardMoves DEF FindHook, Quiet, registryVars
<1>15. CASE WalkChain(r)
  <2>1. req[r] # None /\ Doing(r) \in Ordinary /\ DOMAIN req[r] = Fields
    BY <1>15, Standing DEF WalkChain, Ordinary, Steps
  <2>2. Same(req[r], [req[r] EXCEPT !.tally = Also(req[r].tally, [valid |-> Unbroken(log[req[r].tenant])])])
    BY <2>1, FieldsAre DEF Same, Alike
  <2>3. Onward(r)
    BY <1>15, <2>2 DEF WalkChain, Onward
  <2> QED
    BY <1>15, <2>1, <2>3, OnwardMoves DEF WalkChain, Quiet, registryVars
<1>16. CASE Dispatch(r)
  <2>1. req[r] # None /\ Doing(r) \in Ordinary /\ DOMAIN req[r] = Fields
    BY <1>16, Standing DEF Dispatch, Ordinary, Steps
  <2>2. Same(req[r], [req[r] EXCEPT !.seen = {h \in Hooks : hooks[h] # None /\ hooks[h].active
                /\ hooks[h].tenant = req[r].tenant /\ EventType(req[r]) \in ToSet(hooks[h].topics)}])
    BY <2>1, FieldsAre DEF Same, Alike
  <2>3. Onward(r)
    BY <1>16, <2>2 DEF Dispatch, Onward
  <2> QED
    BY <1>16, <2>1, <2>3, OnwardMoves DEF Dispatch, Quiet, registryVars
<1>17. CASE SeedTrustEvents(r)
  <2>1. req[r] # None /\ Doing(r) \in Ordinary
    BY <1>17, Standing DEF SeedTrustEvents, Ordinary, Steps
  <2>2. Onward(r)
    BY <1>17, <2>1, OwnData DEF SeedTrustEvents, Onward
  <2> QED
    BY <1>17, <2>1, <2>2, OnwardMoves DEF SeedTrustEvents, Quiet, registryVars
<1> QED
  BY <1>1, <1>2, <1>3, <1>4, <1>5, <1>6, <1>7, <1>8, <1>9, <1>10, <1>11, <1>12, <1>13, <1>14, <1>15, <1>16, <1>17

\* Steps put before the rest of a script in no agent's turn and in no attestation.
LEMMA PlainInsist ==
  ASSUME RequestsInv, NEW r \in Jobs, req[r] # None, Doing(r) \in Ordinary \ (Inner \cup AttestSteps),
         NEW q, Same(req[r], q), NEW w, NEW a, NEW z, Fragment(q.kind, w, a, z, Plain), ~Awaits(q.kind, a),
         Insist(r, q, w)
  PROVE  Moves(r)
<1>1. ~Turning(r) /\ req[r].kind # "attest"
  BY NotTurning, NotAttesting DEF Ordinary
<1>2. Inserted(q.kind, q.spiffe, w) /\ Head(w) = a
  BY <1>1 DEF Fragment, Inserted, Plain, Turning, Same, Alike
<1> QED
  BY <1>2, InsistMoves

\* What the steps of verification, seeding and resets put before the rest.
LEMMA InsistedParts ==
  ASSUME NEW k, k # "attest"
  PROVE  /\ Fragment(k, <<"makeIssuer">>, "makeIssuer", "makeIssuer", Plain)
         /\ k = "peer" => Fragment(k, <<"fetch", "set">>, "fetch", "set", Plain)
         /\ Fragment(k, <<"seedCreds">>, "seedCreds", "seedCreds", Plain)
         /\ Fragment(k, SeededCredential \o <<"seedCreds">>, "allocate", "seedCreds", Plain)
         /\ Fragment(k, <<"seedRevoked">>, "seedRevoked", "seedRevoked", Plain)
         /\ Fragment(k, SetBit \o <<"seedRevoked">>, "readBits", "seedRevoked", Plain)
         /\ Fragment(k, <<"seedIntent">>, "seedIntent", "seedIntent", Plain)
         /\ Fragment(k, SeededCredential \o <<"seedCart", "seedIntent">>, "allocate", "seedIntent", Plain)
         /\ Fragment(k, SeededCredential \o <<"spend", "seedCart">>, "allocate", "seedCart", Plain)
<1>1. /\ {"makeIssuer", "fetch", "set", "seedCreds"} \subseteq Plain
      /\ {"seedRevoked", "seedIntent", "seedCart", "spend"} \subseteq Plain
  BY DEF Steps, Plain
<1>2. Plain \subseteq Steps
  BY DEF Plain
<1>3. /\ (k = "peer" => Leads(k, "fetch", "set")) /\ Leads(k, "store", "seedCreds") /\ Leads(k, "setRevoked", "seedRevoked")
      /\ Leads(k, "seedCart", "seedIntent") /\ Leads(k, "store", "seedCart")
      /\ Leads(k, "spend", "seedCart") /\ Leads(k, "store", "spend")
  BY DEF Leads, PeerSteps
<1>4. Fragment(k, SeededCredential, "allocate", "store", Plain)
  BY Parts
<1>5. Fragment(k, <<"makeIssuer">>, "makeIssuer", "makeIssuer", Plain)
  BY <1>1, <1>2, OneStep
<1>6. k = "peer" => Fragment(k, <<"fetch", "set">>, "fetch", "set", Plain)
  BY <1>1, <1>2, <1>3, TwoSteps
<1>7. Fragment(k, <<"seedCreds">>, "seedCreds", "seedCreds", Plain)
  BY <1>1, <1>2, OneStep
<1>8. Fragment(k, SeededCredential \o <<"seedCreds">>, "allocate", "seedCreds", Plain)
  BY <1>3, <1>4, <1>7, TwoFragments
<1>9. Fragment(k, <<"seedRevoked">>, "seedRevoked", "seedRevoked", Plain)
  BY <1>1, <1>2, OneStep
<1>10. Fragment(k, SetBit \o <<"seedRevoked">>, "readBits", "seedRevoked", Plain)
  BY <1>3, <1>9, Parts, TwoFragments
<1>11. Fragment(k, <<"seedIntent">>, "seedIntent", "seedIntent", Plain)
  BY <1>1, <1>2, OneStep
<1>12. Fragment(k, SeededCredential \o <<"seedCart", "seedIntent">>, "allocate", "seedIntent", Plain)
  <2>1. Fragment(k, <<"seedCart", "seedIntent">>, "seedCart", "seedIntent", Plain)
    BY <1>1, <1>2, <1>3, TwoSteps
  <2> QED
    BY <1>3, <1>4, <2>1, TwoFragments
<1>13. Fragment(k, SeededCredential \o <<"spend", "seedCart">>, "allocate", "seedCart", Plain)
  <2>1. Fragment(k, <<"spend", "seedCart">>, "spend", "seedCart", Plain)
    BY <1>1, <1>2, <1>3, TwoSteps
  <2> QED
    BY <1>3, <1>4, <2>1, TwoFragments
<1> QED
  BY <1>5, <1>6, <1>7, <1>8, <1>9, <1>10, <1>11, <1>12, <1>13

\* None of these first steps awaits another, but for an attestation.
LEMMA FirstReady ==
  ASSUME NEW k, k # "attest"
  PROVE  /\ ~Awaits(k, "makeIssuer") /\ (k = "peer" => ~Awaits(k, "fetch")) /\ ~Awaits(k, "seedCreds") /\ ~Awaits(k, "allocate")
         /\ ~Awaits(k, "seedRevoked") /\ ~Awaits(k, "readBits") /\ ~Awaits(k, "seedIntent")
         /\ ~Awaits(k, "checkCred") /\ ~Awaits(k, "readNewest")
BY DEF Awaits, PeerSteps

\* Steps in no agent's turn and in no attestation.
LEMMA Apart ==
  ASSUME RequestsInv, NEW r \in Jobs, NEW step \in Steps, Ready(r, step),
         step \in Ordinary, step \notin Inner \cup AttestSteps
  PROVE  /\ req[r] # None /\ DOMAIN req[r] = Fields
         /\ Doing(r) \in Ordinary \ (Inner \cup AttestSteps) /\ ~Turning(r) /\ req[r].kind # "attest"
BY Standing, NotTurning, NotAttesting DEF Ordinary

\* A good signature.
LEMMA Believed ==
  ASSUME RequestsInv, NEW r \in Jobs, req[r] # None, Believe(r, req[r])
  PROVE  Onward(r)
<1> DEFINE q == req[r]
<1>1. DOMAIN q = Fields
  BY DEF RequestsInv, Request
<1>2. CASE q.bit = None
  BY <1>2, OwnData DEF Believe, Onward
<1>3. CASE q.bit # None
  <2> DEFINE p == [q EXCEPT !.verdicts = Append(@, q.bit),
         !.score = IF q.kind = "score" THEN ValidityFactor(IF q.bit THEN "revoked" ELSE "valid", 0) ELSE @,
         !.code = IF q.kind \in {"verify", "peer"} /\ q.bit THEN "revoked" ELSE @]
  <2>1. Same(q, p)
    BY <1>1, FieldsAre DEF Same, Alike
  <2>2. Proceed(r, p)
    BY <1>3 DEF Believe
  <2> HIDE DEF p
  <2> QED
    BY <2>1, <2>2 DEF Onward
<1> QED
  BY <1>2, <1>3

\* Verification here.
LEMMA ResolveQuiet ==
  ASSUME RequestsInv, NEW r \in Jobs, Resolve(r)
  PROVE  Quiet(r)
<1> DEFINE q == req[r]
<1>1. "resolve" \in Steps /\ "resolve" \in Ordinary /\ "resolve" \notin Inner \cup AttestSteps
  BY DEF Steps, Ordinary, Inner, AttestSteps, AuditSteps
<1>2. q # None /\ DOMAIN q = Fields /\ Doing(r) \in Ordinary /\ ~Turning(r)
  BY <1>1, Apart DEF Resolve
<1>3. Moves(r)
  <2>1. CASE Fail(r) \/ Believe(r, q)
    BY <1>2, <2>1, Believed, OnwardMoves DEF Onward
  <2>2. CASE ~(Fail(r) \/ Believe(r, q))
    <3> DEFINE p == [q EXCEPT !.score = ValidityFactor("expired", now - creds[q.cred].exp)]
    <3>1. Follow(r, p, From(q.todo, {"readIssuer"}))
      BY <2>2 DEF Resolve
    <3>2. Same(q, p)
      BY <1>2, FieldsAre DEF Same, Alike
    <3>3. p.todo = q.todo /\ ~Awaits(p.kind, "readIssuer")
      BY <3>2 DEF Same, Alike, Awaits, PeerSteps
    <3> HIDE DEF p
    <3> QED
      BY <1>2, <3>1, <3>2, <3>3, FollowMoves
  <2> QED
    BY <2>1, <2>2
<1> QED
  BY <1>3 DEF Resolve, Quiet, registryVars

\* The status issuer is there, or made next.
LEMMA EnsureIssuerQuiet ==
  ASSUME RequestsInv, NEW r \in Jobs, EnsureIssuer(r)
  PROVE  Quiet(r)
<1>1. "ensureIssuer" \in Steps /\ "ensureIssuer" \in Ordinary /\ "ensureIssuer" \notin Inner \cup AttestSteps
  BY DEF Steps, Ordinary, Inner, AttestSteps, AuditSteps
<1>2. /\ req[r] # None /\ DOMAIN req[r] = Fields /\ Doing(r) \in Ordinary \ (Inner \cup AttestSteps)
      /\ req[r].kind # "attest"
  BY <1>1, Apart DEF EnsureIssuer
<1>3. Moves(r)
  <2>1. CASE StatusIssuer \in Registered
    <3>1. Same(req[r], SignedList(req[r], StatusIssuer))
      BY <1>2, FieldsAre DEF Same, Alike, SignedList
    <3> QED
      BY <1>2, <2>1, <3>1, OnwardMoves DEF EnsureIssuer, Onward
  <2>2. CASE StatusIssuer \notin Registered
    BY <1>2, <2>2, OwnData, PlainInsist, InsistedParts, FirstReady DEF EnsureIssuer
  <2> QED
    BY <2>1, <2>2
<1> QED
  BY <1>3 DEF EnsureIssuer, Quiet, registryVars

\* Verification at the peer, with a document from the cache or a fetched one.
LEMMA PeerQuiet ==
  ASSUME RequestsInv, NEW r \in Jobs, Get(r) \/ Set(r)
  PROVE  Quiet(r)
<1> DEFINE q == req[r]
<1>1. /\ {"get", "set"} \subseteq Steps /\ {"get", "set"} \subseteq Ordinary
      /\ {"get", "set"} \cap (Inner \cup AttestSteps) = {}
  BY DEF Steps, Ordinary, Inner, AttestSteps, AuditSteps
<1>2. /\ q # None /\ DOMAIN q = Fields /\ Doing(r) \in Ordinary \ (Inner \cup AttestSteps)
      /\ q.kind # "attest"
  BY <1>1, Apart DEF Get, Set
<1>0. q.kind = "peer"
  BY <1>2 DEF Get, Set, Ready, Doing, PeerSteps, RequestsInv, Request
<1>3. ASSUME NEW doc, JudgeAtPeer(r, doc) PROVE Moves(r)
  BY <1>2, <1>3, Believed, OnwardMoves DEF JudgeAtPeer, Refuse, Onward
<1>4. CASE Get(r)
  <2>1. Moves(r)
    <3>1. CASE Hits(cache, q.did, now) = {}
      <4> DEFINE p == [q EXCEPT !.since = now]
      <4>1. Same(q, p)
        BY <1>2, FieldsAre DEF Same, Alike
      <4>2. Insist(r, p, <<"fetch", "set">>)
        BY <1>4, <3>1 DEF Get
      <4>3. p.kind = q.kind
        BY <4>1 DEF Same, Alike
      <4> HIDE DEF p
      <4> QED
        BY <1>0, <1>2, <4>1, <4>2, <4>3, PlainInsist, InsistedParts, FirstReady
    <3>2. CASE Hits(cache, q.did, now) # {}
      BY <1>3, <1>4, <3>2 DEF Get
    <3> QED
      BY <3>1, <3>2
  <2> QED
    BY <1>4, <2>1 DEF Get, Quiet, registryVars
<1>5. CASE Set(r)
  BY <1>3, <1>5 DEF Set, Quiet, registryVars
<1> QED
  BY <1>4, <1>5

\* A step that only counts or scores something.
LEMMA Tallied ==
  ASSUME RequestsInv, NEW r \in Jobs, NEW step \in Ordinary, Ready(r, step),
         \E x : Proceed(r, [req[r] EXCEPT !.tally = x])
  PROVE  Moves(r)
<1>1. req[r] # None /\ Doing(r) \in Ordinary /\ DOMAIN req[r] = Fields
  BY Standing
<1>2. \A x : Same(req[r], [req[r] EXCEPT !.tally = x])
  BY <1>1, FieldsAre DEF Same, Alike
<1> QED
  BY <1>1, <1>2, OnwardMoves DEF Onward

\* Scores, the dashboard, and what a report counts.
LEMMA ScoresQuiet ==
  ASSUME RequestsInv, NEW r \in Jobs, ReadIssuer(r) \/ ReadHistory(r) \/ ReadBoard(r) \/ CountEvents(r)
  PROVE  Quiet(r)
<1>1. {"readIssuer", "readHistory", "readBoard", "countEvents"} \subseteq Ordinary
  BY DEF Ordinary, Steps
<1>2. CASE ReadIssuer(r)
  BY <1>1, <1>2, Tallied DEF ReadIssuer, Quiet, registryVars
<1>3. CASE ReadHistory(r)
  BY <1>1, <1>3, Tallied DEF ReadHistory, Quiet, registryVars
<1>4. CASE ReadBoard(r)
  BY <1>1, <1>4, Tallied DEF ReadBoard, Quiet, registryVars
<1>5. CASE CountEvents(r)
  BY <1>1, <1>5, Tallied DEF CountEvents, Quiet, registryVars
<1> QED
  BY <1>2, <1>3, <1>4, <1>5

\* A report's statements, one for each credential it has counted.
LEMMA ReportsQuiet ==
  ASSUME RequestsInv, NEW r \in Jobs, CountRows(r) \/ CheckCred(r)
  PROVE  Quiet(r)
<1>1. CASE CheckCred(r)
  <2>1. req[r] # None /\ Doing(r) \in Ordinary /\ DOMAIN req[r] = Fields
    BY <1>1, Standing DEF CheckCred, Ordinary, Steps
  <2>2. \A x, y : Same(req[r], [req[r] EXCEPT !.seen = x, !.tally = y])
    BY <2>1, FieldsAre DEF Same, Alike
  <2>3. Fail(r) \/ \E x, y : Proceed(r, [req[r] EXCEPT !.seen = x, !.tally = y])
    BY <1>1 DEF CheckCred
  <2>4. Onward(r)
    BY <2>2, <2>3 DEF Onward
  <2> QED
    BY <1>1, <2>1, <2>4, OnwardMoves DEF CheckCred, Quiet, registryVars
<1>2. CASE CountRows(r)
  <2>1. "countRows" \in Steps /\ "countRows" \in Ordinary /\ "countRows" \notin Inner \cup AttestSteps
    BY DEF Steps, Ordinary, Inner, AttestSteps, AuditSteps
  <2>2. /\ req[r] # None /\ DOMAIN req[r] = Fields /\ Doing(r) \in Ordinary \ (Inner \cup AttestSteps)
        /\ req[r].kind # "attest"
    BY <1>2, <2>1, Apart DEF CountRows
  <2>3. PICK q, n : /\ Same(req[r], q) /\ Insist(r, q, [i \in 1..n |-> "checkCred"])
                    /\ n = Cardinality(RowsOf(req[r].tenant))
    <3>1. \A x, y : Same(req[r], [req[r] EXCEPT !.seen = x, !.tally = y])
      BY <2>2, FieldsAre DEF Same, Alike
    <3> QED
      BY <1>2, <3>1 DEF CountRows
  <2>4. n \in Nat
    <3>1. IsFiniteSet(RowsOf(req[r].tenant))
      BY RegistryAssumption, FS_Subset DEF RowsOf
    <3> QED
      BY <2>3, <3>1, FS_CardinalityType
  <2>5. q.kind # "attest"
    BY <2>2, <2>3 DEF Same, Alike
  <2> DEFINE w == [i \in 1..n |-> "checkCred"]
  <2>6. w \in Seq(Steps) /\ Len(w) = n /\ \A i \in 1..n : w[i] = "checkCred"
    BY <2>4 DEF Steps
  <2>7. Insist(r, q, w)
    BY <2>3
  <2> HIDE DEF w
  <2>8. Moves(r)
    <3>1. CASE n = 0
      <4>1. q.todo \in Seq(Steps) /\ q.todo # <<>>
        BY <2>2, <2>3 DEF RequestsInv, Request, Same, Alike, Scripted
      <4>2. Tail(q.todo) \in Seq(Steps) /\ w = <<>>
        BY <2>6, <3>1, <4>1
      <4>3. w \o Tail(q.todo) = Tail(q.todo)
        BY <4>2
      <4>4. Proceed(r, q)
        BY <2>7, <4>3 DEF Insist, Proceed
      <4> QED
        BY <2>2, <2>3, <4>4, ProceedMoves
    <3>2. CASE n # 0
      <4>1. w # <<>> /\ Head(w) = "checkCred" /\ w[Len(w)] = "checkCred"
        BY <2>4, <2>6, <3>2
      <4>2. \A i \in 1..Len(w) : ~Awaits(q.kind, w[i]) /\ w[i] \in Plain
        BY <2>5, <2>6 DEF Awaits, Plain, Steps, PeerSteps
      <4>3. Ordered(q.kind, w)
        BY <2>6, <4>2, PlainOrdered
      <4>4. Fragment(q.kind, w, "checkCred", "checkCred", Plain)
        BY <2>6, <4>1, <4>2, <4>3 DEF Fragment
      <4>5. ~Awaits(q.kind, "checkCred")
        BY <2>5, FirstReady
      <4> QED
        BY <2>2, <2>3, <2>7, <4>4, <4>5, PlainInsist
    <3> QED
      BY <3>1, <3>2
  <2> QED
    BY <1>2, <2>8 DEF CountRows, Quiet, registryVars
<1> QED
  BY <1>1, <1>2

\* Steps of seeding and the drift demo that no loop's turn follows.
LEMMA ItemsQuiet ==
  ASSUME RequestsInv, NEW r \in Jobs, CheckEmpty(r) \/ Spend(r) \/ Expire(r)
  PROVE  Quiet(r)
<1>1. CASE CheckEmpty(r)
  <2>1. req[r] # None /\ Doing(r) \in Ordinary
    BY <1>1, Standing DEF CheckEmpty, Ordinary, Steps
  <2>2. Onward(r)
    BY <1>1, <2>1, OwnData DEF CheckEmpty, Onward, Refuse
  <2> QED
    BY <1>1, <2>1, <2>2, OnwardMoves DEF CheckEmpty, Quiet, registryVars
<1>2. CASE Spend(r)
  <2>1. req[r] # None /\ Doing(r) \in Ordinary /\ DOMAIN req[r] = Fields
    BY <1>2, Standing DEF Spend, Ordinary, Steps
  <2>2. \A x : Same(req[r], [req[r] EXCEPT !.spent = x])
    BY <2>1, FieldsAre DEF Same, Alike
  <2>3. \E x : Proceed(r, [req[r] EXCEPT !.spent = x])
    BY <1>2 DEF Spend
  <2>4. Onward(r)
    BY <2>2, <2>3 DEF Onward
  <2> QED
    BY <1>2, <2>1, <2>4, OnwardMoves DEF Spend, Quiet, registryVars
<1>3. CASE Expire(r)
  <2>1. req[r] # None /\ Fail(r) /\ Doing(r) # "seedAgents"
    BY <1>3 DEF Expire, TimeOut, Needs, Offline
  <2> QED
    BY <1>3, <2>1, FailMoves DEF Expire, Quiet, registryVars
<1> QED
  BY <1>1, <1>2, <1>3

\* The bit of a credential is set.
LEMMA SetRevokedQuiet ==
  ASSUME RequestsInv, NEW r \in Jobs, SetRevoked(r)
  PROVE  Quiet(r)
<1>1. "setRevoked" \in Steps /\ "setRevoked" \in Ordinary /\ "setRevoked" \notin Inner \cup AttestSteps
  BY DEF Steps, Ordinary, Inner, AttestSteps, AuditSteps
<1>2. /\ req[r] # None /\ DOMAIN req[r] = Fields /\ Doing(r) \in Ordinary \ (Inner \cup AttestSteps)
      /\ req[r].kind # "attest"
  BY <1>1, Apart DEF SetRevoked
<1>3. \A b, x, y, z : Same(req[r], [req[r] EXCEPT !.bits = b, !.bit = x, !.did = y, !.sig = z])
  BY <1>2, FieldsAre DEF Same, Alike
<1>4. Fail(r) \/ \E q : Same(req[r], q) /\ (Insist(r, q, Audit) \/ Proceed(r, q))
  BY <1>3 DEF SetRevoked
<1>5. Moves(r)
  <2>1. CASE Fail(r)
    BY <1>2, <2>1, OnwardMoves DEF Onward
  <2>2. ASSUME NEW q, Same(req[r], q), Insist(r, q, Audit) \/ Proceed(r, q) PROVE Moves(r)
    <3>1. CASE Proceed(r, q)
      BY <1>2, <2>2, <3>1, OnwardMoves DEF Onward
    <3>2. CASE Insist(r, q, Audit)
      <4>1. q.kind # "attest"
        BY <1>2, <2>2 DEF Same, Alike
      <4> QED
        BY <1>2, <2>2, <3>2, <4>1, Parts, FirstReady, PlainInsist
    <3> QED
      BY <2>2, <3>1, <3>2
  <2> QED
    BY <1>4, <2>1, <2>2
<1> QED
  BY <1>5 DEF SetRevoked, Quiet, registryVars

\* Sequences one after the other.
LEMMA Flattened ==
  ASSUME NEW A, NEW seqs \in Seq(Seq(A)), seqs # <<>>
  PROVE  \E h : /\ h[1] = seqs[1] /\ \A i \in 2..Len(seqs) : h[i] = h[i - 1] \o seqs[i]
                /\ FlattenSeq(seqs) = h[Len(seqs)]
<1>1. PICK n : n = Len(seqs)
  OBVIOUS
<1>2. n \in Nat \ {0} /\ \A i \in 1..n : seqs[i] \in Seq(A)
  BY <1>1
<1> DEFINE E(f) == f = [i \in 1..n |-> IF i = 1 THEN seqs[i] ELSE f[i - 1] \o seqs[i]]
<1>3. \E f : E(f)
  <2> DEFINE step == [i \in Nat |-> [x \in Seq(A) |-> IF i \in 1..n THEN x \o seqs[i] ELSE x]]
  <2>1. <<>> \in Seq(A) /\ <<>> \o seqs[1] = seqs[1]
    BY <1>2, ConcatEmptySeq
  <2>2. step \in [Nat -> [Seq(A) -> Seq(A)]]
    <3>1. ASSUME NEW i \in Nat, NEW x \in Seq(A) PROVE (IF i \in 1..n THEN x \o seqs[i] ELSE x) \in Seq(A)
      BY <1>2, Concatenated
    <3> QED
      BY <3>1
  <2>3. PICK f : Iterates(f, Seq(A), <<>>, step, n)
    <3> HIDE DEF step
    <3> QED
      BY <1>2, <2>1, <2>2, Recursion
  <2> DEFINE g == [i \in 1..n |-> f[i]]
  <2>4. ASSUME NEW i \in 1..n PROVE f[i] = f[i - 1] \o seqs[i]
    <3>1. i \in Nat /\ i - 1 \in 0..n
      BY <1>2
    <3>2. f[i - 1] \in Seq(A) /\ f[i] = step[i][f[i - 1]]
      BY <2>3, <3>1 DEF Iterates
    <3> QED
      BY <3>1, <3>2
  <2>5. f[1] = seqs[1]
    <3>1. 1 \in 1..n /\ 1 - 1 = 0
      BY <1>2
    <3>2. f[1] = f[0] \o seqs[1]
      BY <2>4, <3>1
    <3> QED
      BY <2>1, <2>3, <3>2 DEF Iterates
  <2>6. ASSUME NEW i \in 1..n PROVE f[i] = IF i = 1 THEN seqs[i] ELSE g[i - 1] \o seqs[i]
    <3>1. CASE i = 1
      BY <2>5, <3>1
    <3>2. CASE i # 1
      <4>1. i - 1 \in 1..n
        BY <1>2, <3>2
      <4> QED
        BY <2>4, <3>2, <4>1
    <3> QED
      BY <3>1, <3>2
  <2>7. E(g)
    BY <2>6
  <2> QED
    BY <2>7
<1> DEFINE h == CHOOSE f : E(f)
<1>4. E(h)
  <2> HIDE DEF E
  <2> QED
    BY <1>3
<1>5. FlattenSeq(seqs) = h[n]
  BY <1>1, <1>2 DEF FlattenSeq
<1> HIDE DEF h
<1>6. h[1] = seqs[1] /\ \A i \in 2..n : h[i] = h[i - 1] \o seqs[i]
  <2>1. ASSUME NEW i \in 1..n PROVE h[i] = IF i = 1 THEN seqs[i] ELSE h[i - 1] \o seqs[i]
    BY <1>4
  <2>2. 1 \in 1..n /\ \A i \in 2..n : i \in 1..n /\ i # 1
    BY <1>2
  <2> QED
    BY <2>1, <2>2
<1> QED
  BY <1>1, <1>5, <1>6

\* The audit events of the delegations that are seeded: none, or one after the other.
LEMMA AuditsInTurn ==
  ASSUME NEW k, NEW B, AuditSteps \subseteq B, NEW n \in Nat
  PROVE  LET w == FlattenSeq([i \in 1..n |-> Audit]) IN
         w = <<>> \/ Fragment(k, w, "readNewest", "append", B)
<1> DEFINE seqs == [i \in 1..n |-> Audit]
           w == FlattenSeq(seqs)
<1>1. Fragment(k, Audit, "readNewest", "append", B)
  BY AuditFragment
<1>2. Leads(k, "append", "readNewest")
  BY DEF Leads, PeerSteps
<1>3. CASE n = 0
  <2>1. seqs = <<>> /\ Len(seqs) = 0
    BY <1>3
  <2> QED
    BY <2>1 DEF FlattenSeq
<1>4. CASE n # 0
  <2>1. seqs \in Seq(Seq(Steps)) /\ Len(seqs) = n /\ seqs # <<>> /\ \A i \in 1..n : seqs[i] = Audit
    BY <1>1, <1>4 DEF Fragment
  <2> HIDE DEF seqs
  <2>2. PICK h : /\ h[1] = seqs[1] /\ \A i \in 2..n : h[i] = h[i - 1] \o seqs[i]
                 /\ w = h[n]
    BY <2>1, Flattened
  <2> HIDE DEF w
  <2> DEFINE S == {i \in Nat : i \in 1..n => Fragment(k, h[i], "readNewest", "append", B)}
  <2>3. 0 \in S
    OBVIOUS
  <2>4. ASSUME NEW i \in Nat, i \in S PROVE i + 1 \in S
    <3> SUFFICES ASSUME i + 1 \in 1..n PROVE Fragment(k, h[i + 1], "readNewest", "append", B)
      OBVIOUS
    <3>1. CASE i = 0
      BY <1>1, <2>1, <2>2, <3>1
    <3>2. CASE i # 0
      <4>1. i \in 1..n /\ i + 1 \in 2..n /\ i + 1 \in 1..n /\ (i + 1) - 1 = i
        BY <3>2
      <4>2. h[i + 1] = h[i] \o Audit
        BY <2>1, <2>2, <4>1
      <4>3. Fragment(k, h[i], "readNewest", "append", B)
        BY <2>4, <4>1
      <4> QED
        BY <1>1, <1>2, <4>2, <4>3, TwoFragments
    <3> QED
      BY <3>1, <3>2
  <2>5. Nat \subseteq S
    <3> HIDE DEF S
    <3> QED
      BY <2>3, <2>4, Induction
  <2>6. n \in S /\ n \in 1..n
    BY <1>4, <2>5
  <2> QED
    BY <2>2, <2>6 DEF w, seqs
<1> QED
  BY <1>3, <1>4

\* The turns of seeding's loops, but for the one over the agents.
LEMMA SeedingQuiet ==
  ASSUME RequestsInv, NEW r \in Jobs,
         SeedCreds(r) \/ SeedRevoked(r) \/ SeedTree(r) \/ SeedIntent(r) \/ SeedCart(r)
  PROVE  Quiet(r)
<1> DEFINE q == req[r]
<1>1. LET S == {"seedCreds", "seedRevoked", "seedTree", "seedIntent", "seedCart"} IN
      S \subseteq Steps /\ S \subseteq Ordinary /\ S \cap (Inner \cup AttestSteps) = {}
  BY DEF Steps, Ordinary, Inner, AttestSteps, AuditSteps
<1>2. /\ q # None /\ DOMAIN q = Fields /\ Doing(r) \in Ordinary \ (Inner \cup AttestSteps)
      /\ q.kind # "attest"
  BY <1>1, Apart DEF SeedCreds, SeedRevoked, SeedTree, SeedIntent, SeedCart
<1>3. ASSUME NEW p, Same(q, p), NEW w, NEW a, NEW z, Fragment(q.kind, w, a, z, Plain), ~Awaits(q.kind, a),
             Insist(r, p, w)
      PROVE  Moves(r)
  BY <1>2, <1>3, PlainInsist DEF Same, Alike
<1>4. ASSUME Proceed(r, q) PROVE Moves(r)
  BY <1>2, <1>4, OwnData, ProceedMoves
<1>5. CASE SeedCreds(r)
  <2>1. \A x, y, z : Same(q, [q EXCEPT !.issued = x, !.agent = y, !.subject = z])
    BY <1>2, FieldsAre DEF Same, Alike
  <2>2. \/ Proceed(r, q)
        \/ \E p : Same(q, p) /\ (Insist(r, p, <<"seedCreds">>) \/ Insist(r, p, SeededCredential \o <<"seedCreds">>))
    BY <1>5, <2>1 DEF SeedCreds
  <2>3. Moves(r)
    BY <1>2, <1>3, <1>4, <2>2, InsistedParts, FirstReady
  <2> QED
    BY <1>5, <2>3 DEF SeedCreds, Quiet, registryVars
<1>6. CASE SeedRevoked(r)
  <2>1. \A x, y : Same(q, [q EXCEPT !.targets = x, !.cred = y])
    BY <1>2, FieldsAre DEF Same, Alike
  <2>2. \/ Proceed(r, q)
        \/ \E p : Same(q, p) /\ (Insist(r, p, <<"seedRevoked">>) \/ Insist(r, p, SetBit \o <<"seedRevoked">>))
    BY <1>6, <2>1 DEF SeedRevoked
  <2>3. Moves(r)
    BY <1>2, <1>3, <1>4, <2>2, InsistedParts, FirstReady
  <2> QED
    BY <1>6, <2>3 DEF SeedRevoked, Quiet, registryVars
<1>7. CASE SeedTree(r)
  <2> DEFINE w == FlattenSeq([n \in DOMAIN Tree |-> Audit])
  <2>1. Tree \in Seq(Nat \X Nat)
    BY BackendAssumption
  <2>2. PICK n : n = Len(Tree)
    OBVIOUS
  <2>3. n \in Nat /\ DOMAIN Tree = 1..n
    BY <2>1, <2>2
  <2>4. w = <<>> \/ Fragment(q.kind, w, "readNewest", "append", Plain)
    <3>1. AuditSteps \subseteq Plain
      BY DEF AuditSteps, Plain, Steps
    <3> QED
      BY <2>3, <3>1, AuditsInTurn
  <2>5. Proceed(r, q) \/ Insist(r, q, w)
    BY <1>7 DEF SeedTree
  <2> HIDE DEF w
  <2>6. w = <<>> => w \o Tail(q.todo) = Tail(q.todo)
    <3>1. q.todo \in Seq(Steps) /\ q.todo # <<>>
      BY <1>2 DEF RequestsInv, Request, Scripted
    <3>2. Tail(q.todo) \in Seq(Steps)
      BY <3>1
    <3> QED
      BY <3>2
  <2>7. Moves(r)
    <3>1. CASE w = <<>>
      BY <1>4, <2>5, <2>6, <3>1 DEF Insist, Proceed
    <3>2. CASE w # <<>>
      BY <1>2, <1>3, <1>4, <2>4, <2>5, <3>2, OwnData, FirstReady
    <3> QED
      BY <3>1, <3>2
  <2> QED
    BY <1>7, <2>7 DEF SeedTree, Quiet, registryVars
<1>8. CASE SeedIntent(r)
  <2>1. /\ \A a, b, c, d, e : Same(q, [q EXCEPT !.deals = a, !.agent = b, !.subject = c, !.spent = d, !.carts = e])
        /\ \A a, b, c, d, e, f, g : Same(q, [[q EXCEPT !.deals = a, !.agent = b, !.subject = c, !.spent = d,
                                                       !.carts = e] EXCEPT !.issued = f, !.intent = g])
    BY <1>2, FieldsAre DEF Same, Alike
  <2>2. \/ Proceed(r, q)
        \/ \E p : Same(q, p) /\ \/ Insist(r, p, <<"seedIntent">>)
                                \/ Insist(r, p, SeededCredential \o <<"seedCart", "seedIntent">>)
    BY <1>8, <2>1 DEF SeedIntent
  <2>3. Moves(r)
    BY <1>2, <1>3, <1>4, <2>2, InsistedParts, FirstReady
  <2> QED
    BY <1>8, <2>3 DEF SeedIntent, Quiet, registryVars
<1>9. CASE SeedCart(r)
  <2>1. \A x, y, z : Same(q, [q EXCEPT !.issued = x, !.carts = y, !.price = z])
    BY <1>2, FieldsAre DEF Same, Alike
  <2>2. \/ Proceed(r, q)
        \/ \E p : Same(q, p) /\ Insist(r, p, SeededCredential \o <<"spend", "seedCart">>)
    BY <1>9, <2>1 DEF SeedCart
  <2>3. Moves(r)
    BY <1>2, <1>3, <1>4, <2>2, InsistedParts, FirstReady
  <2> QED
    BY <1>9, <2>3 DEF SeedCart, Quiet, registryVars
<1> QED
  BY <1>5, <1>6, <1>7, <1>8, <1>9

(***************************************************************************)
(* The steps that others work on, and those that change the rows.          *)
(***************************************************************************)

\* Request r has ended, or goes on with q, for the same tenant.
Lands(r, q) == Data(q) /\ Goes(r, q) /\ q.kind = req[r].kind /\ q.tenant = req[r].tenant

\* A request that proceeds lands at its next step.
LEMMA SameLands ==
  ASSUME RequestsInv, NEW r \in Jobs, req[r] # None, Doing(r) # "seedAgents",
         NEW q, Same(req[r], q), Proceed(r, q)
  PROVE  Lands(r, q)
<1>1. Goes(r, q)
  BY ProceedGoes DEF Same
<1>2. Data(q)
  BY SameData
<1> QED
  BY <1>1, <1>2 DEF Lands, Same, Alike

\* Where a request lands that goes on.
LEMMA LandsOn ==
  ASSUME NEW r \in Jobs, NEW q, Lands(r, q)
  PROVE  /\ Only(r)
         /\ req'[r] # None => /\ Request(req'[r]) /\ Left(q, req'[r])
                              /\ Leads(req[r].kind, Doing(r), Head(req'[r].todo))
BY Landed DEF Lands, Goes

\* write_audit's first two steps.
LEMMA ReadNewestLands ==
  ASSUME RequestsInv, NEW r \in Jobs, ReadNewest(r)
  PROVE  /\ req[r] # None /\ Doing(r) = "readNewest" /\ DOMAIN req[r] = Fields
         /\ Lands(r, [req[r] EXCEPT !.prev = Newest(log[AuditTenant(req[r])])])
<1>1. req[r] # None /\ Doing(r) = "readNewest" /\ DOMAIN req[r] = Fields
  BY Standing DEF ReadNewest
<1> DEFINE q == [req[r] EXCEPT !.prev = Newest(log[AuditTenant(req[r])])]
<1>2. Same(req[r], q)
  BY <1>1, FieldsAre DEF Same, Alike
<1>3. Proceed(r, q)
  BY DEF ReadNewest
<1> HIDE DEF q
<1>4. Lands(r, q)
  BY <1>1, <1>2, <1>3, SameLands
<1> QED
  BY <1>1, <1>4 DEF q

\* The event gets its time.
LEMMA StampLands ==
  ASSUME RequestsInv, NEW r \in Jobs, Stamp(r)
  PROVE  /\ req[r] # None /\ Doing(r) = "stamp" /\ DOMAIN req[r] = Fields
         /\ Lands(r, [req[r] EXCEPT !.at = stamps + 1])
<1>1. req[r] # None /\ Doing(r) = "stamp" /\ DOMAIN req[r] = Fields
  BY Standing DEF Stamp
<1> DEFINE q == [req[r] EXCEPT !.at = stamps + 1]
<1>2. Same(req[r], q)
  BY <1>1, FieldsAre DEF Same, Alike
<1>3. Proceed(r, q)
  BY DEF Stamp
<1> HIDE DEF q
<1>4. Lands(r, q)
  BY <1>1, <1>2, <1>3, SameLands
<1> QED
  BY <1>1, <1>4 DEF q

\* The event is written.
LEMMA AppendMoves ==
  ASSUME RequestsInv, NEW r \in Jobs, AppendEvent(r)
  PROVE  req[r] # None /\ Doing(r) = "append" /\ Moves(r)
<1>1. req[r] # None /\ Doing(r) = "append" /\ DOMAIN req[r] = Fields /\ Doing(r) \in Ordinary
  BY Standing DEF AppendEvent, Ordinary, Steps
<1>2. Same(req[r], [req[r] EXCEPT !.prev = 0, !.at = 0])
  BY <1>1, FieldsAre DEF Same, Alike
<1>3. Proceed(r, [req[r] EXCEPT !.prev = 0, !.at = 0])
  BY DEF AppendEvent
<1> QED
  BY <1>1, <1>2, <1>3, ProceedMoves

\* Rotation: the keys are read, then written.
LEMMA ReadKeysLands ==
  ASSUME RequestsInv, NEW r \in Jobs, ReadKeys(r)
  PROVE  \/ Moves(r)
         \/ /\ DOMAIN req[r] = Fields /\ req[r].agent \in AgentsOf(req[r].tenant)
            /\ Doing(r) = "readKeys"
            /\ Lands(r, [req[r] EXCEPT !.seen = Len(keys[req[r].agent]), !.fresh = req[r].tenant \notin tenants])
<1>1. req[r] # None /\ Doing(r) = "readKeys" /\ DOMAIN req[r] = Fields
  BY Standing DEF ReadKeys
<1>2. CASE req[r].agent \in AgentsOf(req[r].tenant)
  <2> DEFINE q == [req[r] EXCEPT !.seen = Len(keys[req[r].agent]), !.fresh = req[r].tenant \notin tenants]
  <2>1. Same(req[r], q)
    BY <1>1, FieldsAre DEF Same, Alike
  <2>2. Proceed(r, q)
    BY <1>2 DEF ReadKeys
  <2> HIDE DEF q
  <2>3. Lands(r, q)
    BY <1>1, <2>1, <2>2, SameLands
  <2> QED
    BY <1>1, <1>2, <2>3 DEF q
<1>3. CASE req[r].agent \notin AgentsOf(req[r].tenant)
  BY <1>1, <1>3, RefuseMoves DEF ReadKeys
<1> QED
  BY <1>2, <1>3

\* Revocation: the list is read, and then written (SetRevokedQuiet).
LEMMA ReadBitsLands ==
  ASSUME RequestsInv, NEW r \in Jobs, ReadBits(r)
  PROVE  \/ Moves(r)
         \/ /\ req[r] # None /\ DOMAIN req[r] = Fields /\ Doing(r) = "readBits"
            /\ Lands(r, [req[r] EXCEPT !.bits = Bits(req[r].cred)])
<1>1. req[r] # None /\ Doing(r) = "readBits" /\ DOMAIN req[r] = Fields
  BY Standing DEF ReadBits
<1>2. CASE Listed(req[r].cred)
  <2> DEFINE q == [req[r] EXCEPT !.bits = Bits(req[r].cred)]
  <2>1. Same(req[r], q)
    BY <1>1, FieldsAre DEF Same, Alike
  <2>2. Proceed(r, q)
    BY <1>2 DEF ReadBits
  <2> HIDE DEF q
  <2>3. Lands(r, q)
    BY <1>1, <2>1, <2>2, SameLands
  <2> QED
    BY <1>1, <2>3 DEF q
<1>3. CASE ~Listed(req[r].cred)
  BY <1>1, <1>3, FailMoves DEF ReadBits
<1> QED
  BY <1>2, <1>3

\* The rotation is written.
LEMMA RotateMoves ==
  ASSUME RequestsInv, NEW r \in Jobs, Rotate(r)
  PROVE  req[r] # None /\ Doing(r) = "rotate" /\ Moves(r)
<1>1. req[r] # None /\ Doing(r) = "rotate" /\ Doing(r) \in Ordinary
  BY Standing DEF Rotate, Ordinary, Steps
<1>2. Onward(r)
  BY <1>1, OwnData DEF Rotate, Onward
<1> QED
  BY <1>1, <1>2, OnwardMoves

\* Making the status issuer, and deleting a tenant's rows.
LEMMA MakeIssuerMoves ==
  ASSUME RequestsInv, NEW r \in Jobs, MakeIssuer(r)
  PROVE  Moves(r)
<1>1. req[r] # None /\ Doing(r) \in Ordinary /\ DOMAIN req[r] = Fields
  BY Standing DEF MakeIssuer, Ordinary, Steps
<1>2. \A x : Same(req[r], [req[r] EXCEPT !.sig = x])
  BY <1>1, FieldsAre DEF Same, Alike
<1>3. Onward(r)
  BY <1>2 DEF MakeIssuer, Onward
<1> QED
  BY <1>1, <1>3, OnwardMoves

\* The rest of a tenant's rows is deleted.
LEMMA DeleteRestMoves ==
  ASSUME RequestsInv, NEW r \in Jobs, DeleteRest(r)
  PROVE  req[r] # None /\ Doing(r) = "deleteRest" /\ Moves(r)
<1>1. req[r] # None /\ Doing(r) = "deleteRest" /\ Doing(r) \in Ordinary
  BY Standing DEF DeleteRest, Ordinary, Steps
<1>2. Onward(r)
  BY <1>1, OwnData DEF DeleteRest, Onward
<1> QED
  BY <1>1, <1>2, OnwardMoves

\* Signing and storing.
LEMMA AllocateLands ==
  ASSUME RequestsInv, NEW r \in Jobs, Allocate(r)
  PROVE  /\ req[r] # None /\ Doing(r) = "allocate" /\ DOMAIN req[r] = Fields
         /\ Lands(r, [req[r] EXCEPT !.seen = resets[req[r].tenant]])
<1>1. req[r] # None /\ Doing(r) = "allocate" /\ DOMAIN req[r] = Fields
  BY Standing DEF Allocate
<1> DEFINE q == [req[r] EXCEPT !.seen = resets[req[r].tenant]]
<1>2. Same(req[r], q)
  BY <1>1, FieldsAre DEF Same, Alike
<1>3. Proceed(r, q)
  BY DEF Allocate
<1> HIDE DEF q
<1>4. Lands(r, q)
  BY <1>1, <1>2, <1>3, SameLands
<1> QED
  BY <1>1, <1>4 DEF q

\* The row of a credential is stored.
LEMMA StoreMoves ==
  ASSUME RequestsInv, NEW r \in Jobs, Store(r)
  PROVE  req[r] # None /\ Doing(r) = "store" /\ Moves(r)
<1>1. req[r] # None /\ Doing(r) = "store" /\ Doing(r) \in Ordinary /\ DOMAIN req[r] = Fields
  BY Standing DEF Store, Ordinary, Steps
<1>2. ~Turning(r) /\ req[r].kind # "attest" /\ Doing(r) \notin Inner \cup AttestSteps
  <2>1. Doing(r) \notin Inner \cup {"seedAgents"} /\ Doing(r) \notin AttestSteps
    BY <1>1 DEF Inner, AttestSteps, AuditSteps
  <2> QED
    BY <1>1, <2>1, NotTurning, NotAttesting
<1>3. \A x : Same(req[r], [req[r] EXCEPT !.issued = x])
  BY <1>1, FieldsAre DEF Same, Alike
<1>4. Onward(r) \/ \E q : Same(req[r], q) /\ Insist(r, q, Audit)
  BY <1>1, <1>3, OwnData DEF Store, Onward
<1>5. ASSUME NEW q, Same(req[r], q), Insist(r, q, Audit) PROVE Moves(r)
  <2>1. q.kind # "attest"
    BY <1>2, <1>5 DEF Same, Alike
  <2> QED
    BY <1>1, <1>2, <1>5, <2>1, Parts, FirstReady, PlainInsist
<1> QED
  BY <1>1, <1>4, <1>5, OnwardMoves

\* A credential is signed under the least number that is free.
LEMMA SignLands ==
  ASSUME RequestsInv, NEW r \in Jobs, Sign(r)
  PROVE  /\ req[r] # None /\ Doing(r) = "sign" /\ DOMAIN req[r] = Fields
         /\ \/ req[r].agent \notin Registered /\ Moves(r) /\ UNCHANGED creds
            \/ /\ req[r].agent \in Registered /\ RoomForCred
               /\ \E sig \in {Signature(req[r].agent, SigningKey(req[r].agent))} :
                    Lands(r, [req[r] EXCEPT !.cred = Min(Unsigned), !.did = req[r].agent, !.sig = sig, !.seen = None])
<1>1. req[r] # None /\ Doing(r) = "sign" /\ DOMAIN req[r] = Fields
  BY Standing DEF Sign
<1>2. CASE req[r].agent \notin Registered
  <2>1. Fail(r) /\ UNCHANGED registryVars
    BY <1>2 DEF Sign
  <2>2. Moves(r)
    BY <1>1, <2>1, FailMoves
  <2> QED
    BY <1>1, <1>2, <2>1, <2>2 DEF registryVars
<1>3. CASE req[r].agent \in Registered
  <2>1. RoomForCred /\ \E sig \in {Signature(req[r].agent, SigningKey(req[r].agent))} :
          Proceed(r, [req[r] EXCEPT !.cred = Min(Unsigned), !.did = req[r].agent, !.sig = sig, !.seen = None])
    BY <1>3 DEF Sign
  <2>2. ASSUME NEW sig,
               Proceed(r, [req[r] EXCEPT !.cred = Min(Unsigned), !.did = req[r].agent, !.sig = sig, !.seen = None])
        PROVE  Lands(r, [req[r] EXCEPT !.cred = Min(Unsigned), !.did = req[r].agent, !.sig = sig, !.seen = None])
    <3> DEFINE q == [req[r] EXCEPT !.cred = Min(Unsigned), !.did = req[r].agent, !.sig = sig, !.seen = None]
    <3>1. Same(req[r], q)
      BY <1>1, FieldsAre DEF Same, Alike
    <3>2. Proceed(r, q)
      BY <2>2
    <3> HIDE DEF q
    <3>3. Lands(r, q)
      BY <1>1, <3>1, <3>2, SameLands
    <3> QED
      BY <3>3 DEF q
  <2> QED
    BY <1>1, <1>3, <2>1, <2>2
<1> QED
  BY <1>2, <1>3

\* Steps put before the rest where the step at hand may prepare another.
LEMMA InsistSettles ==
  ASSUME RequestsInv, NEW r \in Jobs, req[r] # None, Doing(r) # "seedAgents",
         NEW q, Alike(req[r], q), Data(q), NEW w, Insist(r, q, w),
         Inserted(q.kind, q.spiffe, w), ~Awaits(q.kind, Head(w)),
         \A x : Leads(q.kind, Doing(r), x) => Leads(q.kind, w[Len(w)], x)
  PROVE  Moves(r)
<1>1. Goes(r, q)
  BY InsistGoes
<1> DEFINE u == Tail(q.todo)
           t == w \o u
<1>2. w \in Seq(Steps) /\ w # <<>> /\ u \in Seq(Steps)
  <2>1. q.todo \in Seq(Steps) /\ q.todo # <<>>
    BY DEF RequestsInv, Request, Alike, Scripted
  <2> QED
    BY <2>1 DEF Inserted
<1> HIDE DEF u
<1>3. t # <<>> /\ Head(t) = Head(w)
  <2>1. Len(w) \in Nat \ {0} /\ 1 \in 1..Len(w) /\ Head(w) = w[1]
    BY <1>2
  <2>2. t \in Seq(Steps) /\ t[1] = w[1] /\ Len(t) = Len(w) + Len(u) /\ Len(u) \in Nat
    BY <1>2, <2>1, Concatenated
  <2>3. t # <<>> /\ Head(t) = t[1]
    BY <2>1, <2>2
  <2> QED
    BY <2>1, <2>2, <2>3
<1>4. req' = [req EXCEPT ![r] = [q EXCEPT !.todo = t]]
  BY <1>3 DEF Insist, Follow, u
<1> HIDE DEF t
<1>5. req'[r] = [q EXCEPT !.todo = t] /\ DOMAIN q = Fields
  BY <1>4 DEF RequestsInv, Data
<1>6. req'[r].todo = t /\ req'[r].kind = q.kind
  BY <1>5, FieldsAre
<1>7. Rests(r)
  BY <1>3, <1>6 DEF Rests
<1> QED
  BY <1>1, <1>7, GoesMoves DEF Alike

\* The holder of a SPIFFE ID: there is one, or one is registered, or the one that
\* another request has registered is fetched.
HolderFound(r, a) ==
  /\ req[r] # None /\ DOMAIN req[r] = Fields
  /\ Doing(r) \in {"findHolder", "register", "refetch"} /\ Lands(r, Holds(req[r], a))

\* A request that proceeds with a holder has found one.
LEMMA HoldsLands ==
  ASSUME RequestsInv, NEW r \in Jobs, req[r] # None, Doing(r) \in {"findHolder", "register", "refetch"},
         NEW a, Proceed(r, Holds(req[r], a))
  PROVE  HolderFound(r, a)
<1> DEFINE q == Holds(req[r], a)
<1>1. DOMAIN req[r] = Fields /\ Doing(r) # "seedAgents"
  BY DEF RequestsInv, Request
<1>2. Same(req[r], q)
  BY <1>1, FieldsAre DEF Same, Alike, Holds
<1> HIDE DEF q
<1>3. Lands(r, q)
  BY <1>1, <1>2, SameLands DEF q
<1> QED
  BY <1>1, <1>3 DEF HolderFound, q

\* The steps put before the rest when there is no holder yet, or another one by now.
LEMMA HolderSteps ==
  ASSUME NEW k, NEW s, ~(k = "seed" /\ s # None)
  PROVE  /\ Inserted(k, s, <<"ensureTenant", "register">>) /\ Inserted(k, s, <<"refetch">>)
         /\ ~Awaits(k, "ensureTenant") /\ ~Awaits(k, "refetch")
         /\ \A x : Leads(k, "findHolder", x) => Leads(k, "register", x)
         /\ \A x : Leads(k, "register", x) => Leads(k, "refetch", x)
<1> DEFINE B == {"ensureTenant", "register", "refetch"}
<1>1. B \subseteq Steps /\ B \subseteq AttestSteps /\ "seedAgents" \notin B
  BY DEF Steps, AttestSteps
<1>2. Leads(k, "ensureTenant", "register")
  BY DEF Leads, PeerSteps
<1>3. Fragment(k, <<"ensureTenant", "register">>, "ensureTenant", "register", B)
  BY <1>1, <1>2, TwoSteps
<1>4. Fragment(k, <<"refetch">>, "refetch", "refetch", B)
  BY <1>1, OneStep
<1>5. ASSUME NEW w, NEW a, NEW z, Fragment(k, w, a, z, B) PROVE Inserted(k, s, w)
  <2> HIDE DEF B
  <2> QED
    BY <1>1, <1>5 DEF Fragment, Inserted
<1> QED
  BY <1>3, <1>4, <1>5 DEF Awaits, Leads, PeerSteps

\* The look-up finds a holder, or puts the registration before the rest.
LEMMA FindHolderLands ==
  ASSUME RequestsInv, NEW r \in Jobs, FindHolder(r)
  PROVE  Moves(r) \/ \E a \in HoldersOf(req[r].spiffe) : HolderFound(r, a)
<1>1. req[r] # None /\ Doing(r) = "findHolder" /\ Doing(r) # "seedAgents"
  BY Standing DEF FindHolder
<1>2. ~Turning(r)
  BY <1>1, NotTurning DEF Inner, AuditSteps
<1>3. CASE HoldersOf(req[r].spiffe) = {}
  <2>1. Insist(r, req[r], <<"ensureTenant", "register">>)
    BY <1>3 DEF FindHolder
  <2> DEFINE w == <<"ensureTenant", "register">>
  <2>2. Head(w) = "ensureTenant" /\ w[Len(w)] = "register"
    OBVIOUS
  <2>3. Inserted(req[r].kind, req[r].spiffe, w) /\ Insist(r, req[r], w)
    BY <1>2, <2>1, HolderSteps DEF Turning
  <2> HIDE DEF w
  <2> QED
    BY <1>1, <1>2, <2>2, <2>3, HolderSteps, OwnData, InsistSettles DEF Turning, Same
<1>4. CASE HoldersOf(req[r].spiffe) # {}
  BY <1>1, <1>4, HoldsLands DEF FindHolder
<1> QED
  BY <1>3, <1>4

\* The registration inserts one, or puts a second look-up before the rest.
LEMMA RegisterLands ==
  ASSUME RequestsInv, NEW r \in Jobs, Register(r)
  PROVE  \/ Moves(r) /\ UNCHANGED registryVars
         \/ /\ ~Conflict(req[r]) /\ RoomForAgent
            /\ \E a \in {Min(Unused)} : InsertRows(req[r], a) /\ HolderFound(r, a)
<1>1. req[r] # None /\ Doing(r) = "register" /\ Doing(r) # "seedAgents"
  BY Standing DEF Register
<1>2. ~Turning(r)
  BY <1>1, NotTurning DEF Inner, AuditSteps
<1>3. CASE Conflict(req[r])
  <2>1. Insist(r, req[r], <<"refetch">>) /\ UNCHANGED registryVars
    BY <1>3 DEF Register
  <2> DEFINE w == <<"refetch">>
  <2>2. Head(w) = "refetch" /\ w[Len(w)] = "refetch"
    OBVIOUS
  <2>3. Inserted(req[r].kind, req[r].spiffe, w) /\ Insist(r, req[r], w)
    BY <1>2, <2>1, HolderSteps DEF Turning
  <2> HIDE DEF w
  <2>4. Moves(r)
    BY <1>1, <1>2, <2>2, <2>3, HolderSteps, OwnData, InsistSettles DEF Turning, Same
  <2> QED
    BY <2>1, <2>4
<1>4. CASE ~Conflict(req[r])
  BY <1>1, <1>4, HoldsLands DEF Register
<1> QED
  BY <1>3, <1>4

\* The second look-up finds one, or fails.
LEMMA RefetchLands ==
  ASSUME RequestsInv, NEW r \in Jobs, Refetch(r)
  PROVE  Moves(r) \/ \E a \in HoldersOf(req[r].spiffe) : HolderFound(r, a)
<1>1. req[r] # None /\ Doing(r) = "refetch" /\ Doing(r) # "seedAgents"
  BY Standing DEF Refetch
<1>2. CASE HoldersOf(req[r].spiffe) = {}
  BY <1>1, <1>2, FailMoves DEF Refetch
<1>3. CASE HoldersOf(req[r].spiffe) # {}
  BY <1>1, <1>3, HoldsLands DEF Refetch
<1> QED
  BY <1>2, <1>3

\* The number of a new agent, and of a new credential.
LEMMA LeastUnused ==
  /\ RoomForAgent => Min(Unused) \in Unused /\ Unused \subseteq Agents \ {StatusIssuer}
  /\ RoomForCred => Min(Unsigned) \in Unsigned /\ Unsigned \subseteq Creds
<1>1. ASSUME NEW T, T \subseteq Nat, T # {} PROVE Min(T) \in T
  <2>1. \E n \in T : \A m \in T : n <= m
    BY <1>1, Least
  <2> QED
    BY <2>1 DEF Min
<1>2. Unused \subseteq Agents \ {StatusIssuer} /\ Unsigned \subseteq Creds
  BY DEF Unused, Unsigned
<1>3. Unused \subseteq Nat /\ Unsigned \subseteq Nat
  BY <1>2, RegistryAssumption
<1> QED
  BY <1>1, <1>2, <1>3 DEF RoomForAgent, RoomForCred

\* A new agent; the row of the new one of a roster is filled in.
LEMMA InsertAgentMoves ==
  ASSUME RequestsInv, NEW r \in Jobs, InsertAgent(r)
  PROVE  /\ req[r] # None /\ Moves(r)
         /\ \/ UNCHANGED registryVars
            \/ ~Conflict(req[r]) /\ RoomForAgent /\ \E a \in {Min(Unused)} : InsertRows(req[r], a)
<1>1. req[r] # None /\ Doing(r) = "insert" /\ DOMAIN req[r] = Fields /\ Doing(r) \in Ordinary
  BY Standing DEF InsertAgent, Ordinary, Steps
<1>2. CASE Conflict(req[r])
  BY <1>1, <1>2, FailMoves DEF InsertAgent
<1>3. CASE ~Conflict(req[r])
  <2>1. PICK a : /\ RoomForAgent /\ a = Min(Unused) /\ InsertRows(req[r], a)
                 /\ LET q == [req[r] EXCEPT !.fresh = FALSE, !.subject = a,
                                       !.agent = IF req[r].agent = None THEN a ELSE @] IN
                    IF q.kind = "seed" THEN Insist(r, [q EXCEPT !.made[Len(q.made)] = a], Audit)
                    ELSE Proceed(r, q)
    BY <1>3 DEF InsertAgent
  <2> DEFINE q == [req[r] EXCEPT !.fresh = FALSE, !.subject = a,
                                 !.agent = IF req[r].agent = None THEN a ELSE @]
  <2>2. Same(req[r], q)
    BY <1>1, FieldsAre DEF Same, Alike
  <2>3. IF q.kind = "seed" THEN Insist(r, [q EXCEPT !.made[Len(q.made)] = a], Audit) ELSE Proceed(r, q)
    BY <2>1
  <2> HIDE DEF q
  <2>4. Moves(r)
    <3>1. CASE q.kind # "seed"
      BY <1>1, <2>2, <2>3, <3>1, ProceedMoves
    <3>2. CASE q.kind = "seed"
      <4> DEFINE p == [q EXCEPT !.made[Len(q.made)] = a]
      <4>1. Insist(r, p, Audit) /\ Data(q)
        BY <1>1, <2>2, <2>3, <3>2, SameData
      <4>2. DOMAIN p = Fields /\ Alike(req[r], p) /\ p.made = [q.made EXCEPT ![Len(q.made)] = a]
        BY <2>2, FieldsAre DEF Same, Alike
      <4> HIDE DEF p
      <4>3. a \in Agents
        BY <2>1, LeastUnused
      <4>4. p.made \in Seq(Agents \cup {None}) /\ Len(p.made) <= Len(Roster)
        <5> DEFINE m == q.made
                   n == Len(m)
        <5>1. m \in Seq(Agents \cup {None}) /\ n \in Nat /\ n <= Len(Roster)
          BY <4>1 DEF Data
        <5>2. p.made = [m EXCEPT ![n] = a]
          BY <4>2
        <5> HIDE DEF m
        <5>3. [m EXCEPT ![n] = a] \in Seq(Agents \cup {None}) /\ Len([m EXCEPT ![n] = a]) = n
          <6>1. CASE n = 0
            <7>1. [m EXCEPT ![n] = a] = m
              BY <5>1, <6>1
            <7> QED
              BY <5>1, <7>1
          <6>2. CASE n # 0
            <7>1. n \in 1..Len(m) /\ a \in Agents \cup {None}
              BY <4>3, <5>1, <6>2
            <7> QED
              BY <5>1, <7>1, ExceptSeq
          <6> QED
            BY <6>1, <6>2
        <5> QED
          BY <5>1, <5>2, <5>3
      <4>5. Data(p)
        BY <1>1, <4>2, <4>4, OwnData DEF Data, Alike
      <4>6. p.kind = "seed"
        BY <2>2, <3>2, <4>2 DEF Same, Alike
      <4>7. Inserted(p.kind, p.spiffe, Audit) /\ Head(Audit) = "readNewest" /\ Audit[Len(Audit)] = "append"
        <5>1. Fragment(p.kind, Audit, "readNewest", "append", AuditSteps)
          BY AuditFragment
        <5> QED
          BY <4>6, <5>1 DEF Fragment, Inserted, Inner, AuditSteps
      <4>8. /\ ~Awaits(p.kind, "readNewest") /\ Doing(r) # "seedAgents"
            /\ \A x : Leads(p.kind, Doing(r), x) => Leads(p.kind, "append", x)
        BY <1>1, <4>6 DEF Awaits, Leads, PeerSteps
      <4> QED
        BY <1>1, <4>1, <4>2, <4>5, <4>7, <4>8, InsistSettles
    <3> QED
      BY <3>1, <3>2
  <2> QED
    BY <1>1, <1>3, <2>1, <2>4
<1> QED
  BY <1>2, <1>3

\* The agents' turns: what a turn is for is set before it, and cleared after the last.
LEMMA TurnEnds ==
  ASSUME NEW s, NEW t, Scripted("seed", s, t)
  PROVE  Scripted("seed", None, t)
BY DEF Scripted

\* A turn is put before the script.
LEMMA TurnBegins ==
  ASSUME NEW s, NEW t, Scripted("seed", None, t), Head(t) = "seedAgents"
  PROVE  Scripted("seed", s, SeededAgent \o t) /\ Head(SeededAgent \o t) = "ensureTenant"
<1>1. t \in Seq(Steps) /\ t # <<>> /\ Len(t) \in Nat \ {0} /\ t[1] = "seedAgents"
  BY DEF Scripted
<1>2. AmidRoster(t)
  <2>1. 1 \in 1..Len(t) /\ \A i \in 1..1 - 1 : t[i] \in Inner
    BY <1>1
  <2> QED
    BY <1>1, <2>1 DEF AmidRoster
<1>3. Scripted("seed", s, t)
  BY <1>2 DEF Scripted
<1>4. Fragment("seed", SeededAgent, "ensureTenant", "insert", Inner)
  <2>1. /\ "ensureTenant" \in Steps /\ "insert" \in Steps /\ "ensureTenant" \in Inner /\ "insert" \in Inner
        /\ Leads("seed", "ensureTenant", "insert")
    BY DEF Steps, Inner, Leads, PeerSteps
  <2> QED
    BY <2>1, TwoSteps DEF SeededAgent
<1>5. Inserted("seed", s, SeededAgent)
  BY <1>4 DEF Fragment, Inserted, Inner, AuditSteps
<1>6. Leads("seed", "insert", "seedAgents")
  BY DEF Leads, PeerSteps
<1>7. Scripted("seed", s, SeededAgent \o t)
  BY <1>3, <1>4, <1>5, <1>6, InsertScripted DEF Fragment
<1>8. Head(SeededAgent \o t) = "ensureTenant"
  <2>1. SeededAgent \in Seq(Steps) /\ SeededAgent # <<>> /\ Head(SeededAgent) = "ensureTenant"
    BY <1>4 DEF Fragment
  <2>2. Len(SeededAgent) \in Nat \ {0} /\ 1 \in 1..Len(SeededAgent) /\ SeededAgent[1] = "ensureTenant"
    BY <2>1
  <2>3. /\ (SeededAgent \o t)[1] = "ensureTenant" /\ SeededAgent \o t \in Seq(Steps)
        /\ Len(SeededAgent \o t) = Len(SeededAgent) + Len(t)
    BY <1>1, <2>1, <2>2, Concatenated
  <2>4. SeededAgent \o t # <<>>
    BY <1>1, <2>2, <2>3
  <2> QED
    BY <2>3, <2>4
<1> QED
  BY <1>7, <1>8

\* A turn's steps before what is left of the script are those before the script.
LEMMA TurnIs ==
  ASSUME NEW t \in Seq(Steps), t # <<>>, NEW v \in Seq(Steps), NEW x, x = Head(t)
  PROVE  (v \o <<x>>) \o Tail(t) = v \o t
<1>1. x \in Steps /\ <<x>> \in Seq(Steps) /\ Tail(t) \in Seq(Steps)
  OBVIOUS
<1>2. (v \o <<x>>) \o Tail(t) = v \o (<<x>> \o Tail(t))
  BY <1>1, ConcatAssociative
<1>3. <<x>> \o Tail(t) = t
  BY HeadBefore
<1> QED
  BY <1>2, <1>3

\* Each turn takes the next agent of the roster, until there is none left.
LEMMA SeedAgentsMoves ==
  ASSUME RequestsInv, NEW r \in Jobs, SeedAgents(r)
  PROVE  Moves(r)
<1> DEFINE q == req[r]
<1>1. q # None /\ Doing(r) = "seedAgents" /\ DOMAIN q = Fields /\ Data(q)
  BY Standing, OwnData DEF SeedAgents
<1>2. Scripted(q.kind, q.spiffe, q.todo) /\ q.todo \in Seq(Steps) /\ q.todo # <<>> /\ Head(q.todo) = "seedAgents"
  BY <1>1 DEF RequestsInv, Request, Scripted, Doing
<1>3. q.kind = "seed"
  <2> SUFFICES ASSUME q.kind # "seed" PROVE FALSE
    OBVIOUS
  <2>1. 1 \in 1..Len(q.todo) /\ q.todo[1] = "seedAgents"
    BY <1>2
  <2> QED
    BY <1>2, <2>1 DEF Scripted
<1>4. Scripted("seed", None, q.todo)
  BY <1>2, <1>3, TurnEnds
<1>5. ~Prepares("seed", Doing(r))
  BY <1>1 DEF Prepares
<1>6. CASE Len(q.made) = Len(Roster)
  <2> DEFINE p == [q EXCEPT !.spiffe = None]
  <2>1. Proceed(r, p)
    BY <1>6 DEF SeedAgents
  <2>2. /\ DOMAIN p = Fields /\ p.kind = "seed" /\ p.tenant = q.tenant /\ p.spiffe = None
        /\ p.made = q.made /\ p.todo = q.todo /\ p.ttl = q.ttl
    BY <1>1, <1>3, FieldsAre
  <2> HIDE DEF p
  <2>3. Tail(p.todo) # <<>> => Scripted("seed", None, Tail(p.todo)) /\ Leads("seed", Doing(r), Head(Tail(p.todo)))
    BY <1>1, <1>2, <1>4, <2>2, TailScripted
  <2>4. Goes(r, p)
    BY <2>1, <2>2, <2>3, FollowGoes DEF Proceed
  <2>5. Data(p)
    BY <1>1, <1>3, <2>2 DEF Data
  <2> QED
    BY <1>3, <1>5, <2>2, <2>4, <2>5, GoesMoves
<1>7. CASE Len(q.made) # Len(Roster)
  <2> DEFINE p == [q EXCEPT !.made = Append(@, None), !.spiffe = Roster[Len(q.made) + 1]]
  <2>1. Insist(r, p, SeededAgent \o <<"seedAgents">>)
    BY <1>7 DEF SeedAgents
  <2>2. /\ DOMAIN p = Fields /\ p.kind = "seed" /\ p.tenant = q.tenant /\ p.spiffe = Roster[Len(q.made) + 1]
        /\ p.made = Append(q.made, None) /\ p.todo = q.todo /\ p.ttl = q.ttl
    BY <1>1, <1>3, FieldsAre
  <2> HIDE DEF p
  <2>3. p.made \in Seq(Agents \cup {None}) /\ Len(p.made) <= Len(Roster) /\ p.spiffe \in Spiffes \cup {None}
    <3> DEFINE m == q.made
    <3>1. m \in Seq(Agents \cup {None}) /\ Len(m) \in Nat /\ Len(m) <= Len(Roster) /\ Len(m) # Len(Roster)
      BY <1>1, <1>7 DEF Data
    <3>2. Roster \in Seq(Spiffes \cup {None}) /\ Len(Roster) \in Nat
      BY BackendAssumption
    <3>3. p.made = Append(m, None) /\ p.spiffe = Roster[Len(m) + 1]
      BY <2>2
    <3> HIDE DEF m
    <3>4. Append(m, None) \in Seq(Agents \cup {None}) /\ Len(Append(m, None)) = Len(m) + 1
      BY <3>1
    <3>5. Len(m) + 1 \in 1..Len(Roster)
      BY <3>1, <3>2
    <3>6. Roster[Len(m) + 1] \in Spiffes \cup {None}
      BY <3>2, <3>5
    <3> QED
      BY <3>1, <3>2, <3>3, <3>4, <3>5, <3>6
  <2>4. Data(p)
    BY <1>1, <1>3, <2>2, <2>3 DEF Data
  <2>5. Follow(r, p, SeededAgent \o q.todo)
    <3>1. SeededAgent \in Seq(Steps)
      BY DEF SeededAgent, Steps
    <3> QED
      BY <1>2, <2>1, <2>2, <3>1, TurnIs DEF Insist
  <2>6. Scripted("seed", p.spiffe, SeededAgent \o q.todo) /\ Head(SeededAgent \o q.todo) = "ensureTenant"
    BY <1>2, <1>4, TurnBegins
  <2>7. Leads("seed", Doing(r), "ensureTenant")
    BY DEF Leads, PeerSteps
  <2>8. Goes(r, p)
    BY <2>2, <2>5, <2>6, <2>7, FollowGoes
  <2> QED
    BY <1>3, <1>5, <2>2, <2>4, <2>8, GoesMoves
<1> QED
  BY <1>6, <1>7

(***************************************************************************)
(* Arrival.                                                                *)
(***************************************************************************)

\* What other requests, and time, leave of request s.
Kept(s) ==
  req'[s] # None =>
    req[s] # None /\ Request(req'[s]) /\ Left(req[s], req'[s]) /\ req'[s].todo = req[s].todo

\* Request r goes on, arrives or ends, where nothing was prepared for it; no other moves.
Settles(r) ==
  /\ DOMAIN req' = Jobs /\ \A s \in Jobs : s # r => Kept(s)
  /\ Rests(r) /\ (req'[r] # None => Request(req'[r]))

\* Requests that a step does not touch are kept.
LEMMA OnlyKept ==
  ASSUME RequestsInv, NEW r \in Jobs, Only(r), NEW s \in Jobs, s # r
  PROVE  Kept(s)
BY DEF RequestsInv, Only, Kept, Left

\* A request that moves settles.
LEMMA MovesSettles ==
  ASSUME RequestsInv, NEW r \in Jobs, Moves(r)
  PROVE  Settles(r)
BY OnlyKept DEF Moves, Settles, Only

\* What a request is about when it comes.
LEMMA ArgumentsAre ==
  ASSUME NEW job, job.kind \in Kinds, job.ttl \in Nat, NEW t \in Tenants, NEW q \in Arguments(job, t)
  PROVE  /\ DOMAIN q = Fields /\ q.kind = job.kind /\ q.tenant = t /\ q.made = <<>> /\ q.ttl \in Nat
         /\ q.spiffe \in Spiffes \cup {None} /\ (q.kind # "attest" => q.spiffe = None)
<1> DEFINE b == [Blank EXCEPT !.kind = job.kind, !.tenant = t]
<1>1. /\ DOMAIN b = Fields /\ b.kind = job.kind /\ b.tenant = t /\ b.made = <<>> /\ b.ttl = 0 /\ b.spiffe = None
  <2>1. DOMAIN Blank = Fields /\ Blank.made = <<>> /\ Blank.ttl = 0 /\ Blank.spiffe = None
    BY DEF Fields, Blank
  <2> QED
    BY <2>1, FieldsAre
<1>2. CASE job.kind \in {"rotate", "profile"}
  <2>1. q \in {[b EXCEPT !.agent = a, !.subject = a] : a \in Known}
    BY <1>2 DEF Arguments
  <2> HIDE DEF b
  <2>2. PICK a \in Known : q = [b EXCEPT !.agent = a, !.subject = a]
    BY <2>1
  <2> QED
    BY <1>1, <2>2, FieldsAre
<1>3. CASE job.kind = "issue"
  <2>1. q \in {[b EXCEPT !.agent = a, !.subject = a, !.ttl = job.ttl, !.score = job.depth] : a \in Known}
    BY <1>3 DEF Arguments
  <2> HIDE DEF b
  <2>2. PICK a \in Known : q = [b EXCEPT !.agent = a, !.subject = a, !.ttl = job.ttl, !.score = job.depth]
    BY <2>1
  <2> QED
    BY <1>1, <2>2, FieldsAre
<1>4. CASE job.kind = "attest"
  <2>1. q \in {[b EXCEPT !.spiffe = s, !.ttl = AttestTtl] : s \in Spiffes}
    BY <1>4 DEF Arguments
  <2> HIDE DEF b
  <2>2. PICK s \in Spiffes : q = [b EXCEPT !.spiffe = s, !.ttl = AttestTtl]
    BY <2>1
  <2> QED
    BY <1>1, <1>4, <2>2, FieldsAre, BackendAssumption
<1>5. CASE job.kind \in {"revoke", "verify", "score", "peer"}
  <2>1. q \in {[b EXCEPT !.cred = c, !.did = creds[c].issuer, !.agent = creds[c].issuer,
                    !.subject = creds[c].subject,
                    !.sig = [kid |-> creds[c].kid, gen |-> creds[c].gen],
                    !.void = c \in Settled] : c \in {c \in Creds : Given(c)}}
    BY <1>5 DEF Arguments
  <2> HIDE DEF b
  <2>2. PICK c \in Creds : q = [b EXCEPT !.cred = c, !.did = creds[c].issuer, !.agent = creds[c].issuer,
                    !.subject = creds[c].subject,
                    !.sig = [kid |-> creds[c].kid, gen |-> creds[c].gen],
                    !.void = c \in Settled]
    BY <2>1
  <2> QED
    BY <1>1, <2>2, FieldsAre
<1>6. CASE job.kind = "addHook"
  <2>1. q \in {[b EXCEPT !.topics = s] : s \in Topics}
    BY <1>6 DEF Arguments
  <2> HIDE DEF b
  <2>2. PICK s \in Topics : q = [b EXCEPT !.topics = s]
    BY <2>1
  <2> QED
    BY <1>1, <2>2, FieldsAre
<1>7. CASE job.kind \in {"dropHook", "testHook"}
  <2>1. q \in {[b EXCEPT !.hook = h] : h \in {h \in Hooks : hooks[h] # None}}
    BY <1>7 DEF Arguments
  <2> HIDE DEF b
  <2>2. PICK h \in Hooks : q = [b EXCEPT !.hook = h]
    BY <2>1
  <2> QED
    BY <1>1, <2>2, FieldsAre
<1>8. CASE job.kind \in {"report", "board"}
  <2>1. q \in {[b EXCEPT !.start = Truth(t, Settled), !.since = resets[t]]}
    BY <1>8 DEF Arguments
  <2> HIDE DEF b
  <2>2. q = [b EXCEPT !.start = Truth(t, Settled), !.since = resets[t]]
    BY <2>1
  <2> QED
    BY <1>1, <2>2, FieldsAre
<1>9. CASE job.kind \in {"create", "reset", "flush", "seed", "drift"}
  <2>1. q \in {b}
    BY <1>9 DEF Arguments
  <2> HIDE DEF b
  <2> QED
    BY <1>1, <2>1
<1> QED
  BY <1>2, <1>3, <1>4, <1>5, <1>6, <1>7, <1>8, <1>9, KindsAre

\* A request that arrives settles: it starts with the script of its kind.
LEMMA ArriveSettles ==
  ASSUME RequestsInv, load \in Loads, NEW r \in Jobs, Arrive(r)
  PROVE  Settles(r)
<1> DEFINE job == load.jobs[r]
           token == Tokens[job.as]
<1>1. job.kind \in Kinds /\ job.ttl \in Nat /\ TenantOf(token) \in Tenants
  <2>1. r \in DOMAIN load.jobs
    BY DEF Arrive, Coming
  <2> QED
    BY <2>1, BackendAssumption DEF Kinds
<1>2. req[r] = None
  BY DEF Arrive, Coming, Arrived
<1>3. \/ req' = req
      \/ \E q \in Arguments(job, TenantOf(token)) : Begin(r, q)
  BY DEF Arrive, TurnAway
<1>4. CASE req' = req
  <2>1. req'[r] = None /\ \A s \in Jobs : req'[s] = req[s]
    BY <1>2, <1>4
  <2>2. \A s \in Jobs : Kept(s)
    BY <2>1 DEF RequestsInv, Kept, Left
  <2> QED
    BY <1>4, <2>1, <2>2 DEF Settles, Rests, RequestsInv
<1>5. ASSUME NEW q \in Arguments(job, TenantOf(token)), Begin(r, q) PROVE Settles(r)
  <2>1. /\ DOMAIN q = Fields /\ q.kind = job.kind /\ q.tenant = TenantOf(token) /\ q.made = <<>> /\ q.ttl \in Nat
        /\ q.spiffe \in Spiffes \cup {None} /\ (q.kind # "attest" => q.spiffe = None)
    <3> HIDE DEF job, token
    <3> QED
      BY <1>1, ArgumentsAre
  <2>2. Scripted(q.kind, q.spiffe, Handlers[q.kind]) /\ ~Awaits(q.kind, Head(Handlers[q.kind]))
    BY <1>1, <2>1, HandlersScripted
  <2> DEFINE p == [q EXCEPT !.alone = Active = {}, !.todo = Handlers[q.kind]]
  <2>3. /\ DOMAIN p = Fields /\ p.kind = q.kind /\ p.tenant = q.tenant /\ p.spiffe = q.spiffe /\ p.made = q.made
        /\ p.todo = Handlers[q.kind] /\ p.ttl = q.ttl
    BY <2>1, FieldsAre
  <2>4. req' = [s \in Jobs |-> IF s = r THEN p ELSE IF s \in Active THEN Overlapping(req[s]) ELSE None]
    BY <1>5 DEF Begin
  <2> HIDE DEF p
  <2>5. DOMAIN req' = Jobs /\ req'[r] = p
    BY <2>4
  <2>6. Request(p)
    <3>1. <<>> \in Seq(Agents \cup {None}) /\ Len(<<>>) <= Len(Roster)
      <4>1. Len(Roster) \in Nat
        BY BackendAssumption
      <4> QED
        BY <4>1
    <3>2. q.kind # "peer" => Head(Handlers[q.kind]) \notin PeerSteps
      BY <2>2 DEF Awaits
    <3> QED
      BY <1>1, <2>1, <2>2, <2>3, <3>1, <3>2 DEF Request
  <2>7. Rests(r)
    BY <2>2, <2>3, <2>5 DEF Rests
  <2>8. ASSUME NEW s \in Jobs, s # r PROVE Kept(s)
    <3> SUFFICES ASSUME req'[s] # None
                 PROVE  req[s] # None /\ Request(req'[s]) /\ Left(req[s], req'[s]) /\ req'[s].todo = req[s].todo
      BY DEF Kept
    <3>1. s \in Active /\ req'[s] = Overlapping(req[s])
      BY <2>4, <2>8
    <3>2. req[s] # None /\ Request(req[s])
      BY <3>1 DEF Active, RequestsInv
    <3> DEFINE o == Overlapping(req[s])
    <3>3. /\ DOMAIN o = Fields /\ Left(req[s], o) /\ o.todo = req[s].todo /\ o.made = req[s].made
      BY <3>2, FieldsAre DEF Overlapping, Left, Request
    <3> HIDE DEF o
    <3>4. Request(o)
      BY <3>2, <3>3 DEF Request, Left
    <3> QED
      BY <3>1, <3>2, <3>3, <3>4 DEF o
  <2> QED
    BY <2>5, <2>6, <2>7, <2>8 DEF Settles
<1> QED
  BY <1>3, <1>4, <1>5

(***************************************************************************)
(* The requests keep their scripts.                                        *)
(***************************************************************************)

\* A step that nothing of what follows depends on.
Calm(r) == Settles(r) /\ UNCHANGED <<agents, keys, creds, resets, load, auditVars>>

\* Quiet steps are calm.
LEMMA QuietCalm ==
  ASSUME RequestsInv, NEW r \in Jobs, Quiet(r)
  PROVE  Calm(r) /\ now' = now
BY MovesSettles DEF Quiet, Calm, arrivalVars

\* The steps that what follows depends on.
Telling(r) ==
  \/ ReadNewest(r) \/ Stamp(r) \/ AppendEvent(r)
  \/ InsertAgent(r) \/ ReadKeys(r) \/ Rotate(r) \/ ReadBits(r)
  \/ FindHolder(r) \/ Register(r) \/ Refetch(r)
  \/ Allocate(r) \/ Sign(r) \/ Store(r) \/ MakeIssuer(r) \/ DeleteRest(r)

\* So is the turn to the next agent.
LEMMA SeedAgentsQuiet ==
  ASSUME RequestsInv, NEW r \in Jobs, SeedAgents(r)
  PROVE  Quiet(r)
BY SeedAgentsMoves DEF SeedAgents, Quiet, registryVars

\* Every step is quiet, or one of those, ...
LEMMA QuietOrTelling ==
  ASSUME RequestsInv, NEW r \in Jobs, Step(r)
  PROVE  Quiet(r) \/ Telling(r)
BY LookUps, ResolveQuiet, EnsureIssuerQuiet, PeerQuiet, ScoresQuiet, ReportsQuiet, ItemsQuiet,
   SetRevokedQuiet, SeedingQuiet, SeedAgentsQuiet, Zenon DEF Step, Telling

\* ... calm then.
LEMMA StepCases ==
  ASSUME RequestsInv, NEW r \in Jobs, Step(r)
  PROVE  (Calm(r) /\ now' = now) \/ Telling(r)
BY QuietOrTelling, QuietCalm

\* The others keep the requests' types and scripts, too.
LEMMA TellingKeeps ==
  ASSUME RequestsInv, NEW r \in Jobs, Telling(r)
  PROVE  Only(r) /\ (req'[r] # None => Request(req'[r]) /\ req'[r].kind = req[r].kind)
<1>1. ASSUME NEW q, Lands(r, q) PROVE Only(r) /\ (req'[r] # None => Request(req'[r]) /\ req'[r].kind = req[r].kind)
  BY <1>1, LandsOn DEF Lands, Left
<1>2. ASSUME Moves(r) PROVE Only(r) /\ (req'[r] # None => Request(req'[r]) /\ req'[r].kind = req[r].kind)
  BY <1>2 DEF Moves
<1>3. CASE ReadNewest(r) \/ Stamp(r) \/ AppendEvent(r)
  BY <1>1, <1>2, <1>3, ReadNewestLands, StampLands, AppendMoves
<1>4. CASE ReadKeys(r) \/ ReadBits(r) \/ Rotate(r) \/ MakeIssuer(r) \/ DeleteRest(r) \/ InsertAgent(r)
  BY <1>1, <1>2, <1>4, ReadKeysLands, ReadBitsLands, RotateMoves, MakeIssuerMoves, DeleteRestMoves, InsertAgentMoves
<1>5. CASE FindHolder(r) \/ Register(r) \/ Refetch(r)
  BY <1>1, <1>2, <1>5, FindHolderLands, RegisterLands, RefetchLands DEF HolderFound
<1>6. CASE Allocate(r) \/ Sign(r) \/ Store(r)
  BY <1>1, <1>2, <1>6, AllocateLands, SignLands, StoreMoves
<1> QED
  BY <1>3, <1>4, <1>5, <1>6 DEF Telling

\* So does every step.
LEMMA StepKeeps ==
  ASSUME RequestsInv, NEW r \in Jobs, Step(r)
  PROVE  Only(r) /\ (req'[r] # None => Request(req'[r]) /\ req'[r].kind = req[r].kind)
BY QuietOrTelling, TellingKeeps DEF Quiet, Moves

\* The types and the scripts last.
LEMMA RequestsStep ==
  ASSUME RequestsInv, load \in Loads, [Next]_vars
  PROVE  RequestsInv' /\ load' \in Loads
<1>1. ASSUME NEW r \in Jobs, Settles(r) PROVE RequestsInv'
  BY <1>1 DEF Settles, Kept, RequestsInv
<1>2. load' = load
  <2>1. CASE Tick
    BY <2>1 DEF Tick
  <2>2. ASSUME NEW r \in Jobs, Arrive(r) PROVE load' = load
    BY <2>2 DEF Arrive
  <2>3. ASSUME NEW r \in Jobs, Step(r) PROVE load' = load
    <3>1. CASE Calm(r)
      BY <3>1 DEF Calm
    <3>2. CASE Telling(r)
      BY <3>2 DEF Telling, arrivalVars, ReadNewest, Stamp, AppendEvent, InsertAgent, ReadKeys, ReadBits, Rotate,
                  FindHolder, Register, Refetch, Allocate, Sign, Store, MakeIssuer, DeleteRest
    <3> QED
      BY <2>3, <3>1, <3>2, StepCases
  <2>4. CASE UNCHANGED vars
    BY <2>4 DEF vars, arrivalVars
  <2> QED
    BY <2>1, <2>2, <2>3, <2>4 DEF Next
<1>3. CASE Tick \/ UNCHANGED vars
  <2>1. req' = req
    BY <1>3 DEF Tick, vars, requestVars
  <2> QED
    BY <1>2, <2>1 DEF RequestsInv
<1>4. ASSUME NEW r \in Jobs, Arrive(r) PROVE RequestsInv'
  BY <1>1, <1>4, ArriveSettles
<1>5. ASSUME NEW r \in Jobs, Step(r) PROVE RequestsInv'
  <2>1. CASE Calm(r)
    BY <1>1, <2>1 DEF Calm
  <2>2. CASE Telling(r)
    BY <2>2, TellingKeeps DEF RequestsInv, Only
  <2> QED
    BY <1>5, <2>1, <2>2, StepCases
<1> QED
  BY <1>2, <1>3, <1>4, <1>5 DEF Next

\* A request that goes on at a step that another prepares has just done that other.
LEMMA Leading ==
  ASSUME RequestsInv, NEW r \in Jobs, Telling(r), req'[r] # None, Awaits(req'[r].kind, Head(req'[r].todo))
  PROVE  req'[r].kind = req[r].kind /\ Leads(req[r].kind, Doing(r), Head(req'[r].todo))
<1>1. ASSUME NEW q, Lands(r, q)
      PROVE  req'[r].kind = req[r].kind /\ Leads(req[r].kind, Doing(r), Head(req'[r].todo))
  BY <1>1, LandsOn DEF Lands, Left
<1>2. ~Moves(r)
  BY DEF Moves, Rests
<1>3. CASE ReadNewest(r) \/ Stamp(r) \/ AppendEvent(r)
  BY <1>1, <1>2, <1>3, ReadNewestLands, StampLands, AppendMoves
<1>4. CASE ReadKeys(r) \/ ReadBits(r) \/ Rotate(r) \/ MakeIssuer(r) \/ DeleteRest(r) \/ InsertAgent(r)
  BY <1>1, <1>2, <1>4, ReadKeysLands, ReadBitsLands, RotateMoves, MakeIssuerMoves, DeleteRestMoves, InsertAgentMoves
<1>5. CASE FindHolder(r) \/ Register(r) \/ Refetch(r)
  BY <1>1, <1>2, <1>5, FindHolderLands, RegisterLands, RefetchLands DEF HolderFound
<1>6. CASE Allocate(r) \/ Sign(r) \/ Store(r)
  BY <1>1, <1>2, <1>6, AllocateLands, SignLands, StoreMoves
<1> QED
  BY <1>3, <1>4, <1>5, <1>6 DEF Telling

\* Each of these actions is one step of a script.
LEMMA TellingDoes ==
  ASSUME RequestsInv, NEW r \in Jobs, Telling(r)
  PROVE  /\ Doing(r) = "readKeys" => ReadKeys(r)
         /\ Doing(r) = "readBits" => ReadBits(r)
         /\ Doing(r) = "readNewest" => ReadNewest(r)
         /\ Doing(r) = "stamp" => Stamp(r)
         /\ Doing(r) = "sign" => Sign(r)
         /\ Doing(r) \in {"findHolder", "register", "refetch"} => FindHolder(r) \/ Register(r) \/ Refetch(r)
         /\ Doing(r) = "allocate" => Allocate(r)
BY DEF Telling, Ready, ReadNewest, Stamp, AppendEvent, InsertAgent, ReadKeys, ReadBits, Rotate, FindHolder, Register,
       Refetch, Allocate, Sign, Store, MakeIssuer, DeleteRest

\* Who has prepared what request r will do next.
LEMMA WhoPrepares ==
  ASSUME RequestsInv, NEW r \in Jobs, Telling(r), req'[r] # None
  PROVE  LET k == req'[r].kind
             x == Head(req'[r].todo) IN
         /\ x = "rotate" => ReadKeys(r)
         /\ x = "setRevoked" => ReadBits(r)
         /\ x = "stamp" => ReadNewest(r)
         /\ x = "append" => Stamp(r)
         /\ x = "store" => Sign(r)
         /\ k = "attest" /\ x = "allocate" => FindHolder(r) \/ Register(r) \/ Refetch(r)
         /\ k = "attest" /\ x = "sign" => Allocate(r)
<1> DEFINE k == req'[r].kind
           x == Head(req'[r].todo)
<1>1. Awaits(k, x) => k = req[r].kind /\ Leads(req[r].kind, Doing(r), x)
  BY Leading
<1> HIDE DEF k, x
<1>2. /\ x = "rotate" => Doing(r) = "readKeys"
      /\ x = "stamp" => Doing(r) = "readNewest"
      /\ x = "append" => Doing(r) = "stamp"
      /\ x = "store" => Doing(r) = "sign"
      /\ x = "setRevoked" => Doing(r) = "readBits"
      /\ k = "attest" /\ x = "allocate" => Doing(r) \in {"findHolder", "register", "refetch"}
      /\ k = "attest" /\ x = "sign" => Doing(r) = "allocate"
  BY <1>1 DEF Awaits, Leads, PeerSteps
<1>3. /\ x = "rotate" => ReadKeys(r)
      /\ x = "stamp" => ReadNewest(r)
      /\ x = "append" => Stamp(r)
      /\ x = "store" => Sign(r)
      /\ x = "setRevoked" => ReadBits(r)
      /\ k = "attest" /\ x = "allocate" => FindHolder(r) \/ Register(r) \/ Refetch(r)
      /\ k = "attest" /\ x = "sign" => Allocate(r)
  BY <1>2, TellingDoes
<1> QED
  BY <1>3 DEF k, x

(***************************************************************************)
(* One signing key.                                                        *)
(***************************************************************************)

KeyRecord == [active : BOOLEAN, at : Nat, gen : Nat]

\* The rows of agents and keys have their types.
RowsInv ==
  /\ now \in Nat /\ resets \in [Tenants -> Nat]
  /\ agents \in [Agents -> Agent \cup {None}]
  /\ DOMAIN keys = Agents /\ \A a \in Agents : keys[a] \in Seq(KeyRecord)

\* What a rotation has read is a number of keys.
Informed(q) == Head(q.todo) = "rotate" => q.seen \in Nat

KeysInv == RowsInv /\ OneSigningKey /\ \A r \in Jobs : req[r] # None => Informed(req[r])

\* A new agent has one key, and it is active.
LEMMA InsertKeys ==
  ASSUME RowsInv, OneSigningKey, NEW a \in Agents, NEW t \in Tenants, NEW s \in Spiffes \cup {None},
         Insert(a, t, s, now), UNCHANGED <<resets, now>>
  PROVE  RowsInv' /\ OneSigningKey'
<1> DEFINE k == NewKey(a, t, now)
           row == [tenant |-> t, spiffe |-> s, deleted |-> FALSE]
<1>1. k \in KeyRecord /\ k.active
  BY DEF RowsInv, NewKey, KeyRecord
<1>2. row \in Agent
  BY DEF Agent
<1>3. agents' = [agents EXCEPT ![a] = row] /\ keys' = [keys EXCEPT ![a] = <<k>>]
  BY DEF Insert
<1> HIDE DEF k, row
<1>4. <<k>> \in Seq(KeyRecord) /\ Len(<<k>>) = 1 /\ DOMAIN <<k>> = {1} /\ <<k>>[1] = k
  BY <1>1
<1>5. RowsInv'
  BY <1>2, <1>3, <1>4 DEF RowsInv
<1>6. ASSUME NEW b \in Registered' PROVE {n \in DOMAIN keys'[b] : keys'[b][n].active} = {Len(keys'[b])}
  <2>1. CASE b = a
    <3>1. keys'[b] = <<k>>
      BY <1>3, <2>1 DEF RowsInv
    <3> QED
      BY <1>1, <1>4, <3>1
  <2>2. CASE b # a
    <3>1. agents'[b] = agents[b] /\ keys'[b] = keys[b] /\ b \in Agents
      BY <1>3, <2>2 DEF RowsInv, Registered
    <3>2. b \in Registered
      BY <1>6, <3>1 DEF Registered
    <3> QED
      BY <3>1, <3>2 DEF OneSigningKey
  <2> QED
    BY <2>1, <2>2
<1> QED
  BY <1>5, <1>6 DEF OneSigningKey

\* A rotation that has read all keys leaves the new one as the only active one.
LEMMA RotatedKeys ==
  ASSUME RowsInv, NEW a \in Agents, agents[a] # None, NEW n \in Nat, KidIsFree(a, n)
  PROVE  LET ks == Rotated(a, n, now) IN
         /\ ks \in Seq(KeyRecord) /\ Len(ks) = Len(keys[a]) + 1
         /\ {m \in DOMAIN ks : ks[m].active} = {Len(ks)}
         /\ \A m \in DOMAIN keys[a] : m \in DOMAIN ks /\ ks[m].gen = keys[a][m].gen
         /\ \A m \in DOMAIN ks :
              ks[m].at = now \/ (m \in DOMAIN keys[a] /\ ks[m].at = keys[a][m].at /\ ks[m].gen = keys[a][m].gen)
<1> DEFINE old == keys[a]
           len == Len(old)
           k == NewKey(a, agents[a].tenant, now)
           off == [i \in DOMAIN old |-> IF i <= n THEN [old[i] EXCEPT !.active = FALSE] ELSE old[i]]
           ks == Append(off, k)
<1>1. old \in Seq(KeyRecord) /\ len \in Nat /\ DOMAIN old = 1..len
  BY DEF RowsInv
<1>2. k \in KeyRecord /\ k.active /\ k.at = now
  BY DEF RowsInv, NewKey, KeyRecord, Agent
<1>3. n >= len
  BY <1>1 DEF KidIsFree
<1>4. Rotated(a, n, now) = ks
  BY DEF Rotated
<1> HIDE DEF k, old
<1>5. ASSUME NEW i \in 1..len
      PROVE  off[i] \in KeyRecord /\ ~off[i].active /\ off[i].gen = old[i].gen /\ off[i].at = old[i].at
  <2>1. old[i] \in KeyRecord /\ off[i] = [old[i] EXCEPT !.active = FALSE]
    BY <1>1, <1>3
  <2> QED
    BY <2>1 DEF KeyRecord
<1>6. off \in Seq(KeyRecord) /\ Len(off) = len /\ DOMAIN off = 1..len
  BY <1>1, <1>5
<1> HIDE DEF off
<1>7. ks \in Seq(KeyRecord) /\ Len(ks) = len + 1 /\ ks[len + 1] = k /\ \A i \in 1..len : ks[i] = off[i]
  BY <1>2, <1>6
<1> HIDE DEF ks
<1>8. DOMAIN ks = 1..len + 1
  BY <1>7
<1>9. \A m \in 1..len : ks[m].gen = old[m].gen /\ ks[m].at = old[m].at /\ ~ks[m].active
  BY <1>5, <1>7
<1>10. {m \in DOMAIN ks : ks[m].active} = {len + 1}
  <2>1. \A m \in 1..len + 1 : m \in 1..len \/ m = len + 1
    BY <1>1
  <2>2. len + 1 \in 1..len + 1
    BY <1>1
  <2> HIDE DEF len
  <2> QED
    BY <1>2, <1>7, <1>8, <1>9, <2>1, <2>2
<1>11. \A m \in DOMAIN old : m \in DOMAIN ks
  BY <1>1, <1>8
<1>12. ASSUME NEW m \in DOMAIN ks
       PROVE  ks[m].at = now \/ (m \in DOMAIN old /\ ks[m].at = old[m].at /\ ks[m].gen = old[m].gen)
  <2>1. m \in 1..len \/ m = len + 1
    BY <1>1, <1>8
  <2> QED
    BY <1>1, <1>2, <1>7, <1>9, <2>1
<1> QED
  BY <1>1, <1>4, <1>7, <1>9, <1>10, <1>11, <1>12 DEF old

\* The agents and keys of a tenant are deleted.
LEMMA DeleteKeys ==
  ASSUME RowsInv, OneSigningKey, NEW t \in Tenants, UNCHANGED now,
         agents' = [a \in Agents |->
           IF a \in AgentsOf(t) THEN [agents[a] EXCEPT !.deleted = TRUE] ELSE agents[a]],
         keys' = [a \in Agents |-> IF a \in AgentsOf(t) THEN <<>> ELSE keys[a]],
         resets' = [resets EXCEPT ![t] = @ + 1]
  PROVE  /\ RowsInv' /\ OneSigningKey'
         /\ \A a \in Agents : a \in Registered' => agents'[a] = agents[a] /\ keys'[a] = keys[a]
         /\ \A a \in Agents : agents[a] # None => agents'[a] \in Agent /\ agents'[a].spiffe = agents[a].spiffe
<1>1. ASSUME NEW a \in AgentsOf(t)
      PROVE  agents'[a] \in Agent /\ agents'[a].deleted /\ agents'[a].spiffe = agents[a].spiffe
  <2>1. a \in Agents /\ agents[a] # None /\ agents[a] \in Agent
    BY DEF RowsInv, AgentsOf, Registered
  <2>2. agents'[a] = [agents[a] EXCEPT !.deleted = TRUE]
    BY <2>1
  <2> QED
    BY <2>1, <2>2 DEF Agent
<1>2. \A a \in Agents : a \notin AgentsOf(t) => agents'[a] = agents[a] /\ keys'[a] = keys[a]
  OBVIOUS
<1>3. \A a \in Agents : a \in AgentsOf(t) => keys'[a] = <<>>
  OBVIOUS
<1>4. RowsInv'
  <2>1. \A a \in Agents : agents'[a] \in Agent \cup {None}
    BY <1>1, <1>2 DEF RowsInv
  <2>2. \A a \in Agents : keys'[a] \in Seq(KeyRecord)
    BY <1>2, <1>3 DEF RowsInv
  <2>3. resets' \in [Tenants -> Nat]
    BY DEF RowsInv
  <2> QED
    BY <2>1, <2>2, <2>3 DEF RowsInv
<1>5. ASSUME NEW a \in Agents, a \in Registered' PROVE a \notin AgentsOf(t) /\ a \in Registered
  <2>1. agents'[a] # None /\ ~agents'[a].deleted
    BY <1>5 DEF Registered
  <2>2. a \notin AgentsOf(t)
    BY <1>1, <2>1
  <2> QED
    BY <1>2, <2>1, <2>2 DEF Registered
<1>6. OneSigningKey'
  <2> SUFFICES ASSUME NEW a \in Registered' PROVE {n \in DOMAIN keys'[a] : keys'[a][n].active} = {Len(keys'[a])}
    BY DEF OneSigningKey
  <2>1. a \in Agents
    BY DEF Registered
  <2> QED
    BY <1>2, <1>5, <2>1 DEF OneSigningKey
<1>7. \A a \in Agents : agents[a] # None => agents'[a] \in Agent /\ agents'[a].spiffe = agents[a].spiffe
  BY <1>1, <1>2 DEF RowsInv
<1> QED
  BY <1>2, <1>4, <1>5, <1>6, <1>7

\* The ways in which a step changes the rows of agents and keys.
Inserts(a, t, s) == Insert(a, t, s, now) /\ UNCHANGED <<resets, now>>
InsertsNew(r) ==
  /\ ~Conflict(req[r]) /\ RoomForAgent
  /\ \E a \in {Min(Unused)} : Inserts(a, req[r].tenant, req[r].spiffe)
Rotates(r) ==
  /\ req[r].agent \in Registered /\ KidIsFree(req[r].agent, req[r].seen)
  /\ keys' = [keys EXCEPT ![req[r].agent] = Rotated(req[r].agent, req[r].seen, now)]
  /\ UNCHANGED <<agents, resets, now>>
Deletes(t) ==
  /\ agents' = [a \in Agents |->
       IF a \in AgentsOf(t) THEN [agents[a] EXCEPT !.deleted = TRUE] ELSE agents[a]]
  /\ keys' = [a \in Agents |-> IF a \in AgentsOf(t) THEN <<>> ELSE keys[a]]
  /\ resets' = [resets EXCEPT ![t] = @ + 1]
  /\ UNCHANGED now

\* There is no other way.
LEMMA RowCases ==
  ASSUME RequestsInv, NEW r \in Jobs, Telling(r)
  PROVE  \/ UNCHANGED <<agents, keys, resets, now>>
         \/ InsertsNew(r) /\ (InsertAgent(r) \/ Register(r)) /\ UNCHANGED creds
         \/ Inserts(StatusIssuer, DefaultTenant, None) /\ UNCHANGED creds /\ StatusIssuer \notin Registered
         \/ Rotates(r) /\ Rotate(r) /\ UNCHANGED creds
         \/ Deletes(req[r].tenant) /\ DeleteRest(r)
<1>1. CASE InsertAgent(r)
  <2>1. now' = now
    BY <1>1 DEF InsertAgent, arrivalVars
  <2> QED
    BY <1>1, <2>1, InsertAgentMoves DEF InsertsNew, Inserts, InsertRows, registryVars
<1>2. CASE Register(r)
  <2>1. now' = now
    BY <1>2 DEF Register, arrivalVars
  <2> QED
    BY <1>2, <2>1, RegisterLands DEF InsertsNew, Inserts, InsertRows, registryVars
<1>3. CASE MakeIssuer(r)
  BY <1>3 DEF MakeIssuer, Inserts, registryVars, arrivalVars
<1>4. CASE Rotate(r)
  BY <1>4 DEF Rotate, Rotates, registryVars, arrivalVars
<1>5. CASE DeleteRest(r)
  BY <1>5 DEF DeleteRest, Deletes, registryVars, arrivalVars
<1>6. CASE ReadNewest(r) \/ Stamp(r) \/ AppendEvent(r)
  BY <1>6 DEF ReadNewest, Stamp, AppendEvent, registryVars, arrivalVars
<1>7. CASE ReadKeys(r) \/ ReadBits(r) \/ FindHolder(r) \/ Refetch(r)
  BY <1>7 DEF ReadKeys, ReadBits, FindHolder, Refetch, registryVars, arrivalVars
<1>8. CASE Allocate(r) \/ Sign(r) \/ Store(r)
  BY <1>8 DEF Allocate, Sign, Store, registryVars, arrivalVars
<1> QED
  BY <1>1, <1>2, <1>3, <1>4, <1>5, <1>6, <1>7, <1>8 DEF Telling

\* Whatever changes them, they keep their types, and an agent one signing key.
LEMMA RowsStep ==
  ASSUME RequestsInv, KeysInv, NEW r \in Jobs, Telling(r)
  PROVE  RowsInv' /\ OneSigningKey'
<1>1. CASE UNCHANGED <<agents, keys, resets, now>>
  BY <1>1 DEF KeysInv, RowsInv, OneSigningKey, Registered
<1>2. CASE InsertsNew(r) /\ (InsertAgent(r) \/ Register(r))
  <2>1. req[r] # None
    BY <1>2 DEF InsertAgent, Register, Ready
  <2>2. req[r].tenant \in Tenants /\ req[r].spiffe \in Spiffes \cup {None}
    BY <2>1 DEF RequestsInv, Request
  <2>3. Min(Unused) \in Agents
    BY <1>2, LeastUnused DEF InsertsNew
  <2> QED
    BY <1>2, <2>2, <2>3, InsertKeys DEF InsertsNew, Inserts, KeysInv
<1>3. CASE Inserts(StatusIssuer, DefaultTenant, None)
  BY <1>3, InsertKeys, RegistryAssumption DEF Inserts, KeysInv
<1>4. CASE Rotates(r) /\ Rotate(r)
  <2> DEFINE a == req[r].agent
             n == req[r].seen
             ks == Rotated(a, n, now)
  <2>1. req[r] # None /\ Doing(r) = "rotate"
    BY <1>4 DEF Rotate, Ready
  <2>2. n \in Nat
    BY <2>1 DEF KeysInv, Informed, Doing
  <2>3. a \in Agents /\ agents[a] # None /\ KidIsFree(a, n) /\ keys' = [keys EXCEPT ![a] = ks]
    BY <1>4 DEF Rotates, Registered
  <2>4. ks \in Seq(KeyRecord) /\ {m \in DOMAIN ks : ks[m].active} = {Len(ks)}
    <3> HIDE DEF a, n
    <3> QED
      BY <2>2, <2>3, RotatedKeys DEF KeysInv
  <2> HIDE DEF ks, a, n
  <2>5. UNCHANGED <<agents, resets, now>>
    BY <1>4 DEF Rotates
  <2>6. RowsInv'
    BY <2>3, <2>4, <2>5 DEF KeysInv, RowsInv
  <2>7. ASSUME NEW b \in Registered' PROVE {m \in DOMAIN keys'[b] : keys'[b][m].active} = {Len(keys'[b])}
    <3>1. b \in Registered /\ b \in Agents
      BY <2>5, <2>7 DEF Registered
    <3>2. CASE b = a
      BY <2>3, <2>4, <3>1, <3>2 DEF KeysInv, RowsInv
    <3>3. CASE b # a
      BY <2>3, <3>1, <3>3 DEF KeysInv, RowsInv, OneSigningKey
    <3> QED
      BY <3>2, <3>3
  <2> QED
    BY <2>6, <2>7 DEF OneSigningKey
<1>5. CASE Deletes(req[r].tenant) /\ DeleteRest(r)
  <2>1. req[r].tenant \in Tenants
    BY <1>5 DEF RequestsInv, Request, DeleteRest, Ready
  <2> QED
    BY <1>5, <2>1, DeleteKeys DEF Deletes, KeysInv
<1> QED
  BY <1>1, <1>2, <1>3, <1>4, <1>5, RowCases

\* A rotation that starts writing has just read the keys.
LEMMA InformedStep ==
  ASSUME RequestsInv, KeysInv, NEW r \in Jobs, Telling(r)
  PROVE  req'[r] # None => Informed(req'[r])
<1> SUFFICES ASSUME req'[r] # None, Head(req'[r].todo) = "rotate" PROVE req'[r].seen \in Nat
  BY DEF Informed
<1>1. ReadKeys(r)
  BY WhoPrepares
<1>2. ~Moves(r)
  BY DEF Moves, Rests, Awaits, PeerSteps
<1> DEFINE q == [req[r] EXCEPT !.seen = Len(keys[req[r].agent]), !.fresh = req[r].tenant \notin tenants]
<1>3. DOMAIN req[r] = Fields /\ req[r].agent \in AgentsOf(req[r].tenant) /\ Lands(r, q)
  BY <1>1, <1>2, ReadKeysLands
<1>4. req'[r].seen = q.seen
  <2> HIDE DEF q
  <2> QED
    BY <1>3, LandsOn DEF Left
<1>5. q.seen = Len(keys[req[r].agent])
  BY <1>3, FieldsAre
<1>6. keys[req[r].agent] \in Seq(KeyRecord)
  BY <1>3 DEF KeysInv, RowsInv, AgentsOf, Registered
<1> QED
  BY <1>4, <1>5, <1>6

\* What requests know stays true of those that do not move.
LEMMA KeysStep ==
  ASSUME RequestsInv, load \in Loads, KeysInv, [Next]_vars
  PROVE  KeysInv'
<1>1. ASSUME NEW r \in Jobs, \A s \in Jobs : s # r => Kept(s), req'[r] # None => Informed(req'[r])
      PROVE  \A s \in Jobs : req'[s] # None => Informed(req'[s])
  BY <1>1 DEF Kept, Left, KeysInv, Informed
<1>2. ASSUME NEW r \in Jobs, Calm(r), now' = now PROVE KeysInv'
  <2>1. req'[r] # None => Informed(req'[r])
    BY <1>2 DEF Calm, Settles, Rests, Awaits, Informed, PeerSteps
  <2>2. \A s \in Jobs : req'[s] # None => Informed(req'[s])
    BY <1>1, <1>2, <2>1 DEF Calm, Settles
  <2> QED
    BY <1>2, <2>2 DEF Calm, KeysInv, RowsInv, OneSigningKey, Registered
<1>3. ASSUME NEW r \in Jobs, Telling(r) PROVE KeysInv'
  <2>1. RowsInv' /\ OneSigningKey'
    BY <1>3, RowsStep
  <2>2. \A s \in Jobs : s # r => Kept(s)
    BY <1>3, TellingKeeps, OnlyKept
  <2>3. req'[r] # None => Informed(req'[r])
    BY <1>3, InformedStep
  <2> QED
    BY <1>1, <2>1, <2>2, <2>3 DEF KeysInv
<1>4. CASE Tick \/ UNCHANGED vars
  <2>1. UNCHANGED <<req, agents, keys, resets>> /\ now' \in Nat
    BY <1>4 DEF Tick, vars, requestVars, registryVars, arrivalVars, KeysInv, RowsInv
  <2> QED
    BY <2>1 DEF KeysInv, RowsInv, OneSigningKey, Registered
<1>5. ASSUME NEW r \in Jobs, Arrive(r) PROVE KeysInv'
  <2>1. Calm(r) /\ now' = now
    BY <1>5, ArriveSettles DEF Arrive, Calm, registryVars
  <2> QED
    BY <1>2, <2>1
<1>6. ASSUME NEW r \in Jobs, Step(r) PROVE KeysInv'
  BY <1>2, <1>3, <1>6, StepCases
<1> QED
  BY <1>4, <1>5, <1>6 DEF Next

\* The state a load starts with.
LEMMA InitRows ==
  ASSUME Init
  PROVE  RequestsInv /\ load \in Loads /\ KeysInv
<1>1. RequestsInv /\ load \in Loads /\ \A r \in Jobs : req[r] = None
  BY DEF Init, RequestsInv
<1> DEFINE home == [tenant |-> HomeTenant, spiffe |-> None, deleted |-> FALSE]
           default == [tenant |-> DefaultTenant, spiffe |-> None, deleted |-> FALSE]
           k == [active |-> TRUE, at |-> 0, gen |-> 0]
<1>2. home \in Agent /\ default \in Agent /\ k \in KeyRecord /\ k.active
  BY RegistryAssumption, BackendAssumption DEF Agent, KeyRecord
<1>3. /\ agents = [a \in Agents |->
            IF a = 1 THEN home ELSE IF a = StatusIssuer /\ load.settled THEN default ELSE None]
      /\ keys = [a \in Agents |-> IF agents[a] = None THEN <<>> ELSE <<k>>]
      /\ now = 0 /\ resets = [t \in Tenants |-> 0]
  BY DEF Init
<1> HIDE DEF home, default, k
<1>4. <<k>> \in Seq(KeyRecord) /\ Len(<<k>>) = 1 /\ DOMAIN <<k>> = {1} /\ <<k>>[1] = k /\ <<>> \in Seq(KeyRecord)
  BY <1>2
<1>5. RowsInv
  BY <1>2, <1>3, <1>4 DEF RowsInv
<1>6. OneSigningKey
  <2> SUFFICES ASSUME NEW a \in Registered PROVE {n \in DOMAIN keys[a] : keys[a][n].active} = {Len(keys[a])}
    BY DEF OneSigningKey
  <2>1. a \in Agents /\ agents[a] # None
    BY DEF Registered
  <2>2. keys[a] = <<k>>
    BY <1>3, <2>1
  <2> QED
    BY <1>2, <1>4, <2>2
<1> QED
  BY <1>1, <1>5, <1>6 DEF KeysInv

\* Whatever rotations run beside each other, and beside resets that delete the keys, an
\* agent has one active key, the newest.
THEOREM OneKey == Spec => []OneSigningKey
<1> DEFINE Inv == RequestsInv /\ load \in Loads /\ KeysInv
<1>1. Init => Inv
  BY InitRows
<1>2. Inv /\ [Next]_vars => Inv'
  BY RequestsStep, KeysStep
<1>3. Inv => OneSigningKey
  BY DEF KeysInv
<1> QED
  BY <1>1, <1>2, <1>3, PTL DEF Spec

(***************************************************************************)
(* Audit chains.                                                           *)
(***************************************************************************)

Writes(q) == Head(q.todo) \in {"stamp", "append"}
Stamped(q) == Head(q.todo) = "append"

\* What a writer chains its event to: an older event, or none ...
Chained(q, rows) ==
  q.prev = Genesis \/ \E d \in rows : d.at = q.prev /\ (Stamped(q) => d.at < q.at)

\* ... and the newest one, when nobody else writes.
ToNewest(q, rows) == q.prev = Newest(rows) /\ (Stamped(q) => \A e \in rows : e.at < q.at)

\* What is true of a writer when the chains are l, n events were stamped, the tenants
\* of f were forked and those of x were torn.
Chaining(q, l, n, f, x) ==
  Writes(q) =>
    LET t == AuditTenant(q) IN
    /\ t \in Tenants
    /\ Stamped(q) => q.at \in 1..n
    /\ t \notin x => Chained(q, l[t])
    /\ t \notin f \cup x => ToNewest(q, l[t])

Together(q, p) == Writes(q) /\ Writes(p) /\ AuditTenant(q) = AuditTenant(p)

\* A chain has a newest event, unless it is empty.
HasNewest(rows) == rows = {} \/ \E d \in rows : \A e \in rows : d.at >= e.at

WritersInv ==
  /\ \A r \in Jobs : req[r] # None => Chaining(req[r], log, stamps, forked, torn)
  /\ \A r, s \in Jobs : req[r] # None /\ req[s] # None /\ Together(req[r], req[s]) =>
       r = s \/ AuditTenant(req[r]) \in forked \cup torn

EventsInv ==
  /\ stamps \in Nat /\ DOMAIN log = Tenants
  /\ \A t \in Tenants : (\A e \in log[t] : e.at \in 1..stamps) /\ HasNewest(log[t])

ChainInv == EventsInv /\ ChainsAreSound /\ WritersInv

\* The newest event of a chain that has events.
LEMMA NewestIs ==
  ASSUME NEW rows, HasNewest(rows), \A e \in rows : e.at \in Nat
  PROVE  \/ rows = {} /\ Newest(rows) = Genesis
         \/ \E d \in rows : d.at = Newest(rows) /\ \A e \in rows : d.at >= e.at
<1>1. CASE rows = {}
  BY <1>1 DEF Newest
<1>2. CASE rows # {}
  <2>1. PICK d \in rows : \A e \in rows : d.at >= e.at
    BY <1>2 DEF HasNewest
  <2> DEFINE times == {e.at : e \in rows}
             m == CHOOSE t \in times : \A e \in rows : t >= e.at
  <2>2. d.at \in times
    OBVIOUS
  <2>3. m \in times /\ \A e \in rows : m >= e.at
    BY <2>1, <2>2
  <2>4. PICK f \in rows : f.at = m
    BY <2>3
  <2>5. Newest(rows) = m
    BY <1>2 DEF Newest
  <2> HIDE DEF m
  <2> QED
    BY <2>3, <2>4, <2>5
<1> QED
  BY <1>1, <1>2

\* Writers of a tenant.
LEMMA WritersAre ==
  ASSUME NEW t
  PROVE  /\ \A r \in Writing(t) : r \in Jobs /\ req[r] # None /\ Writes(req[r]) /\ AuditTenant(req[r]) = t
         /\ \A r \in Jobs : req[r] # None /\ Writes(req[r]) => r \in Writing(AuditTenant(req[r]))
BY DEF Writing, At, Active, Doing, Writes

\* A request that another's step leaves alone keeps what its writing rests on.
LEMMA ChainingKept ==
  ASSUME NEW s \in Jobs, Kept(s), req'[s] # None, NEW l, NEW n, NEW f, NEW x
  PROVE  /\ req[s] # None /\ AuditTenant(req'[s]) = AuditTenant(req[s])
         /\ Writes(req'[s]) <=> Writes(req[s])
         /\ Chaining(req[s], l, n, f, x) => Chaining(req'[s], l, n, f, x)
<1> DEFINE q == req[s]
<1>1. PICK p : p = req'[s]
  OBVIOUS
<1>2. q # None /\ p.todo = q.todo /\ p.kind = q.kind /\ p.tenant = q.tenant /\ p.prev = q.prev /\ p.at = q.at
  BY <1>1 DEF Kept, Left
<1> HIDE DEF q
<1>3. AuditTenant(p) = AuditTenant(q) /\ (Writes(p) <=> Writes(q)) /\ (Stamped(p) <=> Stamped(q))
  BY <1>2 DEF AuditTenant, Writes, Stamped
<1>4. Chaining(q, l, n, f, x) => Chaining(p, l, n, f, x)
  BY <1>2, <1>3 DEF Chaining, Chained, ToNewest
<1> QED
  BY <1>1, <1>2, <1>3, <1>4 DEF q

\* Requests r aside, the writers go on when their events and marks do.
LEMMA OtherWriters ==
  ASSUME WritersInv, NEW r \in Jobs, \A s \in Jobs : s # r => Kept(s),
         forked \subseteq forked', torn \subseteq torn',
         \A s \in Jobs : s # r /\ req[s] # None /\ Chaining(req[s], log, stamps, forked, torn) =>
           Chaining(req[s], log', stamps', forked', torn'),
         req'[r] # None => Chaining(req'[r], log', stamps', forked', torn'),
         req'[r] # None /\ Writes(req'[r]) =>
           \A s \in Jobs : s # r /\ req[s] # None /\ Writes(req[s]) /\ AuditTenant(req[s]) = AuditTenant(req'[r]) =>
             AuditTenant(req'[r]) \in forked' \cup torn'
  PROVE  WritersInv'
<1>1. ASSUME NEW s \in Jobs, req'[s] # None PROVE Chaining(req'[s], log', stamps', forked', torn')
  <2>1. CASE s # r
    BY <1>1, <2>1, ChainingKept DEF WritersInv
  <2> QED
    BY <1>1, <2>1
<1>2. ASSUME NEW s \in Jobs, NEW p \in Jobs, s # p, req'[s] # None, req'[p] # None, Together(req'[s], req'[p])
      PROVE  AuditTenant(req'[s]) \in forked' \cup torn'
  <2>1. ASSUME NEW o \in Jobs, o # r, req'[o] # None, Writes(req'[o])
        PROVE  req[o] # None /\ Writes(req[o]) /\ AuditTenant(req'[o]) = AuditTenant(req[o])
    BY <2>1, ChainingKept
  <2>2. CASE s = r
    BY <1>2, <2>1, <2>2 DEF Together
  <2>3. CASE p = r
    BY <1>2, <2>1, <2>3 DEF Together
  <2>4. CASE s # r /\ p # r
    BY <1>2, <2>1, <2>4 DEF Together, WritersInv
  <2> QED
    BY <2>2, <2>3, <2>4
<1> QED
  BY <1>1, <1>2 DEF WritersInv

\* A step that writes no audit event and begins none.
LEMMA ChainsRest ==
  ASSUME ChainInv, NEW r \in Jobs, \A s \in Jobs : s # r => Kept(s), UNCHANGED auditVars,
         req'[r] # None => ~Writes(req'[r])
  PROVE  ChainInv'
<1>1. UNCHANGED <<log, stamps, forked, torn>>
  BY DEF auditVars
<1>2. WritersInv'
  <2>1. req'[r] # None => Chaining(req'[r], log', stamps', forked', torn')
    BY DEF Chaining
  <2> QED
    BY <1>1, <2>1, OtherWriters DEF ChainInv
<1>3. EventsInv' /\ ChainsAreSound'
  BY <1>1 DEF ChainInv, EventsInv, ChainsAreSound
<1> QED
  BY <1>2, <1>3 DEF ChainInv

\* The newest event is read: without a lock, so that two may read the same one.
LEMMA ReadNewestChains ==
  ASSUME RequestsInv, ChainInv, NEW r \in Jobs, ReadNewest(r)
  PROVE  ChainInv'
<1> DEFINE t == AuditTenant(req[r])
           q == [req[r] EXCEPT !.prev = Newest(log[t])]
<1>1. /\ req[r] # None /\ Doing(r) = "readNewest" /\ DOMAIN req[r] = Fields /\ Lands(r, q)
      /\ t \in Tenants
  BY ReadNewestLands, BackendAssumption DEF RequestsInv, Request, AuditTenant
<1>2. \A s \in Jobs : s # r => Kept(s)
  BY <1>1, LandsOn, OnlyKept
<1>3. /\ UNCHANGED <<log, stamps, torn>>
      /\ forked' = IF Writing(t) = {} THEN forked ELSE forked \cup {t}
  BY DEF ReadNewest
<1>4. ASSUME req'[r] # None
      PROVE  /\ req'[r].prev = Newest(log[t]) /\ AuditTenant(req'[r]) = t /\ ~Stamped(req'[r])
  <2>1. PICK p : p = req'[r]
    OBVIOUS
  <2>2. q.prev = Newest(log[t]) /\ q.kind = req[r].kind /\ q.tenant = req[r].tenant
    BY <1>1, FieldsAre
  <2>3. Left(q, p) /\ Leads(req[r].kind, Doing(r), Head(p.todo))
    <3> HIDE DEF q
    <3> QED
      BY <1>1, <1>4, <2>1, LandsOn
  <2>4. p.prev = Newest(log[t]) /\ AuditTenant(p) = t
    BY <2>2, <2>3 DEF Left, AuditTenant
  <2>5. ~Stamped(p)
    BY <1>1, <2>3 DEF Stamped, Leads, PeerSteps
  <2> QED
    BY <2>1, <2>4, <2>5
<1> HIDE DEF t, q
<1>5. Newest(log[t]) = Genesis \/ \E d \in log[t] : d.at = Newest(log[t])
  <2>1. HasNewest(log[t]) /\ \A e \in log[t] : e.at \in Nat
    BY <1>1 DEF ChainInv, EventsInv
  <2> QED
    BY <2>1, NewestIs
<1>6. req'[r] # None => Chaining(req'[r], log', stamps', forked', torn')
  BY <1>1, <1>3, <1>4, <1>5 DEF Chaining, Chained, ToNewest
<1>7. \A s \in Jobs : s # r /\ req[s] # None /\ Chaining(req[s], log, stamps, forked, torn) =>
        Chaining(req[s], log', stamps', forked', torn')
  BY <1>3 DEF Chaining
<1>8. \A s \in Jobs : req[s] # None /\ Writes(req[s]) /\ AuditTenant(req[s]) = t => t \in forked'
  BY <1>3, WritersAre
<1>9. WritersInv'
  <2>1. forked \subseteq forked' /\ torn \subseteq torn'
    BY <1>3
  <2> QED
    BY <1>2, <1>4, <1>6, <1>7, <1>8, <2>1, OtherWriters DEF ChainInv
<1>10. EventsInv'
  BY <1>3 DEF ChainInv, EventsInv
<1>11. ChainsAreSound'
  <2>1. \A u : u \notin forked' \cup torn' => u \notin forked \cup torn
    BY <1>3
  <2> QED
    BY <1>3, <2>1 DEF ChainInv, ChainsAreSound
<1> QED
  BY <1>9, <1>10, <1>11 DEF ChainInv

\* The event gets a time later than all of before.
LEMMA StampChains ==
  ASSUME RequestsInv, ChainInv, NEW r \in Jobs, Stamp(r)
  PROVE  ChainInv'
<1> DEFINE q == [req[r] EXCEPT !.at = stamps + 1]
<1>1. req[r] # None /\ Doing(r) = "stamp" /\ DOMAIN req[r] = Fields /\ Lands(r, q)
  BY StampLands
<1>2. \A s \in Jobs : s # r => Kept(s)
  BY <1>1, LandsOn, OnlyKept
<1>3. UNCHANGED <<log, forked, torn>> /\ stamps' = stamps + 1 /\ stamps \in Nat
  BY DEF Stamp, ChainInv, EventsInv
<1>4. Writes(req[r]) /\ Chaining(req[r], log, stamps, forked, torn)
  BY <1>1 DEF Writes, Doing, ChainInv, WritersInv
<1>5. ASSUME req'[r] # None, Writes(req'[r])
      PROVE  /\ Chaining(req'[r], log', stamps', forked', torn')
             /\ AuditTenant(req'[r]) = AuditTenant(req[r])
  <2>1. PICK p : p = req'[r]
    OBVIOUS
  <2>2. q.prev = req[r].prev /\ q.at = stamps + 1 /\ q.kind = req[r].kind /\ q.tenant = req[r].tenant
    BY <1>1, FieldsAre
  <2>3. Left(q, p) /\ Leads(req[r].kind, Doing(r), Head(p.todo))
    <3> HIDE DEF q
    <3> QED
      BY <1>1, <1>5, <2>1, LandsOn
  <2>4. p.prev = req[r].prev /\ p.at = stamps + 1 /\ AuditTenant(p) = AuditTenant(req[r])
    BY <2>2, <2>3 DEF Left, AuditTenant
  <2> DEFINE t == AuditTenant(p)
  <2>5. t \in Tenants /\ (t \notin torn => Chained(req[r], log[t])) /\ (t \notin forked \cup torn => ToNewest(req[r], log[t]))
    BY <1>4, <2>4 DEF Chaining
  <2> HIDE DEF t, q
  <2>6. \A e \in log[t] : e.at \in Nat /\ e.at < stamps + 1
    BY <1>3, <2>5 DEF ChainInv, EventsInv
  <2>7. /\ t \notin torn => Chained(p, log[t])
        /\ t \notin forked \cup torn => ToNewest(p, log[t])
    BY <2>4, <2>5, <2>6 DEF Chained, ToNewest
  <2>8. stamps + 1 \in 1..stamps + 1
    BY <1>3
  <2>9. Chaining(p, log, stamps + 1, forked, torn)
    BY <2>4, <2>5, <2>7, <2>8 DEF Chaining, t
  <2> QED
    BY <1>3, <2>1, <2>4, <2>9
<1> HIDE DEF q
<1>6. req'[r] # None => Chaining(req'[r], log', stamps', forked', torn')
  BY <1>5 DEF Chaining
<1>7. \A s \in Jobs : s # r /\ req[s] # None /\ Chaining(req[s], log, stamps, forked, torn) =>
        Chaining(req[s], log', stamps', forked', torn')
  <2>1. \A i \in 1..stamps : i \in 1..stamps + 1
    BY <1>3
  <2> QED
    BY <1>3, <2>1 DEF Chaining
<1>8. \A s \in Jobs : s # r /\ req[s] # None /\ Writes(req[s]) /\ AuditTenant(req[s]) = AuditTenant(req[r]) =>
        AuditTenant(req[r]) \in forked \cup torn
  BY <1>1, <1>4 DEF ChainInv, WritersInv, Together
<1>9. WritersInv'
  BY <1>2, <1>3, <1>5, <1>6, <1>7, <1>8, OtherWriters DEF ChainInv
<1>10. EventsInv'
  <2>1. \A i \in 1..stamps : i \in 1..stamps + 1
    BY <1>3
  <2> QED
    BY <1>3, <2>1 DEF ChainInv, EventsInv
<1>11. ChainsAreSound'
  BY <1>3 DEF ChainInv, ChainsAreSound
<1> QED
  BY <1>9, <1>10, <1>11 DEF ChainInv

\* A chain that an event is added to.
LEMMA AddedTo ==
  ASSUME NEW rows, HasNewest(rows), \A e \in rows : e.at \in Nat, NEW f, f.at \in Nat
  PROVE  /\ HasNewest(rows \cup {f})
         /\ Unbroken(rows) /\ f.prev = Newest(rows) /\ (\A e \in rows : e.at < f.at) =>
              Unbroken(rows \cup {f})
<1>1. HasNewest(rows \cup {f})
  <2>1. CASE rows = {} \/ \A e \in rows : f.at >= e.at
    BY <2>1 DEF HasNewest
  <2>2. CASE rows # {} /\ \E e \in rows : ~(f.at >= e.at)
    <3>1. PICK d \in rows : \A e \in rows : d.at >= e.at
      BY <2>2 DEF HasNewest
    <3>2. PICK e \in rows : ~(f.at >= e.at)
      BY <2>2
    <3>3. d.at \in Nat /\ e.at \in Nat /\ d.at >= e.at
      BY <3>1
    <3>4. d.at >= f.at
      BY <3>2, <3>3
    <3> QED
      BY <3>1, <3>4 DEF HasNewest
  <2> QED
    BY <2>1, <2>2
<1>2. ASSUME Unbroken(rows), f.prev = Newest(rows), \A e \in rows : e.at < f.at
      PROVE  Unbroken(rows \cup {f})
  <2>1. {d \in rows \cup {f} : d.at < f.at} = rows
    BY <1>2
  <2>2. ASSUME NEW e \in rows
        PROVE  {d \in rows \cup {f} : d.at < e.at} = {d \in rows : d.at < e.at}
    <3>1. e.at \in Nat /\ e.at < f.at
      BY <1>2
    <3>2. ~(f.at < e.at)
      BY <3>1
    <3> QED
      BY <3>2
  <2>3. ASSUME NEW e \in rows PROVE e.prev = Newest({d \in rows \cup {f} : d.at < e.at})
    BY <1>2, <2>2 DEF Unbroken
  <2> QED
    BY <1>2, <2>1, <2>3 DEF Unbroken
<1> QED
  BY <1>1, <1>2

\* The event is written, chained to what was read: to the newest one, unless another
\* writer was at work.
LEMMA AppendChains ==
  ASSUME RequestsInv, ChainInv, NEW r \in Jobs, AppendEvent(r)
  PROVE  ChainInv'
<1> DEFINE t == AuditTenant(req[r])
           f == [at |-> req[r].at, prev |-> req[r].prev]
<1>1. req[r] # None /\ Doing(r) = "append" /\ Moves(r)
  BY AppendMoves
<1>2. \A s \in Jobs : s # r => Kept(s)
  BY <1>1, OnlyKept DEF Moves
<1>3. UNCHANGED <<stamps, forked, torn>> /\ log' = [log EXCEPT ![t] = @ \cup {f}]
  BY DEF AppendEvent
<1>4. Writes(req[r]) /\ Stamped(req[r]) /\ Chaining(req[r], log, stamps, forked, torn)
  BY <1>1 DEF Writes, Stamped, Doing, ChainInv, WritersInv
<1>5. /\ t \in Tenants /\ f.at = req[r].at /\ f.prev = req[r].prev /\ f.at \in 1..stamps
      /\ t \notin torn => Chained(req[r], log[t])
      /\ t \notin forked \cup torn => ToNewest(req[r], log[t])
  BY <1>4 DEF Chaining
<1>6. req'[r] # None => ~Writes(req'[r])
  BY <1>1 DEF Moves, Rests, Awaits, Writes, PeerSteps
<1>7. ASSUME NEW s \in Jobs, s # r, req[s] # None, Writes(req[s]), AuditTenant(req[s]) = t
      PROVE  t \in forked \cup torn
  BY <1>1, <1>4, <1>7 DEF ChainInv, WritersInv, Together
<1> HIDE DEF t, f
<1>8. /\ DOMAIN log = Tenants /\ stamps \in Nat
      /\ HasNewest(log[t]) /\ \A e \in log[t] : e.at \in Nat
  BY <1>5 DEF ChainInv, EventsInv
<1>9. log'[t] = log[t] \cup {f} /\ \A u \in Tenants : u # t => log'[u] = log[u]
  BY <1>3, <1>5, <1>8
<1>10. WritersInv'
  <2>1. ASSUME NEW s \in Jobs, s # r, req[s] # None, Chaining(req[s], log, stamps, forked, torn)
        PROVE  Chaining(req[s], log', stamps', forked', torn')
    <3> DEFINE u == AuditTenant(req[s])
    <3>1. SUFFICES ASSUME Writes(req[s]) PROVE Chaining(req[s], log', stamps', forked', torn')
      BY DEF Chaining
    <3>2. CASE u # t
      BY <1>3, <1>9, <2>1, <3>1, <3>2 DEF Chaining
    <3>3. CASE u = t
      <4>1. t \in forked \cup torn /\ log[t] \subseteq log'[t]
        BY <1>7, <1>9, <2>1, <3>1, <3>3
      <4>2. Chained(req[s], log[t]) => Chained(req[s], log'[t])
        BY <4>1 DEF Chained
      <4> QED
        BY <1>3, <2>1, <3>1, <3>3, <4>1, <4>2 DEF Chaining
    <3> QED
      BY <3>2, <3>3
  <2>2. req'[r] # None => Chaining(req'[r], log', stamps', forked', torn')
    BY <1>6 DEF Chaining
  <2> QED
    BY <1>2, <1>3, <1>6, <2>1, <2>2, OtherWriters DEF ChainInv
<1>11. f.at \in Nat
  BY <1>5, <1>8
<1>12. EventsInv'
  <2>1. HasNewest(log'[t]) /\ \A e \in log'[t] : e.at \in 1..stamps
    BY <1>5, <1>8, <1>9, <1>11, AddedTo DEF ChainInv, EventsInv
  <2>2. DOMAIN log' = Tenants
    BY <1>3, <1>8
  <2> QED
    BY <1>3, <1>9, <2>1, <2>2 DEF ChainInv, EventsInv
<1>13. ChainsAreSound'
  <2>1. ASSUME t \notin torn, NEW e \in log'[t]
        PROVE  e.prev = Genesis \/ \E d \in log'[t] : d.at = e.prev /\ d.at < e.at
    <3>1. CASE e \in log[t]
      BY <1>5, <1>9, <2>1, <3>1 DEF ChainInv, ChainsAreSound
    <3>2. CASE e = f
      <4>1. req[r].prev = Genesis \/ \E d \in log[t] : d.at = req[r].prev /\ d.at < req[r].at
        BY <1>4, <1>5, <2>1 DEF Chained
      <4> QED
        BY <1>5, <1>9, <3>2, <4>1
    <3> QED
      BY <1>9, <3>1, <3>2
  <2>2. ASSUME t \notin forked \cup torn PROVE Unbroken(log'[t])
    <3>1. Unbroken(log[t]) /\ ToNewest(req[r], log[t])
      BY <1>5, <2>2 DEF ChainInv, ChainsAreSound
    <3>2. f.prev = Newest(log[t]) /\ \A e \in log[t] : e.at < f.at
      BY <1>4, <1>5, <3>1 DEF ToNewest
    <3> QED
      BY <1>8, <1>9, <1>11, <3>1, <3>2, AddedTo
  <2>3. \A u \in Tenants : u # t =>
          /\ u \notin torn =>
               \A e \in log'[u] : e.prev = Genesis \/ \E d \in log'[u] : d.at = e.prev /\ d.at < e.at
          /\ u \notin forked \cup torn => Unbroken(log'[u])
    BY <1>9 DEF ChainInv, ChainsAreSound
  <2> QED
    BY <1>3, <2>1, <2>2, <2>3 DEF ChainsAreSound
<1> QED
  BY <1>10, <1>12, <1>13 DEF ChainInv

\* A reset deletes the chain, and tears it when a writer is at work.
LEMMA DeleteRestChains ==
  ASSUME RequestsInv, ChainInv, NEW r \in Jobs, DeleteRest(r)
  PROVE  ChainInv'
<1> DEFINE t == req[r].tenant
<1>1. req[r] # None /\ Moves(r) /\ t \in Tenants
  BY DeleteRestMoves DEF RequestsInv, Request
<1>2. \A s \in Jobs : s # r => Kept(s)
  BY <1>1, OnlyKept DEF Moves
<1>3. req'[r] # None => ~Writes(req'[r])
  BY <1>1 DEF Moves, Rests, Awaits, Writes, PeerSteps
<1>4. \/ UNCHANGED auditVars
      \/ /\ log' = [log EXCEPT ![t] = {}] /\ UNCHANGED <<stamps, forked>>
         /\ torn' = IF Writing(t) = {} THEN torn ELSE torn \cup {t}
  BY DEF DeleteRest
<1> HIDE DEF t
<1>5. CASE UNCHANGED auditVars
  BY <1>2, <1>3, <1>5, ChainsRest
<1>6. CASE /\ log' = [log EXCEPT ![t] = {}] /\ UNCHANGED <<stamps, forked>>
           /\ torn' = IF Writing(t) = {} THEN torn ELSE torn \cup {t}
  <2>1. DOMAIN log = Tenants /\ log'[t] = {} /\ \A u \in Tenants : u # t => log'[u] = log[u]
    BY <1>1, <1>6 DEF ChainInv, EventsInv
  <2>2. torn \subseteq torn' /\ \A u : u \notin torn' => u \notin torn
    BY <1>6
  <2>3. ASSUME NEW s \in Jobs, req[s] # None, Chaining(req[s], log, stamps, forked, torn)
        PROVE  Chaining(req[s], log', stamps', forked', torn')
    <3> DEFINE u == AuditTenant(req[s])
    <3>1. SUFFICES ASSUME Writes(req[s]) PROVE Chaining(req[s], log', stamps', forked', torn')
      BY DEF Chaining
    <3>2. CASE u # t
      BY <1>6, <2>1, <2>2, <2>3, <3>1, <3>2 DEF Chaining
    <3>3. CASE u = t
      <4>1. t \in torn'
        BY <1>6, <2>3, <3>1, <3>3, WritersAre
      <4> QED
        BY <1>6, <2>3, <3>1, <3>3, <4>1 DEF Chaining
    <3> QED
      BY <3>2, <3>3
  <2>4. WritersInv'
    <3>1. req'[r] # None => Chaining(req'[r], log', stamps', forked', torn')
      BY <1>3 DEF Chaining
    <3> QED
      BY <1>2, <1>3, <1>6, <2>2, <2>3, <3>1, OtherWriters DEF ChainInv
  <2>5. EventsInv'
    <3>1. DOMAIN log' = Tenants
      BY <1>6, <2>1
    <3>2. HasNewest(log'[t])
      BY <2>1 DEF HasNewest
    <3> QED
      BY <1>6, <2>1, <3>1, <3>2 DEF ChainInv, EventsInv
  <2>6. ChainsAreSound'
    <3>1. Unbroken(log'[t])
      BY <2>1 DEF Unbroken
    <3>2. ASSUME NEW u \in Tenants, u # t
          PROVE  /\ u \notin torn' =>
                      \A e \in log'[u] : e.prev = Genesis \/ \E d \in log'[u] : d.at = e.prev /\ d.at < e.at
                 /\ u \notin forked' \cup torn' => Unbroken(log'[u])
      BY <1>6, <2>1, <2>2, <3>2 DEF ChainInv, ChainsAreSound
    <3> QED
      BY <2>1, <3>1, <3>2 DEF ChainsAreSound
  <2> QED
    BY <2>4, <2>5, <2>6 DEF ChainInv
<1> QED
  BY <1>4, <1>5, <1>6

\* Every step keeps what the chains rest on.
LEMMA ChainsStep ==
  ASSUME RequestsInv, load \in Loads, ChainInv, [Next]_vars
  PROVE  ChainInv'
<1>1. ASSUME NEW r \in Jobs, Calm(r) PROVE ChainInv'
  <2>1. req'[r] # None => ~Writes(req'[r])
    BY <1>1 DEF Calm, Settles, Rests, Awaits, Writes, PeerSteps
  <2> QED
    BY <1>1, <2>1, ChainsRest DEF Calm, Settles
<1>2. ASSUME NEW r \in Jobs, Telling(r) PROVE ChainInv'
  <2>1. CASE ReadNewest(r) \/ Stamp(r) \/ AppendEvent(r) \/ DeleteRest(r)
    BY <2>1, ReadNewestChains, StampChains, AppendChains, DeleteRestChains
  <2>2. CASE ~(ReadNewest(r) \/ Stamp(r) \/ AppendEvent(r) \/ DeleteRest(r))
    <3>1. UNCHANGED auditVars
      BY <1>2, <2>2 DEF Telling, InsertAgent, ReadKeys, ReadBits, Rotate, FindHolder, Register, Refetch, Allocate,
                        Sign, Store, MakeIssuer
    <3>2. \A s \in Jobs : s # r => Kept(s)
      BY <1>2, TellingKeeps, OnlyKept
    <3>3. req'[r] # None => ~Writes(req'[r])
      BY <1>2, <2>2, WhoPrepares DEF Writes
    <3> QED
      BY <3>1, <3>2, <3>3, ChainsRest
  <2> QED
    BY <2>1, <2>2
<1>3. CASE Tick \/ UNCHANGED vars
  <2>1. UNCHANGED <<req, log, stamps, forked, torn>>
    BY <1>3 DEF Tick, vars, requestVars, auditVars
  <2> QED
    BY <2>1 DEF ChainInv, EventsInv, WritersInv, ChainsAreSound
<1>4. ASSUME NEW r \in Jobs, Arrive(r) PROVE ChainInv'
  <2>1. Calm(r)
    BY <1>4, ArriveSettles DEF Arrive, Calm, registryVars
  <2> QED
    BY <1>1, <2>1
<1>5. ASSUME NEW r \in Jobs, Step(r) PROVE ChainInv'
  BY <1>1, <1>2, <1>5, StepCases
<1> QED
  BY <1>3, <1>4, <1>5 DEF Next

\* No event is there at first.
LEMMA InitChains ==
  ASSUME Init
  PROVE  ChainInv
<1>1. /\ log = [t \in Tenants |-> {}] /\ stamps = 0 /\ \A r \in Jobs : req[r] = None
  BY DEF Init
<1>2. \A t \in Tenants : HasNewest(log[t]) /\ Unbroken(log[t]) /\ log[t] = {}
  BY <1>1 DEF HasNewest, Unbroken
<1> QED
  BY <1>1, <1>2 DEF ChainInv, EventsInv, WritersInv, ChainsAreSound

\* Whoever writes audit events beside each other, and whatever resets delete: every
\* event is chained to an older one that is still there, and verify_chain accepts the
\* chain, where no two writers were at work at once and no reset tore it.
THEOREM ChainsSound == Spec => []ChainsAreSound
<1> DEFINE Inv == RequestsInv /\ load \in Loads /\ ChainInv
<1>1. Init => Inv
  BY InitRows, InitChains
<1>2. Inv /\ [Next]_vars => Inv'
  BY RequestsStep, ChainsStep
<1>3. Inv => ChainsAreSound
  BY DEF ChainInv
<1> QED
  BY <1>1, <1>2, <1>3, PTL DEF Spec

(***************************************************************************)
(* Attestations agree.                                                     *)
(***************************************************************************)

CredFields ==
  {"issuer", "subject", "kid", "gen", "tenant", "list", "exp", "stored", "spiffe", "depth", "by"}

\* The agent a holds, or held, SPIFFE ID s.
Held(a, s, ags) == a \in Agents /\ ags[a] # None /\ ags[a].spiffe = s

\* An attestation is its holder's, and signed with a key that the holder has for as long
\* as it is not deleted.
Sound(x, ags, ks) ==
  /\ DOMAIN x = CredFields /\ x.issuer \in Agents /\ x.exp \in Nat
  /\ x.spiffe # None =>
       /\ Held(x.issuer, x.spiffe, ags)
       /\ ~ags[x.issuer].deleted => x.kid \in DOMAIN ks[x.issuer] /\ ks[x.issuer][x.kid].gen = x.gen

\* An attestation has found its holder before it signs; what is stored was signed.
Attesting(q, ags, cs) ==
  /\ q.kind = "attest" /\ Head(q.todo) \in {"allocate", "sign"} /\ q.spiffe # None => Held(q.agent, q.spiffe, ags)
  /\ Head(q.todo) = "store" => q.cred \in DOMAIN cs

\* A SPIFFE ID has one holder at a time, which is not the status issuer.
HoldersInv ==
  /\ agents[StatusIssuer] # None => agents[StatusIssuer].spiffe = None
  /\ \A a, b \in Registered : agents[a].spiffe # None /\ agents[a].spiffe = agents[b].spiffe => a = b

CredsInv == DOMAIN creds \subseteq Creds /\ \A c \in DOMAIN creds : Sound(creds[c], agents, keys)

AttestInv ==
  /\ HoldersInv /\ CredsInv
  /\ \A r \in Jobs : req[r] # None => Attesting(req[r], agents, creds)

\* Whatever changes the rows: an agent keeps its SPIFFE ID, a deleted one does not come
\* back, and keys stay until it is deleted.
Evolves ==
  \A a \in Agents \ {StatusIssuer} : agents[a] # None =>
    /\ agents'[a] # None /\ agents'[a].spiffe = agents[a].spiffe
    /\ ~agents'[a].deleted =>
         /\ ~agents[a].deleted
         /\ \A n \in DOMAIN keys[a] : n \in DOMAIN keys'[a] /\ keys'[a][n].gen = keys[a][n].gen

\* Who holds, or held, a SPIFFE ID stays the one that did.
LEMMA HeldStays ==
  ASSUME HoldersInv, Evolves, NEW a, NEW s, s # None, Held(a, s, agents)
  PROVE  a # StatusIssuer /\ Held(a, s, agents')
BY DEF HoldersInv, Evolves, Held

\* Attestations stay sound.
LEMMA SoundStays ==
  ASSUME HoldersInv, Evolves, NEW x, Sound(x, agents, keys)
  PROVE  Sound(x, agents', keys')
<1>1. CASE x.spiffe = None
  BY <1>1 DEF Sound
<1>2. CASE x.spiffe # None
  <2> DEFINE a == x.issuer
  <2>1. Held(a, x.spiffe, agents) /\ Held(a, x.spiffe, agents') /\ a \in Agents \ {StatusIssuer} /\ agents[a] # None
    BY <1>2, HeldStays DEF Sound, Held
  <2>2. ~agents'[a].deleted => x.kid \in DOMAIN keys'[a] /\ keys'[a][x.kid].gen = x.gen
    BY <1>2, <2>1 DEF Evolves, Sound
  <2> QED
    BY <2>1, <2>2 DEF Sound
<1> QED
  BY <1>1, <1>2

\* An agent that is inserted is new, but for the status issuer, and so is the holder of
\* its SPIFFE ID.
LEMMA InsertEvolves ==
  ASSUME RowsInv, HoldersInv, NEW a \in Agents, NEW t \in Tenants, NEW s \in Spiffes \cup {None},
         Inserts(a, t, s), \/ a = StatusIssuer /\ s = None
                           \/ a # StatusIssuer /\ agents[a] = None /\ HoldersOf(s) = {}
  PROVE  Evolves /\ HoldersInv' /\ Held(a, s, agents')
<1> DEFINE row == [tenant |-> t, spiffe |-> s, deleted |-> FALSE]
<1>1. row \in Agent /\ row # None /\ row.spiffe = s
  <2>1. row \in Agent /\ row.spiffe = s
    BY DEF Agent
  <2> HIDE DEF row
  <2> QED
    BY <2>1, RegistryAssumption
<1>2. agents' = [agents EXCEPT ![a] = row] /\ \A b \in Agents : b # a => keys'[b] = keys[b]
  BY DEF Inserts, Insert, RowsInv
<1> HIDE DEF row
<1>3. agents'[a] = row /\ \A b \in Agents : b # a => agents'[b] = agents[b]
  BY <1>2 DEF RowsInv
<1>4. Evolves
  BY <1>2, <1>3 DEF Evolves
<1>5. ASSUME NEW b \in Registered', b # a PROVE b \in Registered /\ (s # None => agents[b].spiffe # s)
  <2>1. b \in Registered /\ agents'[b] = agents[b]
    BY <1>3, <1>5 DEF Registered
  <2>2. CASE a = StatusIssuer /\ s = None
    BY <2>1, <2>2
  <2>3. CASE HoldersOf(s) = {}
    BY <2>1, <2>3 DEF HoldersOf
  <2> QED
    BY <2>1, <2>2, <2>3
<1>6. \A b \in Registered' : b \in Agents
  BY DEF Registered
<1>7. HoldersInv'
  <2>1. agents'[StatusIssuer] # None => agents'[StatusIssuer].spiffe = None
    BY <1>1, <1>3, RegistryAssumption DEF HoldersInv
  <2>2. ASSUME NEW b \in Registered', NEW c \in Registered', agents'[b].spiffe # None,
               agents'[b].spiffe = agents'[c].spiffe
        PROVE  b = c
    <3>1. CASE b # a /\ c # a
      BY <1>3, <1>5, <1>6, <2>2, <3>1 DEF HoldersInv
    <3>2. CASE b = a /\ c # a
      BY <1>1, <1>3, <1>5, <1>6, <2>2, <3>2
    <3>3. CASE b # a /\ c = a
      BY <1>1, <1>3, <1>5, <1>6, <2>2, <3>3
    <3> QED
      BY <3>1, <3>2, <3>3
  <2> QED
    BY <2>1, <2>2 DEF HoldersInv
<1> QED
  BY <1>1, <1>3, <1>4, <1>7 DEF Held

\* The rows evolve, whichever way they change.
LEMMA RowsEvolve ==
  ASSUME RequestsInv, KeysInv, HoldersInv, NEW r \in Jobs, Telling(r)
  PROVE  Evolves /\ HoldersInv'
<1>1. CASE UNCHANGED <<agents, keys, resets, now>>
  BY <1>1 DEF Evolves, HoldersInv, Registered
<1>2. CASE InsertsNew(r) /\ (InsertAgent(r) \/ Register(r))
  <2>1. req[r] # None
    BY <1>2 DEF InsertAgent, Register, Ready
  <2>2. req[r].tenant \in Tenants /\ req[r].spiffe \in Spiffes \cup {None} /\ HoldersOf(req[r].spiffe) = {}
    BY <1>2, <2>1 DEF RequestsInv, Request, InsertsNew, Conflict
  <2> DEFINE a == Min(Unused)
  <2>3. a \in Unused /\ Unused \subseteq Agents \ {StatusIssuer}
    BY <1>2, LeastUnused DEF InsertsNew
  <2> HIDE DEF a
  <2>4. a \in Agents /\ a # StatusIssuer /\ agents[a] = None
    BY <2>3 DEF Unused
  <2>5. Inserts(a, req[r].tenant, req[r].spiffe)
    BY <1>2 DEF InsertsNew, a
  <2> QED
    BY <2>2, <2>4, <2>5, InsertEvolves DEF KeysInv
<1>3. CASE Inserts(StatusIssuer, DefaultTenant, None)
  BY <1>3, InsertEvolves, RegistryAssumption DEF KeysInv
<1>4. CASE Rotates(r) /\ Rotate(r)
  <2> DEFINE a == req[r].agent
             n == req[r].seen
             ks == Rotated(a, n, now)
  <2>1. req[r] # None /\ Doing(r) = "rotate"
    BY <1>4 DEF Rotate, Ready
  <2>2. n \in Nat
    BY <2>1 DEF KeysInv, Informed, Doing
  <2>3. a \in Agents /\ agents[a] # None /\ KidIsFree(a, n) /\ keys' = [keys EXCEPT ![a] = ks] /\ agents' = agents
    BY <1>4 DEF Rotates, Registered
  <2>4. \A m \in DOMAIN keys[a] : m \in DOMAIN ks /\ ks[m].gen = keys[a][m].gen
    <3> HIDE DEF a, n
    <3> QED
      BY <2>2, <2>3, RotatedKeys DEF KeysInv
  <2> HIDE DEF ks, a, n
  <2>5. Evolves
    BY <2>3, <2>4 DEF Evolves, KeysInv, RowsInv
  <2>6. HoldersInv'
    BY <2>3 DEF HoldersInv, Registered
  <2> QED
    BY <2>5, <2>6
<1>5. CASE Deletes(req[r].tenant) /\ DeleteRest(r)
  <2>1. req[r].tenant \in Tenants
    BY <1>5 DEF RequestsInv, Request, DeleteRest, Ready
  <2>2. /\ \A a \in Agents : a \in Registered' => agents'[a] = agents[a] /\ keys'[a] = keys[a]
        /\ \A a \in Agents : agents[a] # None => agents'[a] \in Agent /\ agents'[a].spiffe = agents[a].spiffe
    BY <1>5, <2>1, DeleteKeys DEF Deletes, KeysInv
  <2>3. \A a \in Agents : agents'[a] # None => agents[a] # None
    BY <1>5 DEF Deletes, AgentsOf, Registered
  <2>4. \A a \in Agents : agents[a] # None => agents'[a] # None
    BY <2>2, RegistryAssumption
  <2>5. ASSUME NEW a \in Agents, agents[a] # None, ~agents'[a].deleted
        PROVE  agents'[a] = agents[a] /\ keys'[a] = keys[a]
    BY <2>2, <2>4, <2>5 DEF Registered
  <2>6. Evolves
    BY <2>2, <2>4, <2>5 DEF Evolves
  <2>7. \A a \in Registered' : a \in Agents /\ a \in Registered /\ agents'[a] = agents[a]
    BY <2>2 DEF Registered
  <2>8. HoldersInv'
    BY <2>2, <2>3, <2>7, RegistryAssumption DEF HoldersInv
  <2> QED
    BY <2>6, <2>8
<1> QED
  BY <1>1, <1>2, <1>3, <1>4, <1>5, RowCases

\* What a credential never loses: when it expires, and its status list.
Lasting(x, y) == y.exp = x.exp /\ y.tenant = x.tenant /\ y.list = x.list

\* A credential stays what it was when it is stored, or its row deleted.
LEMMA SoundStored ==
  ASSUME NEW x, NEW b, NEW ags, NEW ks, Sound(x, ags, ks)
  PROVE  Sound([x EXCEPT !.stored = b], ags, ks) /\ Lasting(x, [x EXCEPT !.stored = b])
<1> DEFINE y == [x EXCEPT !.stored = b]
<1>1. /\ DOMAIN y = CredFields /\ y.spiffe = x.spiffe /\ y.issuer = x.issuer /\ y.kid = x.kid /\ y.gen = x.gen
      /\ Lasting(x, y) /\ y.exp = x.exp
  BY DEF Sound, CredFields, Lasting
<1> HIDE DEF y
<1>2. Sound(y, ags, ks)
  BY <1>1 DEF Sound
<1> QED
  BY <1>1, <1>2 DEF y

\* The key that signs is one of the agent's.
LEMMA NewestSigns ==
  ASSUME KeysInv, NEW a \in Registered, NEW sig, sig = Signature(a, SigningKey(a))
  PROVE  sig.kid \in DOMAIN keys[a] /\ keys[a][sig.kid].gen = sig.gen
<1> DEFINE on == {n \in DOMAIN keys[a] : keys[a][n].active}
           len == Len(keys[a])
<1>1. on = {len} /\ len \in DOMAIN keys[a]
  BY DEF KeysInv, OneSigningKey
<1>2. len \in Nat
  BY DEF KeysInv, RowsInv, Registered
<1>3. SigningKey(a) = Max(on)
  BY <1>1 DEF SigningKey
<1> HIDE DEF on, len
<1>4. Max(on) = len
  BY <1>1, <1>2 DEF Max
<1> QED
  BY <1>1, <1>3, <1>4 DEF Signature

\* Where a request that signs lands.
LEMMA SignProceeds ==
  ASSUME RequestsInv, NEW r \in Jobs, Sign(r), req[r].agent \in Registered
  PROVE  \E sig : Lands(r, [req[r] EXCEPT !.cred = Min(Unsigned), !.did = req[r].agent, !.sig = sig, !.seen = None])
BY SignLands

\* What is signed is sound: it names the holder that the attestation has found.
LEMMA SignSound ==
  ASSUME RequestsInv, KeysInv, AttestInv, NEW r \in Jobs, Sign(r), req[r].agent \in Registered
  PROVE  /\ Min(Unsigned) \in Unsigned
         /\ \E x : creds' = CredsWith(Min(Unsigned), x) /\ Sound(x, agents, keys)
         /\ req'[r] # None => req'[r].cred = Min(Unsigned)
<1> DEFINE q == req[r]
           c == Min(Unsigned)
<1>1. q # None /\ Doing(r) = "sign" /\ DOMAIN q = Fields
  BY SignLands
<1>2. q.agent \in Registered /\ c \in Unsigned
  BY LeastUnused DEF Sign
<1>3. PICK sig \in {Signature(q.agent, SigningKey(q.agent))} :
        creds' = CredsWith(c,
                 [issuer |-> q.agent, subject |-> q.subject, kid |-> sig.kid, gen |-> sig.gen,
                  tenant |-> q.tenant, list |-> q.seen, exp |-> IF q.ttl = 0 THEN 0 ELSE now + q.ttl,
                  stored |-> FALSE, spiffe |-> q.spiffe, depth |-> q.score, by |-> r])
  BY <1>2 DEF Sign
<1> DEFINE x == [issuer |-> q.agent, subject |-> q.subject, kid |-> sig.kid, gen |-> sig.gen,
                  tenant |-> q.tenant, list |-> q.seen, exp |-> IF q.ttl = 0 THEN 0 ELSE now + q.ttl,
                  stored |-> FALSE, spiffe |-> q.spiffe, depth |-> q.score, by |-> r]
<1>4. /\ DOMAIN x = CredFields /\ x.issuer = q.agent /\ x.spiffe = q.spiffe /\ x.kid = sig.kid /\ x.gen = sig.gen
      /\ x.exp \in Nat
  BY <1>1 DEF CredFields, RequestsInv, Request, KeysInv, RowsInv
<1>5. sig.kid \in DOMAIN keys[q.agent] /\ keys[q.agent][sig.kid].gen = sig.gen
  <2>1. sig = Signature(q.agent, SigningKey(q.agent))
    OBVIOUS
  <2> HIDE DEF q, x
  <2> QED
    BY <1>2, <2>1, NewestSigns
<1>6. q.spiffe # None => Held(q.agent, q.spiffe, agents)
  <2> SUFFICES ASSUME q.spiffe # None PROVE Held(q.agent, q.spiffe, agents)
    OBVIOUS
  <2>1. ~Turning(r)
    BY <1>1, NotTurning DEF Inner, AuditSteps
  <2>2. q.kind = "attest"
    BY <1>1, <2>1 DEF RequestsInv, Request, Scripted, Turning
  <2> QED
    BY <1>1, <2>2 DEF AttestInv, Attesting, Doing
<1>7. req'[r] # None => req'[r].cred = c
  <2> SUFFICES ASSUME req'[r] # None PROVE req'[r].cred = c
    OBVIOUS
  <2>1. PICK s : Lands(r, [q EXCEPT !.cred = c, !.did = q.agent, !.sig = s, !.seen = None])
    BY <1>2, SignProceeds
  <2> DEFINE p == [q EXCEPT !.cred = c, !.did = q.agent, !.sig = s, !.seen = None]
  <2>2. p.cred = c
    BY <1>1, FieldsAre
  <2> HIDE DEF p
  <2>3. Lands(r, p)
    BY <2>1 DEF p
  <2> QED
    BY <2>2, <2>3, LandsOn DEF Left
<1> HIDE DEF x
<1>8. Sound(x, agents, keys)
  BY <1>2, <1>4, <1>5, <1>6 DEF Sound, Registered
<1> QED
  BY <1>2, <1>3, <1>7, <1>8 DEF x

\* One more credential.
LEMMA WithCred ==
  ASSUME NEW c, NEW x, c \notin DOMAIN creds, creds' = CredsWith(c, x)
  PROVE  DOMAIN creds' = DOMAIN creds \cup {c} /\ creds'[c] = x /\ \A d \in DOMAIN creds : creds'[d] = creds[d]
BY DEF CredsWith

\* Credentials stay, and sound, and new ones are.
CredsEvolve ==
  /\ DOMAIN creds \subseteq DOMAIN creds' /\ DOMAIN creds' \subseteq Creds
  /\ \A c \in DOMAIN creds : Lasting(creds[c], creds'[c])
  /\ \A c \in DOMAIN creds' : Sound(creds'[c], agents', keys')

\* Credentials stay sound while they stay what they are, ...
LEMMA CredsStay ==
  ASSUME HoldersInv, CredsInv, Evolves, UNCHANGED creds
  PROVE  CredsEvolve
<1>1. \A c \in DOMAIN creds : Sound(creds[c], agents', keys')
  BY SoundStays DEF CredsInv
<1> QED
  BY <1>1 DEF CredsInv, CredsEvolve, Lasting

\* ... and whatever is signed, stored or deleted.
LEMMA CredsStep ==
  ASSUME RequestsInv, KeysInv, AttestInv, NEW r \in Jobs, Telling(r)
  PROVE  CredsEvolve
<1>1. Evolves /\ HoldersInv /\ CredsInv
  BY RowsEvolve DEF AttestInv
<1>2. CASE UNCHANGED creds
  BY <1>1, <1>2, CredsStay
<1>3. CASE Sign(r) /\ ~UNCHANGED creds
  <2>0. req[r].agent \in Registered
    BY <1>3 DEF Sign, registryVars
  <2>1. PICK x : Min(Unsigned) \in Unsigned /\ creds' = CredsWith(Min(Unsigned), x) /\ Sound(x, agents, keys)
    BY <1>3, <2>0, SignSound
  <2>2. UNCHANGED <<agents, keys>>
    BY <1>3 DEF Sign, registryVars
  <2>3. PICK c : c = Min(Unsigned)
    OBVIOUS
  <2>4. c \in Creds /\ c \notin DOMAIN creds
    BY <2>1, <2>3 DEF Unsigned
  <2>5. DOMAIN creds' = DOMAIN creds \cup {c} /\ creds'[c] = x /\ \A d \in DOMAIN creds : creds'[d] = creds[d]
    BY <2>1, <2>3, <2>4, WithCred
  <2> QED
    BY <1>1, <2>1, <2>2, <2>4, <2>5 DEF CredsInv, CredsEvolve, Lasting
<1>4. CASE Store(r) /\ ~UNCHANGED creds
  <2> DEFINE c == req[r].cred
             x == [creds[c] EXCEPT !.stored = TRUE]
  <2>1. creds' = [creds EXCEPT ![c] = x] /\ UNCHANGED <<agents, keys>>
    BY <1>4 DEF Store, registryVars
  <2>2. c \in DOMAIN creds /\ Sound(creds[c], agents, keys)
    BY <1>4, StoreMoves DEF AttestInv, CredsInv, Attesting, Doing
  <2> HIDE DEF c
  <2>3. Sound(x, agents, keys) /\ Lasting(creds[c], x)
    BY <2>2, SoundStored
  <2> HIDE DEF x
  <2> QED
    BY <1>1, <2>1, <2>2, <2>3 DEF CredsInv, CredsEvolve, Lasting
<1>5. CASE DeleteRest(r) /\ ~UNCHANGED creds
  <2> DEFINE rows == RowsOf(req[r].tenant)
  <2>1. creds' = [c \in DOMAIN creds |-> IF c \in rows THEN [creds[c] EXCEPT !.stored = FALSE] ELSE creds[c]]
    BY <1>5 DEF DeleteRest, registryVars
  <2> HIDE DEF rows
  <2>3. ASSUME NEW c \in DOMAIN creds PROVE Sound(creds'[c], agents', keys') /\ Lasting(creds[c], creds'[c])
    <3>1. /\ Sound(creds[c], agents, keys) /\ Sound([creds[c] EXCEPT !.stored = FALSE], agents, keys)
          /\ Lasting(creds[c], [creds[c] EXCEPT !.stored = FALSE]) /\ Lasting(creds[c], creds[c])
      BY <1>1, SoundStored DEF CredsInv, Lasting
    <3>2. creds'[c] = [creds[c] EXCEPT !.stored = FALSE] \/ creds'[c] = creds[c]
      BY <2>1
    <3>3. PICK x : x = creds'[c]
      OBVIOUS
    <3>4. Sound(x, agents, keys) /\ Lasting(creds[c], x)
      BY <3>1, <3>2, <3>3
    <3> QED
      BY <1>1, <3>3, <3>4, SoundStays
  <2>4. DOMAIN creds' = DOMAIN creds
    BY <2>1
  <2> QED
    BY <1>1, <2>3, <2>4 DEF CredsInv, CredsEvolve
<1>6. ASSUME ~Sign(r), ~Store(r), ~DeleteRest(r) PROVE UNCHANGED creds
  <2>1. CASE InsertAgent(r) \/ Register(r) \/ MakeIssuer(r) \/ Rotate(r)
    BY <2>1, InsertAgentMoves, RegisterLands DEF MakeIssuer, Rotate, InsertRows, registryVars
  <2>2. CASE ~(InsertAgent(r) \/ Register(r) \/ MakeIssuer(r) \/ Rotate(r))
    BY <1>6, <2>2 DEF Telling, ReadNewest, Stamp, AppendEvent, ReadKeys, ReadBits, FindHolder, Refetch, Allocate, registryVars
  <2> QED
    BY <2>1, <2>2
<1> QED
  BY <1>2, <1>3, <1>4, <1>5, <1>6

\* An attestation goes on to sign when it has found the holder.
LEMMA FoundHolder ==
  ASSUME RequestsInv, KeysInv, AttestInv, NEW r \in Jobs, FindHolder(r) \/ Register(r) \/ Refetch(r),
         req'[r] # None, req'[r].kind = "attest", Head(req'[r].todo) = "allocate"
  PROVE  Held(req'[r].agent, req'[r].spiffe, agents')
<1> DEFINE s == req[r].spiffe
<1>1. ~Moves(r)
  BY DEF Moves, Rests, Awaits, PeerSteps
<1>2. ASSUME NEW a, HolderFound(r, a) PROVE req'[r].agent = a /\ req'[r].spiffe = s
  <2> DEFINE q == Holds(req[r], a)
  <2>1. q.agent = a /\ q.spiffe = s /\ Lands(r, q)
    BY <1>2, FieldsAre DEF HolderFound, Holds
  <2> HIDE DEF q
  <2>2. PICK p : p = req'[r]
    OBVIOUS
  <2>3. Left(q, p)
    BY <2>1, <2>2, LandsOn
  <2> QED
    BY <2>1, <2>2, <2>3 DEF Left
<1>3. CASE FindHolder(r) \/ Refetch(r)
  <2>1. PICK a \in HoldersOf(s) : HolderFound(r, a)
    BY <1>1, <1>3, FindHolderLands, RefetchLands
  <2>2. Held(a, s, agents) /\ agents' = agents
    BY <1>3, <2>1 DEF Held, HoldersOf, Registered, FindHolder, Refetch, registryVars
  <2> QED
    BY <1>2, <2>1, <2>2
<1>4. CASE Register(r)
  <2>1. PICK a \in {Min(Unused)} : ~Conflict(req[r]) /\ RoomForAgent /\ InsertRows(req[r], a) /\ HolderFound(r, a)
    BY <1>1, <1>4, RegisterLands
  <2>2. /\ req[r] # None /\ req[r].tenant \in Tenants /\ s \in Spiffes \cup {None}
        /\ HoldersOf(s) = {}
    BY <2>1 DEF RequestsInv, Request, HolderFound, Conflict
  <2>3. a \in Unused /\ Unused \subseteq Agents \ {StatusIssuer}
    BY <2>1, LeastUnused
  <2>4. a \in Agents /\ a # StatusIssuer /\ agents[a] = None
    BY <2>3 DEF Unused
  <2>5. Inserts(a, req[r].tenant, s)
    BY <1>4, <2>1 DEF Inserts, InsertRows, Register, arrivalVars
  <2> HIDE DEF s
  <2>6. Held(a, s, agents')
    BY <2>2, <2>4, <2>5, InsertEvolves DEF KeysInv, AttestInv
  <2> QED
    BY <1>2, <2>1, <2>6
<1> QED
  BY <1>3, <1>4

\* What a request needs to sign and to store, the steps before have left behind.
LEMMA AttestingStep ==
  ASSUME RequestsInv, KeysInv, AttestInv, NEW r \in Jobs, Telling(r), req'[r] # None
  PROVE  Attesting(req'[r], agents', creds')
<1>1. PICK p : p = req'[r]
  OBVIOUS
<1>2. ASSUME p.kind = "attest", Head(p.todo) = "allocate", p.spiffe # None
      PROVE  Held(p.agent, p.spiffe, agents')
  <2>1. FindHolder(r) \/ Register(r) \/ Refetch(r)
    BY <1>1, <1>2, WhoPrepares
  <2> QED
    BY <1>1, <1>2, <2>1, FoundHolder
<1>3. ASSUME p.kind = "attest", Head(p.todo) = "sign", p.spiffe # None
      PROVE  Held(p.agent, p.spiffe, agents')
  <2> DEFINE q == [req[r] EXCEPT !.seen = resets[req[r].tenant]]
  <2>1. Allocate(r)
    BY <1>1, <1>3, WhoPrepares
  <2>2. /\ req[r] # None /\ Doing(r) = "allocate" /\ DOMAIN req[r] = Fields /\ Lands(r, q)
        /\ agents' = agents
    BY <2>1, AllocateLands DEF Allocate
  <2>3. q.kind = req[r].kind /\ q.agent = req[r].agent /\ q.spiffe = req[r].spiffe
    BY <2>2, FieldsAre
  <2> HIDE DEF q
  <2>4. p.kind = req[r].kind /\ p.agent = req[r].agent /\ p.spiffe = req[r].spiffe
    BY <1>1, <2>2, <2>3, LandsOn DEF Left
  <2> QED
    BY <1>3, <2>2, <2>4 DEF AttestInv, Attesting, Doing
<1>4. ASSUME Head(p.todo) = "store" PROVE p.cred \in DOMAIN creds'
  <2>1. Sign(r)
    BY <1>1, <1>4, WhoPrepares
  <2>2. req[r].agent \in Registered
    <3>1. ~Moves(r)
      BY <1>1, <1>4 DEF Moves, Rests, Awaits, PeerSteps
    <3> QED
      BY <2>1, <3>1, SignLands
  <2>3. PICK x : /\ Min(Unsigned) \in Unsigned /\ creds' = CredsWith(Min(Unsigned), x)
                 /\ p.cred = Min(Unsigned)
    BY <1>1, <2>1, <2>2, SignSound
  <2>4. p.cred \notin DOMAIN creds
    BY <2>3 DEF Unsigned
  <2> QED
    BY <2>3, <2>4, WithCred
<1>5. Attesting(p, agents', creds')
  BY <1>2, <1>3, <1>4 DEF Attesting
<1> QED
  BY <1>1, <1>5

\* Requests that another's step leaves alone keep what they need.
LEMMA OthersAttest ==
  ASSUME HoldersInv, Evolves, CredsEvolve, NEW s \in Jobs, Kept(s), req'[s] # None,
         Attesting(req[s], agents, creds)
  PROVE  Attesting(req'[s], agents', creds')
<1>1. PICK p : p = req'[s]
  OBVIOUS
<1>2. /\ p.kind = req[s].kind /\ p.todo = req[s].todo /\ p.spiffe = req[s].spiffe
      /\ p.agent = req[s].agent /\ p.cred = req[s].cred
  BY <1>1 DEF Kept, Left
<1>3. ASSUME p.kind = "attest", Head(p.todo) \in {"allocate", "sign"}, p.spiffe # None
      PROVE  Held(p.agent, p.spiffe, agents')
  <2>1. Held(p.agent, p.spiffe, agents)
    BY <1>2, <1>3 DEF Attesting
  <2> QED
    BY <1>3, <2>1, HeldStays
<1>4. ASSUME Head(p.todo) = "store" PROVE p.cred \in DOMAIN creds'
  BY <1>2, <1>4 DEF Attesting, CredsEvolve
<1>5. Attesting(p, agents', creds')
  BY <1>3, <1>4 DEF Attesting
<1> QED
  BY <1>1, <1>5

\* Every step keeps what attestations rest on.
LEMMA AttestStep ==
  ASSUME RequestsInv, load \in Loads, KeysInv, AttestInv, [Next]_vars
  PROVE  AttestInv'
<1>1. ASSUME NEW r \in Jobs, \A s \in Jobs : s # r => Kept(s), Evolves, HoldersInv', CredsEvolve,
             req'[r] # None => Attesting(req'[r], agents', creds')
      PROVE  AttestInv'
  <2>1. ASSUME NEW s \in Jobs, req'[s] # None PROVE Attesting(req'[s], agents', creds')
    <3>1. CASE s = r
      BY <1>1, <2>1, <3>1
    <3>2. CASE s # r
      BY <1>1, <2>1, <3>2, OthersAttest DEF AttestInv, Kept
    <3> QED
      BY <3>1, <3>2
  <2>2. CredsInv'
    BY <1>1 DEF CredsInv, CredsEvolve
  <2> QED
    BY <1>1, <2>1, <2>2 DEF AttestInv
<1>2. ASSUME UNCHANGED <<agents, keys, creds>> PROVE Evolves /\ HoldersInv' /\ CredsEvolve
  <2>1. Evolves /\ HoldersInv'
    BY <1>2 DEF Evolves, AttestInv, HoldersInv, Registered
  <2> QED
    BY <1>2, <2>1, CredsStay DEF AttestInv
<1>3. ASSUME NEW r \in Jobs, Calm(r) PROVE AttestInv'
  <2>1. req'[r] # None => Attesting(req'[r], agents', creds')
    <3>1. PICK p : p = req'[r]
      OBVIOUS
    <3>2. req'[r] # None => Attesting(p, agents', creds')
      BY <1>3, <3>1 DEF Calm, Settles, Rests, Awaits, Attesting, PeerSteps
    <3> QED
      BY <3>1, <3>2
  <2> QED
    BY <1>1, <1>2, <1>3, <2>1 DEF Calm, Settles
<1>4. ASSUME NEW r \in Jobs, Telling(r) PROVE AttestInv'
  <2>1. \A s \in Jobs : s # r => Kept(s)
    BY <1>4, TellingKeeps, OnlyKept
  <2>2. Evolves /\ HoldersInv' /\ CredsEvolve
    BY <1>4, RowsEvolve, CredsStep DEF AttestInv
  <2>3. req'[r] # None => Attesting(req'[r], agents', creds')
    BY <1>4, AttestingStep
  <2> QED
    BY <1>1, <2>1, <2>2, <2>3
<1>5. CASE Tick \/ UNCHANGED vars
  <2>1. UNCHANGED <<req, agents, keys, creds>>
    BY <1>5 DEF Tick, vars, requestVars, registryVars
  <2> QED
    BY <2>1 DEF AttestInv, HoldersInv, CredsInv, Registered
<1>6. ASSUME NEW r \in Jobs, Arrive(r) PROVE AttestInv'
  <2>1. Calm(r)
    BY <1>6, ArriveSettles DEF Arrive, Calm, registryVars
  <2> QED
    BY <1>3, <2>1
<1>7. ASSUME NEW r \in Jobs, Step(r) PROVE AttestInv'
  BY <1>3, <1>4, <1>7, StepCases
<1> QED
  BY <1>5, <1>6, <1>7 DEF Next

\* What the invariants say of attestations.
LEMMA SoundAgree ==
  ASSUME KeysInv, HoldersInv, CredsInv
  PROVE  AttestationsAgree
<1> SUFFICES ASSUME NEW s \in Spiffes
             PROVE  /\ Cardinality(HoldersOf(s)) <= 1
                    /\ \A c \in AttestationsOf(s) : creds[c].issuer \in Registered =>
                         /\ creds[c].issuer \in HoldersOf(s)
                         /\ SignedBy([kid |-> creds[c].kid, gen |-> creds[c].gen], SpiffeDocument(s))
  BY DEF AttestationsAgree
<1>1. ASSUME NEW a \in HoldersOf(s) PROVE HoldersOf(s) = {a} /\ Cardinality(HoldersOf(s)) = 1
  <2>1. HoldersOf(s) = {a}
    BY DEF HoldersOf, HoldersInv
  <2> QED
    BY <2>1, FS_Singleton
<1>2. Cardinality(HoldersOf(s)) <= 1
  <2>1. CASE HoldersOf(s) = {}
    BY <2>1, FS_EmptySet
  <2>2. CASE HoldersOf(s) # {}
    BY <1>1, <2>2
  <2> QED
    BY <2>1, <2>2
<1>3. ASSUME NEW c \in AttestationsOf(s), creds[c].issuer \in Registered
      PROVE  /\ creds[c].issuer \in HoldersOf(s)
             /\ SignedBy([kid |-> creds[c].kid, gen |-> creds[c].gen], SpiffeDocument(s))
  <2> DEFINE a == creds[c].issuer
             kid == creds[c].kid
             sig == [kid |-> creds[c].kid, gen |-> creds[c].gen]
             document == DidDocument(keys[a])
  <2>1. s # None /\ c \in DOMAIN creds /\ creds[c].spiffe = s /\ Sound(creds[c], agents, keys)
    BY RegistryAssumption DEF AttestationsOf, CredsInv
  <2>2. /\ a \in Agents /\ agents[a].spiffe = s /\ ~agents[a].deleted
        /\ kid \in DOMAIN keys[a] /\ keys[a][kid].gen = creds[c].gen
    BY <1>3, <2>1 DEF Sound, Held, Registered
  <2>3. a \in HoldersOf(s)
    BY <1>3, <2>1, <2>2 DEF HoldersOf
  <2>4. SpiffeDocument(s) = document
    <3>1. Cardinality(HoldersOf(s)) = 1 /\ (CHOOSE b \in HoldersOf(s) : TRUE) = a
      BY <1>1, <2>3
    <3> QED
      BY <3>1 DEF SpiffeDocument
  <2>5. kid \in DOMAIN document /\ document[kid] = creds[c].gen
    BY <2>2 DEF DidDocument
  <2>6. document # <<>>
    <3>1. DOMAIN <<>> = {}
      OBVIOUS
    <3> HIDE DEF document, kid
    <3> QED
      BY <2>5, <3>1
  <2>7. sig.kid = kid /\ sig.gen = creds[c].gen
    OBVIOUS
  <2> HIDE DEF document, kid, sig
  <2>8. SignedBy(sig, document)
    BY <2>5, <2>6, <2>7 DEF SignedBy, Method
  <2> QED
    BY <2>3, <2>4, <2>8 DEF a, sig
<1> QED
  BY <1>2, <1>3

\* The rows that a load starts with attest nothing.
LEMMA InitAttests ==
  ASSUME Init
  PROVE  AttestInv
<1>1. \A r \in Jobs : req[r] = None
  BY DEF Init
<1> DEFINE home == [tenant |-> HomeTenant, spiffe |-> None, deleted |-> FALSE]
           default == [tenant |-> DefaultTenant, spiffe |-> None, deleted |-> FALSE]
           x == [issuer |-> 1, subject |-> 1, kid |-> 1, gen |-> 0, tenant |-> HomeTenant, list |-> 0,
                 exp |-> 0, stored |-> TRUE, spiffe |-> None, depth |-> 0, by |-> 0]
<1>2. home.spiffe = None /\ default.spiffe = None /\ DOMAIN x = CredFields /\ x.spiffe = None
      /\ x.issuer \in Agents /\ x.exp \in Nat
  BY BackendAssumption DEF CredFields
<1>3. /\ agents = [a \in Agents |->
            IF a = 1 THEN home ELSE IF a = StatusIssuer /\ load.settled THEN default ELSE None]
      /\ creds = [c \in {1} |-> x]
  BY DEF Init
<1> HIDE DEF home, default, x
<1>4. \A a \in Agents : agents[a] # None => agents[a].spiffe = None
  BY <1>2, <1>3
<1>5. HoldersInv
  BY <1>4, RegistryAssumption DEF HoldersInv, Registered
<1>6. CredsInv
  <2>1. Sound(x, agents, keys)
    BY <1>2, Zenon DEF Sound
  <2> QED
    BY <1>3, <2>1, BackendAssumption DEF CredsInv
<1> QED
  BY <1>1, <1>5, <1>6 DEF AttestInv

\* Whichever of the requests for one SPIFFE ID registers the workload: it has one agent at
\* a time, which has issued every attestation whose issuer was not deleted, and whose
\* DID document verifies them.
THEOREM AttestedAlike == Spec => []AttestationsAgree
<1> DEFINE Inv == RequestsInv /\ load \in Loads /\ KeysInv /\ AttestInv
<1>1. Init => Inv
  BY InitRows, InitAttests
<1>2. Inv /\ [Next]_vars => Inv'
  BY RequestsStep, KeysStep, AttestStep
<1>3. Inv => AttestationsAgree
  BY SoundAgree DEF AttestInv
<1> QED
  BY <1>1, <1>2, <1>3, PTL DEF Spec

(***************************************************************************)
(* Verification: what its scripts are like.                                *)
(***************************************************************************)

Verifying == {"verify", "score", "peer"}

\* How the verification of kind k looks at a signature.
Look(k) == IF k = "peer" THEN "get" ELSE "resolve"

\* What follows a verification.
Closing == AuditSteps \cup {"readIssuer", "readHistory", "record", "dispatch"}

\* The script h looks at the credential, then at its status list, and then sums up.
Opens(k, h) ==
  /\ h \in Seq(Steps) /\ Len(h) \in Nat /\ Len(h) >= 4
  /\ h[1] = Look(k) /\ h[2] = "readList" /\ h[3] = "ensureIssuer" /\ h[4] = Look(k)
  /\ \A n \in 5..Len(h) : h[n] \in Closing

\* It still does so with more of what follows a verification.
LEMMA OpensMore ==
  ASSUME NEW k, NEW h, Opens(k, h), NEW u \in Seq(Closing)
  PROVE  Opens(k, h \o u)
<1> DEFINE v == h \o u
<1>1. h \in Seq(Steps) /\ Closing \subseteq Steps
  BY DEF Opens, Closing, AuditSteps, Steps
<1>2. u \in Seq(Steps) /\ \A i \in 1..Len(u) : u[i] \in Closing
  BY <1>1
<1>3. /\ v \in Seq(Steps) /\ Len(v) = Len(h) + Len(u) /\ Len(h) \in Nat /\ Len(u) \in Nat
      /\ \A i \in 1..Len(h) : v[i] = h[i]
      /\ \A i \in Len(h) + 1..Len(h) + Len(u) : v[i] = u[i - Len(h)]
  BY <1>1, <1>2, Concatenated
<1> HIDE DEF v
<1>4. ASSUME NEW n \in 5..Len(v) PROVE v[n] \in Closing
  <2>1. CASE n <= Len(h)
    BY <1>3, <2>1 DEF Opens
  <2>2. CASE n > Len(h)
    <3>1. n - Len(h) \in 1..Len(u) /\ v[n] = u[n - Len(h)]
      BY <1>3, <2>2
    <3> QED
      BY <1>2, <3>1
  <2> QED
    BY <1>3, <2>1, <2>2
<1>5. Opens(k, v)
  <2>1. Len(h) >= 4 /\ Len(v) \in Nat /\ Len(v) >= 4
    BY <1>3 DEF Opens
  <2>2. 1 \in 1..Len(h) /\ 2 \in 1..Len(h) /\ 3 \in 1..Len(h) /\ 4 \in 1..Len(h)
    BY <1>3, <2>1
  <2>3. v[1] = h[1] /\ v[2] = h[2] /\ v[3] = h[3] /\ v[4] = h[4]
    BY <1>3, <2>2, Zenon
  <2> QED
    BY <1>3, <1>4, <2>1, <2>3, Zenon DEF Opens
<1> QED
  BY <1>5 DEF v

\* So do the handlers of verification; a peer does nothing more.
LEMMA HandlersOpen ==
  ASSUME NEW k \in Verifying
  PROVE  Opens(k, Handlers[k]) /\ (k = "peer" => Len(Handlers[k]) = 4) /\ k \in Kinds
<1>1. {"resolve", "get", "readList", "ensureIssuer"} \subseteq Steps
  BY DEF Steps
<1>2. /\ Check \in Seq(Steps) /\ Len(Check) = 4 /\ CheckAtPeer \in Seq(Steps) /\ Len(CheckAtPeer) = 4
      /\ Check[1] = "resolve" /\ Check[2] = "readList" /\ Check[3] = "ensureIssuer" /\ Check[4] = "resolve"
      /\ CheckAtPeer[1] = "get" /\ CheckAtPeer[2] = "readList" /\ CheckAtPeer[3] = "ensureIssuer"
      /\ CheckAtPeer[4] = "get"
  BY <1>1 DEF Check, CheckAtPeer
<1>3. Audit \in Seq(Closing) /\ <<"dispatch">> \in Seq(Closing) /\ <<"readIssuer", "readHistory", "record">> \in Seq(Closing)
  BY DEF Audit, Closing, AuditSteps
<1>4. k # "peer" => Opens(k, Check)
  BY <1>2 DEF Opens, Look
<1>5. Opens("peer", CheckAtPeer)
  BY <1>2 DEF Opens, Look
<1>6. CASE k = "verify"
  BY <1>3, <1>4, <1>6, OpensMore, HandlersAre, KindsAre
<1>7. CASE k = "score"
  <2>1. Opens(k, Check \o <<"readIssuer", "readHistory", "record">>)
    BY <1>3, <1>4, <1>7, OpensMore
  <2>2. Opens(k, Check \o <<"readIssuer", "readHistory", "record">> \o Audit)
    BY <1>3, <2>1, OpensMore
  <2>3. Opens(k, ScoreCredential)
    BY <1>3, <2>2, OpensMore DEF ScoreCredential
  <2> QED
    BY <1>7, <2>3, HandlersAre, KindsAre
<1>8. CASE k = "peer"
  BY <1>2, <1>5, <1>8, HandlersAre, KindsAre
<1> QED
  BY <1>6, <1>7, <1>8 DEF Verifying

\* The script of a handler from its step n on.
Ahead(k, n) == SubSeq(Handlers[k], n, Len(Handlers[k]))

\* The rest of a sequence from place n on.
LEMMA RestOf ==
  ASSUME NEW A, NEW h \in Seq(A), NEW n \in 1..Len(h) + 1
  PROVE  LET t == SubSeq(h, n, Len(h)) IN
         /\ t \in Seq(A) /\ Len(t) = Len(h) - n + 1
         /\ \A i \in 1..Len(t) : t[i] = h[n + i - 1]
         /\ n <= Len(h) => t # <<>> /\ Head(t) = h[n] /\ Tail(t) = SubSeq(h, n + 1, Len(h))
         /\ n = Len(h) + 1 => t = <<>>
<1> DEFINE len == Len(h)
           t == SubSeq(h, n, len)
<1>1. len \in Nat /\ n \in Nat /\ DOMAIN h = 1..len /\ \A i \in 1..len : h[i] \in A
  OBVIOUS
<1>2. t \in Seq(A) /\ Len(t) = len - n + 1 /\ \A i \in 1..len - n + 1 : t[i] = h[n + i - 1]
  BY <1>1
<1>3. CASE n = len + 1
  <2>1. Len(t) = 0
    BY <1>1, <1>2, <1>3
  <2> QED
    BY <1>1, <1>2, <1>3, <2>1
<1>4. CASE n <= len
  <2> DEFINE u == SubSeq(h, n + 1, len)
             v == Tail(t)
  <2>1. u \in Seq(A) /\ Len(u) = len - n /\ \A i \in 1..len - n : u[i] = h[n + i]
    <3>1. u \in Seq(A) /\ Len(u) = len - (n + 1) + 1 /\ \A i \in 1..len - (n + 1) + 1 : u[i] = h[n + 1 + i - 1]
      <4>1. PICK m : m = n + 1
        OBVIOUS
      <4>2. m \in 1..len + 1 /\ len = Len(h)
        BY <1>1, <1>4, <4>1
      <4> HIDE DEF len
      <4>3. SubSeq(h, m, len) \in Seq(A) /\ Len(SubSeq(h, m, len)) = len - m + 1
        BY <1>1, <4>2
      <4>4. \A i \in 1..len - m + 1 : SubSeq(h, m, len)[i] = h[m + i - 1]
        BY <1>1, <4>2
      <4> QED
        BY <4>1, <4>3, <4>4 DEF len
    <3>2. len - (n + 1) + 1 = len - n /\ \A i \in 1..len - n : n + 1 + i - 1 = n + i
      BY <1>1
    <3> HIDE DEF u, len
    <3> QED
      BY <3>1, <3>2
  <2> HIDE DEF t, len, u
  <2>2. t # <<>> /\ Head(t) = t[1] /\ v \in Seq(A) /\ Len(v) = Len(t) - 1 /\ \A i \in 1..Len(v) : v[i] = t[i + 1]
    <3>1. Len(t) # 0
      BY <1>1, <1>2, <1>4
    <3> QED
      BY <1>2, <3>1
  <2> HIDE DEF v
  <2>3. t[1] = h[n]
    BY <1>1, <1>2, <1>4
  <2>4. \A i \in 1..len - n : v[i] = h[n + i]
    <3> SUFFICES ASSUME NEW i \in 1..len - n PROVE v[i] = h[n + i]
      OBVIOUS
    <3>1. v[i] = t[i + 1] /\ i + 1 \in 1..len - n + 1 /\ n + (i + 1) - 1 = n + i
      BY <1>1, <1>2, <2>2
    <3> QED
      BY <1>2, <3>1
  <2>5. Len(v) = Len(u) /\ \A i \in 1..Len(v) : v[i] = u[i]
    BY <1>1, <1>2, <2>1, <2>2, <2>4
  <2>6. v = u
    BY <2>1, <2>2, <2>5
  <2>7. n # len + 1
    BY <1>1, <1>4
  <2>8. t # <<>> /\ Head(t) = h[n] /\ Tail(t) = u
    BY <2>2, <2>3, <2>6, Zenon DEF v
  <2> QED
    BY <1>2, <2>7, <2>8, Zenon DEF t, len, u
<1> QED
  BY <1>1, <1>3, <1>4

\* What is ahead of a verification.
LEMMA AheadIs ==
  ASSUME NEW k \in Verifying, NEW n \in 1..Len(Handlers[k]) + 1
  PROVE  /\ Ahead(k, n) \in Seq(Steps) /\ Len(Ahead(k, n)) = Len(Handlers[k]) - n + 1
         /\ \A i \in 1..Len(Ahead(k, n)) : Ahead(k, n)[i] = Handlers[k][n + i - 1]
         /\ n <= Len(Handlers[k]) =>
              Ahead(k, n) # <<>> /\ Head(Ahead(k, n)) = Handlers[k][n] /\ Tail(Ahead(k, n)) = Ahead(k, n + 1)
         /\ n = Len(Handlers[k]) + 1 => Ahead(k, n) = <<>>
<1> DEFINE h == Handlers[k]
<1>1. h \in Seq(Steps)
  BY HandlersOpen DEF Opens
<1> HIDE DEF h
<1>2. LET t == SubSeq(h, n, Len(h)) IN
         /\ t \in Seq(Steps) /\ Len(t) = Len(h) - n + 1
         /\ \A i \in 1..Len(t) : t[i] = h[n + i - 1]
         /\ n <= Len(h) => t # <<>> /\ Head(t) = h[n] /\ Tail(t) = SubSeq(h, n + 1, Len(h))
         /\ n = Len(h) + 1 => t = <<>>
  <2>1. n \in 1..Len(h) + 1
    BY DEF h
  <2> QED
    BY <1>1, <2>1, RestOf
<1> QED
  BY <1>2 DEF Ahead, h

\* The first four steps.
LEMMA FirstFour ==
  ASSUME NEW k \in Verifying
  PROVE  /\ \A n \in 1..4 : Ahead(k, n) # <<>> /\ Ahead(k, n) \in Seq(Steps)
         /\ Head(Ahead(k, 1)) = Look(k) /\ Head(Ahead(k, 2)) = "readList"
         /\ Head(Ahead(k, 3)) = "ensureIssuer" /\ Head(Ahead(k, 4)) = Look(k)
         /\ Tail(Ahead(k, 1)) = Ahead(k, 2) /\ Tail(Ahead(k, 2)) = Ahead(k, 3)
         /\ Tail(Ahead(k, 3)) = Ahead(k, 4) /\ Tail(Ahead(k, 4)) = Ahead(k, 5)
         /\ Ahead(k, 5) \in Seq(Steps) /\ (k = "peer" => Ahead(k, 5) = <<>>)
         /\ k # "peer" /\ Ahead(k, 5) # <<>> => Len(Handlers[k]) >= 5
<1> DEFINE h == Handlers[k]
<1>1. /\ h[1] = Look(k) /\ h[2] = "readList" /\ h[3] = "ensureIssuer" /\ h[4] = Look(k)
      /\ Len(h) \in Nat /\ Len(h) >= 4 /\ (k = "peer" => Len(h) = 4)
  BY HandlersOpen DEF Opens
<1>2. \A n \in 1..Len(h) + 1 :
         /\ Ahead(k, n) \in Seq(Steps)
         /\ n <= Len(h) => Ahead(k, n) # <<>> /\ Head(Ahead(k, n)) = h[n] /\ Tail(Ahead(k, n)) = Ahead(k, n + 1)
         /\ n = Len(h) + 1 => Ahead(k, n) = <<>>
  BY AheadIs
<1> HIDE DEF h
<1>0. PICK len : len = Len(h)
  OBVIOUS
<1>3. ASSUME NEW n \in 1..4
      PROVE  /\ Ahead(k, n) # <<>> /\ Ahead(k, n) \in Seq(Steps) /\ Head(Ahead(k, n)) = h[n]
             /\ Tail(Ahead(k, n)) = Ahead(k, n + 1)
  <2>1. n \in 1..Len(h) + 1 /\ n <= Len(h)
    BY <1>1
  <2> QED
    BY <1>2, <2>1
<1>4. Ahead(k, 5) \in Seq(Steps) /\ (Len(h) = 4 => Ahead(k, 5) = <<>>)
  <2>1. len \in Nat /\ len >= 4
    BY <1>0, <1>1
  <2>2. 5 \in 1..len + 1 /\ (len = 4 => 5 = len + 1)
    BY <2>1
  <2> QED
    BY <1>0, <1>2, <2>2
<1>5. Tail(Ahead(k, 1)) = Ahead(k, 2) /\ Head(Ahead(k, 1)) = h[1]
  <2>1. 1 \in 1..4 /\ 1 + 1 = 2
    OBVIOUS
  <2> QED
    BY <1>3, <2>1
<1>6. Tail(Ahead(k, 2)) = Ahead(k, 3) /\ Head(Ahead(k, 2)) = h[2]
  <2>1. 2 \in 1..4 /\ 2 + 1 = 3
    OBVIOUS
  <2> QED
    BY <1>3, <2>1
<1>7. Tail(Ahead(k, 3)) = Ahead(k, 4) /\ Head(Ahead(k, 3)) = h[3]
  <2>1. 3 \in 1..4 /\ 3 + 1 = 4
    OBVIOUS
  <2> QED
    BY <1>3, <2>1
<1>8. Tail(Ahead(k, 4)) = Ahead(k, 5) /\ Head(Ahead(k, 4)) = h[4]
  <2>1. 4 \in 1..4 /\ 4 + 1 = 5
    OBVIOUS
  <2> QED
    BY <1>3, <2>1
<1>9. Ahead(k, 5) # <<>> => Len(h) >= 5
  <2>1. len \in Nat /\ len >= 4
    BY <1>0, <1>1
  <2>2. len = 4 \/ len >= 5
    BY <2>1
  <2> QED
    BY <1>0, <1>4, <2>2
<1> QED
  BY <1>1, <1>3, <1>4, <1>5, <1>6, <1>7, <1>8, <1>9 DEF h

\* Two steps put before others.
LEMMA TwoBefore ==
  ASSUME NEW A, NEW a \in A, NEW b \in A, NEW u \in Seq(A)
  PROVE  <<a, b>> \o u = <<a>> \o (<<b>> \o u)
<1>1. <<a>> \in Seq(A) /\ <<b>> \in Seq(A)
  OBVIOUS
<1>0. <<a, b>> = <<a>> \o <<b>>
  <2>1. PICK v, w : v = <<a>> /\ w = <<b>>
    OBVIOUS
  <2>2. v \in Seq(A) /\ w \in Seq(A) /\ Len(v) = 1 /\ Len(w) = 1 /\ v[1] = a /\ w[1] = b
    BY <2>1
  <2>3. /\ v \o w \in Seq(A) /\ Len(v \o w) = Len(v) + Len(w)
        /\ \A i \in 1..Len(v) : (v \o w)[i] = v[i]
        /\ \A i \in 1..Len(w) : (v \o w)[Len(v) + i] = w[i]
    <3>1. v \in Seq(A) /\ w \in Seq(A)
      BY <2>2
    <3> QED
      BY <3>1, Concatenated
  <2>4. PICK x : x = v \o w
    OBVIOUS
  <2>5. x \in Seq(A) /\ Len(x) = 2 /\ x[1] = a /\ x[2] = b
    BY <2>2, <2>3, <2>4
  <2>6. x = <<a, b>>
    <3>1. PICK y : y = <<a, b>>
      OBVIOUS
    <3>2. y \in Seq(A) /\ Len(y) = 2 /\ y[1] = a /\ y[2] = b
      BY <3>1
    <3>3. \A i \in 1..2 : x[i] = y[i]
      BY <2>5, <3>2
    <3> QED
      BY <2>5, <3>1, <3>2, <3>3
  <2> QED
    BY <2>1, <2>4, <2>6
<1>2. PICK v, w : v = <<a>> /\ w = <<b>>
  OBVIOUS
<1>3. (v \o w) \o u = v \o (w \o u)
  BY <1>1, <1>2, ConcatAssociative
<1> QED
  BY <1>0, <1>2, <1>3

\* Where a verification is: before it has read the status list, ...
Fetching == {<<"fetch", "set">>, <<"set">>}
Early(k, t) ==
  \/ t \in {Ahead(k, 1), Ahead(k, 2)}
  \/ k = "peer" /\ \E f \in Fetching : t = f \o Ahead(k, 2)

\* ... before it has looked at the list's signature, ...
Late(k, t) ==
  \/ t \in {Ahead(k, 3), Ahead(k, 4), <<"makeIssuer">> \o Ahead(k, 4)}
  \/ k = "peer" /\ t \in Fetching

\* ... or behind it.
Over(k, t) == \E n \in 5..Len(Handlers[k]) : t = Ahead(k, n)

\* What it does next, and what is left then, before it has read the list, ...
LEMMA EarlyIs ==
  ASSUME NEW k \in Verifying, NEW t, Early(k, t)
  PROVE  /\ t # <<>> /\ t \in Seq(Steps)
         /\ \/ Head(t) = Look(k) /\ Tail(t) = Ahead(k, 2)
            \/ Head(t) = "readList" /\ Tail(t) = Ahead(k, 3)
            \/ k = "peer" /\ Head(t) = "fetch" /\ Tail(t) = <<"set">> \o Ahead(k, 2)
            \/ k = "peer" /\ Head(t) = "set" /\ Tail(t) = Ahead(k, 2)
<1> DEFINE u == Ahead(k, 2)
<1>1. u \in Seq(Steps) /\ "fetch" \in Steps /\ "set" \in Steps
  BY FirstFour DEF Steps
<1>2. CASE t \in {Ahead(k, 1), Ahead(k, 2)}
  <2>1. 1 \in 1..4 /\ 2 \in 1..4
    OBVIOUS
  <2> QED
    BY <1>2, <2>1, FirstFour, Zenon
<1> HIDE DEF u
<1>3. CASE k = "peer" /\ t = <<"fetch", "set">> \o u
  <2>1. <<"set">> \o u \in Seq(Steps)
    BY <1>1, OneBefore
  <2>2. t = <<"fetch">> \o (<<"set">> \o u)
    BY <1>1, <1>3, TwoBefore
  <2> QED
    BY <1>1, <1>3, <2>1, <2>2, OneBefore DEF u
<1>4. CASE k = "peer" /\ t = <<"set">> \o u
  BY <1>1, <1>4, OneBefore DEF u
<1> QED
  BY <1>2, <1>3, <1>4 DEF Early, Fetching, u

\* ... between the list and its signature, ...
LEMMA LateIs ==
  ASSUME NEW k \in Verifying, NEW t, Late(k, t)
  PROVE  /\ t # <<>> /\ t \in Seq(Steps)
         /\ \/ Head(t) \in {"ensureIssuer", "makeIssuer"} /\ Tail(t) = Ahead(k, 4)
            \/ Head(t) = Look(k) /\ Tail(t) = Ahead(k, 5)
            \/ k = "peer" /\ Head(t) = "fetch" /\ Tail(t) = <<"set">>
            \/ k = "peer" /\ Head(t) = "set" /\ Tail(t) = Ahead(k, 5)
<1>1. "fetch" \in Steps /\ "set" \in Steps /\ "makeIssuer" \in Steps
  BY DEF Steps
<1>0. 3 \in 1..4 /\ 4 \in 1..4
  OBVIOUS
<1>2. CASE t \in {Ahead(k, 3), Ahead(k, 4)}
  BY <1>0, <1>2, FirstFour, Zenon
<1>3. CASE t = <<"makeIssuer">> \o Ahead(k, 4)
  <2>1. PICK u : u = Ahead(k, 4)
    OBVIOUS
  <2>2. u \in Seq(Steps)
    BY <1>0, <2>1, FirstFour, Zenon
  <2>3. /\ <<"makeIssuer">> \o u \in Seq(Steps) /\ <<"makeIssuer">> \o u # <<>>
        /\ Head(<<"makeIssuer">> \o u) = "makeIssuer" /\ Tail(<<"makeIssuer">> \o u) = u
    BY <1>1, <2>2, OneBefore, Zenon
  <2> QED
    BY <1>3, <2>1, <2>3, Zenon
<1>4. CASE k = "peer" /\ t \in Fetching
  <2>1. Ahead(k, 5) = <<>>
    BY <1>4, FirstFour
  <2>2. CASE t = <<"fetch", "set">>
    BY <1>1, <1>4, <2>1, <2>2
  <2>3. CASE t = <<"set">>
    BY <1>1, <1>4, <2>1, <2>3
  <2> QED
    BY <1>4, <2>2, <2>3 DEF Fetching
<1> QED
  BY <1>2, <1>3, <1>4 DEF Late

\* ... and behind that: a peer does nothing more.
LEMMA OverIs ==
  ASSUME NEW k \in Verifying, NEW t, Over(k, t)
  PROVE  /\ t # <<>> /\ t \in Seq(Steps) /\ k # "peer" /\ Head(t) \in Closing
         /\ Tail(t) = <<>> \/ Over(k, Tail(t))
<1>1. /\ \A n \in 5..Len(Handlers[k]) : Handlers[k][n] \in Closing
      /\ Len(Handlers[k]) \in Nat /\ Len(Handlers[k]) >= 4 /\ (k = "peer" => Len(Handlers[k]) = 4)
  BY HandlersOpen DEF Opens
<1>2. PICK n \in 5..Len(Handlers[k]) : t = Ahead(k, n)
  BY DEF Over
<1>3. n \in 1..Len(Handlers[k]) + 1 /\ n + 1 \in 1..Len(Handlers[k]) + 1
  BY <1>1
<1>4. t # <<>> /\ t \in Seq(Steps) /\ Head(t) = Handlers[k][n] /\ Tail(t) = Ahead(k, n + 1)
  BY <1>2, <1>3, AheadIs
<1>5. CASE n = Len(Handlers[k])
  <2>1. PICK m : m = n + 1
    OBVIOUS
  <2>2. m \in 1..Len(Handlers[k]) + 1 /\ m = Len(Handlers[k]) + 1
    BY <1>3, <1>5, <2>1
  <2>3. Tail(t) = <<>>
    BY <1>4, <2>1, <2>2, AheadIs, Zenon
  <2>4. k # "peer" /\ Handlers[k][n] \in Closing
    BY <1>1, <1>2
  <2> QED
    BY <1>4, <2>3, <2>4, Zenon
<1>6. CASE n # Len(Handlers[k])
  <2>1. n + 1 \in 5..Len(Handlers[k])
    BY <1>1, <1>6
  <2>2. Over(k, Tail(t))
    BY <1>4, <2>1 DEF Over
  <2>3. n <= Len(Handlers[k]) /\ n >= 5 /\ n \in 5..Len(Handlers[k])
    OBVIOUS
  <2>4. Head(t) \in Closing
    BY <1>1, <1>4, <2>3
  <2>5. k # "peer"
    BY <1>1, <2>3
  <2> QED
    BY <1>4, <2>2, <2>4, <2>5
<1> QED
  BY <1>5, <1>6

\* Two sequences of one length with the same members are one.
LEMMA SameMembers ==
  ASSUME NEW A, NEW u \in Seq(A), NEW v \in Seq(A), Len(u) = Len(v), \A i \in 1..Len(u) : u[i] = v[i]
  PROVE  u = v
  OBVIOUS

\* The rest of the rest of a sequence.
LEMMA RestOfRest ==
  ASSUME NEW A, NEW h \in Seq(A), NEW n \in 1..Len(h) + 1, NEW t, t = SubSeq(h, n, Len(h)),
         NEW m \in 1..Len(t) + 1
  PROVE  SubSeq(t, m, Len(t)) = SubSeq(h, n + m - 1, Len(h))
<1>1. t \in Seq(A) /\ Len(t) = Len(h) - n + 1 /\ \A i \in 1..Len(t) : t[i] = h[n + i - 1]
  BY RestOf
<1>2. PICK len, l : len = Len(h) /\ l = Len(t)
  OBVIOUS
<1>3. len \in Nat /\ l \in Nat /\ l = len - n + 1 /\ n \in 1..len + 1 /\ m \in 1..l + 1
  BY <1>1, <1>2
<1>4. PICK o : o = n + m - 1
  OBVIOUS
<1>5. o \in 1..len + 1 /\ len - o + 1 = l - m + 1
  BY <1>3, <1>4
<1> DEFINE u == SubSeq(t, m, Len(t))
           v == SubSeq(h, o, Len(h))
<1>6. u \in Seq(A) /\ Len(u) = l - m + 1 /\ \A i \in 1..Len(u) : u[i] = t[m + i - 1]
  <2>1. u \in Seq(A) /\ Len(u) = Len(t) - m + 1 /\ \A i \in 1..Len(u) : u[i] = t[m + i - 1]
    <3>1. PICK x : x = t
      OBVIOUS
    <3>2. x \in Seq(A) /\ m \in 1..Len(x) + 1
      BY <1>1, <3>1
    <3> DEFINE y == SubSeq(x, m, Len(x))
    <3>3. y \in Seq(A) /\ Len(y) = Len(x) - m + 1 /\ \A i \in 1..Len(y) : y[i] = x[m + i - 1]
      BY <3>2, RestOf
    <3> HIDE DEF y
    <3>4. y = u
      BY <3>1 DEF y
    <3> QED
      BY <3>1, <3>3, <3>4
  <2> QED
    BY <1>2, <2>1
<1>7. v \in Seq(A) /\ Len(v) = len - o + 1 /\ \A i \in 1..Len(v) : v[i] = h[o + i - 1]
  <2>1. o \in 1..Len(h) + 1
    BY <1>2, <1>5
  <2>2. v \in Seq(A) /\ Len(v) = Len(h) - o + 1 /\ \A i \in 1..Len(v) : v[i] = h[o + i - 1]
    BY <2>1, RestOf
  <2> QED
    BY <1>2, <2>2
<1> HIDE DEF u, v
<1>8. ASSUME NEW i \in 1..Len(u) PROVE u[i] = v[i]
  <2>1. PICK j : j = m + i - 1
    OBVIOUS
  <2>2. j \in 1..l /\ n + j - 1 = o + i - 1
    BY <1>3, <1>4, <1>6, <2>1
  <2>3. t[j] = h[n + j - 1]
    BY <1>1, <1>2, <2>2
  <2> QED
    BY <1>5, <1>6, <1>7, <2>1, <2>2, <2>3
<1>9. u = v
  <2>1. Len(u) = Len(v) /\ u \in Seq(A) /\ v \in Seq(A)
    BY <1>5, <1>6, <1>7
  <2> QED
    BY <1>8, <2>1, SameMembers
<1> QED
  BY <1>4, <1>9 DEF u, v

\* Where a verification that has failed goes on, it is over.
LEMMA FromOver ==
  ASSUME NEW k \in Verifying, k # "peer", NEW t, Early(k, t) \/ Late(k, t) \/ Over(k, t), NEW S,
         Look(k) \notin S, "readList" \notin S, "ensureIssuer" \notin S, From(t, S) # <<>>
  PROVE  Over(k, From(t, S))
<1> DEFINE h == Handlers[k]
<1>1. /\ h \in Seq(Steps) /\ h[1] \notin S /\ h[2] \notin S /\ h[3] \notin S /\ h[4] \notin S
      /\ Len(h) \in Nat /\ Len(h) >= 4
  BY HandlersOpen DEF Opens
<1>2. PICK len : len = Len(h)
  OBVIOUS
<1>3. len \in Nat /\ len >= 4
  BY <1>1, <1>2
<1>4. ASSUME NEW n \in 1..len, NEW u, u = Ahead(k, n), NEW m \in 1..Len(u), u[m] \in S
      PROVE  Over(k, SubSeq(u, m, Len(u)))
  <2>1. n \in 1..len + 1
    BY <1>3
  <2>2. u = SubSeq(h, n, Len(h)) /\ Len(u) = len - n + 1 /\ \A i \in 1..Len(u) : u[i] = h[n + i - 1]
    BY <1>2, <1>4, <2>1, AheadIs DEF Ahead
  <2>3. PICK o : o = n + m - 1
    OBVIOUS
  <2> HIDE DEF h
  <2>4. o \in 1..len /\ h[o] \in S
    BY <1>3, <1>4, <2>2, <2>3
  <2>5. o \in 5..len
    <3>1. o # 1 /\ o # 2 /\ o # 3 /\ o # 4
      BY <1>1, <2>4
    <3> QED
      BY <1>3, <2>4, <3>1
  <2>6. SubSeq(u, m, Len(u)) = SubSeq(h, o, Len(h))
    <3>1. m \in 1..Len(u) + 1 /\ n \in 1..Len(h) + 1
      BY <1>2, <1>3, <2>1, <2>2
    <3>2. h \in Seq(Steps) /\ u = SubSeq(h, n, Len(h))
      BY <1>1, <2>2
    <3>3. SubSeq(u, m, Len(u)) = SubSeq(h, n + m - 1, Len(h))
      BY <3>1, <3>2, RestOfRest
    <3> QED
      BY <2>3, <3>3
  <2> QED
    BY <1>2, <2>5, <2>6 DEF Over, Ahead, h
<1>5. t \in Seq(Steps)
  BY EarlyIs, LateIs, OverIs
<1>6. PICK m \in 2..Len(t) : t[m] \in S /\ From(t, S) = SubSeq(t, m, Len(t))
  BY <1>5, FromIs
<1>7. PICK l : l = Len(t)
  OBVIOUS
<1>8. l \in Nat /\ m \in 2..l
  BY <1>5, <1>6, <1>7
<1>9. CASE \E n \in 1..len : t = Ahead(k, n)
  BY <1>4, <1>6, <1>7, <1>8, <1>9
<1>10. CASE t = <<"makeIssuer">> \o Ahead(k, 4)
  <2> DEFINE u == Ahead(k, 4)
  <2>1. u \in Seq(Steps) /\ "makeIssuer" \in Steps /\ 4 \in 1..len
    BY <1>3, FirstFour DEF Steps
  <2> HIDE DEF u
  <2>2. Tail(t) = u /\ t # <<>>
    BY <1>10, <2>1, OneBefore DEF u
  <2>3. u = SubSeq(t, 2, Len(t)) /\ 2 \in 1..Len(t) + 1
    <3>1. 1 \in 1..Len(t) + 1 /\ 1 <= Len(t) /\ 1 + 1 = 2
      BY <1>7, <1>8
    <3>2. Tail(t) = SubSeq(t, 1 + 1, Len(t))
      BY <1>5, <3>1, RestOf
    <3> QED
      BY <1>7, <1>8, <2>2, <3>1, <3>2
  <2>4. Len(u) = l - 1 /\ \A i \in 1..Len(u) : u[i] = t[2 + i - 1]
    BY <1>5, <1>7, <1>8, <2>3, RestOf
  <2>5. PICK j : j = m - 1
    OBVIOUS
  <2>6. j \in 1..Len(u) /\ 2 + j - 1 = m /\ j \in 1..Len(u) + 1
    BY <1>8, <2>4, <2>5
  <2>7. u[j] \in S /\ SubSeq(u, j, Len(u)) = SubSeq(t, m, Len(t))
    <3>1. SubSeq(u, j, Len(u)) = SubSeq(t, 2 + j - 1, Len(t))
      BY <1>5, <2>3, <2>6, RestOfRest
    <3> QED
      BY <1>6, <2>4, <2>6, <3>1
  <2> QED
    BY <1>4, <1>6, <2>1, <2>6, <2>7 DEF u
<1>11. (\E n \in 1..len : t = Ahead(k, n)) \/ t = <<"makeIssuer">> \o Ahead(k, 4)
  <2>1. 1 \in 1..len /\ 2 \in 1..len /\ 3 \in 1..len /\ 4 \in 1..len /\ \A n \in 5..len : n \in 1..len
    BY <1>3
  <2>2. CASE Early(k, t)
    BY <2>1, <2>2 DEF Early
  <2>3. CASE Late(k, t)
    BY <2>1, <2>3 DEF Late
  <2>4. CASE Over(k, t)
    BY <1>2, <2>1, <2>4 DEF Over
  <2> QED
    BY <2>2, <2>3, <2>4
<1> QED
  BY <1>9, <1>10, <1>11

(***************************************************************************)
(* Verification: what a request knows at each step.                        *)
(***************************************************************************)

\* Before it has read the status list a request has no bit, then the one it has read,
\* and a revoked credential is called revoked before a verification here is over.
Placed(q, t) ==
  \/ Early(q.kind, t) /\ q.bit = None
  \/ Late(q.kind, t) /\ q.bit \in BOOLEAN /\ (q.void => q.bit = TRUE)
  \/ Over(q.kind, t) /\ (q.void /\ q.kind = "verify" => q.code = "revoked")

\* What a request is about, and what its credential may score when it was revoked.
About(q, cs, rv, time) ==
  /\ q.cred \in DOMAIN cs /\ q.did \in Agents /\ q.code \in {"ok", "revoked"}
  /\ q.void => /\ q.cred \in rv
               /\ q.kind = "score" =>
                    q.score \in {0} \cup (IF cs[q.cred].exp # 0 /\ time >= cs[q.cred].exp THEN {5, 10} ELSE {})

\* A document has the keys of agent a that were there before the given time.
Knows(a, doc, time, ks) ==
  \A n \in DOMAIN ks[a] : ks[a][n].at < time => n \in DOMAIN doc /\ doc[n] = ks[a][n].gen

\* A fetch is not too old, and what it has found is not older than the fetch.
Timely(q, t, time) ==
  Head(t) \in {"fetch", "set"} => q.since \in Nat /\ q.since <= time /\ time <= q.since + FetchTime
Informs(q, t, ks) == Head(t) = "set" => q.seen \in Seq(Nat) /\ Knows(q.did, q.seen, q.since, ks)

Checked(q, t, cs, rv, ks, time) ==
  Placed(q, t) /\ About(q, cs, rv, time) /\ Informs(q, t, ks) /\ Timely(q, t, time)

\* Entries of the peer's cache: a document is not older than the fetch that has found it.
Entries(ks, time) ==
  {e \in [did : Agents, doc : Seq(Nat), at : Nat] :
     e.at <= time /\ Knows(e.did, e.doc, e.at - FetchTime, ks)}

Verifies(r) == req[r] # None /\ req[r].kind \in Verifying

CheckInv ==
  /\ DOMAIN out = Jobs /\ cache \in Seq(Entries(keys, now))
  /\ \A r \in Jobs : Verifies(r) =>
       out[r] = None /\ Checked(req[r], req[r].todo, creds, Settled, keys, now)

\* Request r goes on as it should, or ends with an answer for which there is a cause.
Judged(r) ==
  /\ DOMAIN out' = Jobs
  /\ req'[r] # None =>
       /\ req'[r].kind \in Verifying /\ out'[r] = None
       /\ Checked(req'[r], req'[r].todo, creds, Settled, keys, now)
  /\ out'[r] # None => RejectedForCause(r) /\ RevokedForGood(r)

\* What is known of a request under way.
LEMMA Underway ==
  ASSUME RequestsInv, CheckInv, NEW r \in Jobs, Verifies(r)
  PROVE  /\ DOMAIN req[r] = Fields /\ req[r].kind \in Verifying /\ out[r] = None /\ DOMAIN req = Jobs
         /\ DOMAIN out = Jobs /\ Doing(r) = Head(req[r].todo)
         /\ Placed(req[r], req[r].todo) /\ About(req[r], creds, Settled, now)
         /\ Informs(req[r], req[r].todo, keys) /\ Timely(req[r], req[r].todo, now)
BY DEF RequestsInv, Request, CheckInv, Verifies, Checked, Doing

\* It may end, ...
LEMMA EndJudged ==
  ASSUME RequestsInv, CheckInv, NEW r \in Jobs, Verifies(r), NEW c, End(r, c),
         req[r].kind \in {"verify", "peer"} /\ req[r].void => c # "ok",
         req[r].kind = "peer" /\ c = "refused" => Cause(r)
  PROVE  Judged(r)
<1>1. req'[r] = None /\ out'[r] = c /\ DOMAIN out' = Jobs
  BY Underway DEF End
<1>2. RejectedForCause(r)
  BY <1>1 DEF RejectedForCause
<1>3. RevokedForGood(r)
  <2>1. About(req[r], creds, Settled, now)
    BY Underway
  <2> QED
    BY <1>1, <2>1 DEF RevokedForGood, About, Expired
<1> QED
  BY <1>1, <1>2, <1>3 DEF Judged

\* ... or go on with what it has found.
LEMMA FollowJudged ==
  ASSUME RequestsInv, CheckInv, NEW r \in Jobs, Verifies(r), NEW q, NEW t, Follow(r, q, t),
         q.kind = req[r].kind, DOMAIN q = Fields,
         t # <<>> => Placed(q, t) /\ About(q, creds, Settled, now) /\ Informs(q, t, keys) /\ Timely(q, t, now),
         t = <<>> => /\ req[r].kind \in {"verify", "peer"} /\ req[r].void => q.code # "ok"
                     /\ req[r].kind = "peer" => q.code # "refused"
  PROVE  Judged(r)
<1>1. CASE t = <<>>
  <2>1. End(r, q.code)
    BY <1>1 DEF Follow
  <2> QED
    BY <1>1, <2>1, EndJudged
<1>2. CASE t # <<>>
  <2>1. req' = [req EXCEPT ![r] = [q EXCEPT !.todo = t]] /\ UNCHANGED out
    BY <1>2 DEF Follow
  <2> DEFINE p == [q EXCEPT !.todo = t]
  <2>2. req'[r] = p /\ out'[r] = None /\ DOMAIN out' = Jobs /\ req[r].kind \in Verifying
    BY <2>1, Underway
  <2>3. /\ p.todo = t /\ p.kind = q.kind /\ p.bit = q.bit /\ p.void = q.void /\ p.code = q.code /\ p.cred = q.cred
        /\ p.did = q.did /\ p.score = q.score /\ p.since = q.since /\ p.seen = q.seen
    BY FieldsAre
  <2> HIDE DEF p
  <2>4. Placed(p, t)
    BY <1>2, <2>3 DEF Placed
  <2>5. About(p, creds, Settled, now)
    BY <1>2, <2>3 DEF About
  <2>6. Informs(p, t, keys) /\ Timely(p, t, now)
    BY <1>2, <2>3 DEF Informs, Timely
  <2> QED
    BY <2>2, <2>3, <2>4, <2>5, <2>6 DEF Judged, Checked
<1> QED
  BY <1>1, <1>2

\* Where a request is, by the step that comes next.
LEMMA Whereabouts ==
  ASSUME RequestsInv, CheckInv, NEW r \in Jobs, Verifies(r)
  PROVE  LET q == req[r]
             k == q.kind
             rest == Tail(q.todo) IN
         /\ q.todo # <<>>
         /\ \/ /\ q.bit = None /\ Early(k, q.todo)
               /\ \/ Doing(r) = Look(k) /\ rest = Ahead(k, 2)
                  \/ Doing(r) = "readList" /\ rest = Ahead(k, 3)
                  \/ k = "peer" /\ Doing(r) = "fetch" /\ rest = <<"set">> \o Ahead(k, 2)
                  \/ k = "peer" /\ Doing(r) = "set" /\ rest = Ahead(k, 2)
            \/ /\ q.bit \in BOOLEAN /\ (q.void => q.bit = TRUE) /\ Late(k, q.todo)
               /\ \/ Doing(r) \in {"ensureIssuer", "makeIssuer"} /\ rest = Ahead(k, 4)
                  \/ Doing(r) = Look(k) /\ rest = Ahead(k, 5)
                  \/ k = "peer" /\ Doing(r) = "fetch" /\ rest = <<"set">>
                  \/ k = "peer" /\ Doing(r) = "set" /\ rest = Ahead(k, 5)
            \/ /\ Over(k, q.todo) /\ (q.void /\ k = "verify" => q.code = "revoked")
               /\ k # "peer" /\ Doing(r) \in Closing /\ (rest = <<>> \/ Over(k, rest))
<1> DEFINE q == req[r]
<1>1. q.kind \in Verifying /\ Placed(q, q.todo) /\ Doing(r) = Head(q.todo)
  BY Underway
<1>2. CASE Early(q.kind, q.todo) /\ q.bit = None
  BY <1>1, <1>2, EarlyIs
<1>3. CASE Late(q.kind, q.todo) /\ q.bit \in BOOLEAN /\ (q.void => q.bit = TRUE)
  BY <1>1, <1>3, LateIs
<1>4. CASE Over(q.kind, q.todo) /\ (q.void /\ q.kind = "verify" => q.code = "revoked")
  BY <1>1, <1>4, OverIs
<1> QED
  BY <1>1, <1>2, <1>3, <1>4 DEF Placed

\* Scoring goes on behind a verification that has failed, and whatever it has scored stays.
LEMMA GivesUp ==
  ASSUME RequestsInv, CheckInv, NEW r \in Jobs, Verifies(r), req[r].kind = "score", NEW q, NEW S,
         S = {"readIssuer"} \/ S = {"readNewest"}, Follow(r, q, From(req[r].todo, S)),
         q.kind = req[r].kind, DOMAIN q = Fields, About(q, creds, Settled, now)
  PROVE  Judged(r)
<1> DEFINE u == req[r].todo
           t == From(u, S)
<1>1. Early(q.kind, u) \/ Late(q.kind, u) \/ Over(q.kind, u)
  BY Underway DEF Placed
<1>2. Look(q.kind) \notin S /\ "readList" \notin S /\ "ensureIssuer" \notin S /\ q.kind \in Verifying /\ q.kind # "peer"
  BY DEF Look, Verifying
<1> HIDE DEF u
<1>3. t # <<>> => Over(q.kind, t)
  BY <1>1, <1>2, FromOver
<1> HIDE DEF t
<1>4. t # <<>> => Head(t) \notin {"fetch", "set"}
  BY <1>2, <1>3, OverIs DEF Closing, AuditSteps
<1>5. t # <<>> => Placed(q, t) /\ Informs(q, t, keys) /\ Timely(q, t, now)
  BY <1>2, <1>3, <1>4 DEF Placed, Informs, Timely
<1>6. Follow(r, q, t)
  BY DEF t, u
<1> QED
  BY <1>2, <1>5, <1>6, FollowJudged

\* An exception, ...
LEMMA FailJudged ==
  ASSUME RequestsInv, CheckInv, NEW r \in Jobs, Verifies(r), Fail(r), req[r].kind = "peer" => Cause(r)
  PROVE  Judged(r)
<1> DEFINE q == req[r]
<1>1. q.kind \in Verifying /\ DOMAIN q = Fields /\ About(q, creds, Settled, now)
  BY Underway
<1>2. \/ q.kind = "score" /\ Follow(r, q, From(q.todo, {"readIssuer"}))
      \/ q.kind = "score" /\ Follow(r, q, From(q.todo, {"readNewest"}))
      \/ Doing(r) = "dispatch" /\ End(r, q.code)
      \/ q.kind \in {"verify", "peer"} /\ End(r, "refused")
      \/ End(r, "error")
  BY <1>1 DEF Fail, Verifying, Refuse
<1>3. CASE q.kind = "score" /\ \E S \in {{"readIssuer"}, {"readNewest"}} : Follow(r, q, From(q.todo, S))
  BY <1>1, <1>3, GivesUp
<1>4. CASE Doing(r) = "dispatch" /\ End(r, q.code)
  <2>1. q.kind # "peer" /\ (q.void /\ q.kind = "verify" => q.code = "revoked")
    BY <1>4, Whereabouts DEF Look
  <2> QED
    BY <1>4, <2>1, EndJudged
<1>5. CASE End(r, "refused") \/ End(r, "error")
  BY <1>5, EndJudged
<1> QED
  BY <1>2, <1>3, <1>4, <1>5

\* ... and time that has run out.
LEMMA ExpireJudged ==
  ASSUME RequestsInv, CheckInv, NEW r \in Jobs, Verifies(r), Expire(r)
  PROVE  Judged(r)
<1>1. Fail(r) /\ Cause(r)
  BY DEF Expire, TimeOut, Cause
<1> QED
  BY <1>1, FailJudged

\* A good signature.
LEMMA BelieveJudged ==
  ASSUME RequestsInv, CheckInv, NEW r \in Jobs, Verifies(r), Believe(r, req[r]),
         Doing(r) = Look(req[r].kind) \/ Doing(r) = "set"
  PROVE  Judged(r)
<1> DEFINE q == req[r]
           k == q.kind
           rest == Tail(q.todo)
<1>1. k \in Verifying /\ DOMAIN q = Fields /\ About(q, creds, Settled, now)
  BY Underway
<1>2. \/ q.bit = None /\ rest = Ahead(k, 2)
      \/ q.bit \in BOOLEAN /\ (q.void => q.bit = TRUE) /\ rest = Ahead(k, 5)
  BY Whereabouts DEF Look, Closing, AuditSteps
<1>3. CASE q.bit = None
  <2>1. rest = Ahead(k, 2)
    BY <1>2, <1>3, RegistryAssumption
  <2>2. rest # <<>> /\ Head(rest) = "readList" /\ Early(k, rest)
    <3>1. 2 \in 1..4
      OBVIOUS
    <3> HIDE DEF rest
    <3> QED
      BY <1>1, <2>1, <3>1, FirstFour DEF Early
  <2>3. Follow(r, q, rest)
    BY <1>3 DEF Believe, Proceed
  <2>4. Placed(q, rest) /\ Informs(q, rest, keys) /\ Timely(q, rest, now)
    BY <1>3, <2>2 DEF Placed, Informs, Timely
  <2> HIDE DEF rest
  <2> QED
    BY <1>1, <2>2, <2>3, <2>4, FollowJudged
<1>4. CASE q.bit # None
  <2>1. q.bit \in BOOLEAN /\ (q.void => q.bit = TRUE) /\ rest = Ahead(k, 5)
    BY <1>2, <1>4
  <2> DEFINE score == IF k = "score" THEN ValidityFactor(IF q.bit THEN "revoked" ELSE "valid", 0) ELSE q.score
             code == IF k \in {"verify", "peer"} /\ q.bit THEN "revoked" ELSE q.code
             p == [q EXCEPT !.verdicts = Append(@, q.bit), !.score = score, !.code = code]
  <2>2. /\ p.kind = k /\ DOMAIN p = Fields /\ p.bit = q.bit /\ p.void = q.void /\ p.cred = q.cred /\ p.did = q.did
        /\ p.score = score /\ p.code = code /\ p.todo = q.todo
    BY <1>1, FieldsAre
  <2>3. Proceed(r, p)
    BY <1>4 DEF Believe
  <2>4. q.void /\ k = "score" => score = 0
    BY <2>1 DEF ValidityFactor
  <2>5. code \in {"ok", "revoked"} /\ (q.void /\ k \in {"verify", "peer"} => code = "revoked")
    BY <1>1, <2>1 DEF About
  <2> HIDE DEF p, score, code
  <2>6. About(p, creds, Settled, now)
    BY <1>1, <2>2, <2>4, <2>5 DEF About
  <2>7. rest # <<>> => Over(k, rest)
    <3>1. rest # <<>> => k # "peer" /\ Len(Handlers[k]) \in Nat /\ Len(Handlers[k]) >= 5
      BY <1>1, <2>1, FirstFour, HandlersOpen DEF Opens
    <3> QED
      BY <2>1, <3>1 DEF Over
  <2>8. rest # <<>> => Head(rest) \notin {"fetch", "set"}
    BY <1>1, <2>7, OverIs DEF Closing, AuditSteps
  <2>9. rest # <<>> => Placed(p, rest) /\ Informs(p, rest, keys) /\ Timely(p, rest, now)
    BY <2>2, <2>5, <2>7, <2>8 DEF Placed, Informs, Timely
  <2>10. Follow(r, p, rest)
    BY <2>2, <2>3 DEF Proceed
  <2> HIDE DEF rest
  <2> QED
    BY <2>2, <2>5, <2>6, <2>9, <2>10, FollowJudged
<1> QED
  BY <1>3, <1>4

(***************************************************************************)
(* Verification: its steps, and the peer's cache.                          *)
(***************************************************************************)

\* A signature that a document does not bear out was made with a key that the document
\* does not have, or has as another.
LEMMA NotSigned ==
  ASSUME NEW sig, NEW doc, ~SignedBy(sig, doc)
  PROVE  sig.kid \notin DOMAIN doc \/ doc[sig.kid] # sig.gen
<1>1. DOMAIN <<>> = {}
  OBVIOUS
<1> QED
  BY <1>1 DEF SignedBy, Method

\* The peer turns a credential away for a cause, when its document has all keys but
\* those younger than a fetch and the time to live.
LEMMA PeerRefuses ==
  ASSUME RequestsInv, KeysInv, CheckInv, NEW r \in Jobs, Verifies(r), Doing(r) \in {"get", "set"},
         NEW doc, NEW time \in Int, Knows(req[r].did, doc, time, keys), now - CacheTtl - FetchTime <= time,
         ~SignedBy(req[r].sig, doc) \/ TooLate(req[r])
  PROVE  Cause(r)
<1> DEFINE q == req[r]
           kid == q.sig.kid
           gen == q.sig.gen
           ks == keys[q.did]
           own == IF q.did \in Registered THEN ks ELSE <<>>
<1> SUFFICES ASSUME ~TooLate(q), kid \in DOMAIN own, own[kid].gen = gen
             PROVE  now - own[kid].at <= CacheTtl + FetchTime
  BY DEF Cause
<1>1. DOMAIN <<>> = {}
  OBVIOUS
<1>2. own = ks /\ kid \in DOMAIN ks
  BY <1>1
<1>3. q.did \in Agents
  BY Underway DEF About
<1>4. ks \in Seq(KeyRecord) /\ now \in Nat /\ CacheTtl \in Nat /\ FetchTime \in Nat
  BY <1>3, CacheAssumption, BackendAssumption DEF KeysInv, RowsInv
<1>5. ks[kid].at \in Nat
  <2> HIDE DEF ks, kid, own
  <2>1. ks[kid] \in KeyRecord
    BY <1>2, <1>4
  <2> QED
    BY <2>1 DEF KeyRecord
<1>6. kid \notin DOMAIN doc \/ doc[kid] # gen
  BY NotSigned
<1>7. ks[kid].at < time => kid \in DOMAIN doc /\ doc[kid] = ks[kid].gen
  BY <1>2 DEF Knows
<1>8. ks[kid].gen = gen
  BY <1>2
<1> HIDE DEF own, ks, kid, gen
<1>9. ~(ks[kid].at < time)
  BY <1>6, <1>7, <1>8
<1>10. PICK at : at = ks[kid].at
  OBVIOUS
<1>11. now - at <= CacheTtl + FetchTime
  BY <1>4, <1>5, <1>9, <1>10
<1> QED
  BY <1>2, <1>10, <1>11

\* The verdict at the peer, on such a document.
LEMMA PeerJudged ==
  ASSUME RequestsInv, KeysInv, CheckInv, NEW r \in Jobs, Verifies(r), req[r].kind = "peer",
         Doing(r) \in {"get", "set"},
         NEW doc, NEW time \in Int, Knows(req[r].did, doc, time, keys), now - CacheTtl - FetchTime <= time,
         JudgeAtPeer(r, doc)
  PROVE  Judged(r)
<1>1. CASE SignedBy(req[r].sig, doc) /\ ~TooLate(req[r])
  BY <1>1, BelieveJudged DEF JudgeAtPeer, Look
<1>2. CASE ~(SignedBy(req[r].sig, doc) /\ ~TooLate(req[r]))
  <2>1. Cause(r)
    BY <1>2, PeerRefuses
  <2>2. End(r, "refused")
    BY <1>2 DEF JudgeAtPeer, Refuse
  <2> QED
    BY <2>1, <2>2, EndJudged
<1> QED
  BY <1>1, <1>2

\* What the cache finds is an entry for the document that is not too old.
LEMMA FoundIs ==
  ASSUME NEW S, NEW entries \in Seq(S), NEW did, NEW time, Hits(entries, did, time) # {}
  PROVE  LET e == Found(entries, did, time) IN e \in S /\ e.did = did /\ time - e.at <= CacheTtl
<1> DEFINE i == CHOOSE i \in Hits(entries, did, time) : TRUE
<1>1. i \in Hits(entries, did, time)
  OBVIOUS
<1> HIDE DEF i
<1>2. i \in DOMAIN entries /\ entries[i].did = did /\ time - entries[i].at <= CacheTtl
  BY <1>1 DEF Hits, EntriesOf, Alive
<1>3. entries[i] \in S
  BY <1>2
<1> QED
  BY <1>2, <1>3 DEF Found, i

\* A document from the cache, or a fetch.
LEMMA GetJudged ==
  ASSUME RequestsInv, KeysInv, CheckInv, NEW r \in Jobs, Verifies(r), Get(r)
  PROVE  Judged(r)
<1> DEFINE q == req[r]
           k == q.kind
           rest == Tail(q.todo)
<1>1. k \in Verifying /\ DOMAIN q = Fields /\ About(q, creds, Settled, now)
  BY Underway
<1>2. Doing(r) = "get"
  BY DEF Get, Ready
<1>3. /\ k = "peer"
      /\ \/ q.bit = None /\ rest = Ahead(k, 2)
         \/ q.bit \in BOOLEAN /\ (q.void => q.bit = TRUE) /\ rest = Ahead(k, 5)
  BY <1>1, <1>2, Whereabouts DEF Look, Closing, AuditSteps
<1>4. now \in Nat /\ CacheTtl \in Nat /\ FetchTime \in Nat
  BY CacheAssumption, BackendAssumption DEF KeysInv, RowsInv
<1>5. CASE Hits(cache, q.did, now) = {}
  <2> DEFINE p == [q EXCEPT !.since = now]
             t == <<"fetch", "set">> \o rest
  <2>1. Follow(r, p, t)
    <3>1. p.todo = q.todo
      BY <1>1, FieldsAre
    <3>2. Insist(r, p, <<"fetch", "set">>)
      BY <1>5 DEF Get
    <3> HIDE DEF p
    <3> QED
      BY <3>1, <3>2 DEF Insist
  <2>2. /\ p.kind = k /\ DOMAIN p = Fields /\ p.bit = q.bit /\ p.void = q.void /\ p.cred = q.cred /\ p.did = q.did
        /\ p.score = q.score /\ p.code = q.code /\ p.since = now
    BY <1>1, FieldsAre
  <2>3. rest \in Seq(Steps) /\ "fetch" \in Steps /\ "set" \in Steps
    <3>1. 2 \in 1..4
      OBVIOUS
    <3> HIDE DEF rest
    <3> QED
      BY <1>1, <1>3, <3>1, FirstFour DEF Steps
  <2>4. t # <<>> /\ Head(t) = "fetch"
    <3>1. <<"set">> \o rest \in Seq(Steps)
      BY <2>3, OneBefore
    <3>2. t = <<"fetch">> \o (<<"set">> \o rest)
      BY <2>3, TwoBefore
    <3> HIDE DEF t, rest
    <3> QED
      BY <2>3, <3>1, <3>2, OneBefore
  <2>5. Placed(p, t)
    <3>1. CASE q.bit = None /\ rest = Ahead(k, 2)
      <4>1. Early(k, t)
        BY <1>3, <3>1 DEF Early, Fetching
      <4> HIDE DEF p, t
      <4> QED
        BY <2>2, <3>1, <4>1 DEF Placed
    <3>2. CASE q.bit \in BOOLEAN /\ (q.void => q.bit = TRUE) /\ rest = Ahead(k, 5)
      <4>1. rest = <<>>
        BY <1>1, <1>3, <3>2, FirstFour
      <4>2. t = <<"fetch", "set">>
        <5>1. PICK w : w = <<"fetch", "set">>
          OBVIOUS
        <5>2. w \in Seq({"fetch", "set"})
          BY <5>1
        <5>3. w \o <<>> = w
          BY <5>2
        <5> QED
          BY <4>1, <5>1, <5>3
      <4>3. Late(k, t)
        BY <1>3, <4>2 DEF Late, Fetching
      <4> HIDE DEF p, t
      <4> QED
        BY <2>2, <3>2, <4>3 DEF Placed
    <3> QED
      BY <1>3, <3>1, <3>2
  <2> HIDE DEF p, t
  <2>6. About(p, creds, Settled, now)
    BY <1>1, <2>2 DEF About
  <2>7. Informs(p, t, keys) /\ Timely(p, t, now)
    BY <1>4, <2>2, <2>4 DEF Informs, Timely
  <2> QED
    BY <2>1, <2>2, <2>4, <2>5, <2>6, <2>7, FollowJudged
<1>6. CASE Hits(cache, q.did, now) # {}
  <2> DEFINE e == Found(cache, q.did, now)
  <2>1. e \in Entries(keys, now) /\ e.did = q.did /\ now - e.at <= CacheTtl
    BY <1>6, FoundIs DEF CheckInv
  <2>2. JudgeAtPeer(r, e.doc)
    BY <1>6 DEF Get
  <2> HIDE DEF e
  <2>3. e.at \in Nat /\ Knows(q.did, e.doc, e.at - FetchTime, keys)
    BY <2>1 DEF Entries
  <2>4. PICK time : time = e.at - FetchTime
    OBVIOUS
  <2>5. time \in Int /\ now - CacheTtl - FetchTime <= time
    BY <1>4, <2>1, <2>3, <2>4
  <2> QED
    BY <1>2, <1>3, <2>2, <2>3, <2>4, <2>5, PeerJudged
<1> QED
  BY <1>5, <1>6

\* A registered agent has a document, with all its keys.
LEMMA DocumentIs ==
  ASSUME KeysInv, NEW a \in Agents
  PROVE  /\ a \in Registered => Document(a) # <<>>
         /\ Document(a) # <<>> => Document(a) \in Seq(Nat) /\ \A time : Knows(a, Document(a), time, keys)
<1> DEFINE ks == keys[a]
           doc == DidDocument(ks)
<1>1. ks \in Seq(KeyRecord)
  BY DEF KeysInv, RowsInv
<1>2. doc = [n \in DOMAIN ks |-> ks[n].gen]
  BY DEF DidDocument
<1>3. a \in Registered => Len(ks) \in DOMAIN ks
  BY DEF KeysInv, OneSigningKey
<1>4. Document(a) = IF a \in Registered THEN doc ELSE <<>>
  BY DEF Document
<1> HIDE DEF doc
<1>5. \A time : Knows(a, doc, time, keys)
  BY <1>2 DEF Knows
<1> HIDE DEF ks
<1>6. doc \in Seq(Nat)
  <2>1. ASSUME NEW n \in DOMAIN ks PROVE ks[n].gen \in Nat
    <3>1. ks[n] \in KeyRecord
      BY <1>1
    <3> QED
      BY <3>1 DEF KeyRecord
  <2>2. DOMAIN ks = 1..Len(ks) /\ Len(ks) \in Nat
    BY <1>1
  <2> QED
    BY <1>2, <2>1, <2>2
<1>7. a \in Registered => doc # <<>>
  <2>1. DOMAIN <<>> = {} /\ DOMAIN doc = DOMAIN ks
    BY <1>2
  <2> QED
    BY <1>3, <2>1
<1> QED
  BY <1>4, <1>5, <1>6, <1>7

\* The fetch itself.
LEMMA FetchJudged ==
  ASSUME RequestsInv, KeysInv, CheckInv, NEW r \in Jobs, Verifies(r), Fetch(r)
  PROVE  Judged(r)
<1> DEFINE q == req[r]
           k == q.kind
           rest == Tail(q.todo)
           doc == Document(q.did)
<1>1. /\ k \in Verifying /\ DOMAIN q = Fields /\ About(q, creds, Settled, now) /\ Timely(q, q.todo, now)
      /\ Doing(r) = Head(q.todo) /\ q.did \in Agents
  BY Underway DEF About
<1>2. Doing(r) = "fetch"
  BY DEF Fetch, Ready
<1>3. /\ k = "peer"
      /\ \/ q.bit = None /\ rest = <<"set">> \o Ahead(k, 2)
         \/ q.bit \in BOOLEAN /\ (q.void => q.bit = TRUE) /\ rest = <<"set">>
  BY <1>2, Whereabouts DEF Look, Closing, AuditSteps
<1>4. CASE doc = <<>>
  <2>1. Cause(r)
    BY <1>1, <1>2, <1>4, DocumentIs DEF Cause
  <2>2. End(r, "refused")
    BY <1>4 DEF Fetch, Refuse
  <2> QED
    BY <2>1, <2>2, EndJudged
<1>5. CASE doc # <<>>
  <2> DEFINE p == [q EXCEPT !.seen = doc]
  <2>1. /\ p.kind = k /\ DOMAIN p = Fields /\ p.bit = q.bit /\ p.void = q.void /\ p.cred = q.cred /\ p.did = q.did
        /\ p.score = q.score /\ p.code = q.code /\ p.since = q.since /\ p.seen = doc /\ p.todo = q.todo
    BY <1>1, FieldsAre
  <2>2. Proceed(r, p)
    BY <1>5 DEF Fetch
  <2>3. doc \in Seq(Nat) /\ Knows(q.did, doc, q.since, keys)
    BY <1>1, <1>5, DocumentIs
  <2> HIDE DEF p, doc
  <2>4. Follow(r, p, rest)
    BY <2>1, <2>2 DEF Proceed
  <2>5. rest # <<>> /\ Head(rest) = "set" /\ Placed(p, rest)
    <3>1. CASE q.bit = None /\ rest = <<"set">> \o Ahead(k, 2)
      <4>1. Ahead(k, 2) \in Seq(Steps) /\ "set" \in Steps
        <5>1. 2 \in 1..4
          OBVIOUS
        <5> QED
          BY <1>1, <5>1, FirstFour DEF Steps
      <4>2. Early(k, rest)
        BY <1>3, <3>1 DEF Early, Fetching
      <4>3. rest # <<>> /\ Head(rest) = "set"
        BY <3>1, <4>1, OneBefore
      <4> HIDE DEF rest
      <4> QED
        BY <2>1, <3>1, <4>2, <4>3 DEF Placed
    <3>2. CASE q.bit \in BOOLEAN /\ (q.void => q.bit = TRUE) /\ rest = <<"set">>
      <4>1. Late(k, rest)
        BY <1>3, <3>2 DEF Late, Fetching
      <4>2. rest # <<>> /\ Head(rest) = "set"
        <5>1. <<"set">> # <<>> /\ Head(<<"set">>) = "set"
          OBVIOUS
        <5> HIDE DEF rest
        <5> QED
          BY <3>2, <5>1
      <4> HIDE DEF rest
      <4> QED
        BY <2>1, <3>2, <4>1, <4>2 DEF Placed
    <3> QED
      BY <1>3, <3>1, <3>2
  <2> HIDE DEF rest
  <2>6. About(p, creds, Settled, now)
    BY <1>1, <2>1 DEF About
  <2>7. Informs(p, rest, keys) /\ Timely(p, rest, now)
    BY <1>1, <1>2, <2>1, <2>3, <2>5 DEF Informs, Timely
  <2> QED
    BY <2>1, <2>4, <2>5, <2>6, <2>7, FollowJudged
<1> QED
  BY <1>4, <1>5

\* The fetched document is put into the cache, and judged by.
LEMMA SetJudged ==
  ASSUME RequestsInv, KeysInv, CheckInv, NEW r \in Jobs, Verifies(r), Set(r)
  PROVE  Judged(r)
<1> DEFINE q == req[r]
<1>1. Doing(r) = "set" /\ JudgeAtPeer(r, q.seen)
  BY DEF Set, Ready
<1>2. q.kind = "peer"
  BY <1>1, Whereabouts DEF Look, Closing, AuditSteps
<1>3. /\ q.since \in Nat /\ now <= q.since + FetchTime /\ Knows(q.did, q.seen, q.since, keys)
  BY <1>1, Underway DEF Timely, Informs
<1>4. now \in Nat /\ CacheTtl \in Nat /\ FetchTime \in Nat
  BY CacheAssumption, BackendAssumption DEF KeysInv, RowsInv
<1>5. PICK time : time = q.since
  OBVIOUS
<1>6. time \in Int /\ now - CacheTtl - FetchTime <= time
  BY <1>3, <1>4, <1>5
<1> QED
  BY <1>1, <1>2, <1>3, <1>5, <1>6, PeerJudged

\* Verification here.
LEMMA ResolveJudged ==
  ASSUME RequestsInv, KeysInv, CheckInv, NEW r \in Jobs, Verifies(r), Resolve(r)
  PROVE  Judged(r)
<1> DEFINE q == req[r]
<1>1. /\ q.kind \in Verifying /\ DOMAIN q = Fields /\ About(q, creds, Settled, now)
  BY Underway
<1>2. Doing(r) = "resolve"
  BY DEF Resolve, Ready
<1>3. Doing(r) = Look(q.kind) /\ q.kind # "peer"
  BY <1>2, Whereabouts DEF Look, Closing, AuditSteps
<1>4. CASE Fail(r)
  BY <1>3, <1>4, FailJudged
<1>5. CASE Believe(r, q)
  BY <1>3, <1>5, BelieveJudged
<1>6. CASE ~Fail(r) /\ ~Believe(r, q)
  <2> DEFINE score == ValidityFactor("expired", now - creds[q.cred].exp)
             p == [q EXCEPT !.score = score]
  <2>1. TooLate(q) /\ q.kind = "score" /\ Follow(r, p, From(q.todo, {"readIssuer"}))
    BY <1>6 DEF Resolve
  <2>2. /\ p.kind = q.kind /\ DOMAIN p = Fields /\ p.void = q.void /\ p.cred = q.cred /\ p.did = q.did
        /\ p.score = score /\ p.code = q.code
    BY <1>1, FieldsAre
  <2>3. score \in {5, 10}
    BY DEF ValidityFactor
  <2> HIDE DEF score, p
  <2>4. About(p, creds, Settled, now)
    BY <1>1, <2>1, <2>2, <2>3 DEF About, TooLate, Expired
  <2> QED
    BY <2>1, <2>2, <2>4, GivesUp
<1> QED
  BY <1>4, <1>5, <1>6

\* The status list is read.
LEMMA ReadListJudged ==
  ASSUME RequestsInv, KeysInv, CheckInv, NEW r \in Jobs, Verifies(r), ReadList(r)
  PROVE  Judged(r)
<1> DEFINE q == req[r]
           k == q.kind
           rest == Tail(q.todo)
<1>1. k \in Verifying /\ DOMAIN q = Fields /\ About(q, creds, Settled, now)
  BY Underway
<1>2. Doing(r) = "readList"
  BY DEF ReadList, Ready
<1>3. q.bit = None /\ rest = Ahead(k, 3)
  BY <1>2, Whereabouts DEF Look, Closing, AuditSteps
<1>4. CASE ~Listed(q.cred)
  <2>1. Fail(r) /\ Cause(r)
    BY <1>2, <1>4 DEF ReadList, Cause
  <2> QED
    BY <2>1, FailJudged
<1>5. CASE Listed(q.cred)
  <2> DEFINE bit == q.cred \in revoked
             p == [q EXCEPT !.bit = bit, !.did = StatusIssuer]
  <2>1. /\ p.kind = k /\ DOMAIN p = Fields /\ p.bit = bit /\ p.void = q.void /\ p.cred = q.cred
        /\ p.did = StatusIssuer /\ p.score = q.score /\ p.code = q.code /\ p.todo = q.todo
    BY <1>1, FieldsAre
  <2>2. Proceed(r, p)
    BY <1>5 DEF ReadList
  <2>3. bit \in BOOLEAN /\ (q.void => bit = TRUE)
    BY <1>1 DEF About, Settled
  <2> HIDE DEF bit, p
  <2>4. Follow(r, p, rest)
    BY <2>1, <2>2 DEF Proceed
  <2>5. rest # <<>> /\ Head(rest) = "ensureIssuer" /\ Late(k, rest)
    <3>1. 3 \in 1..4
      OBVIOUS
    <3> HIDE DEF rest
    <3> QED
      BY <1>1, <1>3, <3>1, FirstFour DEF Late
  <2> HIDE DEF rest
  <2>6. Placed(p, rest) /\ Informs(p, rest, keys) /\ Timely(p, rest, now)
    BY <2>1, <2>3, <2>5 DEF Placed, Informs, Timely
  <2>7. About(p, creds, Settled, now)
    BY <1>1, <2>1, RegistryAssumption DEF About
  <2> QED
    BY <2>1, <2>4, <2>5, <2>6, <2>7, FollowJudged
<1> QED
  BY <1>4, <1>5

\* The list's issuer is there, or made; then comes the signature.
LEMMA IssuerJudged ==
  ASSUME RequestsInv, KeysInv, CheckInv, NEW r \in Jobs, Verifies(r), EnsureIssuer(r) \/ MakeIssuer(r)
  PROVE  Judged(r)
<1> DEFINE q == req[r]
           k == q.kind
           rest == Tail(q.todo)
<1>1. k \in Verifying /\ DOMAIN q = Fields /\ About(q, creds, Settled, now)
  BY Underway
<1>2. Doing(r) \in {"ensureIssuer", "makeIssuer"}
  BY DEF EnsureIssuer, MakeIssuer, Ready
<1>3. q.bit \in BOOLEAN /\ (q.void => q.bit = TRUE) /\ rest = Ahead(k, 4)
  BY <1>2, Whereabouts DEF Look, Closing, AuditSteps
<1>4. ASSUME NEW p, NEW t, Follow(r, p, t), t \in {rest, <<"makeIssuer">> \o rest},
             p.kind = k, DOMAIN p = Fields, p.bit = q.bit, p.void = q.void, p.cred = q.cred, p.did = q.did,
             p.score = q.score, p.code = q.code
      PROVE  Judged(r)
  <2>1. t # <<>> /\ Head(t) \notin {"fetch", "set"}
    <3>1. 4 \in 1..4 /\ "makeIssuer" \in Steps
      BY DEF Steps
    <3>2. rest \in Seq(Steps) /\ rest # <<>> /\ Head(rest) = Look(k)
      BY <1>1, <1>3, <3>1, FirstFour
    <3> HIDE DEF rest
    <3>3. <<"makeIssuer">> \o rest # <<>> /\ Head(<<"makeIssuer">> \o rest) = "makeIssuer"
      BY <3>1, <3>2, OneBefore
    <3> QED
      BY <1>4, <3>2, <3>3 DEF Look
  <2>2. Late(k, t)
    BY <1>3, <1>4 DEF Late
  <2> HIDE DEF rest
  <2>3. Placed(p, t) /\ Informs(p, t, keys) /\ Timely(p, t, now)
    BY <1>3, <1>4, <2>1, <2>2 DEF Placed, Informs, Timely
  <2>4. About(p, creds, Settled, now)
    BY <1>1, <1>4 DEF About
  <2> QED
    BY <1>4, <2>1, <2>3, <2>4, FollowJudged
<1>5. ASSUME NEW s, Proceed(r, [q EXCEPT !.sig = s]) PROVE Judged(r)
  <2> DEFINE p == [q EXCEPT !.sig = s]
  <2>1. /\ p.kind = k /\ DOMAIN p = Fields /\ p.bit = q.bit /\ p.void = q.void /\ p.cred = q.cred
        /\ p.did = q.did /\ p.score = q.score /\ p.code = q.code /\ p.todo = q.todo
    BY <1>1, FieldsAre
  <2>2. Proceed(r, p)
    BY <1>5
  <2> HIDE DEF p
  <2>3. Follow(r, p, rest)
    BY <2>1, <2>2 DEF Proceed
  <2> QED
    BY <1>4, <2>1, <2>3
<1>6. CASE EnsureIssuer(r)
  <2>1. CASE StatusIssuer \in Registered
    BY <1>5, <1>6, <2>1 DEF EnsureIssuer, SignedList
  <2>2. CASE StatusIssuer \notin Registered
    <3>1. Follow(r, q, <<"makeIssuer">> \o rest)
      BY <1>6, <2>2 DEF EnsureIssuer, Insist
    <3> QED
      BY <1>1, <1>4, <3>1
  <2> QED
    BY <2>1, <2>2
<1>7. CASE MakeIssuer(r)
  <2>1. CASE StatusIssuer \in Registered
    <3>1. Fail(r) /\ Doing(r) = "makeIssuer"
      BY <1>7, <2>1 DEF MakeIssuer, Ready
    <3> QED
      BY <2>1, <3>1, FailJudged DEF Cause
  <2>2. CASE StatusIssuer \notin Registered
    BY <1>5, <1>7, <2>2 DEF MakeIssuer
  <2> QED
    BY <2>1, <2>2
<1> QED
  BY <1>6, <1>7

\* What follows a verification.
LEMMA ClosingJudged ==
  ASSUME RequestsInv, KeysInv, CheckInv, NEW r \in Jobs, Verifies(r), Doing(r) \in Closing,
         \/ ReadIssuer(r) \/ ReadHistory(r) \/ Record(r) \/ ReadNewest(r) \/ Stamp(r) \/ AppendEvent(r) \/ Dispatch(r)
  PROVE  Judged(r)
<1> DEFINE q == req[r]
           k == q.kind
           rest == Tail(q.todo)
<1>1. k \in Verifying /\ DOMAIN q = Fields /\ About(q, creds, Settled, now)
  BY Underway
<1>2. Over(k, q.todo) /\ (q.void /\ k = "verify" => q.code = "revoked") /\ k # "peer" /\ (rest = <<>> \/ Over(k, rest))
  BY Whereabouts DEF Look, Closing, AuditSteps
<1>3. ASSUME NEW p, Proceed(r, p), p.kind = k, DOMAIN p = Fields, p.void = q.void, p.cred = q.cred, p.did = q.did,
             p.score = q.score, p.code = q.code, p.todo = q.todo
      PROVE  Judged(r)
  <2>1. Follow(r, p, rest)
    BY <1>3 DEF Proceed
  <2> HIDE DEF rest
  <2>2. rest # <<>> => Head(rest) \notin {"fetch", "set"}
    BY <1>1, <1>2, OverIs DEF Closing, AuditSteps
  <2>3. rest # <<>> => Placed(p, rest) /\ Informs(p, rest, keys) /\ Timely(p, rest, now)
    BY <1>2, <1>3, <2>2 DEF Placed, Informs, Timely
  <2>4. About(p, creds, Settled, now)
    BY <1>1, <1>3 DEF About
  <2> QED
    BY <1>1, <1>2, <1>3, <2>1, <2>3, <2>4, FollowJudged DEF Verifying
<1>4. ASSUME NEW x, \/ Proceed(r, [q EXCEPT !.tally = x]) \/ Proceed(r, [q EXCEPT !.prev = x])
                    \/ Proceed(r, [q EXCEPT !.at = x]) \/ Proceed(r, [q EXCEPT !.seen = x])
      PROVE  Judged(r)
  <2>1. PICK p : /\ p \in {[q EXCEPT !.tally = x], [q EXCEPT !.prev = x], [q EXCEPT !.at = x], [q EXCEPT !.seen = x]}
                 /\ Proceed(r, p)
    BY <1>4
  <2>2. /\ p.kind = k /\ DOMAIN p = Fields /\ p.void = q.void /\ p.cred = q.cred
        /\ p.did = q.did /\ p.score = q.score /\ p.code = q.code /\ p.todo = q.todo
    BY <1>1, <2>1, FieldsAre
  <2> QED
    BY <1>3, <2>1, <2>2
<1>5. CASE ReadIssuer(r)
  BY <1>4, <1>5 DEF ReadIssuer
<1>6. CASE ReadHistory(r)
  BY <1>4, <1>6 DEF ReadHistory
<1>7. CASE Record(r)
  <2>1. Proceed(r, q)
    BY <1>7 DEF Record
  <2> QED
    BY <1>1, <1>3, <2>1
<1>8. CASE ReadNewest(r)
  BY <1>4, <1>8 DEF ReadNewest
<1>9. CASE Stamp(r)
  BY <1>4, <1>9 DEF Stamp
<1>10. CASE AppendEvent(r)
  <2> DEFINE p == [q EXCEPT !.prev = 0, !.at = 0]
  <2>1. /\ p.kind = k /\ DOMAIN p = Fields /\ p.void = q.void /\ p.cred = q.cred
        /\ p.did = q.did /\ p.score = q.score /\ p.code = q.code /\ p.todo = q.todo
    BY <1>1, FieldsAre
  <2>2. Proceed(r, p)
    BY <1>10 DEF AppendEvent
  <2> HIDE DEF p
  <2> QED
    BY <1>3, <2>1, <2>2
<1>11. CASE Dispatch(r)
  BY <1>4, <1>11 DEF Dispatch
<1> QED
  BY <1>5, <1>6, <1>7, <1>8, <1>9, <1>10, <1>11

\* No other step than these is one of a verification.
LEMMA VerifyingSteps ==
  ASSUME NEW r \in Jobs, Step(r),
         Doing(r) \in {"get", "resolve", "readList", "ensureIssuer", "makeIssuer", "fetch", "set"} \cup Closing
  PROVE  \/ Resolve(r) \/ ReadList(r) \/ EnsureIssuer(r) \/ MakeIssuer(r) \/ Get(r) \/ Fetch(r) \/ Set(r)
         \/ ReadIssuer(r) \/ ReadHistory(r) \/ Record(r) \/ ReadNewest(r) \/ Stamp(r) \/ AppendEvent(r)
         \/ Dispatch(r) \/ Expire(r)
<1> DEFINE D == {"get", "resolve", "readList", "ensureIssuer", "makeIssuer", "fetch", "set", "readIssuer", "readHistory",
                 "record", "dispatch", "readNewest", "stamp", "append"}
<1>0. Doing(r) \in D
  BY DEF Closing, AuditSteps
<1>1. ~(EnsureTenant(r) \/ InsertAgent(r) \/ ReadKeys(r) \/ Rotate(r))
  BY <1>0 DEF EnsureTenant, InsertAgent, ReadKeys, Rotate, Ready
<1>2. ~(FindHolder(r) \/ Register(r) \/ Refetch(r) \/ Allocate(r) \/ FindIssuer(r) \/ Sign(r) \/ Store(r))
  BY <1>0 DEF FindHolder, Register, Refetch, Allocate, FindIssuer, Sign, Store, Ready
<1>3. ~(FindCred(r) \/ ReadBits(r) \/ SetRevoked(r) \/ Flush(r) \/ ReadEvents(r) \/ ReadAgents(r) \/ ReadBoard(r))
  BY <1>0 DEF FindCred, ReadBits, SetRevoked, Flush, ReadEvents, ReadAgents, ReadBoard, Ready
<1>4. ~(CountRows(r) \/ CheckCred(r) \/ CountEvents(r) \/ WalkChain(r) \/ Reply(r) \/ DeleteCreds(r) \/ DeleteRest(r))
  BY <1>0 DEF CountRows, CheckCred, CountEvents, WalkChain, Reply, DeleteCreds, DeleteRest, Ready
<1>5. ~(InsertHook(r) \/ DropHook(r) \/ FindHook(r) \/ CheckEmpty(r) \/ SeedAgents(r) \/ SeedCreds(r) \/ SeedRevoked(r))
  BY <1>0 DEF InsertHook, DropHook, FindHook, CheckEmpty, SeedAgents, SeedCreds, SeedRevoked, Ready
<1>6. ~(SeedTree(r) \/ SeedIntent(r) \/ SeedCart(r) \/ Spend(r) \/ SeedTrustEvents(r))
  BY <1>0 DEF SeedTree, SeedIntent, SeedCart, Spend, SeedTrustEvents, Ready
<1> QED
  BY <1>1, <1>2, <1>3, <1>4, <1>5, <1>6, Zenon DEF Step

\* Whatever a request under way does, it goes on as it should.
LEMMA StepJudged ==
  ASSUME RequestsInv, KeysInv, CheckInv, NEW r \in Jobs, Verifies(r), Step(r)
  PROVE  Judged(r)
<1>1. Doing(r) \in {"get", "resolve", "readList", "ensureIssuer", "makeIssuer", "fetch", "set"} \cup Closing
  BY Whereabouts DEF Look
<1>2. \/ Resolve(r) \/ ReadList(r) \/ EnsureIssuer(r) \/ MakeIssuer(r) \/ Get(r) \/ Fetch(r) \/ Set(r)
      \/ ReadIssuer(r) \/ ReadHistory(r) \/ Record(r) \/ ReadNewest(r) \/ Stamp(r) \/ AppendEvent(r)
      \/ Dispatch(r) \/ Expire(r)
  BY <1>1, VerifyingSteps
<1>3. CASE Resolve(r) \/ ReadList(r) \/ EnsureIssuer(r) \/ MakeIssuer(r) \/ Get(r) \/ Fetch(r) \/ Set(r) \/ Expire(r)
  BY <1>3, ResolveJudged, ReadListJudged, IssuerJudged, GetJudged, FetchJudged, SetJudged, ExpireJudged
<1>4. CASE \/ ReadIssuer(r) \/ ReadHistory(r) \/ Record(r) \/ ReadNewest(r) \/ Stamp(r) \/ AppendEvent(r)
           \/ Dispatch(r)
  <2>1. Doing(r) \in Closing
    BY <1>4 DEF ReadIssuer, ReadHistory, Record, ReadNewest, Stamp, AppendEvent, Dispatch, Ready, Closing, AuditSteps
  <2> QED
    BY <1>4, <2>1, ClosingJudged
<1> QED
  BY <1>2, <1>3, <1>4

(***************************************************************************)
(* Verification: what the steps of others leave as it is.                  *)
(***************************************************************************)

\* Only request r may end.
Ends(r) == out' = out \/ \E c : out' = [out EXCEPT ![r] = c]

\* Whichever way it goes on, only request r may end.
LEMMA WaysOn ==
  ASSUME NEW r
  PROVE  /\ \A c : End(r, c) => Ends(r)
         /\ \A q : Proceed(r, q) => Ends(r)
         /\ \A q, steps : Insist(r, q, steps) => Ends(r)
         /\ \A q, todo : Follow(r, q, todo) => Ends(r)
         /\ Refuse(r) => Ends(r)
         /\ Fail(r) => Ends(r)
<1>1. \A c : End(r, c) => Ends(r)
  BY DEF End, Ends
<1>2. \A q, todo : Follow(r, q, todo) => Ends(r)
  BY <1>1 DEF Follow, Ends
<1>3. \A q : Proceed(r, q) => Ends(r)
  BY <1>2 DEF Proceed
<1>4. \A q, steps : Insist(r, q, steps) => Ends(r)
  BY <1>2 DEF Insist
<1>5. Refuse(r) => Ends(r)
  BY <1>1 DEF Refuse
<1>6. Fail(r) => Ends(r)
  BY <1>1, <1>2, <1>5 DEF Fail
<1> QED
  BY <1>1, <1>2, <1>3, <1>4, <1>5, <1>6

\* What others may rely on: only request r ends, no time passes, and the bits are as they
\* were unless it writes them.
Confined(r) == Ends(r) /\ now' = now /\ (UNCHANGED <<revoked, struck>> \/ SetRevoked(r))

\* They may, in every step; and only three steps touch the peer's cache.
LEMMA StepConfined ==
  ASSUME NEW r \in Jobs, Step(r)
  PROVE  Confined(r) /\ (cache' = cache \/ Get(r) \/ Set(r) \/ Flush(r))
<1> DEFINE P == Confined(r) /\ cache' = cache
<1>0. ASSUME UNCHANGED <<arrivalVars, cache>>, UNCHANGED <<revoked, struck>> \/ SetRevoked(r),
             \/ \E q : Proceed(r, q)
             \/ \E q, s : Insist(r, q, s)
             \/ \E q, t : Follow(r, q, t)
             \/ \E c : End(r, c)
             \/ Refuse(r) \/ Fail(r)
      PROVE  P
  BY <1>0, WaysOn DEF Confined, arrivalVars
<1> HIDE DEF P
<1>1. ASSUME ReadNewest(r) \/ Stamp(r) \/ AppendEvent(r) PROVE P
  BY <1>0, <1>1 DEF ReadNewest, Stamp, AppendEvent, registryVars, sideVars
<1>2. ASSUME EnsureTenant(r) \/ ReadKeys(r) \/ ReadBits(r) \/ Rotate(r) PROVE P
  BY <1>0, <1>2 DEF EnsureTenant, ReadKeys, ReadBits, Rotate, registryVars, sideVars
<1>3. ASSUME InsertAgent(r) PROVE P
  BY <1>0, <1>3 DEF InsertAgent, InsertRows, registryVars, sideVars
<1>4. ASSUME FindHolder(r) \/ Refetch(r) PROVE P
  BY <1>0, <1>4 DEF FindHolder, Refetch, registryVars, sideVars
<1>5. ASSUME Register(r) PROVE P
  BY <1>0, <1>5 DEF Register, InsertRows, registryVars, sideVars
<1>6. ASSUME Allocate(r) \/ FindIssuer(r) \/ FindCred(r) PROVE P
  BY <1>0, <1>6 DEF Allocate, FindIssuer, FindCred, registryVars, sideVars
<1>7. ASSUME Sign(r) \/ Store(r) PROVE P
  BY <1>0, <1>7 DEF Sign, Store, registryVars, sideVars
<1>8. ASSUME SetRevoked(r) PROVE P
  BY <1>0, <1>8 DEF SetRevoked, registryVars, sideVars
<1>9. ASSUME Resolve(r) \/ ReadList(r) \/ EnsureIssuer(r) \/ MakeIssuer(r) PROVE P
  BY <1>0, <1>9 DEF Resolve, Believe, ReadList, EnsureIssuer, MakeIssuer, registryVars, sideVars
<1>10. ASSUME Fetch(r) PROVE P
  BY <1>0, <1>10 DEF Fetch, registryVars, sideVars
<1>11. CASE Get(r) \/ Set(r) \/ Flush(r)
  <2>1. Ends(r)
    BY <1>11, WaysOn DEF Get, Set, Flush, JudgeAtPeer, Believe
  <2> QED
    BY <1>11, <2>1 DEF Confined, Get, Set, Flush, registryVars, arrivalVars
<1>12. ASSUME ReadIssuer(r) \/ ReadHistory(r) \/ Record(r) PROVE P
  BY <1>0, <1>12 DEF ReadIssuer, ReadHistory, Record, registryVars, sideVars
<1>13. ASSUME ReadEvents(r) \/ ReadAgents(r) \/ ReadBoard(r) PROVE P
  BY <1>0, <1>13 DEF ReadEvents, ReadAgents, ReadBoard, registryVars, sideVars
<1>14. ASSUME CountRows(r) \/ CheckCred(r) \/ CountEvents(r) \/ WalkChain(r) \/ Reply(r) PROVE P
  BY <1>0, <1>14 DEF CountRows, CheckCred, CountEvents, WalkChain, Reply, registryVars, sideVars
<1>15. ASSUME DeleteCreds(r) \/ DeleteRest(r) PROVE P
  BY <1>0, <1>15 DEF DeleteCreds, DeleteRest, registryVars, sideVars
<1>16. ASSUME InsertHook(r) \/ DropHook(r) \/ FindHook(r) \/ Dispatch(r) PROVE P
  BY <1>0, <1>16 DEF InsertHook, DropHook, FindHook, Dispatch, registryVars, sideVars
<1>17. ASSUME CheckEmpty(r) \/ SeedAgents(r) \/ SeedCreds(r) \/ SeedRevoked(r) PROVE P
  BY <1>0, <1>17 DEF CheckEmpty, SeedAgents, SeedCreds, SeedRevoked, registryVars, sideVars
<1>18. ASSUME SeedTree(r) \/ SeedIntent(r) \/ SeedCart(r) PROVE P
  BY <1>0, <1>18 DEF SeedTree, SeedIntent, SeedCart, registryVars, sideVars
<1>19. ASSUME Spend(r) \/ SeedTrustEvents(r) \/ Expire(r) PROVE P
  BY <1>0, <1>19 DEF Spend, SeedTrustEvents, Expire, TimeOut, registryVars, sideVars
<1> QED
  BY <1>1, <1>2, <1>3, <1>4, <1>5, <1>6, <1>7, <1>8, <1>9, <1>10, <1>11, <1>12, <1>13, <1>14, <1>15, <1>16, <1>17,
     <1>18, <1>19 DEF Step, P

\* Every key of an agent is new, or was there.
KeysGrow ==
  \A a \in Agents : \A n \in DOMAIN keys'[a] :
    \/ keys'[a][n].at \in Nat /\ keys'[a][n].at >= now
    \/ n \in DOMAIN keys[a] /\ keys'[a][n].at = keys[a][n].at /\ keys'[a][n].gen = keys[a][n].gen

\* It is so whichever way the rows change.
LEMMA StepKeys ==
  ASSUME RequestsInv, KeysInv, NEW r \in Jobs, Telling(r)
  PROVE  KeysGrow
<1>0. now \in Nat /\ DOMAIN keys = Agents
  BY DEF KeysInv, RowsInv
<1>1. ASSUME NEW a, NEW t, NEW s, Inserts(a, t, s) PROVE KeysGrow
  <2>1. NewKey(a, t, now).at = now
    BY DEF NewKey
  <2>2. keys' = [keys EXCEPT ![a] = <<NewKey(a, t, now)>>]
    BY <1>1 DEF Inserts, Insert
  <2>3. PICK k : k = NewKey(a, t, now)
    OBVIOUS
  <2>4. DOMAIN <<k>> = {1} /\ <<k>>[1] = k
    OBVIOUS
  <2> QED
    BY <1>0, <2>1, <2>2, <2>3, <2>4 DEF KeysGrow
<1>2. CASE Rotates(r) /\ Rotate(r)
  <2> DEFINE a == req[r].agent
             n == req[r].seen
             ks == Rotated(a, n, now)
  <2>1. n \in Nat
    BY <1>2 DEF Rotate, Ready, KeysInv, Informed, Doing
  <2>2. a \in Agents /\ agents[a] # None /\ KidIsFree(a, n) /\ keys' = [keys EXCEPT ![a] = ks]
    BY <1>2 DEF Rotates, Registered
  <2> HIDE DEF a, n
  <2>3. \A m \in DOMAIN ks :
          ks[m].at = now \/ (m \in DOMAIN keys[a] /\ ks[m].at = keys[a][m].at /\ ks[m].gen = keys[a][m].gen)
    BY <2>1, <2>2, RotatedKeys DEF KeysInv
  <2> HIDE DEF ks
  <2> QED
    BY <1>0, <2>2, <2>3 DEF KeysGrow
<1>3. CASE Deletes(req[r].tenant)
  <2>1. DOMAIN <<>> = {}
    OBVIOUS
  <2> QED
    BY <1>3, <2>1 DEF Deletes, KeysGrow
<1>4. CASE UNCHANGED keys
  BY <1>4 DEF KeysGrow
<1> QED
  BY <1>1, <1>2, <1>3, <1>4, RowCases DEF InsertsNew

\* What a document knows of an agent's keys it goes on knowing: new keys are younger.
LEMMA KnowsStays ==
  ASSUME KeysGrow, now \in Nat, NEW a \in Agents, NEW doc, NEW time \in Int, time <= now, Knows(a, doc, time, keys)
  PROVE  Knows(a, doc, time, keys')
<1> SUFFICES ASSUME NEW n \in DOMAIN keys'[a], keys'[a][n].at < time
             PROVE  n \in DOMAIN doc /\ doc[n] = keys'[a][n].gen
  BY DEF Knows
<1>1. ~(keys'[a][n].at \in Nat /\ keys'[a][n].at >= now)
  <2>1. PICK at : at = keys'[a][n].at
    OBVIOUS
  <2> QED
    BY <2>1
<1>2. n \in DOMAIN keys[a] /\ keys'[a][n].at = keys[a][n].at /\ keys'[a][n].gen = keys[a][n].gen
  BY <1>1 DEF KeysGrow
<1> QED
  BY <1>2 DEF Knows

\* What a revocation that is under way is about to write for credential c.
Spares(q, c) == Head(q.todo) = "setRevoked" => (q.bits.of = ListOf(c) => c \in q.bits.set)

\* What is revoked for good stays revoked for good.
LEMMA SettledIs ==
  ASSUME DOMAIN req = Jobs, NEW c
  PROVE  c \in Settled <=> c \in revoked /\ c \in DOMAIN creds /\ \A r \in Jobs : req[r] # None => Spares(req[r], c)
BY DEF Settled, At, Active, Doing, Spares

\* A request about to write has read what was revoked of the list, ...
LEMMA BitsRead ==
  ASSUME RequestsInv, NEW r \in Jobs, Telling(r), req'[r] # None, Head(req'[r].todo) = "setRevoked"
  PROVE  req'[r].bits = Bits(req[r].cred)
<1>1. ReadBits(r)
  BY WhoPrepares
<1>2. ~Moves(r)
  BY DEF Moves, Rests, Awaits
<1> DEFINE q == [req[r] EXCEPT !.bits = Bits(req[r].cred)]
<1>3. DOMAIN req[r] = Fields /\ Lands(r, q)
  BY <1>1, <1>2, ReadBitsLands
<1>4. q.bits = Bits(req[r].cred)
  BY <1>3, FieldsAre
<1> HIDE DEF q
<1> QED
  BY <1>3, <1>4, LandsOn DEF Left

\* ... and spares it.
LEMMA ReaderSpares ==
  ASSUME RequestsInv, NEW r \in Jobs, Telling(r), req'[r] # None, NEW c \in revoked
  PROVE  Spares(req'[r], c)
<1> SUFFICES ASSUME Head(req'[r].todo) = "setRevoked", req'[r].bits.of = ListOf(c)
             PROVE  c \in req'[r].bits.set
  BY DEF Spares
<1> DEFINE S == {d \in revoked : ListOf(d) = ListOf(req[r].cred)}
<1>1. req'[r].bits = [of |-> ListOf(req[r].cred), set |-> S]
  BY BitsRead DEF Bits
<1>2. req'[r].bits.of = ListOf(req[r].cred) /\ req'[r].bits.set = S
  BY <1>1
<1> QED
  BY <1>2

\* A write keeps the bits that were there when its request read them, and those of other lists.
LEMMA WriteKeeps ==
  ASSUME NEW r \in Jobs, SetRevoked(r), NEW c \in revoked, Spares(req[r], c)
  PROVE  c \in revoked'
<1>1. Head(req[r].todo) = "setRevoked"
  BY DEF SetRevoked, Ready, Doing
<1>2. UNCHANGED revoked \/ revoked' = Written(req[r].cred, req[r].bits)
  BY DEF SetRevoked, registryVars
<1> QED
  BY <1>1, <1>2 DEF Spares, Written

\* So what is revoked for good stays so in every step that keeps credentials and others' requests.
LEMMA SettledLasts ==
  ASSUME RequestsInv, NEW r \in Jobs, DOMAIN req' = Jobs, \A s \in Jobs : s # r => Kept(s),
         DOMAIN creds \subseteq DOMAIN creds', \A c \in DOMAIN creds : Lasting(creds[c], creds'[c]),
         UNCHANGED revoked \/ SetRevoked(r),
         \A c \in revoked : req'[r] # None => Spares(req'[r], c)
  PROVE  Settled \subseteq Settled'
<1> SUFFICES ASSUME NEW c \in Settled PROVE c \in Settled'
  OBVIOUS
<1>1. c \in revoked /\ c \in DOMAIN creds /\ \A s \in Jobs : req[s] # None => Spares(req[s], c)
  BY SettledIs DEF RequestsInv
<1>2. c \in revoked'
  <2>1. CASE SetRevoked(r)
    <3>1. req[r] # None
      BY <2>1 DEF SetRevoked, Ready
    <3> QED
      BY <1>1, <2>1, <3>1, WriteKeeps
  <2> QED
    BY <1>1, <2>1
<1>3. c \in DOMAIN creds' /\ ListOf(c)' = ListOf(c)
  BY <1>1 DEF Lasting, ListOf
<1>4. ASSUME NEW s \in Jobs, req'[s] # None PROVE Spares(req'[s], c)
  <2>1. CASE s = r
    BY <1>1, <1>4, <2>1
  <2>2. CASE s # r
    <3>1. req[s] # None /\ Left(req[s], req'[s]) /\ req'[s].todo = req[s].todo
      BY <1>4, <2>2 DEF Kept
    <3> QED
      BY <1>1, <3>1 DEF Left, Spares
  <2> QED
    BY <2>1, <2>2
<1>5. \A s \in Jobs : req'[s] # None => (Spares(req[s], c))'
  BY <1>3, <1>4 DEF Spares
<1> QED
  BY <1>2, <1>3, <1>5 DEF Settled, At, Active, Doing, Spares

\* Credentials stay, what is revoked for good stays so, time does not go back.
Grows ==
  /\ KeysGrow /\ now \in Nat /\ now' \in Nat /\ now <= now' /\ Settled \subseteq Settled'
  /\ DOMAIN creds \subseteq DOMAIN creds' /\ \A c \in DOMAIN creds : creds[c].exp \in Nat /\ creds'[c].exp = creds[c].exp

\* What a request knows it goes on knowing, ...
LEMMA CheckedStays ==
  ASSUME Grows, NEW q, NEW t, Checked(q, t, creds, Settled, keys, now),
         Head(t) \in {"fetch", "set"} => now' <= q.since + FetchTime
  PROVE  Checked(q, t, creds', Settled', keys', now')
<1>1. Placed(q, t) /\ About(q, creds, Settled, now) /\ Informs(q, t, keys) /\ Timely(q, t, now)
  BY DEF Checked
<1>2. About(q, creds', Settled', now')
  <2>1. q.cred \in DOMAIN creds /\ q.cred \in DOMAIN creds' /\ creds'[q.cred].exp = creds[q.cred].exp
    BY <1>1 DEF About, Grows
  <2>2. creds[q.cred].exp # 0 /\ now >= creds[q.cred].exp => now' >= creds[q.cred].exp
    BY <2>1 DEF Grows
  <2> QED
    BY <1>1, <2>1, <2>2 DEF About, Grows
<1>3. Timely(q, t, now')
  BY <1>1 DEF Timely, Grows
<1>4. Informs(q, t, keys')
  <2> SUFFICES ASSUME Head(t) = "set" PROVE q.seen \in Seq(Nat) /\ Knows(q.did, q.seen, q.since, keys')
    BY DEF Informs
  <2>1. q.seen \in Seq(Nat) /\ Knows(q.did, q.seen, q.since, keys) /\ q.since \in Nat /\ q.since <= now /\ q.did \in Agents
    BY <1>1 DEF Informs, Timely, About
  <2>2. PICK time : time = q.since
    OBVIOUS
  <2> QED
    BY <2>1, <2>2, KnowsStays DEF Grows
<1> QED
  BY <1>1, <1>2, <1>3, <1>4 DEF Checked

\* ... and so does the cache.
LEMMA EntriesStay ==
  ASSUME Grows
  PROVE  Entries(keys, now) \subseteq Entries(keys', now')
<1> SUFFICES ASSUME NEW e \in Entries(keys, now) PROVE e \in Entries(keys', now')
  OBVIOUS
<1>1. e \in [did : Agents, doc : Seq(Nat), at : Nat] /\ e.at <= now /\ Knows(e.did, e.doc, e.at - FetchTime, keys)
  BY DEF Entries
<1>2. e.did \in Agents /\ e.at \in Nat /\ FetchTime \in Nat
  BY <1>1, BackendAssumption
<1>3. PICK time : time = e.at - FetchTime
  OBVIOUS
<1>4. time \in Int /\ time <= now
  BY <1>1, <1>2, <1>3 DEF Grows
<1>5. Knows(e.did, e.doc, time, keys')
  BY <1>1, <1>2, <1>3, <1>4, KnowsStays DEF Grows
<1>6. e.at <= now'
  BY <1>1, <1>2 DEF Grows
<1> QED
  BY <1>1, <1>3, <1>5, <1>6 DEF Entries

\* Rows grow in every step, ...
LEMMA StepGrows ==
  ASSUME RequestsInv, KeysInv, AttestInv, NEW r \in Jobs, Step(r)
  PROVE  Grows
<1>1. now' = now /\ (UNCHANGED revoked \/ SetRevoked(r))
  BY StepConfined DEF Confined
<1>2. now \in Nat /\ \A c \in DOMAIN creds : creds[c].exp \in Nat
  BY DEF KeysInv, RowsInv, AttestInv, CredsInv, Sound
<1>3. CASE Calm(r)
  <2>1. Settles(r) /\ UNCHANGED <<keys, creds>>
    BY <1>3 DEF Calm
  <2>2. \A c \in revoked : req'[r] # None => Spares(req'[r], c)
    BY <2>1 DEF Settles, Rests, Awaits, Spares
  <2>3. \A c \in DOMAIN creds : Lasting(creds[c], creds'[c])
    BY <2>1 DEF Lasting
  <2>4. Settled \subseteq Settled'
    BY <1>1, <2>1, <2>2, <2>3, SettledLasts DEF Settles
  <2> QED
    BY <1>1, <1>2, <2>1, <2>4 DEF Grows, KeysGrow
<1>4. CASE Telling(r)
  <2>1. CredsEvolve /\ Only(r) /\ KeysGrow
    BY <1>4, CredsStep, TellingKeeps, StepKeys
  <2>2. \A s \in Jobs : s # r => Kept(s)
    BY <2>1, OnlyKept
  <2>3. \A c \in revoked : req'[r] # None => Spares(req'[r], c)
    BY <1>4, ReaderSpares
  <2>4. Settled \subseteq Settled'
    BY <1>1, <2>1, <2>2, <2>3, SettledLasts DEF CredsEvolve, Only
  <2> QED
    BY <1>1, <1>2, <2>1, <2>4 DEF Grows, CredsEvolve, Lasting
<1> QED
  BY <1>3, <1>4, StepCases

\* ... when a request arrives, and as time passes.
LEMMA OthersGrow ==
  ASSUME RequestsInv, load \in Loads, KeysInv, AttestInv, Tick \/ \E r \in Jobs : Arrive(r)
  PROVE  Grows
<1>1. now \in Nat /\ \A c \in DOMAIN creds : creds[c].exp \in Nat
  BY DEF KeysInv, RowsInv, AttestInv, CredsInv, Sound
<1>2. UNCHANGED <<keys, creds, revoked>> /\ (now' = now \/ now' = now + 1)
  BY DEF Tick, Arrive, registryVars
<1>3. CASE Tick
  <2>1. req' = req
    BY <1>3 DEF Tick, requestVars
  <2>2. Settled' = Settled
    BY <1>2, <2>1 DEF Settled, At, Active, Doing, ListOf
  <2> QED
    BY <1>1, <1>2, <2>2 DEF Grows, KeysGrow
<1>4. ASSUME NEW r \in Jobs, Arrive(r) PROVE Grows
  <2>1. Settles(r)
    BY <1>4, ArriveSettles
  <2>2. \A c \in revoked : req'[r] # None => Spares(req'[r], c)
    BY <2>1 DEF Settles, Rests, Awaits, Spares
  <2>3. \A c \in DOMAIN creds : Lasting(creds[c], creds'[c])
    BY <1>2 DEF Lasting
  <2>4. Settled \subseteq Settled'
    BY <1>2, <2>1, <2>2, <2>3, SettledLasts DEF Settles
  <2> QED
    BY <1>1, <1>2, <2>4 DEF Grows, KeysGrow
<1> QED
  BY <1>3, <1>4

(***************************************************************************)
(* Verification: the peer's cache.                                         *)
(***************************************************************************)

\* What is left of a cache without a document, ...
LEMMA WithoutIs ==
  ASSUME NEW E, NEW c \in Seq(E), NEW did
  PROVE  Without(c, did) \in Seq(E)
<1>1. CASE EntriesOf(c, did) = {}
  BY <1>1 DEF Without
<1>2. CASE EntriesOf(c, did) # {}
  <2>1. PICK i : i = CHOOSE j \in EntriesOf(c, did) : TRUE
    OBVIOUS
  <2>2. i \in 1..Len(c) /\ Len(c) \in Nat
    BY <1>2, <2>1 DEF EntriesOf
  <2>3. SubSeq(c, 1, i - 1) \in Seq(E) /\ SubSeq(c, i + 1, Len(c)) \in Seq(E)
    BY <2>2
  <2>4. RemoveAt(c, i) \in Seq(E)
    BY <2>3 DEF RemoveAt
  <2> QED
    BY <1>2, <2>1, <2>4 DEF Without
<1> QED
  BY <1>1, <1>2

\* ... of one that was read, ...
LEMMA AfterGetIs ==
  ASSUME NEW E, NEW c \in Seq(E), NEW did, NEW time
  PROVE  AfterGet(c, did, time) \in Seq(E)
<1>1. Without(c, did) \in Seq(E)
  BY WithoutIs
<1>2. CASE Hits(c, did, time) = {}
  BY <1>1, <1>2 DEF AfterGet
<1>3. CASE Hits(c, did, time) # {}
  <2>1. PICK i : i = CHOOSE j \in Hits(c, did, time) : TRUE
    OBVIOUS
  <2>2. c[i] \in E
    BY <1>3, <2>1 DEF Hits, EntriesOf
  <2>3. <<c[i]>> \in Seq(E)
    BY <2>2
  <2>4. AfterGet(c, did, time) = Without(c, did) \o <<c[i]>>
    BY <1>3, <2>1 DEF AfterGet
  <2> QED
    BY <1>1, <2>3, <2>4
<1> QED
  BY <1>2, <1>3

\* ... and of one that got a document.
LEMMA AfterSetIs ==
  ASSUME NEW E, NEW c \in Seq(E), NEW did, NEW doc, NEW time, Entry(did, doc, time) \in E
  PROVE  AfterSet(c, did, doc, time) \in Seq(E)
<1>1. PICK all : all = Append(Without(c, did), Entry(did, doc, time))
  OBVIOUS
<1>2. Without(c, did) \in Seq(E)
  BY WithoutIs
<1>3. all \in Seq(E) /\ all # <<>>
  BY <1>1, <1>2
<1>4. Tail(all) \in Seq(E)
  BY <1>3
<1> QED
  BY <1>1, <1>3, <1>4 DEF AfterSet

\* A peer caches what it has fetched, and what it has fetched is not older than the fetch.
LEMMA SetCaches ==
  ASSUME RequestsInv, KeysInv, CheckInv, NEW r \in Jobs, Set(r)
  PROVE  Entry(req[r].did, req[r].seen, now) \in Entries(keys, now)
<1> DEFINE q == req[r]
<1>1. q # None /\ Head(q.todo) = "set"
  BY DEF Set, Ready, Doing
<1>2. q.kind = "peer"
  BY <1>1 DEF RequestsInv, Request, PeerSteps
<1>3. Verifies(r)
  BY <1>1, <1>2 DEF Verifies, Verifying
<1>4. q.did \in Agents /\ q.seen \in Seq(Nat) /\ Knows(q.did, q.seen, q.since, keys)
  BY <1>1, <1>3, Underway DEF About, Informs
<1>5. q.since \in Nat /\ now <= q.since + FetchTime
  BY <1>1, <1>3, Underway DEF Timely
<1>6. now \in Nat /\ FetchTime \in Nat /\ \A n \in DOMAIN keys[q.did] : keys[q.did][n].at \in Nat
  <2>1. PICK ks : ks = keys[q.did]
    OBVIOUS
  <2>2. ks \in Seq(KeyRecord)
    BY <1>4, <2>1 DEF KeysInv, RowsInv
  <2>3. \A n \in DOMAIN ks : ks[n] \in KeyRecord
    BY <2>2
  <2>4. \A n \in DOMAIN ks : ks[n].at \in Nat
    BY <2>3 DEF KeyRecord
  <2> QED
    BY <2>1, <2>4, BackendAssumption DEF KeysInv, RowsInv
<1> HIDE DEF q
<1>7. PICK since : since = q.since
  OBVIOUS
<1>8. now - FetchTime <= since /\ since \in Nat
  BY <1>5, <1>6, <1>7
<1>9. Knows(q.did, q.seen, now - FetchTime, keys)
  <2> SUFFICES ASSUME NEW n \in DOMAIN keys[q.did], keys[q.did][n].at < now - FetchTime
               PROVE  n \in DOMAIN q.seen /\ q.seen[n] = keys[q.did][n].gen
    BY DEF Knows
  <2>1. PICK at : at = keys[q.did][n].at
    OBVIOUS
  <2>2. at < since
    BY <1>6, <1>8, <2>1
  <2> QED
    BY <1>4, <1>7, <2>1, <2>2 DEF Knows
<1> DEFINE e == Entry(q.did, q.seen, now)
<1>10. e \in [did : Agents, doc : Seq(Nat), at : Nat] /\ e.did = q.did /\ e.doc = q.seen /\ e.at = now
  BY <1>4, <1>6 DEF Entry
<1> HIDE DEF e
<1>11. e \in Entries(keys, now)
  BY <1>6, <1>9, <1>10 DEF Entries
<1> QED
  BY <1>11 DEF e, q

\* So the cache keeps its entries.
LEMMA CacheStep ==
  ASSUME RequestsInv, KeysInv, CheckInv, NEW r \in Jobs, Step(r)
  PROVE  cache' \in Seq(Entries(keys, now))
<1>1. cache \in Seq(Entries(keys, now))
  BY DEF CheckInv
<1> DEFINE E == Entries(keys, now)
<1> HIDE DEF E
<1>2. cache \in Seq(E)
  BY <1>1 DEF E
<1>3. CASE Get(r)
  <2>1. cache' = AfterGet(cache, req[r].did, now)
    BY <1>3 DEF Get
  <2> QED
    BY <1>2, <2>1, AfterGetIs DEF E
<1>4. CASE Set(r)
  <2>1. cache' = AfterSet(cache, req[r].did, req[r].seen, now)
    BY <1>4 DEF Set
  <2>2. Entry(req[r].did, req[r].seen, now) \in E
    BY <1>4, SetCaches DEF E
  <2> QED
    BY <1>2, <2>1, <2>2, AfterSetIs DEF E
<1>5. CASE Flush(r)
  BY <1>5 DEF Flush
<1> QED
  BY <1>1, <1>3, <1>4, <1>5, StepConfined

(***************************************************************************)
(* Verification: verdicts have a cause.                                    *)
(***************************************************************************)

\* Nothing else of a request matters for what it knows.
LEMMA CheckedAlike ==
  ASSUME NEW q, NEW p, NEW t, NEW cs, NEW rv, NEW ks, NEW time, Checked(q, t, cs, rv, ks, time),
         p.kind = q.kind, p.bit = q.bit, p.void = q.void, p.code = q.code, p.cred = q.cred,
         p.did = q.did, p.score = q.score, p.since = q.since, p.seen = q.seen
  PROVE  Checked(p, t, cs, rv, ks, time)
<1>1. Placed(q, t) /\ About(q, cs, rv, time) /\ Informs(q, t, ks) /\ Timely(q, t, time)
  BY DEF Checked
<1>2. Placed(p, t)
  BY <1>1 DEF Placed
<1>3. About(p, cs, rv, time)
  BY <1>1 DEF About
<1>4. Informs(p, t, ks) /\ Timely(p, t, time)
  BY <1>1 DEF Informs, Timely
<1> QED
  BY <1>2, <1>3, <1>4 DEF Checked

\* While no time passes, what a request knows it goes on knowing.
LEMMA CheckedMeanwhile ==
  ASSUME Grows, now' = now, NEW q, NEW t, Checked(q, t, creds, Settled, keys, now)
  PROVE  Checked(q, t, creds', Settled', keys', now')
<1>1. Head(t) \in {"fetch", "set"} => now' <= q.since + FetchTime
  BY DEF Checked, Timely
<1> QED
  BY <1>1, CheckedStays

\* What a verification knows when it comes.
LEMMA ComesChecked ==
  ASSUME AttestInv, NEW job, job.kind \in Verifying, NEW t, NEW q \in Arguments(job, t)
  PROVE  /\ q.kind = job.kind /\ DOMAIN q = Fields /\ q.bit = None /\ q.code = "ok" /\ q.score = 0
         /\ q.cred \in DOMAIN creds /\ q.did \in Agents /\ (q.void => q.cred \in Settled)
<1> DEFINE b == [Blank EXCEPT !.kind = job.kind, !.tenant = t]
<1>1. DOMAIN b = Fields /\ b.kind = job.kind /\ b.bit = None /\ b.code = "ok" /\ b.score = 0
  <2>1. DOMAIN Blank = Fields /\ Blank.bit = None /\ Blank.code = "ok" /\ Blank.score = 0
    BY DEF Fields, Blank
  <2> QED
    BY <2>1, FieldsAre
<1>2. job.kind \in {"revoke", "verify", "score", "peer"} /\ job.kind \notin {"rotate", "profile", "issue", "attest"}
  BY DEF Verifying
<1>3. q \in {[b EXCEPT !.cred = c, !.did = creds[c].issuer, !.agent = creds[c].issuer,
                  !.subject = creds[c].subject,
                  !.sig = [kid |-> creds[c].kid, gen |-> creds[c].gen],
                  !.void = c \in Settled] : c \in {c \in Creds : Given(c)}}
  BY <1>2 DEF Arguments
<1> HIDE DEF b
<1>4. PICK c \in Creds : /\ Given(c)
                         /\ q = [b EXCEPT !.cred = c, !.did = creds[c].issuer, !.agent = creds[c].issuer,
                                  !.subject = creds[c].subject,
                                  !.sig = [kid |-> creds[c].kid, gen |-> creds[c].gen],
                                  !.void = c \in Settled]
  BY <1>3
<1>5. c \in DOMAIN creds /\ creds[c].issuer \in Agents
  BY <1>4 DEF Given, AttestInv, CredsInv, Sound
<1> QED
  BY <1>1, <1>4, <1>5, FieldsAre

\* It starts with the script of its kind, before the status list is read.
LEMMA ComesEarly ==
  ASSUME NEW k \in Verifying
  PROVE  Early(k, Handlers[k]) /\ Head(Handlers[k]) \notin {"fetch", "set"}
<1> DEFINE h == Handlers[k]
           v == Ahead(k, 1)
<1>1. h \in Seq(Steps) /\ h[1] = Look(k) /\ Len(h) \in Nat /\ Len(h) >= 4
  BY HandlersOpen DEF Opens
<1>2. v \in Seq(Steps) /\ Len(v) = Len(h) - 1 + 1 /\ \A i \in 1..Len(v) : v[i] = h[1 + i - 1]
  <2>1. 1 \in 1..Len(h) + 1
    BY <1>1
  <2> QED
    BY <2>1, AheadIs
<1>3. Early(k, v) /\ Head(v) = Look(k)
  BY FirstFour DEF Early
<1> HIDE DEF h, v
<1>4. Len(v) = Len(h) /\ \A i \in 1..Len(h) : v[i] = h[i]
  BY <1>1, <1>2
<1>5. v = h
  BY <1>1, <1>2, <1>4
<1> QED
  BY <1>3, <1>5 DEF h, Look

\* A request that arrives leaves the others as they are, and knows what it is about.
LEMMA ArriveChecks ==
  ASSUME RequestsInv, load \in Loads, KeysInv, AttestInv, CheckInv, NEW r \in Jobs, Arrive(r)
  PROVE  CheckInv'
<1> DEFINE job == load.jobs[r]
           token == Tokens[job.as]
<1>1. job.kind \in Kinds /\ job.ttl \in Nat /\ TenantOf(token) \in Tenants
  <2>1. r \in DOMAIN load.jobs
    BY DEF Arrive, Coming
  <2> QED
    BY <2>1, BackendAssumption DEF Kinds
<1>2. req[r] = None /\ out[r] = None
  BY DEF Arrive, Coming, Arrived
<1>3. UNCHANGED <<keys, creds, revoked, cache, now>>
  BY DEF Arrive, registryVars, sideVars
<1>4. \/ req' = req /\ \E c : out' = [out EXCEPT ![r] = c]
      \/ \E q \in Arguments(job, TenantOf(token)) : Begin(r, q)
  BY DEF Arrive, TurnAway
<1>5. DOMAIN out' = Jobs /\ \A s \in Jobs : s # r => out'[s] = out[s]
  BY <1>4 DEF Begin, CheckInv
<1>6. ASSUME \A s \in Jobs : req'[s] # None /\ req'[s].kind \in Verifying =>
                out'[s] = None /\ Checked(req'[s], req'[s].todo, creds, Settled, keys, now)
      PROVE  CheckInv'
  <2>1. Grows /\ now' = now
    BY <1>3, OthersGrow
  <2>2. \A s \in Jobs : req'[s] # None /\ req'[s].kind \in Verifying =>
          out'[s] = None /\ Checked(req'[s], req'[s].todo, creds', Settled', keys', now')
    BY <1>6, <2>1, CheckedMeanwhile
  <2> QED
    BY <1>3, <1>5, <2>2 DEF CheckInv, Verifies
<1>7. CASE req' = req
  <2> SUFFICES ASSUME NEW s \in Jobs, req'[s] # None, req'[s].kind \in Verifying
               PROVE  out'[s] = None /\ Checked(req'[s], req'[s].todo, creds, Settled, keys, now)
    BY <1>6
  <2>1. s # r /\ Verifies(s) /\ req'[s] = req[s]
    BY <1>2, <1>7 DEF Verifies
  <2> QED
    BY <1>5, <2>1 DEF CheckInv
<1>8. ASSUME NEW q \in Arguments(job, TenantOf(token)), Begin(r, q) PROVE CheckInv'
  <2> SUFFICES ASSUME NEW s \in Jobs, req'[s] # None, req'[s].kind \in Verifying
               PROVE  out'[s] = None /\ Checked(req'[s], req'[s].todo, creds, Settled, keys, now)
    BY <1>6
  <2> DEFINE p == [q EXCEPT !.alone = Active = {}, !.todo = Handlers[q.kind]]
  <2>1. /\ req' = [x \in Jobs |-> IF x = r THEN p ELSE IF x \in Active THEN Overlapping(req[x]) ELSE None]
        /\ out' = out
    BY <1>8 DEF Begin
  <2>2. CASE s = r
    <3> HIDE DEF job, token
    <3>1. DOMAIN q = Fields /\ q.kind = job.kind
      BY <1>1, ArgumentsAre
    <3>2. /\ p.kind = q.kind /\ p.todo = Handlers[q.kind] /\ p.bit = q.bit /\ p.code = q.code /\ p.score = q.score
          /\ p.cred = q.cred /\ p.did = q.did /\ p.void = q.void
      BY <3>1, FieldsAre
    <3> HIDE DEF p
    <3>3. req'[r] = p /\ out'[r] = None
      BY <1>2, <2>1
    <3>4. job.kind \in Verifying
      BY <2>2, <3>1, <3>2, <3>3
    <3>5. /\ q.bit = None /\ q.code = "ok" /\ q.score = 0 /\ q.cred \in DOMAIN creds /\ q.did \in Agents
          /\ (q.void => q.cred \in Settled)
      BY <3>4, ComesChecked
    <3>6. Early(p.kind, p.todo) /\ Head(p.todo) \notin {"fetch", "set"}
      BY <3>1, <3>2, <3>4, ComesEarly
    <3>7. Placed(p, p.todo)
      BY <3>2, <3>5, <3>6 DEF Placed
    <3>8. About(p, creds, Settled, now)
      BY <3>2, <3>5 DEF About
    <3>9. Informs(p, p.todo, keys) /\ Timely(p, p.todo, now)
      BY <3>6 DEF Informs, Timely
    <3> QED
      BY <2>2, <3>3, <3>7, <3>8, <3>9 DEF Checked
  <2>3. CASE s # r
    <3> DEFINE o == Overlapping(req[s])
    <3>1. req[s] # None /\ req'[s] = o
      BY <2>1, <2>3 DEF Active
    <3>2. DOMAIN req[s] = Fields
      BY <3>1 DEF RequestsInv, Request
    <3>3. /\ o.kind = req[s].kind /\ o.bit = req[s].bit /\ o.void = req[s].void /\ o.code = req[s].code
          /\ o.cred = req[s].cred /\ o.did = req[s].did /\ o.score = req[s].score /\ o.since = req[s].since
          /\ o.seen = req[s].seen /\ o.todo = req[s].todo
      BY <3>2, FieldsAre DEF Overlapping
    <3> HIDE DEF o
    <3>4. Verifies(s)
      BY <3>1, <3>3 DEF Verifies
    <3>5. out[s] = None /\ Checked(req[s], req[s].todo, creds, Settled, keys, now)
      BY <3>4 DEF CheckInv
    <3>6. Checked(o, req[s].todo, creds, Settled, keys, now)
      BY <3>3, <3>5, CheckedAlike
    <3> QED
      BY <2>1, <3>1, <3>3, <3>5, <3>6
  <2> QED
    BY <2>2, <2>3
<1> QED
  BY <1>4, <1>7, <1>8

\* As time passes, no fetch gets too old.
LEMMA TickChecks ==
  ASSUME RequestsInv, load \in Loads, KeysInv, AttestInv, CheckInv, Tick
  PROVE  CheckInv'
<1>1. Grows /\ now \in Nat /\ FetchTime \in Nat
  BY OthersGrow, BackendAssumption DEF KeysInv, RowsInv
<1>2. UNCHANGED <<req, out, cache>> /\ now' = now + 1
  BY DEF Tick, requestVars, sideVars
<1>3. cache' \in Seq(Entries(keys', now'))
  BY <1>1, <1>2, EntriesStay DEF CheckInv
<1>4. ASSUME NEW s \in Jobs, Verifies(s)
      PROVE  out[s] = None /\ Checked(req[s], req[s].todo, creds', Settled', keys', now')
  <2>1. out[s] = None /\ Checked(req[s], req[s].todo, creds, Settled, keys, now)
    BY <1>4 DEF CheckInv
  <2>2. Head(req[s].todo) \in {"fetch", "set"} => now' <= req[s].since + FetchTime
    <3> SUFFICES ASSUME Head(req[s].todo) \in {"fetch", "set"} PROVE now' <= req[s].since + FetchTime
      OBVIOUS
    <3>1. s \in At("fetch") \cup At("set")
      BY <1>4 DEF At, Active, Doing, Verifies
    <3>2. now - req[s].since < FetchTime
      BY <3>1 DEF Tick
    <3>3. req[s].since \in Nat
      BY <2>1 DEF Checked, Timely
    <3>4. PICK since : since = req[s].since
      OBVIOUS
    <3>5. now + 1 <= since + FetchTime
      BY <1>1, <3>2, <3>3, <3>4
    <3> QED
      BY <1>2, <3>4, <3>5
  <2> QED
    BY <1>1, <2>1, <2>2, CheckedStays
<1> QED
  BY <1>2, <1>3, <1>4 DEF CheckInv, Verifies

\* Only a request under way has a step to do.
LEMMA StepOfActive ==
  ASSUME NEW r \in Jobs, Step(r)
  PROVE  req[r] # None
<1> SUFFICES ASSUME req[r] = None PROVE FALSE
  OBVIOUS
<1>0. ~TimeOut(r) /\ \A step : ~Ready(r, step)
  BY DEF TimeOut, Ready
<1>1. ~(ReadNewest(r) \/ Stamp(r) \/ AppendEvent(r) \/ EnsureTenant(r) \/ InsertAgent(r) \/ ReadKeys(r) \/ Rotate(r))
  BY <1>0 DEF ReadNewest, Stamp, AppendEvent, EnsureTenant, InsertAgent, ReadKeys, Rotate
<1>2. ~(FindHolder(r) \/ Register(r) \/ Refetch(r) \/ Allocate(r) \/ FindIssuer(r) \/ Sign(r) \/ Store(r))
  BY <1>0 DEF FindHolder, Register, Refetch, Allocate, FindIssuer, Sign, Store
<1>3. ~(FindCred(r) \/ ReadBits(r) \/ SetRevoked(r) \/ Resolve(r) \/ ReadList(r) \/ EnsureIssuer(r) \/ MakeIssuer(r))
  BY <1>0 DEF FindCred, ReadBits, SetRevoked, Resolve, ReadList, EnsureIssuer, MakeIssuer
<1>4. ~(Get(r) \/ Fetch(r) \/ Set(r) \/ Flush(r) \/ ReadIssuer(r) \/ ReadHistory(r) \/ Record(r))
  BY <1>0 DEF Get, Fetch, Set, Flush, ReadIssuer, ReadHistory, Record
<1>5. ~(ReadEvents(r) \/ ReadAgents(r) \/ ReadBoard(r) \/ CountRows(r) \/ CheckCred(r) \/ CountEvents(r))
  BY <1>0 DEF ReadEvents, ReadAgents, ReadBoard, CountRows, CheckCred, CountEvents
<1>6. ~(WalkChain(r) \/ Reply(r) \/ DeleteCreds(r) \/ DeleteRest(r) \/ InsertHook(r) \/ DropHook(r) \/ FindHook(r))
  BY <1>0 DEF WalkChain, Reply, DeleteCreds, DeleteRest, InsertHook, DropHook, FindHook
<1>7. ~(Dispatch(r) \/ CheckEmpty(r) \/ SeedAgents(r) \/ SeedCreds(r) \/ SeedRevoked(r))
  BY <1>0 DEF Dispatch, CheckEmpty, SeedAgents, SeedCreds, SeedRevoked
<1>8. ~(SeedTree(r) \/ SeedIntent(r) \/ SeedCart(r) \/ Spend(r) \/ SeedTrustEvents(r) \/ Expire(r))
  BY <1>0 DEF SeedTree, SeedIntent, SeedCart, Spend, SeedTrustEvents, Expire
<1> QED
  BY <1>1, <1>2, <1>3, <1>4, <1>5, <1>6, <1>7, <1>8, Zenon DEF Step

\* Every step of a request keeps it, too.
LEMMA StepChecks ==
  ASSUME RequestsInv, KeysInv, AttestInv, CheckInv, NEW r \in Jobs, Step(r)
  PROVE  CheckInv'
<1>1. Grows /\ now' = now /\ Ends(r)
  BY StepGrows, StepConfined DEF Confined
<1>2. DOMAIN out' = Jobs /\ \A s \in Jobs : s # r => out'[s] = out[s]
  BY <1>1 DEF Ends, CheckInv
<1>3. cache' \in Seq(Entries(keys', now'))
  <2>1. cache' \in Seq(Entries(keys, now)) /\ Entries(keys, now) \subseteq Entries(keys', now')
    BY <1>1, CacheStep, EntriesStay
  <2> QED
    BY <2>1
<1>4. Only(r) /\ (req'[r] # None => req'[r].kind = req[r].kind)
  BY StepKeeps
<1>5. ASSUME NEW s \in Jobs, req'[s] # None, req'[s].kind \in Verifying
      PROVE  out'[s] = None /\ Checked(req'[s], req'[s].todo, creds', Settled', keys', now')
  <2>1. CASE s = r
    <3>1. req[r] # None
      BY StepOfActive
    <3>2. Judged(r)
      BY <1>4, <1>5, <2>1, <3>1, StepJudged DEF Verifies
    <3>3. out'[s] = None /\ Checked(req'[s], req'[s].todo, creds, Settled, keys, now)
      BY <1>5, <2>1, <3>2 DEF Judged
    <3> QED
      BY <1>1, <3>3, CheckedMeanwhile
  <2>2. CASE s # r
    <3>1. req'[s] = req[s] /\ out'[s] = out[s] /\ Verifies(s)
      BY <1>2, <1>4, <1>5, <2>2 DEF Only, Verifies
    <3>2. out[s] = None /\ Checked(req[s], req[s].todo, creds, Settled, keys, now)
      BY <3>1 DEF CheckInv
    <3> QED
      BY <1>1, <3>1, <3>2, CheckedMeanwhile
  <2> QED
    BY <2>1, <2>2
<1> QED
  BY <1>2, <1>3, <1>5 DEF CheckInv, Verifies

\* Every step keeps what verdicts rest on.
LEMMA CheckStep ==
  ASSUME RequestsInv, load \in Loads, KeysInv, AttestInv, CheckInv, [Next]_vars
  PROVE  CheckInv'
<1>1. CASE UNCHANGED vars
  <2>1. UNCHANGED <<req, out, cache, keys, creds, revoked, now>>
    BY <1>1 DEF vars, requestVars, registryVars, arrivalVars, sideVars
  <2>2. Settled' = Settled
    BY <2>1 DEF Settled, At, Active, Doing, ListOf
  <2> QED
    BY <2>1, <2>2 DEF CheckInv, Verifies
<1> QED
  BY <1>1, TickChecks, ArriveChecks, StepChecks DEF Next

\* The state a load starts with.
LEMMA InitChecks ==
  ASSUME Init
  PROVE  CheckInv
<1>1. KeysInv /\ (\A r \in Jobs : req[r] = None) /\ DOMAIN out = Jobs /\ now = 0
  BY InitRows DEF Init
<1>2. 1 \in Agents /\ StatusIssuer \in Agents /\ FetchTime \in Nat
  BY BackendAssumption, RegistryAssumption
<1>3. ASSUME NEW a \in Agents PROVE Entry(a, Document(a), 0) \in Entries(keys, now)
  <2>1. PICK ks : ks = keys[a]
    OBVIOUS
  <2>2. ks \in Seq(KeyRecord)
    BY <1>1, <2>1 DEF KeysInv, RowsInv
  <2>3. Len(ks) \in Nat /\ DOMAIN ks = 1..Len(ks) /\ \A n \in DOMAIN ks : ks[n].at \in Nat /\ ks[n].gen \in Nat
    <3>1. Len(ks) \in Nat /\ DOMAIN ks = 1..Len(ks) /\ \A n \in DOMAIN ks : ks[n] \in KeyRecord
      BY <2>2
    <3>2. \A k \in KeyRecord : k.at \in Nat /\ k.gen \in Nat
      BY DEF KeyRecord
    <3> QED
      BY <3>1, <3>2
  <2>4. DidDocument(ks) \in Seq(Nat)
    BY <2>3 DEF DidDocument
  <2>5. PICK doc : doc = Document(a)
    OBVIOUS
  <2>6. doc \in Seq(Nat)
    BY <2>1, <2>4, <2>5 DEF Document
  <2>7. Knows(a, doc, 0 - FetchTime, keys)
    <3> SUFFICES ASSUME NEW n \in DOMAIN keys[a], keys[a][n].at < 0 - FetchTime PROVE FALSE
      BY DEF Knows
    <3>1. PICK at : at = keys[a][n].at
      OBVIOUS
    <3>2. at \in Nat
      BY <2>1, <2>3, <3>1
    <3> QED
      BY <1>2, <3>1, <3>2
  <2> DEFINE e == Entry(a, doc, 0)
  <2>8. e \in [did : Agents, doc : Seq(Nat), at : Nat] /\ e.did = a /\ e.doc = doc /\ e.at = 0
    BY <2>6 DEF Entry
  <2> HIDE DEF e
  <2>9. e \in Entries(keys, now)
    BY <1>1, <2>7, <2>8 DEF Entries
  <2> QED
    BY <2>5, <2>9 DEF e
<1>4. cache \in Seq(Entries(keys, now))
  <2> DEFINE x == Entry(StatusIssuer, Document(StatusIssuer), 0)
             y == Entry(1, Document(1), 0)
  <2>1. cache = IF load.settled THEN <<x, y>> ELSE <<>>
    BY DEF Init
  <2>2. x \in Entries(keys, now) /\ y \in Entries(keys, now)
    BY <1>2, <1>3
  <2> HIDE DEF x, y
  <2> QED
    BY <2>1, <2>2
<1> QED
  BY <1>1, <1>4 DEF CheckInv, Verifies

\* A request that is answered has done its last step.
LEMMA AnswerCaused ==
  ASSUME RequestsInv, KeysInv, CheckInv, Next, NEW r \in Jobs, Answered(r)
  PROVE  RejectedForCause(r) /\ RevokedForGood(r)
<1>1. CASE req[r].kind \notin Verifying
  BY <1>1 DEF Verifying, RejectedForCause, RevokedForGood
<1>2. CASE req[r].kind \in Verifying
  <2>1. Verifies(r) /\ out[r] = None /\ DOMAIN out = Jobs /\ out'[r] # None
    BY <1>2 DEF Verifies, Answered, CheckInv
  <2>2. ~Tick
    BY <2>1 DEF Tick, requestVars
  <2>3. ASSUME NEW s \in Jobs, Arrive(s) PROVE FALSE
    <3>1. s # r
      BY <2>1, <2>3 DEF Arrive, Coming, Arrived, Verifies
    <3>2. out' = out \/ \E c : out' = [out EXCEPT ![s] = c]
      BY <2>3 DEF Arrive, TurnAway, Begin
    <3> QED
      BY <2>1, <3>1, <3>2
  <2>4. ASSUME NEW s \in Jobs, Step(s) PROVE s = r
    BY <2>1, <2>4, StepConfined DEF Confined, Ends
  <2>5. Step(r)
    BY <2>2, <2>3, <2>4 DEF Next
  <2> QED
    BY <2>1, <2>5, StepJudged DEF Judged
<1> QED
  BY <1>1, <1>2

\* Whatever runs beside a verification, it never accepts what was revoked for good before
\* it began;
\* and a peer whose cached documents lag behind turns away only for a cause, never
\* for longer than the time to live and one fetch.
THEOREM VerdictsCaused == Spec => VerdictsHaveCause
<1> DEFINE Inv == RequestsInv /\ load \in Loads /\ KeysInv /\ AttestInv /\ CheckInv
<1>1. Init => Inv
  BY InitRows, InitAttests, InitChecks
<1>2. Inv /\ [Next]_vars => Inv'
  BY RequestsStep, KeysStep, AttestStep, CheckStep
<1>3. Inv /\ [Next]_vars => [\A r \in Jobs : Answered(r) => RejectedForCause(r) /\ RevokedForGood(r)]_vars
  BY AnswerCaused
<1> QED
  BY <1>1, <1>2, <1>3, PTL DEF Spec, VerdictsHaveCause
=============================================================================
