-------------------------- MODULE BackendTypesProofs --------------------------
(* What the backend's handlers store has its type, and their connections,  *)
(* requests and caches keep within their limits, for every value of the    *)
(* constants.                                                              *)
EXTENDS BackendProofs

-----------------------------------------------------------------------------
(***************************************************************************)
(* Types and limits                                                        *)
(*                                                                         *)
(* What a step uses was left by a step before it in the script, so a       *)
(* request's fields have the types that its next step needs.               *)
(***************************************************************************)

\* Step x may come right after step y, in a script of kind k.
Follows(k, y, x) ==
  /\ x \in OnOwn => y \notin Offline
  /\ x = "findIssuer" => y = "allocate"
  /\ x = "sign" => y \in {"allocate", "findIssuer"}
  /\ x = "store" => y = "sign"
  /\ x = "readHistory" => y = "readIssuer"
  /\ x = "record" => y = "readHistory"
  /\ x = "setRevoked" => y = "readBits"
  /\ k = "seed" => x # "readBits"
  /\ y = "ensureTenant" => x \in {"insert", "register"}
  /\ k = "drift" => /\ y = "insert" => x \in {"ensureTenant", "allocate"}
                    /\ y = "allocate" => x = "sign"

\* Step x is one of those that requests of kind k do.
Belongs(k, x) ==
  /\ x \in SeedItems \cup {"checkEmpty", "spend"} => k = "seed"
  /\ x = "insertHook" => k = "addHook"
  /\ x = "dropHook" => k = "dropHook"
  /\ x = "findHook" => k = "testHook"
  /\ x \in {"readHistory", "record"} => k = "score"
  /\ x \in {"findHolder", "register", "refetch"} => k = "attest"
  /\ x = "sign" => k \in {"attest", "issue", "seed", "drift"}
  /\ x \in {"readBits", "setRevoked"} => k \in {"revoke", "seed", "drift"}

\* Part of a script of kind k.
Piece(k, t) ==
  /\ \A i \in 2..Len(t) : Follows(k, t[i - 1], t[i])
  /\ \A i \in 1..Len(t) : Belongs(k, t[i])

\* u is what is left of t after m steps.
Drops(t, u, m) ==
  /\ t \in Seq(Steps) /\ u \in Seq(Steps) /\ Len(t) \in Nat /\ Len(u) \in Nat
  /\ m \in 1..Len(t) /\ Len(u) = Len(t) - m /\ \A i \in 1..Len(u) : u[i] = t[i + m]

\* A script without its first step ...
LEMMA TailDrops ==
  ASSUME NEW t \in Seq(Steps), t # <<>>
  PROVE  Drops(t, Tail(t), 1)
<1>1. /\ Tail(t) \in Seq(Steps) /\ Len(t) \in Nat \ {0} /\ Len(Tail(t)) = Len(t) - 1
      /\ \A i \in 1..Len(Tail(t)) : Tail(t)[i] = t[i + 1]
  OBVIOUS
<1> QED
  BY <1>1 DEF Drops

\* ... and from the next of some steps on.
LEMMA FromDrops ==
  ASSUME NEW t \in Seq(Steps), NEW S, From(t, S) # <<>>
  PROVE  \E m \in Nat : /\ m >= 1 /\ m < Len(t) /\ Drops(t, From(t, S), m)
                        /\ Head(From(t, S)) = t[m + 1] /\ t[m + 1] \in S /\ \A i \in 2..m : t[i] \notin S
<1>1. PICK n \in 2..Len(t) :
        /\ t[n] \in S /\ \A i \in 2..n - 1 : t[i] \notin S
        /\ From(t, S) = SubSeq(t, n, Len(t))
  BY FromIs
<1> DEFINE m == n - 1
           u == SubSeq(t, n, Len(t))
<1>2. m \in Nat /\ m >= 1 /\ m < Len(t) /\ m + 1 = n /\ Len(t) \in Nat
  OBVIOUS
<1>3. u \in Seq(Steps) /\ Len(u) = Len(t) - n + 1 /\ \A i \in 1..Len(u) : u[i] = t[n + i - 1]
  BY RestOf
<1> HIDE DEF u
<1>4. Len(u) = Len(t) - m /\ \A i \in 1..Len(u) : u[i] = t[i + m]
  <2>1. Len(t) - n + 1 = Len(t) - m /\ \A i \in 1..Len(u) : n + i - 1 = i + m
    BY <1>2, <1>3
  <2> QED
    BY <1>3, <2>1
<1>5. Drops(t, u, m)
  BY <1>2, <1>3, <1>4 DEF Drops
<1>6. Head(u) = t[m + 1]
  <2>1. Len(u) # 0 /\ Head(u) = u[1]
    BY <1>2, <1>3, <1>4
  <2> QED
    BY <1>2, <1>3, <1>4, <2>1
<1>7. From(t, S) = u
  BY <1>1 DEF u
<1>8. t[m + 1] \in S /\ \A i \in 2..m : t[i] \notin S
  <2>1. PICK l : l = m
    OBVIOUS
  <2>2. l + 1 = n /\ n - 1 = l
    BY <1>2, <2>1
  <2>3. t[l + 1] \in S /\ \A i \in 2..l : t[i] \notin S
    BY <1>1, <2>2
  <2> QED
    BY <2>1, <2>3
<1> HIDE DEF m
<1> QED
  BY <1>2, <1>5, <1>6, <1>7, <1>8

\* The rest of a part is one.
LEMMA PieceDrops ==
  ASSUME NEW k, NEW t, NEW u, NEW m, Piece(k, t), Drops(t, u, m)
  PROVE  Piece(k, u)
<1>0. m \in Nat /\ m >= 1 /\ Len(t) \in Nat /\ Len(u) = Len(t) - m /\ \A i \in 1..Len(u) : u[i] = t[i + m]
  BY DEF Drops
<1>1. ASSUME NEW i \in 2..Len(u) PROVE Follows(k, u[i - 1], u[i])
  <2>1. i \in 1..Len(u) /\ i - 1 \in 1..Len(u) /\ i + m \in 2..Len(t) /\ (i - 1) + m = (i + m) - 1
    BY <1>0
  <2>2. u[i] = t[i + m] /\ u[i - 1] = t[(i + m) - 1]
    BY <1>0, <2>1
  <2> QED
    BY <2>1, <2>2 DEF Piece
<1>2. ASSUME NEW i \in 1..Len(u) PROVE Belongs(k, u[i])
  <2>1. i + m \in 1..Len(t) /\ u[i] = t[i + m]
    BY <1>0
  <2> QED
    BY <2>1 DEF Piece
<1> QED
  BY <1>1, <1>2 DEF Piece

\* The first two steps of a part follow one another.
LEMMA FirstTwo ==
  ASSUME NEW k, NEW t \in Seq(Steps), t # <<>>, Tail(t) # <<>>, Piece(k, t)
  PROVE  Follows(k, Head(t), Head(Tail(t)))
<1>1. Drops(t, Tail(t), 1) /\ Head(t) = t[1]
  BY TailDrops
<1>2. Len(Tail(t)) \in Nat \ {0} /\ Head(Tail(t)) = Tail(t)[1] /\ Len(t) \in Nat
  BY <1>1 DEF Drops
<1>3. 1 \in 1..Len(Tail(t)) /\ 2 \in 2..Len(t) /\ 1 + 1 = 2 /\ 2 - 1 = 1
  BY <1>1, <1>2 DEF Drops
<1>4. Tail(t)[1] = t[2]
  BY <1>1, <1>3 DEF Drops
<1>5. Follows(k, t[2 - 1], t[2])
  BY <1>3 DEF Piece
<1> QED
  BY <1>1, <1>2, <1>3, <1>4, <1>5

\* Two parts that fit together are one.
LEMMA PieceJoin ==
  ASSUME NEW k, NEW w \in Seq(Steps), NEW u \in Seq(Steps), w # <<>>, u # <<>>,
         Piece(k, w), Piece(k, u), Follows(k, w[Len(w)], Head(u))
  PROVE  Piece(k, w \o u)
<1> DEFINE v == w \o u
<1>1. /\ Len(v) = Len(w) + Len(u) /\ Len(w) \in Nat \ {0} /\ Len(u) \in Nat \ {0} /\ Head(u) = u[1]
      /\ \A i \in 1..Len(w) : v[i] = w[i]
      /\ \A i \in Len(w) + 1..Len(w) + Len(u) : v[i] = u[i - Len(w)]
  BY Concatenated
<1> HIDE DEF v
<1>2. ASSUME NEW i \in 2..Len(v) PROVE Follows(k, v[i - 1], v[i])
  <2>1. CASE i \in 2..Len(w)
    <3>1. i \in 1..Len(w) /\ i - 1 \in 1..Len(w)
      BY <1>1, <2>1
    <3>2. v[i] = w[i] /\ v[i - 1] = w[i - 1]
      BY <1>1, <3>1
    <3> QED
      BY <2>1, <3>2 DEF Piece
  <2>2. CASE i = Len(w) + 1
    <3>1. i - 1 = Len(w) /\ Len(w) \in 1..Len(w) /\ i \in Len(w) + 1..Len(w) + Len(u) /\ i - Len(w) = 1
      BY <1>1, <2>2
    <3>2. v[i - 1] = w[Len(w)] /\ v[i] = Head(u)
      BY <1>1, <3>1
    <3> QED
      BY <3>2, Zenon
  <2>3. CASE i > Len(w) + 1
    <3>1. /\ i \in Len(w) + 1..Len(w) + Len(u) /\ i - 1 \in Len(w) + 1..Len(w) + Len(u)
          /\ i - Len(w) \in 2..Len(u) /\ (i - 1) - Len(w) = (i - Len(w)) - 1
      BY <1>1, <2>3
    <3>2. v[i] = u[i - Len(w)] /\ v[i - 1] = u[(i - Len(w)) - 1]
      BY <1>1, <3>1
    <3>3. Follows(k, u[(i - Len(w)) - 1], u[i - Len(w)])
      BY <3>1 DEF Piece
    <3> QED
      BY <3>2, <3>3, Zenon
  <2> QED
    BY <1>1, <2>1, <2>2, <2>3
<1>3. ASSUME NEW i \in 1..Len(v) PROVE Belongs(k, v[i])
  <2>1. CASE i \in 1..Len(w)
    BY <1>1, <2>1 DEF Piece
  <2>2. CASE i \notin 1..Len(w)
    <3>1. i \in Len(w) + 1..Len(w) + Len(u) /\ i - Len(w) \in 1..Len(u)
      BY <1>1, <2>2
    <3> QED
      BY <1>1, <3>1 DEF Piece
  <2> QED
    BY <2>1, <2>2
<1> QED
  BY <1>2, <1>3 DEF Piece, v

\* A part from step a to step z.
Span(k, w, a, z) ==
  w \in Seq(Steps) /\ w # <<>> /\ Piece(k, w) /\ Head(w) = a /\ w[Len(w)] = z

\* Spans that fit together, ...
LEMMA SpanJoin ==
  ASSUME NEW k, NEW w, NEW a, NEW z, NEW u, NEW b, NEW y,
         Span(k, w, a, z), Span(k, u, b, y), Follows(k, z, b)
  PROVE  Span(k, w \o u, a, y)
<1>1. w \in Seq(Steps) /\ w # <<>> /\ u \in Seq(Steps) /\ u # <<>> /\ Piece(k, w) /\ Piece(k, u)
  BY DEF Span
<1>2. Len(w) \in Nat \ {0} /\ Len(u) \in Nat \ {0} /\ Head(w) = w[1]
  BY <1>1
<1>3. Piece(k, w \o u)
  BY <1>1, PieceJoin DEF Span
<1>4. /\ w \o u \in Seq(Steps) /\ Len(w \o u) = Len(w) + Len(u)
      /\ (w \o u)[1] = w[1] /\ (w \o u)[Len(w) + Len(u)] = u[Len(u)]
  <2>1. 1 \in 1..Len(w) /\ Len(u) \in 1..Len(u)
    BY <1>2
  <2> QED
    BY <1>1, <2>1, Concatenated
<1>5. w \o u # <<>> /\ Head(w \o u) = (w \o u)[1]
  BY <1>2, <1>4
<1> QED
  BY <1>1, <1>2, <1>3, <1>4, <1>5, Zenon DEF Span

\* ... of one step, ...
LEMMA SpanOne ==
  ASSUME NEW k, NEW x \in Steps, Belongs(k, x)
  PROVE  Span(k, <<x>>, x, x)
<1> DEFINE w == <<x>>
<1>1. w \in Seq(Steps) /\ w # <<>> /\ Len(w) = 1 /\ Head(w) = x /\ w[1] = x
  OBVIOUS
<1> HIDE DEF w
<1>2. Piece(k, w)
  BY <1>1 DEF Piece
<1> QED
  BY <1>1, <1>2 DEF Span, w

\* ... two, ...
LEMMA SpanTwo ==
  ASSUME NEW k, NEW x \in Steps, NEW y \in Steps, Belongs(k, x), Belongs(k, y), Follows(k, x, y)
  PROVE  Span(k, <<x, y>>, x, y)
<1> DEFINE w == <<x, y>>
<1>1. w \in Seq(Steps) /\ w # <<>> /\ Len(w) = 2 /\ Head(w) = x /\ w[1] = x /\ w[2] = y
  OBVIOUS
<1> HIDE DEF w
<1>2. Piece(k, w)
  BY <1>1 DEF Piece
<1> QED
  BY <1>1, <1>2 DEF Span, w

\* ... three ...
LEMMA SpanThree ==
  ASSUME NEW k, NEW x \in Steps, NEW y \in Steps, NEW z \in Steps,
         Belongs(k, x), Belongs(k, y), Belongs(k, z), Follows(k, x, y), Follows(k, y, z)
  PROVE  Span(k, <<x, y, z>>, x, z)
<1> DEFINE w == <<x, y, z>>
<1>1. /\ w \in Seq(Steps) /\ w # <<>> /\ Len(w) = 3 /\ Head(w) = x
      /\ w[1] = x /\ w[2] = y /\ w[3] = z
  OBVIOUS
<1> HIDE DEF w
<1>2. Piece(k, w)
  BY <1>1 DEF Piece
<1> QED
  BY <1>1, <1>2 DEF Span, w

\* ... and four.
LEMMA SpanFour ==
  ASSUME NEW k, NEW x \in Steps, NEW y \in Steps, NEW z \in Steps, NEW v \in Steps,
         Belongs(k, x), Belongs(k, y), Belongs(k, z), Belongs(k, v),
         Follows(k, x, y), Follows(k, y, z), Follows(k, z, v)
  PROVE  Span(k, <<x, y, z, v>>, x, v)
<1> DEFINE w == <<x, y, z, v>>
<1>1. /\ w \in Seq(Steps) /\ w # <<>> /\ Len(w) = 4 /\ Head(w) = x
      /\ w[1] = x /\ w[2] = y /\ w[3] = z /\ w[4] = v
  OBVIOUS
<1> HIDE DEF w
<1>2. Piece(k, w)
  BY <1>1 DEF Piece
<1> QED
  BY <1>1, <1>2 DEF Span, w

\* The parts that handlers share.
LEMMA SharedSpans ==
  ASSUME NEW k
  PROVE  /\ Span(k, Audit, "readNewest", "append")
         /\ Span(k, Check, "resolve", "resolve")
         /\ Span(k, CheckAtPeer, "get", "get")
         /\ Span(k, CreateAgent, "ensureTenant", "insert")
         /\ Span(k, SeededAgent, "ensureTenant", "insert")
         /\ k \in {"issue", "seed", "drift"} => Span(k, Signing, "sign", "store")
<1>0. /\ {"readNewest", "stamp", "append", "resolve", "readList", "ensureIssuer", "get", "ensureTenant", "insert"} \subseteq Steps
      /\ {"sign", "store"} \subseteq Steps
  BY DEF Steps
<1>1. /\ \A x \in {"readNewest", "stamp", "append", "resolve", "readList", "ensureIssuer", "get"} : Belongs(k, x)
      /\ Belongs(k, "ensureTenant") /\ Belongs(k, "insert") /\ Belongs(k, "store")
      /\ k \in {"issue", "seed", "drift"} => Belongs(k, "sign")
  BY DEF Belongs, SeedItems
<1>2. /\ Follows(k, "readNewest", "stamp") /\ Follows(k, "stamp", "append")
      /\ Follows(k, "resolve", "readList") /\ Follows(k, "readList", "ensureIssuer") /\ Follows(k, "ensureIssuer", "resolve")
      /\ Follows(k, "get", "readList") /\ Follows(k, "ensureIssuer", "get")
  BY DEF Follows, OnOwn, Offline
<1>3. Follows(k, "ensureTenant", "insert") /\ Follows(k, "sign", "store")
  BY DEF Follows, OnOwn, Offline
<1>4. Span(k, Audit, "readNewest", "append")
  BY <1>0, <1>1, <1>2, SpanThree DEF Audit
<1>5. Span(k, Check, "resolve", "resolve")
  BY <1>0, <1>1, <1>2, SpanFour DEF Check
<1>6. Span(k, CheckAtPeer, "get", "get")
  BY <1>0, <1>1, <1>2, SpanFour DEF CheckAtPeer
<1>7. Span(k, CreateAgent, "ensureTenant", "insert") /\ Span(k, SeededAgent, "ensureTenant", "insert")
  BY <1>0, <1>1, <1>3, SpanTwo DEF CreateAgent, SeededAgent
<1>8. k \in {"issue", "seed", "drift"} => Span(k, Signing, "sign", "store")
  BY <1>0, <1>1, <1>3, SpanTwo DEF Signing
<1> QED
  BY <1>4, <1>5, <1>6, <1>7, <1>8

\* The scripts without an audit event.
LEMMA BriefSpans ==
  /\ Span("rotate", RotateKey, "readKeys", "rotate")
  /\ Span("report", ComplianceReport, "countRows", "reply")
  /\ Span("board", RiskDashboard, "readAgents", "reply")
  /\ Span("reset", DemoReset, "deleteCreds", "deleteRest")
  /\ Span("testHook", TestWebhook, "findHook", "reply")
  /\ Span("flush", <<"flush">>, "flush", "flush")
<1>0. /\ {"readKeys", "rotate", "countRows", "countEvents", "walkChain", "reply", "readAgents", "readBoard"} \subseteq Steps
      /\ {"deleteCreds", "deleteRest", "findHook", "dispatch", "flush"} \subseteq Steps
  BY DEF Steps
<1>1. /\ Belongs("rotate", "readKeys") /\ Belongs("rotate", "rotate") /\ Follows("rotate", "readKeys", "rotate")
      /\ Belongs("reset", "deleteCreds") /\ Belongs("reset", "deleteRest") /\ Follows("reset", "deleteCreds", "deleteRest")
      /\ Belongs("flush", "flush")
  BY DEF Belongs, SeedItems, Follows, OnOwn, Offline
<1>2. /\ Belongs("report", "countRows") /\ Belongs("report", "countEvents") /\ Belongs("report", "walkChain")
      /\ Belongs("report", "reply") /\ Follows("report", "countRows", "countEvents")
      /\ Follows("report", "countEvents", "walkChain") /\ Follows("report", "walkChain", "reply")
  BY DEF Belongs, SeedItems, Follows, OnOwn, Offline
<1>3. /\ Belongs("board", "readAgents") /\ Belongs("board", "readBoard") /\ Belongs("board", "reply")
      /\ Follows("board", "readAgents", "readBoard") /\ Follows("board", "readBoard", "reply")
      /\ Belongs("testHook", "findHook") /\ Belongs("testHook", "dispatch") /\ Belongs("testHook", "reply")
      /\ Follows("testHook", "findHook", "dispatch") /\ Follows("testHook", "dispatch", "reply")
  BY DEF Belongs, SeedItems, Follows, OnOwn, Offline
<1>4. Span("rotate", RotateKey, "readKeys", "rotate") /\ Span("reset", DemoReset, "deleteCreds", "deleteRest")
  BY <1>0, <1>1, SpanTwo DEF RotateKey, DemoReset
<1>5. Span("report", ComplianceReport, "countRows", "reply")
  BY <1>0, <1>2, SpanFour DEF ComplianceReport
<1>6. Span("board", RiskDashboard, "readAgents", "reply") /\ Span("testHook", TestWebhook, "findHook", "reply")
  BY <1>0, <1>3, SpanThree DEF RiskDashboard, TestWebhook
<1> QED
  BY <1>0, <1>1, <1>4, <1>5, <1>6, SpanOne

\* Those that end with one, or then dispatch.
LEMMA AuditedSpans ==
  /\ Span("verify", Check \o Audit, "resolve", "append")
  /\ Span("profile", AgentProfile, "readEvents", "append")
  /\ Span("addHook", CreateWebhook, "insertHook", "append")
  /\ Span("dropHook", DeleteWebhook, "dropHook", "append")
  /\ Span("revoke", Revoke, "findCred", "dispatch")
  /\ Span("issue", IssueCredential, "allocate", "dispatch")
  /\ Span("score", ScoreCredential, "resolve", "dispatch")
  /\ Span("attest", AttestWorkload, "findHolder", "append")
<1>0. /\ {"readEvents", "insertHook", "dropHook", "findCred", "readBits", "setRevoked", "dispatch", "allocate"} \subseteq Steps
      /\ {"findIssuer", "findHolder", "sign", "readIssuer", "readHistory", "record"} \subseteq Steps
  BY DEF Steps
<1>1. \A k : /\ Follows(k, "resolve", "readNewest") /\ Follows(k, "readEvents", "readNewest")
             /\ Follows(k, "insertHook", "readNewest") /\ Follows(k, "dropHook", "readNewest")
             /\ Follows(k, "setRevoked", "readNewest") /\ Follows(k, "store", "readNewest")
             /\ Follows(k, "record", "readNewest") /\ Follows(k, "sign", "readNewest") /\ Follows(k, "append", "dispatch")
  BY DEF Follows, OnOwn, Offline
<1>2. /\ Belongs("profile", "readEvents") /\ Belongs("addHook", "insertHook") /\ Belongs("dropHook", "dropHook")
      /\ Belongs("revoke", "findCred") /\ Belongs("revoke", "readBits") /\ Belongs("revoke", "setRevoked") /\ \A k : Belongs(k, "dispatch")
  BY DEF Belongs, SeedItems
<1>3. /\ Belongs("issue", "allocate") /\ Belongs("issue", "findIssuer") /\ Belongs("attest", "findHolder")
      /\ Belongs("attest", "allocate") /\ Belongs("attest", "sign")
      /\ Belongs("score", "readIssuer") /\ Belongs("score", "readHistory") /\ Belongs("score", "record")
  BY DEF Belongs, SeedItems
<1>4. /\ Follows("revoke", "findCred", "readBits") /\ Follows("revoke", "readBits", "setRevoked")
      /\ Follows("issue", "allocate", "findIssuer")
      /\ Follows("issue", "findIssuer", "sign") /\ Follows("attest", "findHolder", "allocate")
      /\ Follows("attest", "allocate", "sign") /\ Follows("score", "resolve", "readIssuer")
      /\ Follows("score", "readIssuer", "readHistory") /\ Follows("score", "readHistory", "record")
  BY DEF Follows, OnOwn, Offline
<1>5. \A k : Span(k, Audit, "readNewest", "append") /\ Span(k, Check, "resolve", "resolve")
  BY SharedSpans
<1>6. \A k : Span(k, <<"dispatch">>, "dispatch", "dispatch")
  BY <1>0, <1>2, SpanOne
<1>7. Span("verify", Check \o Audit, "resolve", "append")
  BY <1>1, <1>5, SpanJoin
<1>8. Span("profile", AgentProfile, "readEvents", "append")
  <2>1. Span("profile", <<"readEvents">>, "readEvents", "readEvents")
    BY <1>0, <1>2, SpanOne
  <2> QED
    BY <1>1, <1>5, <2>1, SpanJoin DEF AgentProfile
<1>9. Span("addHook", CreateWebhook, "insertHook", "append")
  <2>1. Span("addHook", <<"insertHook">>, "insertHook", "insertHook")
    BY <1>0, <1>2, SpanOne
  <2> QED
    BY <1>1, <1>5, <2>1, SpanJoin DEF CreateWebhook
<1>10. Span("dropHook", DeleteWebhook, "dropHook", "append")
  <2>1. Span("dropHook", <<"dropHook">>, "dropHook", "dropHook")
    BY <1>0, <1>2, SpanOne
  <2> QED
    BY <1>1, <1>5, <2>1, SpanJoin DEF DeleteWebhook
<1>11. Span("revoke", Revoke, "findCred", "dispatch")
  <2>1. Span("revoke", <<"findCred">>, "findCred", "findCred") /\ Span("revoke", SetBit, "readBits", "setRevoked")
    BY <1>0, <1>2, <1>4, SpanOne, SpanTwo DEF SetBit
  <2>3. Span("revoke", <<"findCred">> \o SetBit, "findCred", "setRevoked")
    BY <1>4, <2>1, SpanJoin
  <2>2. Span("revoke", <<"findCred">> \o SetBit \o Audit, "findCred", "append")
    BY <1>1, <1>5, <2>3, SpanJoin
  <2> QED
    BY <1>1, <1>6, <2>2, SpanJoin DEF Revoke
<1>12. Span("issue", IssueCredential, "allocate", "dispatch")
  <2>1. Span("issue", <<"allocate", "findIssuer">>, "allocate", "findIssuer") /\ Span("issue", Signing, "sign", "store")
    BY <1>0, <1>3, <1>4, SpanTwo, SharedSpans
  <2>2. Span("issue", <<"allocate", "findIssuer">> \o Signing, "allocate", "store")
    BY <1>4, <2>1, SpanJoin
  <2>3. Span("issue", <<"allocate", "findIssuer">> \o Signing \o Audit, "allocate", "append")
    BY <1>1, <1>5, <2>2, SpanJoin
  <2> QED
    BY <1>1, <1>6, <2>3, SpanJoin DEF IssueCredential
<1>13. Span("score", ScoreCredential, "resolve", "dispatch")
  <2>1. Span("score", <<"readIssuer", "readHistory", "record">>, "readIssuer", "record")
    BY <1>0, <1>3, <1>4, SpanThree
  <2>2. Span("score", Check \o <<"readIssuer", "readHistory", "record">>, "resolve", "record")
    BY <1>4, <1>5, <2>1, SpanJoin
  <2>3. Span("score", Check \o <<"readIssuer", "readHistory", "record">> \o Audit, "resolve", "append")
    BY <1>1, <1>5, <2>2, SpanJoin
  <2> QED
    BY <1>1, <1>6, <2>3, SpanJoin DEF ScoreCredential
<1>14. Span("attest", AttestWorkload, "findHolder", "append")
  <2>1. Span("attest", <<"findHolder", "allocate", "sign">>, "findHolder", "sign")
    BY <1>0, <1>3, <1>4, SpanThree
  <2> QED
    BY <1>1, <1>5, <2>1, SpanJoin DEF AttestWorkload
<1> QED
  BY <1>7, <1>8, <1>9, <1>10, <1>11, <1>12, <1>13, <1>14

\* The drift demo.
LEMMA DriftSpan == Span("drift", DriftDemo, "ensureTenant", "resolve")
<1> DEFINE k == "drift"
<1>1. /\ Span(k, CreateAgent, "ensureTenant", "insert") /\ Span(k, Signing, "sign", "store")
      /\ Span(k, Audit, "readNewest", "append") /\ Span(k, Check, "resolve", "resolve")
  BY SharedSpans
<1>2. /\ {"allocate", "readBits", "setRevoked"} \subseteq Steps /\ Belongs(k, "allocate")
      /\ Belongs(k, "readBits") /\ Belongs(k, "setRevoked")
  BY DEF Steps, Belongs, SeedItems
<1>3. /\ Follows(k, "insert", "ensureTenant") /\ Follows(k, "insert", "allocate") /\ Follows(k, "allocate", "sign")
      /\ Follows(k, "store", "readNewest") /\ Follows(k, "append", "resolve") /\ Follows(k, "resolve", "readBits")
      /\ Follows(k, "readBits", "setRevoked") /\ Follows(k, "setRevoked", "readNewest")
  BY DEF Follows, OnOwn, Offline
<1> HIDE DEF k
<1>4. Span(k, <<"allocate">>, "allocate", "allocate") /\ Span(k, SetBit, "readBits", "setRevoked")
  BY <1>2, <1>3, SpanOne, SpanTwo DEF SetBit
<1>5. Span(k, CreateAgent \o CreateAgent, "ensureTenant", "insert")
  BY <1>1, <1>3, SpanJoin
<1>6. Span(k, CreateAgent \o CreateAgent \o <<"allocate">>, "ensureTenant", "allocate")
  BY <1>3, <1>4, <1>5, SpanJoin
<1>7. Span(k, CreateAgent \o CreateAgent \o <<"allocate">> \o Signing, "ensureTenant", "store")
  BY <1>1, <1>3, <1>6, SpanJoin
<1>8. Span(k, CreateAgent \o CreateAgent \o <<"allocate">> \o Signing \o Audit, "ensureTenant", "append")
  BY <1>1, <1>3, <1>7, SpanJoin
<1>9. Span(k, CreateAgent \o CreateAgent \o <<"allocate">> \o Signing \o Audit \o Check, "ensureTenant", "resolve")
  BY <1>1, <1>3, <1>8, SpanJoin
<1>10. Span(k, CreateAgent \o CreateAgent \o <<"allocate">> \o Signing \o Audit \o Check \o SetBit,
            "ensureTenant", "setRevoked")
  BY <1>3, <1>4, <1>9, SpanJoin
<1>11. Span(k, CreateAgent \o CreateAgent \o <<"allocate">> \o Signing \o Audit \o Check \o SetBit \o Audit,
            "ensureTenant", "append")
  BY <1>1, <1>3, <1>10, SpanJoin
<1> QED
  BY <1>1, <1>3, <1>11, SpanJoin DEF DriftDemo, k

\* Seeding: its own items, the audit event of the demo, and the trust events.
SeedStart == <<"checkEmpty", "seedAgents", "seedCreds", "seedRevoked", "seedTree", "seedIntent">>

LEMMA SeedStartIs ==
  /\ SeedStart \in Seq(Steps) /\ Len(SeedStart) = 6 /\ SeedStart # <<>> /\ Head(SeedStart) = "checkEmpty"
  /\ SeedStart[1] = "checkEmpty" /\ SeedStart[2] = "seedAgents" /\ SeedStart[3] = "seedCreds"
  /\ SeedStart[4] = "seedRevoked" /\ SeedStart[5] = "seedTree" /\ SeedStart[6] = "seedIntent"
BY DEF SeedStart, Steps

LEMMA SeedSpan == Span("seed", SeedTenant, "checkEmpty", "seedEvents")
<1> DEFINE k == "seed"
<1>1. Span(k, SeedStart, "checkEmpty", "seedIntent")
  <2>1. /\ Follows(k, "checkEmpty", "seedAgents") /\ Follows(k, "seedAgents", "seedCreds")
        /\ Follows(k, "seedCreds", "seedRevoked") /\ Follows(k, "seedRevoked", "seedTree")
        /\ Follows(k, "seedTree", "seedIntent")
    BY DEF Follows, OnOwn, Offline
  <2>2. ASSUME NEW i \in 2..6 PROVE Follows(k, SeedStart[i - 1], SeedStart[i])
    <3>1. i = 2 \/ i = 3 \/ i = 4 \/ i = 5 \/ i = 6
      OBVIOUS
    <3>2. 2 - 1 = 1 /\ 3 - 1 = 2 /\ 4 - 1 = 3 /\ 5 - 1 = 4 /\ 6 - 1 = 5
      OBVIOUS
    <3> HIDE DEF k
    <3> QED
      BY <2>1, <3>1, <3>2, SeedStartIs
  <2>3. \A x : Belongs(k, x) <=> x \notin {"insertHook", "dropHook", "findHook", "readHistory", "record", "findHolder", "register", "refetch"}
    BY DEF Belongs, SeedItems
  <2>4. ASSUME NEW i \in 1..6 PROVE Belongs(k, SeedStart[i])
    <3>1. i = 1 \/ i = 2 \/ i = 3 \/ i = 4 \/ i = 5 \/ i = 6
      OBVIOUS
    <3> HIDE DEF k
    <3> QED
      BY <2>3, <3>1, SeedStartIs
  <2> QED
    BY <2>2, <2>4, SeedStartIs DEF Span, Piece
<1>2. Follows(k, "seedIntent", "readNewest") /\ Follows(k, "append", "seedEvents") /\ Belongs(k, "seedEvents")
  BY DEF Follows, OnOwn, Offline, Belongs
<1>3. Span(k, Audit, "readNewest", "append") /\ Span(k, <<"seedEvents">>, "seedEvents", "seedEvents")
  <2>1. "seedEvents" \in Steps
    BY DEF Steps
  <2> QED
    BY <1>2, <2>1, SharedSpans, SpanOne
<1> HIDE DEF k
<1>4. Span(k, SeedStart \o Audit, "checkEmpty", "append")
  BY <1>1, <1>2, <1>3, SpanJoin
<1>5. Span(k, SeedStart \o Audit \o <<"seedEvents">>, "checkEmpty", "seedEvents")
  BY <1>2, <1>3, <1>4, SpanJoin
<1> QED
  BY <1>5 DEF SeedTenant, SeedStart, k

\* The steps that handlers begin with.
Firsts ==
  {"ensureTenant", "readKeys", "findHolder", "allocate", "findCred", "resolve", "readEvents", "countRows", "readAgents",
   "deleteCreds", "insertHook", "dropHook", "findHook", "flush", "get", "checkEmpty"}

LEMMA HandlersPieces ==
  ASSUME NEW k \in Kinds
  PROVE  /\ Piece(k, Handlers[k]) /\ Head(Handlers[k]) \in Firsts
         /\ k = "attest" => Head(Handlers[k]) = "findHolder"
         /\ k = "drift" => Head(Handlers[k]) = "ensureTenant"
<1> DEFINE P(h) == Piece(k, h) /\ Head(h) \in Firsts
<1>1. \A h, a, z : Span(k, h, a, z) /\ a \in Firsts => P(h)
  BY DEF Span
<1>2. CASE k \in {"create", "peer"}
  <2>1. P(CreateAgent) /\ P(CheckAtPeer)
    <3>1. "ensureTenant" \in Firsts /\ "get" \in Firsts
      BY DEF Firsts
    <3> HIDE DEF P
    <3> QED
      BY <1>1, <3>1, SharedSpans
  <2> QED
    BY <1>2, <2>1, HandlersAre
<1>3. CASE k \in {"rotate", "report", "board", "reset", "testHook", "flush"}
  <2>1. {"readKeys", "countRows", "readAgents", "deleteCreds", "findHook", "flush"} \subseteq Firsts
    BY DEF Firsts
  <2>2. P(Handlers[k])
    <3> HIDE DEF P
    <3> QED
      BY <1>1, <1>3, <2>1, BriefSpans, HandlersAre
  <2> QED
    BY <1>3, <2>2
<1>4. CASE k \in {"verify", "profile", "addHook", "dropHook", "revoke", "issue", "score"}
  <2>1. {"resolve", "readEvents", "insertHook", "dropHook", "findCred", "allocate"} \subseteq Firsts
    BY DEF Firsts
  <2>2. P(Handlers[k])
    <3> HIDE DEF P
    <3> QED
      BY <1>1, <1>4, <2>1, AuditedSpans, HandlersAre
  <2> QED
    BY <1>4, <2>2
<1>5. CASE k = "attest"
  BY <1>5, AuditedSpans, HandlersAre DEF Span, Firsts
<1>6. CASE k = "drift"
  BY <1>6, DriftSpan, HandlersAre DEF Span, Firsts
<1>7. CASE k = "seed"
  BY <1>7, SeedSpan, HandlersAre DEF Span, Firsts
<1> QED
  BY <1>2, <1>3, <1>4, <1>5, <1>6, <1>7, KindsAre

(***************************************************************************)
(* What is left of a script of seeding.                                    *)
(***************************************************************************)

\* Steps within one credential of seeding, and those that only come before all else.
ItemSteps == {"allocate", "sign", "store", "spend"} \cup AuditSteps
OfItem == {"allocate", "sign", "store", "spend", "seedCart"}

Tidy(t) == \A i \in 1..Len(t) : t[i] \in OfItem => \A j \in 1..i - 1 : t[j] \in ItemSteps

\* Agents, credentials and revocations are seeded before the delegations.
TreeAfter(t) ==
  \A j \in 1..Len(t) : t[j] \in {"seedAgents", "seedCreds", "seedRevoked"} => \E i \in j + 1..Len(t) : t[i] = "seedTree"

\* Steps in X wait for z.
Pending(t, X, z) == \A i \in 1..Len(t) : t[i] \in X => \E j \in 1..i - 1 : t[j] = z

\* What the agents of the roster are used for comes after the loop over them, unless
\* it is over; the same of the credentials of the plan.
Waits(q, t) ==
  /\ Len(q.made) < Len(Roster) => Pending(t, {"seedCreds", "seedIntent", "seedEvents"}, "seedAgents")
  /\ Len(q.issued) < Len(Plan) => Pending(t, {"seedRevoked"}, "seedCreds")

\* Those who sign are there, and so is what is spent.
Able(q, t) ==
  /\ q.subject \notin Agents => \A i \in 1..Len(t) : t[i] \notin {"sign", "seedCart"}
  /\ \A i \in 1..Len(t) : t[i] = "seedCart" => q.intent \in 1..Len(q.issued)
  /\ \A i \in 1..Len(t) : t[i] = "spend" =>
       /\ q.intent \in 1..Len(q.issued) /\ q.issued[q.intent] \in Creds
       /\ q.issued[Len(q.issued)] \in Creds \/ \E j \in 1..i - 1 : t[j] = "store"

Seeding(q, t) == Tidy(t) /\ TreeAfter(t) /\ Waits(q, t) /\ Able(q, t)

\* What is left of a script after some steps, and the lengths of both.
LEMMA DropsLengths ==
  ASSUME NEW t, NEW u, NEW m, Drops(t, u, m)
  PROVE  /\ m \in Nat /\ m >= 1 /\ m <= Len(t) /\ Len(t) \in Nat /\ Len(u) \in Nat
         /\ Len(u) = Len(t) - m /\ Len(u) + m = Len(t)
<1>1. Len(t) \in Nat /\ Len(u) \in Nat /\ m \in 1..Len(t) /\ Len(u) = Len(t) - m
  BY DEF Drops
<1> QED
  BY <1>1

\* A step before the i-th of the rest is one of those dropped or of the rest ...
InRest(t, u, m) ==
  \A i \in 1..Len(u) : \A j \in 1..(i + m) - 1 :
    j \in 1..m \/ (j - m \in 1..i - 1 /\ j - m \in 1..Len(u) /\ t[j] = u[j - m])

\* ... one of the rest has a place in the script, before that of the i-th ...
InScript(t, u, m) ==
  \A i \in 1..Len(u) :
    /\ i + m \in 1..Len(t) /\ u[i] = t[i + m]
    /\ \A j \in 1..i - 1 : j + m \in 1..(i + m) - 1 /\ u[j] = t[j + m]

\* ... and a step of the script after one of the rest is of the rest too.
AfterRest(t, u, m) ==
  \A j \in 1..Len(u) : \A i \in (j + m) + 1..Len(t) : i - m \in j + 1..Len(u) /\ u[i - m] = t[i]

LEMMA PlaceInRest ==
  ASSUME NEW t, NEW u, NEW m, Drops(t, u, m)
  PROVE  InRest(t, u, m)
<1> SUFFICES ASSUME NEW i \in 1..Len(u), NEW j \in 1..(i + m) - 1
             PROVE  j \in 1..m \/ (j - m \in 1..i - 1 /\ j - m \in 1..Len(u) /\ t[j] = u[j - m])
  BY DEF InRest
<1>1. m \in Nat /\ Len(u) \in Nat /\ i \in Nat /\ i >= 1 /\ i <= Len(u)
  BY DropsLengths
<1>2. j \in Nat /\ j >= 1 /\ j <= (i + m) - 1
  BY <1>1
<1>3. CASE j <= m
  BY <1>1, <1>2, <1>3
<1>4. CASE j > m
  <2>1. j - m \in Nat /\ j - m >= 1 /\ j - m <= i - 1 /\ j - m <= Len(u) /\ (j - m) + m = j
    BY <1>1, <1>2, <1>4
  <2>2. j - m \in 1..i - 1 /\ j - m \in 1..Len(u)
    BY <1>1, <2>1
  <2>3. u[j - m] = t[(j - m) + m]
    BY <2>2, Zenon DEF Drops
  <2> QED
    BY <2>1, <2>2, <2>3, Zenon
<1> QED
  BY <1>1, <1>2, <1>3, <1>4

LEMMA PlaceBefore ==
  ASSUME NEW t, NEW u, NEW m, Drops(t, u, m)
  PROVE  InScript(t, u, m)
<1> SUFFICES ASSUME NEW i \in 1..Len(u)
             PROVE  /\ i + m \in 1..Len(t) /\ u[i] = t[i + m]
                    /\ \A j \in 1..i - 1 : j + m \in 1..(i + m) - 1 /\ u[j] = t[j + m]
  BY DEF InScript
<1>1. m \in Nat /\ Len(u) \in Nat /\ Len(t) \in Nat /\ Len(u) + m = Len(t) /\ i \in Nat /\ i >= 1 /\ i <= Len(u)
  BY DropsLengths
<1>2. i + m \in 1..Len(t)
  BY <1>1
<1>3. \A j \in 1..i - 1 : j \in 1..Len(u) /\ j + m \in 1..(i + m) - 1
  BY <1>1
<1> QED
  BY <1>2, <1>3, Zenon DEF Drops

LEMMA PlaceAfter ==
  ASSUME NEW t, NEW u, NEW m, Drops(t, u, m)
  PROVE  AfterRest(t, u, m)
<1> SUFFICES ASSUME NEW j \in 1..Len(u), NEW i \in (j + m) + 1..Len(t)
             PROVE  i - m \in j + 1..Len(u) /\ u[i - m] = t[i]
  BY DEF AfterRest
<1>1. /\ m \in Nat /\ Len(u) \in Nat /\ Len(t) \in Nat /\ Len(u) = Len(t) - m /\ j \in Nat /\ j >= 1
  BY DropsLengths
<1>2. i \in Nat /\ i >= (j + m) + 1 /\ i <= Len(t)
  BY <1>1
<1>3. i - m \in j + 1..Len(u) /\ i - m \in 1..Len(u) /\ (i - m) + m = i
  BY <1>1, <1>2
<1>4. u[i - m] = t[(i - m) + m]
  BY <1>3, Zenon DEF Drops
<1> QED
  BY <1>3, <1>4, Zenon

\* The rest of a script, from a step on that none of those before prepares.
LEMMA SeedingDrops ==
  ASSUME NEW q, NEW p, NEW t, NEW u, NEW m, Seeding(q, t), Drops(t, u, m),
         p.issued = q.issued, p.subject = q.subject \/ p.subject \in Agents, p.intent = q.intent,
         Len(p.made) = Len(q.made),
         Len(q.made) < Len(Roster) => \A i \in 1..m : t[i] # "seedAgents",
         Len(q.issued) < Len(Plan) => \A i \in 1..m : t[i] # "seedCreds",
         \/ \A i \in 1..m : t[i] # "store"
         \/ Head(u) \notin ItemSteps
         \/ q.issued # <<>> => q.issued[Len(q.issued)] \in Creds
  PROVE  Seeding(p, u)
<1>1. m \in Nat /\ Len(u) \in Nat /\ u \in Seq(Steps)
  BY DropsLengths DEF Drops
<1>2. InScript(t, u, m)
  BY PlaceBefore
<1>3. InRest(t, u, m)
  BY PlaceInRest
<1>4. AfterRest(t, u, m)
  BY PlaceAfter
<1>5. Tidy(u)
  <2> SUFFICES ASSUME NEW i \in 1..Len(u), u[i] \in OfItem, NEW j \in 1..i - 1
               PROVE  u[j] \in ItemSteps
    BY DEF Tidy
  <2>1. /\ i + m \in 1..Len(t) /\ u[i] = t[i + m]
        /\ j + m \in 1..(i + m) - 1 /\ u[j] = t[j + m]
    BY <1>2, Zenon DEF InScript
  <2>2. t[i + m] \in OfItem
    BY <2>1, Zenon
  <2> QED
    BY <2>1, <2>2, Zenon DEF Tidy, Seeding
<1>6. TreeAfter(u)
  <2> SUFFICES ASSUME NEW j \in 1..Len(u), u[j] \in {"seedAgents", "seedCreds", "seedRevoked"}
               PROVE  \E i \in j + 1..Len(u) : u[i] = "seedTree"
    BY DEF TreeAfter
  <2>1. j + m \in 1..Len(t) /\ t[j + m] \in {"seedAgents", "seedCreds", "seedRevoked"}
    BY <1>2 DEF InScript
  <2>2. PICK i \in (j + m) + 1..Len(t) : t[i] = "seedTree"
    BY <2>1 DEF TreeAfter, Seeding
  <2>3. i - m \in j + 1..Len(u) /\ u[i - m] = t[i]
    BY <1>4, Zenon DEF AfterRest
  <2> QED
    BY <2>2, <2>3, Zenon
<1>7. ASSUME NEW X, NEW z, Pending(t, X, z), \A i \in 1..m : t[i] # z PROVE Pending(u, X, z)
  <2> SUFFICES ASSUME NEW i \in 1..Len(u), u[i] \in X PROVE \E j \in 1..i - 1 : u[j] = z
    BY DEF Pending
  <2>1. PICK j \in 1..(i + m) - 1 : t[j] = z
    BY <1>2, <1>7 DEF Pending, InScript
  <2> QED
    BY <1>7, <1>3, <2>1 DEF InRest
<1>8. Waits(p, u)
  BY <1>7 DEF Waits, Seeding
<1>9. ASSUME NEW i \in 1..Len(u), u[i] = "spend"
      PROVE  /\ q.intent \in 1..Len(q.issued) /\ q.issued[q.intent] \in Creds
             /\ q.issued[Len(q.issued)] \in Creds \/ \E j \in 1..i - 1 : u[j] = "store"
  <2>1. /\ q.intent \in 1..Len(q.issued) /\ q.issued[q.intent] \in Creds
        /\ q.issued[Len(q.issued)] \in Creds \/ \E j \in 1..(i + m) - 1 : t[j] = "store"
    BY <1>2, <1>9 DEF Able, Seeding, InScript
  <2>2. CASE q.issued[Len(q.issued)] \in Creds
    BY <2>1, <2>2
  <2>3. ASSUME NEW j \in 1..(i + m) - 1, t[j] = "store", q.issued[Len(q.issued)] \notin Creds
        PROVE  \E l \in 1..i - 1 : u[l] = "store"
    <3>1. CASE j \in 1..m
      <4>0. q.issued # <<>>
        BY <2>1
      <4>1. Head(u) \notin ItemSteps
        BY <2>3, <3>1, <4>0
      <4>2. u # <<>> /\ Head(u) = u[1] /\ (i = 1 \/ 1 \in 1..i - 1)
        BY <1>1
      <4>3. "spend" \in OfItem /\ "spend" \in ItemSteps
        BY DEF OfItem, ItemSteps
      <4> QED
        BY <1>5, <1>9, <4>1, <4>2, <4>3 DEF Tidy
    <3> QED
      BY <1>3, <2>3, <3>1 DEF InRest
  <2>4. CASE q.issued[Len(q.issued)] \notin Creds
    BY <2>1, <2>3, <2>4
  <2> QED
    BY <2>1, <2>2, <2>4
<1>10. Able(p, u)
  BY <1>2, <1>9 DEF Able, Seeding, InScript
<1> QED
  BY <1>5, <1>6, <1>8, <1>10 DEF Seeding

\* A script that has nothing of one item is fit for whatever has been seeded so far.
Bare(t) == \A i \in 1..Len(t) : t[i] \notin OfItem

LEMMA BareIs ==
  ASSUME NEW t \in Seq(Steps), Tidy(t), t # <<>>, Head(t) \notin ItemSteps, Head(t) # "seedCart"
  PROVE  Bare(t)
<1>1. Len(t) \in Nat \ {0} /\ Head(t) = t[1]
  OBVIOUS
<1>2. t[1] \notin OfItem
  BY <1>1 DEF ItemSteps, OfItem
<1>3. ASSUME NEW i \in 1..Len(t), t[i] \in OfItem PROVE FALSE
  <2>1. i = 1 \/ 1 \in 1..i - 1
    BY <1>1
  <2> QED
    BY <1>1, <1>2, <1>3, <2>1 DEF Tidy
<1> QED
  BY <1>3 DEF Bare

LEMMA BareSeeding ==
  ASSUME NEW q, NEW p, NEW t, Seeding(q, t), Bare(t), Len(q.made) \in Nat, Len(p.made) \in Nat,
         Len(q.issued) \in Nat, Len(p.issued) \in Nat,
         Len(q.made) <= Len(p.made), Len(q.issued) <= Len(p.issued)
  PROVE  Seeding(p, t)
<1>1. /\ Len(p.made) < Len(Roster) => Len(q.made) < Len(Roster)
      /\ Len(p.issued) < Len(Plan) => Len(q.issued) < Len(Plan)
  <2>1. Len(Roster) \in Nat /\ Len(Plan) \in Nat
    BY BackendAssumption, SeedAssumption
  <2> QED
    BY <2>1
<1>2. Waits(p, t)
  BY <1>1 DEF Seeding, Waits
<1>3. Able(p, t)
  BY DEF Bare, OfItem, Able
<1> QED
  BY <1>2, <1>3 DEF Seeding

\* Steps put before a script.
LEMMA SeedingJoin ==
  ASSUME NEW q, NEW v \in Seq(Steps), NEW t \in Seq(Steps), Seeding(q, v), Seeding(q, t),
         (\A i \in 1..Len(v) : v[i] \in ItemSteps) \/ Bare(t)
  PROVE  Seeding(q, v \o t)
<1> DEFINE w == v \o t
           n == Len(v)
<1>1. /\ n \in Nat /\ Len(t) \in Nat /\ Len(w) = n + Len(t)
      /\ \A i \in 1..n : w[i] = v[i]
      /\ \A i \in 1..Len(t) : w[n + i] = t[i]
  BY Concatenated
<1> HIDE DEF w, n
<1>2. ASSUME NEW i \in 1..Len(w) PROVE i \in 1..n \/ (i - n \in 1..Len(t) /\ w[i] = t[i - n] /\ i > n)
  <2>1. CASE i > n
    <3>1. i - n \in 1..Len(t) /\ n + (i - n) = i
      BY <1>1, <2>1
    <3> QED
      BY <1>1, <2>1, <3>1
  <2> QED
    BY <1>1, <2>1
<1>3. Tidy(w)
  <2> SUFFICES ASSUME NEW i \in 1..Len(w), w[i] \in OfItem, NEW j \in 1..i - 1
               PROVE  w[j] \in ItemSteps
    BY DEF Tidy
  <2>1. CASE i \in 1..n
    <3>1. j \in 1..n
      BY <1>1, <2>1
    <3>2. v[i] \in OfItem /\ w[j] = v[j]
      BY <1>1, <2>1, <3>1
    <3> QED
      BY <2>1, <3>2 DEF Tidy, Seeding, n
  <2>2. CASE i \notin 1..n
    <3>1. i - n \in 1..Len(t) /\ t[i - n] \in OfItem /\ i > n
      BY <1>2, <2>2
    <3>2. \A l \in 1..n : v[l] \in ItemSteps
      BY <3>1 DEF Bare, n
    <3>3. CASE j \in 1..n
      BY <1>1, <3>2, <3>3
    <3>4. CASE j \notin 1..n
      <4>1. j - n \in 1..(i - n) - 1 /\ j - n \in 1..Len(t) /\ n + (j - n) = j
        BY <1>1, <3>1, <3>4
      <4>2. w[j] = t[j - n]
        BY <1>1, <4>1
      <4> QED
        BY <3>1, <4>1, <4>2 DEF Tidy, Seeding
    <3> QED
      BY <3>3, <3>4
  <2> QED
    BY <2>1, <2>2
<1>4. TreeAfter(w)
  <2> SUFFICES ASSUME NEW j \in 1..Len(w), w[j] \in {"seedAgents", "seedCreds", "seedRevoked"}
               PROVE  \E i \in j + 1..Len(w) : w[i] = "seedTree"
    BY DEF TreeAfter
  <2>1. CASE j \in 1..n
    <3>1. PICK i \in j + 1..n : v[i] = "seedTree"
      BY <1>1, <2>1 DEF TreeAfter, Seeding, n
    <3>2. i \in 1..n /\ i \in j + 1..Len(w)
      BY <1>1, <2>1
    <3> QED
      BY <1>1, <3>1, <3>2
  <2>2. CASE j \notin 1..n
    <3>1. j - n \in 1..Len(t) /\ w[j] = t[j - n] /\ j > n
      BY <1>2, <2>2
    <3>2. PICK i \in (j - n) + 1..Len(t) : t[i] = "seedTree"
      BY <3>1 DEF TreeAfter, Seeding
    <3>3. i \in 1..Len(t) /\ n + i \in j + 1..Len(w)
      BY <1>1, <3>1
    <3> QED
      BY <1>1, <3>2, <3>3
  <2> QED
    BY <2>1, <2>2
<1>5. ASSUME NEW X, NEW z, Pending(v, X, z), Pending(t, X, z) PROVE Pending(w, X, z)
  <2> SUFFICES ASSUME NEW i \in 1..Len(w), w[i] \in X PROVE \E j \in 1..i - 1 : w[j] = z
    BY DEF Pending
  <2>1. CASE i \in 1..n
    <3>1. PICK j \in 1..i - 1 : v[j] = z
      BY <1>1, <1>5, <2>1 DEF Pending, n
    <3>2. j \in 1..n
      BY <1>1, <2>1
    <3> QED
      BY <1>1, <3>1, <3>2
  <2>2. CASE i \notin 1..n
    <3>1. i - n \in 1..Len(t) /\ w[i] = t[i - n] /\ i > n
      BY <1>2, <2>2
    <3>2. PICK j \in 1..(i - n) - 1 : t[j] = z
      BY <1>5, <3>1 DEF Pending
    <3>3. j \in 1..Len(t) /\ n + j \in 1..i - 1
      BY <1>1, <3>1
    <3> QED
      BY <1>1, <3>2, <3>3
  <2> QED
    BY <2>1, <2>2
<1>6. Waits(q, w)
  BY <1>5 DEF Waits, Seeding
<1>7. \A i \in 1..Len(w) : (i \in 1..n /\ w[i] = v[i]) \/ (i - n \in 1..Len(t) /\ w[i] = t[i - n])
  BY <1>1, <1>2
<1>8. ASSUME NEW i \in 1..Len(w), w[i] = "spend"
      PROVE  /\ q.intent \in 1..Len(q.issued) /\ q.issued[q.intent] \in Creds
             /\ q.issued[Len(q.issued)] \in Creds \/ \E j \in 1..i - 1 : w[j] = "store"
  <2>1. CASE i \in 1..n
    <3>1. /\ q.intent \in 1..Len(q.issued) /\ q.issued[q.intent] \in Creds
          /\ q.issued[Len(q.issued)] \in Creds \/ \E j \in 1..i - 1 : v[j] = "store"
      BY <1>1, <1>8, <2>1 DEF Able, Seeding, n
    <3>2. \A j \in 1..i - 1 : j \in 1..n
      BY <1>1, <2>1
    <3> QED
      BY <1>1, <3>1, <3>2
  <2>2. CASE i \notin 1..n
    <3>1. i - n \in 1..Len(t) /\ w[i] = t[i - n] /\ i > n
      BY <1>2, <2>2
    <3>2. /\ q.intent \in 1..Len(q.issued) /\ q.issued[q.intent] \in Creds
          /\ q.issued[Len(q.issued)] \in Creds \/ \E j \in 1..(i - n) - 1 : t[j] = "store"
      BY <1>8, <3>1 DEF Able, Seeding
    <3>3. \A j \in 1..(i - n) - 1 : j \in 1..Len(t) /\ n + j \in 1..i - 1
      BY <1>1, <3>1
    <3> QED
      BY <1>1, <3>2, <3>3
  <2> QED
    BY <2>1, <2>2
<1>9. Able(q, w)
  BY <1>7, <1>8 DEF Able, Seeding, n
<1> QED
  BY <1>3, <1>4, <1>6, <1>9 DEF Seeding, w

\* What the turns of the loops put before the script.
LEMMA PairIs ==
  ASSUME NEW A, NEW a \in A, NEW b \in A
  PROVE  <<a>> \o <<b>> = <<a, b>>
<1>1. PICK u, v, w : u = <<a>> /\ v = <<b>> /\ w = <<a, b>>
  OBVIOUS
<1>2. /\ u \in Seq(A) /\ Len(u) = 1 /\ u[1] = a /\ v \in Seq(A) /\ Len(v) = 1 /\ v[1] = b
      /\ w \in Seq(A) /\ Len(w) = 2 /\ w[1] = a /\ w[2] = b
  BY <1>1
<1>3. u \o v \in Seq(A) /\ Len(u \o v) = 2 /\ (u \o v)[1] = a /\ (u \o v)[2] = b
  <2>1. /\ u \o v \in Seq(A) /\ Len(u \o v) = Len(u) + Len(v)
        /\ \A i \in 1..Len(u) : (u \o v)[i] = u[i]
        /\ \A i \in 1..Len(v) : (u \o v)[Len(u) + i] = v[i]
    <3>1. u \in Seq(A) /\ v \in Seq(A)
      BY <1>2
    <3> QED
      BY <3>1, Concatenated
  <2>2. 1 \in 1..1 /\ 1 + 1 = 2
    OBVIOUS
  <2> QED
    BY <1>2, <2>1, <2>2
<1>4. ASSUME NEW i \in 1..2 PROVE (u \o v)[i] = w[i]
  <2>1. i = 1 \/ i = 2
    OBVIOUS
  <2> QED
    BY <1>2, <1>3, <2>1
<1>5. u \o v = w
  BY <1>2, <1>3, <1>4, SameMembers
<1> QED
  BY <1>1, <1>5

LEMMA CredentialIs ==
  /\ SeededCredential \in Seq(Steps) /\ Len(SeededCredential) = 3
  /\ SeededCredential[1] = "allocate" /\ SeededCredential[2] = "sign" /\ SeededCredential[3] = "store"
  /\ Span("seed", SeededCredential, "allocate", "store")
<1>1. /\ Span("seed", <<"allocate">>, "allocate", "allocate") /\ Span("seed", Signing, "sign", "store")
      /\ Follows("seed", "allocate", "sign")
  <2>1. "allocate" \in Steps /\ Belongs("seed", "allocate") /\ Follows("seed", "allocate", "sign")
    BY DEF Steps, Belongs, SeedItems, Follows, OnOwn, Offline
  <2> QED
    BY <2>1, SharedSpans, SpanOne
<1>2. Span("seed", SeededCredential, "allocate", "store")
  BY <1>1, SpanJoin DEF SeededCredential
<1>3. PICK u, v : u = <<"allocate">> /\ v = Signing
  OBVIOUS
<1>4. /\ u \in Seq(Steps) /\ Len(u) = 1 /\ u[1] = "allocate"
      /\ v \in Seq(Steps) /\ Len(v) = 2 /\ v[1] = "sign" /\ v[2] = "store"
  BY <1>3 DEF Steps, Signing
<1>5. /\ u \o v \in Seq(Steps) /\ Len(u \o v) = Len(u) + Len(v)
      /\ \A i \in 1..Len(u) : (u \o v)[i] = u[i]
      /\ \A i \in 1..Len(v) : (u \o v)[Len(u) + i] = v[i]
  <2>1. u \in Seq(Steps) /\ v \in Seq(Steps)
    BY <1>4
  <2> QED
    BY <2>1, Concatenated
<1>6. 1 \in 1..1 /\ 1 \in 1..2 /\ 2 \in 1..2 /\ 1 + 1 = 2 /\ 1 + 2 = 3
  OBVIOUS
<1>7. SeededCredential = u \o v
  BY <1>3 DEF SeededCredential
<1> QED
  BY <1>2, <1>4, <1>5, <1>6, <1>7

\* ... with one more step.
LEMMA CredentialAnd ==
  ASSUME NEW x \in Steps
  PROVE  LET v == SeededCredential \o <<x>> IN
         /\ v \in Seq(Steps) /\ Len(v) = 4
         /\ v[1] = "allocate" /\ v[2] = "sign" /\ v[3] = "store" /\ v[4] = x
         /\ Follows("seed", "store", x) /\ Belongs("seed", x) => Span("seed", v, "allocate", x)
<1>1. PICK u, w : u = SeededCredential /\ w = <<x>>
  OBVIOUS
<1>2. /\ u \in Seq(Steps) /\ Len(u) = 3 /\ u[1] = "allocate" /\ u[2] = "sign" /\ u[3] = "store"
      /\ w \in Seq(Steps) /\ Len(w) = 1 /\ w[1] = x
  BY <1>1, CredentialIs
<1>3. /\ u \o w \in Seq(Steps) /\ Len(u \o w) = Len(u) + Len(w)
      /\ \A i \in 1..Len(u) : (u \o w)[i] = u[i]
      /\ \A i \in 1..Len(w) : (u \o w)[Len(u) + i] = w[i]
  <2>1. u \in Seq(Steps) /\ w \in Seq(Steps)
    BY <1>2
  <2> QED
    BY <2>1, Concatenated
<1>4. 1 \in 1..3 /\ 2 \in 1..3 /\ 3 \in 1..3 /\ 1 \in 1..1 /\ 3 + 1 = 4
  OBVIOUS
<1>5. Follows("seed", "store", x) /\ Belongs("seed", x) => Span("seed", SeededCredential \o <<x>>, "allocate", x)
  BY CredentialIs, SpanOne, SpanJoin
<1> QED
  BY <1>1, <1>2, <1>3, <1>4, <1>5

\* They are fit for seeding.
LEMMA FrontSeeding ==
  ASSUME NEW q
  PROVE  /\ \A v \in Seq(Steps) :
              (\A i \in 1..Len(v) : v[i] \notin OfItem \cup SeedItems) => Seeding(q, v)
         /\ q.subject \in Agents => Seeding(q, SeededCredential)
         /\ q.subject \in Agents /\ q.intent \in 1..Len(q.issued) => Seeding(q, SeededCredential \o <<"seedCart">>)
         /\ q.subject \in Agents /\ q.intent \in 1..Len(q.issued) /\ q.issued[q.intent] \in Creds =>
              Seeding(q, SeededCredential \o <<"spend">>)
<1>1. ASSUME NEW v \in Seq(Steps), \A i \in 1..Len(v) : v[i] \notin OfItem \cup SeedItems
      PROVE  Seeding(q, v)
  <2>1. \A i \in 1..Len(v) : /\ v[i] \notin OfItem
                              /\ v[i] \notin {"seedAgents", "seedCreds", "seedRevoked", "seedIntent", "seedEvents"}
    BY <1>1 DEF SeedItems
  <2>2. Tidy(v) /\ TreeAfter(v) /\ Waits(q, v)
    BY <2>1 DEF Tidy, TreeAfter, Waits, Pending
  <2>3. Able(q, v)
    BY <2>1 DEF Able, OfItem
  <2> QED
    BY <2>2, <2>3 DEF Seeding
<1>2. ASSUME NEW v, v \in Seq(Steps), Len(v) \in {3, 4}, v[1] = "allocate", v[2] = "sign", v[3] = "store",
             Len(v) = 4 => v[4] \in {"seedCart", "spend"} /\ q.intent \in 1..Len(q.issued),
             Len(v) = 4 /\ v[4] = "spend" => q.issued[q.intent] \in Creds,
             q.subject \in Agents
      PROVE  Seeding(q, v)
  <2>0. PICK n : n = Len(v)
    OBVIOUS
  <2>1. \A i \in 1..Len(v) : i = 1 \/ i = 2 \/ i = 3 \/ (i = 4 /\ Len(v) = 4)
    <3>1. n \in {3, 4} /\ \A i \in 1..n : i = 1 \/ i = 2 \/ i = 3 \/ (i = 4 /\ n = 4)
      BY <1>2, <2>0
    <3> QED
      BY <2>0, <3>1
  <2>2. ASSUME NEW i \in 1..Len(v), NEW j \in 1..i - 1 PROVE v[j] \in ItemSteps
    <3>1. j = 1 \/ j = 2 \/ j = 3
      <4>1. i \in 1..4
        BY <2>1
      <4> QED
        BY <4>1
    <3> QED
      BY <1>2, <3>1 DEF ItemSteps
  <2>3. Tidy(v)
    BY <2>2 DEF Tidy
  <2>4. \A i \in 1..Len(v) : v[i] \in {"allocate", "sign", "store", "seedCart", "spend"}
    BY <1>2, <2>1
  <2>5. TreeAfter(v) /\ Waits(q, v)
    BY <2>4 DEF TreeAfter, Waits, Pending
  <2>6. ASSUME NEW i \in 1..Len(v), v[i] = "spend" PROVE Len(v) = 4 /\ v[4] = "spend" /\ 3 \in 1..i - 1
    <3>1. i # 1 /\ i # 2 /\ i # 3
      BY <1>2, <2>6
    <3> QED
      BY <2>1, <2>6, <3>1
  <2>7. ASSUME NEW i \in 1..Len(v), v[i] = "seedCart" PROVE Len(v) = 4
    <3>1. i # 1 /\ i # 2 /\ i # 3
      BY <1>2, <2>7
    <3> QED
      BY <2>1, <3>1
  <2>8. Able(q, v)
    BY <1>2, <2>6, <2>7 DEF Able
  <2> QED
    BY <2>3, <2>5, <2>8 DEF Seeding
<1>3. q.subject \in Agents => Seeding(q, SeededCredential)
  BY <1>2, CredentialIs
<1>4. \A x \in {"seedCart", "spend"} :
        q.subject \in Agents /\ q.intent \in 1..Len(q.issued) /\ (x = "spend" => q.issued[q.intent] \in Creds) =>
          Seeding(q, SeededCredential \o <<x>>)
  <2> SUFFICES ASSUME NEW x \in {"seedCart", "spend"}, q.subject \in Agents, q.intent \in 1..Len(q.issued),
                      x = "spend" => q.issued[q.intent] \in Creds
               PROVE  Seeding(q, SeededCredential \o <<x>>)
    OBVIOUS
  <2>1. x \in Steps
    BY DEF Steps
  <2>2. PICK v : v = SeededCredential \o <<x>>
    OBVIOUS
  <2>3. v \in Seq(Steps) /\ Len(v) = 4 /\ v[1] = "allocate" /\ v[2] = "sign" /\ v[3] = "store" /\ v[4] = x
    BY <2>1, <2>2, CredentialAnd
  <2> QED
    BY <1>2, <2>2, <2>3
<1> QED
  BY <1>1, <1>3, <1>4

(***************************************************************************)
(* What a request has when it does a step.                                 *)
(***************************************************************************)

\* Fields that do not depend on where the request is ...
Typed(q) ==
  /\ q.score \in Nat /\ q.price \in Nat /\ q.targets \in Nat /\ q.deals \in Nat /\ q.carts \in Seq(Nat)
  /\ q.issued \in Seq(Creds \cup {None}) /\ q.code \in {"ok", "revoked"}
  /\ q.kind \in {"issue", "score"} => q.subject \in Agents
  /\ q.kind = "revoke" => q.cred \in Creds
  /\ q.kind = "addHook" => q.topics \in Topics

\* ... and what it has at step x.
Stage(q, x) ==
  /\ x \in {"findIssuer", "sign"} => q.seen \in Nat
  /\ x \in {"readHistory", "record"} => q.tally \in Int
  /\ q.kind = "seed" /\ x \in {"readBits", "setRevoked"} => q.cred \in Creds
  /\ q.kind \in {"attest", "drift"} /\ q.subject \notin Agents =>
       x \in {"findHolder", "ensureTenant", "insert", "register", "refetch"}
  /\ q.kind = "drift" /\ q.cred \notin Creds => x \in {"ensureTenant", "insert", "allocate", "sign"}

\* With q, a request may go on with script t.
Apt(q, t) ==
  Typed(q) /\ Piece(q.kind, t) /\ Stage(q, Head(t)) /\ (q.kind = "seed" => Seeding(q, t))

FitsInv ==
  /\ out \in [Jobs -> Codes \cup {None}]
  /\ \A r \in Jobs : req[r] # None => Apt(req[r], req[r].todo)

\* A step that goes on in the session before it found one open, or a connection free.
Paid(r) == Doing(r) \in OnOwn \cup Offline \/ Free > 0

\* What a step of request r does to the requests.
Passes(r) ==
  /\ out' \in [Jobs -> Codes \cup {None}]
  /\ req'[r] # None =>
       /\ Apt(req'[r], req'[r].todo) /\ req'[r].hook = req[r].hook
       /\ Head(req'[r].todo) \in OnOwn => Doing(r) \in OnOwn \/ Free > 0

LEMMA EndPasses ==
  ASSUME RequestsInv, FitsInv, NEW r \in Jobs, NEW c \in Codes, End(r, c)
  PROVE  Passes(r)
<1>1. req'[r] = None
  BY DEF RequestsInv, End
<1>2. out' \in [Jobs -> Codes \cup {None}]
  BY DEF FitsInv, End
<1> QED
  BY <1>1, <1>2 DEF Passes

\* Only its script tells what a request goes on with from what the step has left.
LEMMA AptAlone ==
  ASSUME NEW q, DOMAIN q = Fields, NEW t, Apt(q, t)
  PROVE  LET p == [q EXCEPT !.todo = t] IN Apt(p, p.todo) /\ p.hook = q.hook
<1> DEFINE p == [q EXCEPT !.todo = t]
<1>1. /\ p.score = q.score /\ p.price = q.price /\ p.targets = q.targets /\ p.deals = q.deals /\ p.carts = q.carts
      /\ p.issued = q.issued /\ p.code = q.code /\ p.kind = q.kind /\ p.subject = q.subject /\ p.cred = q.cred
      /\ p.topics = q.topics /\ p.seen = q.seen /\ p.tally = q.tally /\ p.intent = q.intent /\ p.made = q.made
      /\ p.hook = q.hook /\ p.todo = t
  BY FieldsAre
<1> HIDE DEF p
<1>2. Typed(p) /\ Stage(p, Head(t))
  BY <1>1 DEF Apt, Typed, Stage
<1>3. q.kind = "seed" => Seeding(p, t)
  BY <1>1 DEF Apt, Seeding, Waits, Able
<1>4. Apt(p, p.todo) /\ p.hook = q.hook
  BY <1>1, <1>2, <1>3 DEF Apt
<1> QED
  BY <1>4 DEF p

LEMMA FollowPasses ==
  ASSUME RequestsInv, FitsInv, NEW r \in Jobs, NEW q, NEW t, Follow(r, q, t),
         DOMAIN q = Fields, q.hook = req[r].hook, q.code \in {"ok", "revoked"},
         t # <<>> => Apt(q, t) /\ (Head(t) \in OnOwn => Doing(r) \in OnOwn \/ Free > 0)
  PROVE  Passes(r)
<1>1. CASE t = <<>>
  <2>1. End(r, q.code) /\ q.code \in Codes
    BY <1>1 DEF Follow, Codes
  <2> QED
    BY <2>1, EndPasses
<1>2. CASE t # <<>>
  <2>1. req' = [req EXCEPT ![r] = [q EXCEPT !.todo = t]] /\ out' = out
    BY <1>2 DEF Follow
  <2>2. req'[r] = [q EXCEPT !.todo = t] /\ req'[r].todo = t
    BY <2>1, FieldsAre DEF RequestsInv
  <2>3. Apt(req'[r], req'[r].todo) /\ req'[r].hook = q.hook
    BY <1>2, <2>2, AptAlone
  <2> QED
    BY <1>2, <2>1, <2>2, <2>3 DEF Passes, FitsInv
<1> QED
  BY <1>1, <1>2

\* Request r as it stands.
LEMMA AsItStands ==
  ASSUME RequestsInv, FitsInv, NEW r \in Jobs, req[r] # None
  PROVE  /\ DOMAIN req[r] = Fields /\ req[r].todo \in Seq(Steps) /\ req[r].todo # <<>> /\ Doing(r) = Head(req[r].todo)
         /\ Apt(req[r], req[r].todo) /\ req[r].code \in {"ok", "revoked"}
         /\ Drops(req[r].todo, Tail(req[r].todo), 1) /\ Tail(req[r].todo) \in Seq(Steps)
         /\ Belongs(req[r].kind, Doing(r)) /\ Doing(r) \in Steps /\ req[r].kind \in Kinds
<1>1. /\ DOMAIN req[r] = Fields /\ req[r].todo \in Seq(Steps) /\ req[r].todo # <<>> /\ Doing(r) = Head(req[r].todo)
      /\ req[r].kind \in Kinds
  BY DEF RequestsInv, Request, Scripted, Doing
<1>2. Apt(req[r], req[r].todo) /\ req[r].code \in {"ok", "revoked"}
  BY DEF FitsInv, Apt, Typed
<1>3. Drops(req[r].todo, Tail(req[r].todo), 1)
  BY <1>1, TailDrops
<1>4. Belongs(req[r].kind, Doing(r)) /\ Doing(r) \in Steps
  <2>1. 1 \in 1..Len(req[r].todo) /\ Head(req[r].todo) = req[r].todo[1] /\ Head(req[r].todo) \in Steps
    BY <1>1
  <2> QED
    BY <1>1, <1>2, <2>1 DEF Apt, Piece
<1> QED
  BY <1>1, <1>2, <1>3, <1>4 DEF Drops

\* The step that comes next is fit for what this one has left.
Readies(r, q) ==
  \A x \in Steps : Follows(q.kind, Doing(r), x) /\ Belongs(q.kind, x) => Stage(q, x)

LEMMA TailFollows ==
  ASSUME RequestsInv, FitsInv, NEW r \in Jobs, req[r] # None, Tail(req[r].todo) # <<>>
  PROVE  LET t == Tail(req[r].todo) IN
         /\ Piece(req[r].kind, t) /\ Head(t) \in Steps
         /\ Follows(req[r].kind, Doing(r), Head(t)) /\ Belongs(req[r].kind, Head(t))
<1> DEFINE k == req[r].kind
           t == Tail(req[r].todo)
<1>1. /\ Piece(k, req[r].todo) /\ Drops(req[r].todo, t, 1) /\ req[r].todo \in Seq(Steps) /\ req[r].todo # <<>>
      /\ Doing(r) = Head(req[r].todo) /\ t \in Seq(Steps)
  BY AsItStands DEF Apt
<1>2. Piece(k, t)
  BY <1>1, PieceDrops
<1>3. Follows(k, Doing(r), Head(t))
  BY <1>1, FirstTwo
<1>4. 1 \in 1..Len(t) /\ Head(t) = t[1] /\ Head(t) \in Steps
  BY <1>1
<1> QED
  BY <1>2, <1>3, <1>4 DEF Piece

LEMMA ProceedPasses ==
  ASSUME RequestsInv, FitsInv, NEW r \in Jobs, req[r] # None, Paid(r), NEW q, Proceed(r, q),
         DOMAIN q = Fields, q.hook = req[r].hook, q.kind = req[r].kind, q.todo = req[r].todo,
         Typed(q), Readies(r, q),
         q.kind = "seed" /\ Tail(q.todo) # <<>> => Seeding(q, Tail(q.todo))
  PROVE  Passes(r)
<1> DEFINE t == Tail(q.todo)
<1>1. Follow(r, q, t) /\ q.code \in {"ok", "revoked"}
  BY DEF Proceed, Typed
<1>2. ASSUME t # <<>> PROVE Apt(q, t) /\ (Head(t) \in OnOwn => Doing(r) \in OnOwn \/ Free > 0)
  <2>1. /\ Piece(q.kind, t) /\ Head(t) \in Steps
        /\ Follows(q.kind, Doing(r), Head(t)) /\ Belongs(q.kind, Head(t))
    BY <1>2, TailFollows
  <2>2. Stage(q, Head(t))
    BY <2>1 DEF Readies
  <2>3. Head(t) \in OnOwn => Doing(r) \in OnOwn \/ Free > 0
    BY <2>1 DEF Follows, Paid
  <2> QED
    BY <1>2, <2>1, <2>2, <2>3 DEF Apt
<1> HIDE DEF t
<1> QED
  BY <1>1, <1>2, FollowPasses

LEMMA InsistPasses ==
  ASSUME RequestsInv, FitsInv, NEW r \in Jobs, req[r] # None, Paid(r), NEW q, NEW w, Insist(r, q, w),
         DOMAIN q = Fields, q.hook = req[r].hook, q.kind = req[r].kind, q.todo = req[r].todo, Typed(q),
         NEW a, NEW z, Span(q.kind, w, a, z), Stage(q, a), a \in OnOwn => Doing(r) \notin Offline,
         \A x : Follows(q.kind, Doing(r), x) => Follows(q.kind, z, x),
         q.kind = "seed" => Seeding(q, w \o Tail(q.todo))
  PROVE  Passes(r)
<1> DEFINE u == Tail(q.todo)
           t == w \o u
<1>1. Follow(r, q, t) /\ q.code \in {"ok", "revoked"}
  BY DEF Insist, Typed
<1>2. w \in Seq(Steps) /\ u \in Seq(Steps) /\ w # <<>> /\ Head(w) = a /\ Len(w) \in Nat \ {0} /\ w[1] = a
  <2>1. w \in Seq(Steps) /\ u \in Seq(Steps) /\ w # <<>> /\ Head(w) = a
    BY AsItStands DEF Span
  <2> QED
    BY <2>1
<1>3. t # <<>> /\ Head(t) = a
  <2>1. t \in Seq(Steps) /\ Len(t) = Len(w) + Len(u) /\ Len(u) \in Nat /\ \A i \in 1..Len(w) : t[i] = w[i]
    BY <1>2, Concatenated
  <2>2. 1 \in 1..Len(w) /\ t[1] = a /\ Len(t) \in Nat \ {0}
    BY <1>2, <2>1
  <2> HIDE DEF t
  <2> QED
    BY <2>1, <2>2
<1>4. Piece(q.kind, t)
  <2>1. CASE u = <<>>
    <3>1. t = w
      BY <1>2, <2>1, ConcatEmptySeq
    <3> QED
      BY <3>1 DEF Span
  <2>2. CASE u # <<>>
    <3>1. Piece(q.kind, u) /\ Follows(q.kind, Doing(r), Head(u))
      BY <2>2, TailFollows
    <3>2. Follows(q.kind, w[Len(w)], Head(u))
      BY <3>1 DEF Span
    <3> HIDE DEF u
    <3> QED
      BY <1>2, <2>2, <3>1, <3>2, PieceJoin DEF Span
  <2> QED
    BY <2>1, <2>2
<1>5. a \in OnOwn => Doing(r) \in OnOwn \/ Free > 0
  BY DEF Paid
<1>6. Apt(q, t)
  BY <1>3, <1>4 DEF Apt
<1> HIDE DEF t
<1> QED
  BY <1>1, <1>3, <1>5, <1>6, FollowPasses

\* Other steps before the script, which the request goes through again.
LEMMA FrontPasses ==
  ASSUME RequestsInv, FitsInv, NEW r \in Jobs, req[r] # None, Paid(r), NEW q, NEW v, NEW w, Insist(r, q, w),
         v \in Seq(Steps), w = v \o <<Doing(r)>>,
         DOMAIN q = Fields, q.hook = req[r].hook, q.kind = req[r].kind, q.todo = req[r].todo, Typed(q),
         NEW a, NEW z, Span(q.kind, v, a, z), Stage(q, a), a \notin OnOwn, Follows(q.kind, z, Doing(r)),
         q.kind = "seed" => Seeding(q, v \o q.todo)
  PROVE  Passes(r)
<1> DEFINE t == q.todo
<1>1. t \in Seq(Steps) /\ t # <<>> /\ Doing(r) = Head(t) /\ Apt(req[r], t)
  BY AsItStands
<1>2. w \o Tail(t) = v \o t
  BY <1>1, TurnIs
<1>3. Follow(r, q, v \o t) /\ q.code \in {"ok", "revoked"}
  BY <1>2 DEF Insist, Typed
<1>4. Span(q.kind, v \o t, a, t[Len(t)])
  <2>1. Span(q.kind, t, Doing(r), t[Len(t)])
    BY <1>1 DEF Span, Apt
  <2> QED
    BY <2>1, SpanJoin
<1>5. Apt(q, v \o t) /\ Head(v \o t) = a
  BY <1>4 DEF Apt, Span
<1> HIDE DEF t
<1> QED
  BY <1>3, <1>5, FollowPasses

\* Whoever is ready holds a connection, or needs none, or there is one.
LEMMA ReadyPaid ==
  ASSUME RequestsInv, NEW r \in Jobs, NEW step, Ready(r, step)
  PROVE  req[r] # None /\ Doing(r) = step /\ DOMAIN req[r] = Fields /\ Paid(r)
BY Standing DEF Ready, Needs, Paid

\* What most steps leave alone.
Light(q, p) ==
  /\ Same(q, p) /\ p.hook = q.hook /\ p.issued = q.issued /\ p.subject = q.subject /\ p.cred = q.cred
  /\ p.intent = q.intent /\ p.price = q.price /\ p.targets = q.targets /\ p.deals = q.deals /\ p.carts = q.carts
  /\ q.kind = "addHook" => p.topics = q.topics
  /\ p.score = q.score \/ p.score \in Nat
  /\ p.code = q.code \/ p.code \in {"ok", "revoked"}

LEMMA OwnLight ==
  ASSUME RequestsInv, NEW r \in Jobs, req[r] # None
  PROVE  Light(req[r], req[r])
BY OwnData DEF Light

\* Steps that leave nothing for the next one.
Usual ==
  Steps \ {"allocate", "findIssuer", "sign", "store", "readIssuer", "readHistory", "ensureTenant", "insert",
           "findHolder", "register", "refetch", "seedAgents", "seedCreds"}

LEMMA LightTyped ==
  ASSUME NEW q, NEW p, Typed(q), Light(q, p)
  PROVE  Typed(p) /\ p.kind = q.kind /\ p.todo = q.todo /\ p.hook = q.hook /\ DOMAIN p = Fields
<1>1. /\ p.kind = q.kind /\ p.todo = q.todo /\ p.hook = q.hook /\ DOMAIN p = Fields
      /\ p.issued = q.issued /\ p.subject = q.subject /\ p.cred = q.cred /\ p.price = q.price
      /\ p.targets = q.targets /\ p.deals = q.deals /\ p.carts = q.carts
      /\ q.kind = "addHook" => p.topics = q.topics
  BY DEF Light, Same, Alike
<1>2. p.score \in Nat /\ p.code \in {"ok", "revoked"}
  BY DEF Light, Typed
<1> QED
  BY <1>1, <1>2 DEF Typed

\* The rest of a script of seeding, after a step that leaves nothing.
LEMMA TailSeeding ==
  ASSUME RequestsInv, FitsInv, NEW r \in Jobs, req[r] # None, req[r].kind = "seed",
         Doing(r) \notin {"seedAgents", "seedCreds", "store"},
         NEW q, q.issued = req[r].issued, q.subject = req[r].subject \/ q.subject \in Agents,
         q.intent = req[r].intent, Len(q.made) = Len(req[r].made)
  PROVE  Seeding(q, Tail(req[r].todo))
<1> DEFINE t == req[r].todo
           u == Tail(t)
<1>1. Seeding(req[r], t) /\ Drops(t, u, 1) /\ t \in Seq(Steps) /\ t # <<>> /\ Doing(r) = Head(t)
  BY AsItStands DEF Apt
<1>2. \A i \in 1..1 : t[i] = Doing(r)
  BY <1>1
<1> HIDE DEF t, u
<1>3. \A i \in 1..1 : t[i] # "seedAgents" /\ t[i] # "seedCreds" /\ t[i] # "store"
  BY <1>2
<1>4. Seeding(q, u)
  BY <1>1, <1>3, SeedingDrops
<1> QED
  BY <1>4 DEF u, t

LEMMA UsualProceeds ==
  ASSUME RequestsInv, FitsInv, NEW r \in Jobs, req[r] # None, Paid(r), Doing(r) \in Usual,
         NEW q, Light(req[r], q), Proceed(r, q)
  PROVE  Passes(r)
<1>1. Typed(req[r]) /\ Stage(req[r], Doing(r)) /\ Belongs(req[r].kind, Doing(r))
  BY AsItStands DEF Apt
<1>2. Typed(q) /\ q.kind = req[r].kind /\ q.todo = req[r].todo /\ q.hook = req[r].hook /\ DOMAIN q = Fields
  BY <1>1, LightTyped
<1>3. Readies(r, q)
  <2>1. /\ q.kind = req[r].kind /\ q.subject = req[r].subject /\ q.cred = req[r].cred
    BY <1>2 DEF Light
  <2>2. Doing(r) \notin {"allocate", "findIssuer", "sign", "readIssuer", "readHistory", "ensureTenant",
                         "insert", "findHolder", "register", "refetch"}
    BY DEF Usual
  <2>3. /\ q.kind \in {"attest", "drift"} => q.subject \in Agents
        /\ q.kind = "drift" => q.cred \in Creds
        /\ q.kind = "seed" /\ Doing(r) = "readBits" => q.cred \in Creds
    BY <1>1, <2>1, <2>2 DEF Stage
  <2> QED
    BY <2>2, <2>3 DEF Readies, Follows, Stage
<1>4. q.kind = "seed" => Seeding(q, Tail(q.todo))
  BY <1>2, TailSeeding DEF Light, Same, Usual
<1> QED
  BY <1>2, <1>3, <1>4, ProceedPasses

\* After an exception a request goes on with what needs no preparation.
LEMMA FromPasses ==
  ASSUME RequestsInv, FitsInv, NEW r \in Jobs, req[r] # None, NEW q, NEW S, Follow(r, q, From(req[r].todo, S)),
         Light(req[r], q),
         S \cap (OnOwn \cup {"findIssuer", "sign", "readBits", "readHistory", "record"}) = {},
         q.kind \notin {"attest", "drift"},
         q.kind = "seed" => /\ S \cap ItemSteps = {} \/ \A i \in 1..Len(req[r].todo) : req[r].todo[i] # "store"
                            /\ \/ {"seedAgents", "seedCreds"} \subseteq S /\ Doing(r) \notin {"seedAgents", "seedCreds"}
                               \/ \A i \in 1..Len(req[r].todo) : req[r].todo[i] \notin {"seedAgents", "seedCreds"}
  PROVE  Passes(r)
<1> DEFINE t == req[r].todo
           u == From(t, S)
<1>1. t \in Seq(Steps) /\ t # <<>> /\ Doing(r) = t[1] /\ Apt(req[r], t)
  BY AsItStands
<1>2. Typed(q) /\ q.kind = req[r].kind /\ q.todo = t /\ q.hook = req[r].hook /\ DOMAIN q = Fields
  BY <1>1, LightTyped DEF Apt
<1>3. ASSUME u # <<>> PROVE Apt(q, u) /\ Head(u) \notin OnOwn
  <2>1. PICK m \in Nat : /\ m >= 1 /\ m < Len(t) /\ Drops(t, u, m)
                         /\ Head(u) = t[m + 1] /\ t[m + 1] \in S /\ \A i \in 2..m : t[i] \notin S
    BY <1>1, <1>3, FromDrops
  <2> HIDE DEF t, u
  <2>2. Head(u) \in S
    BY <2>1
  <2>3. Piece(q.kind, u)
    BY <1>1, <1>2, <2>1, PieceDrops DEF Apt
  <2>4. Stage(q, Head(u)) /\ Head(u) \notin OnOwn
    <3>1. "setRevoked" \in OnOwn
      BY DEF OnOwn
    <3>2. Head(u) \notin OnOwn \cup {"findIssuer", "sign", "readBits", "setRevoked", "readHistory", "record"}
      BY <2>2, <3>1
    <3> QED
      BY <3>2 DEF Stage
  <2>5. ASSUME q.kind = "seed" PROVE Seeding(q, u)
    <3>1. \A i \in 1..m : i = 1 \/ i \in 2..m
      BY <2>1
    <3>2. \A i \in 1..m : i \in 1..Len(t)
      BY <2>1 DEF Drops
    <3>3. \A i \in 1..m : t[i] # "seedAgents" /\ t[i] # "seedCreds"
      BY <1>1, <2>1, <2>5, <3>1, <3>2 DEF t
    <3>4. (\A i \in 1..m : t[i] # "store") \/ Head(u) \notin ItemSteps
      BY <2>2, <2>5, <3>2 DEF t
    <3>5. /\ q.issued = req[r].issued /\ q.subject = req[r].subject /\ q.intent = req[r].intent
          /\ Len(q.made) = Len(req[r].made) /\ Seeding(req[r], t)
      BY <1>1, <1>2, <2>5 DEF Light, Same, Apt
    <3> QED
      BY <2>1, <3>3, <3>4, <3>5, SeedingDrops
  <2> QED
    BY <1>2, <2>3, <2>4, <2>5 DEF Apt
<1>4. q.code \in {"ok", "revoked"}
  BY <1>2 DEF Typed
<1> HIDE DEF t
<1>5. Follow(r, q, u)
  BY DEF t
<1> HIDE DEF u
<1> QED
  BY <1>2, <1>3, <1>4, <1>5, FollowPasses

\* Whatever the handler makes of an exception.
LEMMA FailPasses ==
  ASSUME RequestsInv, FitsInv, NEW r \in Jobs, req[r] # None, Fail(r), Doing(r) \notin {"seedAgents", "seedCreds"}
  PROVE  Passes(r)
<1> DEFINE q == req[r]
           t == q.todo
<1>1. Light(q, q) /\ q.code \in Codes /\ t \in Seq(Steps) /\ t # <<>> /\ Doing(r) = Head(t) /\ Apt(q, t)
  BY AsItStands, OwnLight DEF Codes
<1>2. \/ q.kind = "score" /\ \E S \in {{"readIssuer"}, {"readNewest"}} : Follow(r, q, From(t, S))
      \/ q.kind = "seed" /\ SeedGoesOn(q) /\ Follow(r, q, AfterSeedFailure(q))
      \/ \E c \in Codes : End(r, c)
  <2>1. {"refused", "error"} \subseteq Codes
    BY DEF Codes
  <2> QED
    BY <1>1, <2>1 DEF Fail, Refuse
<1>3. CASE q.kind = "score" /\ \E S \in {{"readIssuer"}, {"readNewest"}} : Follow(r, q, From(t, S))
  <2>1. PICK S \in {{"readIssuer"}, {"readNewest"}} : Follow(r, q, From(t, S))
    BY <1>3
  <2>2. S \cap (OnOwn \cup {"findIssuer", "sign", "readBits", "readHistory", "record"}) = {}
    BY DEF OnOwn
  <2> QED
    BY <1>1, <1>3, <2>1, <2>2, FromPasses
<1>4. CASE q.kind = "seed" /\ SeedGoesOn(q) /\ Follow(r, q, AfterSeedFailure(q))
  <2>1. /\ SeedItems \cap (OnOwn \cup {"findIssuer", "sign", "readBits", "readHistory", "record"}) = {}
        /\ SeedItems \cap ItemSteps = {} /\ {"seedAgents", "seedCreds"} \subseteq SeedItems
        /\ {"seedIntent", "seedEvents"} \subseteq SeedItems
    BY DEF SeedItems, OnOwn, ItemSteps, AuditSteps
  <2>2. CASE Doing(r) \notin AuditSteps
    <3>1. Follow(r, q, From(t, SeedItems))
      BY <1>1, <1>4, <2>2 DEF AfterSeedFailure
    <3> QED
      BY <1>1, <1>4, <2>1, <3>1, FromPasses
  <2>3. CASE Doing(r) \in AuditSteps
    <3>1. \A i \in 1..Len(t) : t[i] # "seedTree"
      <4>1. "seedTree" \notin ToSet(t)
        BY <1>1, <1>4, <2>3 DEF SeedGoesOn
      <4>2. DOMAIN t = 1..Len(t)
        BY <1>1
      <4> QED
        BY <4>1, <4>2 DEF ToSet
    <3>2. \A i \in 1..Len(t) : t[i] \notin {"seedAgents", "seedCreds"}
      <4>1. TreeAfter(t) /\ Len(t) \in Nat
        BY <1>1, <1>4 DEF Apt, Seeding
      <4>2. \A j \in 1..Len(t) : \A i \in j + 1..Len(t) : i \in 1..Len(t)
        BY <4>1
      <4> QED
        BY <3>1, <4>1, <4>2 DEF TreeAfter
    <3>3. \E S \in {{"seedIntent"}, {"seedEvents"}} : Follow(r, q, From(t, S))
      BY <1>1, <1>4, <2>3 DEF AfterSeedFailure
    <3>4. PICK S \in {{"seedIntent"}, {"seedEvents"}} : Follow(r, q, From(t, S))
      BY <3>3
    <3>5. /\ S \cap (OnOwn \cup {"findIssuer", "sign", "readBits", "readHistory", "record"}) = {}
          /\ S \cap ItemSteps = {}
      BY <2>1, <3>4
    <3> HIDE DEF t
    <3>6. /\ q.kind \notin {"attest", "drift"} /\ Light(q, q)
          /\ \A i \in 1..Len(req[r].todo) : req[r].todo[i] \notin {"seedAgents", "seedCreds"}
      BY <1>1, <1>4, <3>2 DEF t
    <3> QED
      BY <1>4, <3>4, <3>5, <3>6, FromPasses DEF t
  <2> QED
    BY <2>2, <2>3
<1>5. CASE \E c \in Codes : End(r, c)
  BY <1>5, EndPasses
<1> QED
  BY <1>2, <1>3, <1>4, <1>5

\* Steps that end the request or leave nothing for the next step.
LEMMA UsualPasses ==
  ASSUME RequestsInv, FitsInv, NEW r \in Jobs, req[r] # None, Paid(r), Doing(r) \in Usual,
         \/ Fail(r) \/ Refuse(r) \/ End(r, "ok")
         \/ \E q : Light(req[r], q) /\ Proceed(r, q)
  PROVE  Passes(r)
<1>1. Doing(r) \notin {"seedAgents", "seedCreds"} /\ {"ok", "refused"} \subseteq Codes
  BY DEF Usual, Codes
<1>2. CASE Fail(r)
  BY <1>1, <1>2, FailPasses
<1>3. CASE Refuse(r) \/ End(r, "ok")
  BY <1>1, <1>3, EndPasses DEF Refuse
<1>4. CASE \E q : Light(req[r], q) /\ Proceed(r, q)
  BY <1>4, UsualProceeds
<1> QED
  BY <1>2, <1>3, <1>4

(***************************************************************************)
(* The usual steps.                                                        *)
(***************************************************************************)

\* A step that leaves nothing for the next one is done.
Routine(r) ==
  \/ Fail(r) \/ Refuse(r) \/ End(r, "ok")
  \/ \E q : Light(req[r], q) /\ Proceed(r, q)

LEMMA UsualSteps ==
  ASSUME RequestsInv, FitsInv, NEW r \in Jobs,
         \/ ReadNewest(r) \/ Stamp(r) \/ AppendEvent(r) \/ ReadKeys(r) \/ Rotate(r)
         \/ FindCred(r) \/ ReadBits(r) \/ ReadList(r) \/ MakeIssuer(r) \/ Fetch(r) \/ Flush(r)
         \/ Record(r) \/ ReadEvents(r) \/ ReadAgents(r) \/ WalkChain(r) \/ Reply(r)
         \/ DeleteCreds(r) \/ DeleteRest(r) \/ InsertHook(r) \/ DropHook(r) \/ CheckEmpty(r)
         \/ Spend(r) \/ SeedTrustEvents(r)
  PROVE  Passes(r)
<1>0. ASSUME NEW x \in Usual, Ready(r, x), Routine(r) PROVE Passes(r)
  BY <1>0, ReadyPaid, UsualPasses DEF Routine
<1>1. CASE ReadNewest(r)
  <2>1. Ready(r, "readNewest") /\ "readNewest" \in Usual
    BY <1>1 DEF ReadNewest, Usual, Steps
  <2>2. Light(req[r], [req[r] EXCEPT !.prev = Newest(log[AuditTenant(req[r])])])
    BY <2>1, ReadyPaid, FieldsAre DEF Light, Same, Alike
  <2>3. Routine(r)
    BY <1>1, <2>2 DEF ReadNewest, Routine
  <2> QED
    BY <1>0, <2>1, <2>3
<1>2. CASE Stamp(r)
  <2>1. Ready(r, "stamp") /\ "stamp" \in Usual
    BY <1>2 DEF Stamp, Usual, Steps
  <2>2. Light(req[r], [req[r] EXCEPT !.at = stamps + 1])
    BY <2>1, ReadyPaid, FieldsAre DEF Light, Same, Alike
  <2>3. Routine(r)
    BY <1>2, <2>2 DEF Stamp, Routine
  <2> QED
    BY <1>0, <2>1, <2>3
<1>3. CASE AppendEvent(r)
  <2>1. Ready(r, "append") /\ "append" \in Usual
    BY <1>3 DEF AppendEvent, Usual, Steps
  <2>2. Light(req[r], [req[r] EXCEPT !.prev = 0, !.at = 0])
    BY <2>1, ReadyPaid, FieldsAre DEF Light, Same, Alike
  <2>3. Routine(r)
    BY <1>3, <2>2 DEF AppendEvent, Routine
  <2> QED
    BY <1>0, <2>1, <2>3
<1>4. CASE ReadKeys(r)
  <2>1. Ready(r, "readKeys") /\ "readKeys" \in Usual
    BY <1>4 DEF ReadKeys, Usual, Steps
  <2>2. Light(req[r], [req[r] EXCEPT !.seen = Len(keys[req[r].agent]), !.fresh = req[r].tenant \notin tenants])
    BY <2>1, ReadyPaid, FieldsAre DEF Light, Same, Alike
  <2>3. Routine(r)
    BY <1>4, <2>2 DEF ReadKeys, Routine
  <2> QED
    BY <1>0, <2>1, <2>3
<1>5. CASE Rotate(r)
  <2>1. Ready(r, "rotate") /\ "rotate" \in Usual
    BY <1>5 DEF Rotate, Usual, Steps
  <2>2. Light(req[r], req[r])
    BY <2>1, ReadyPaid, OwnLight
  <2>3. Routine(r)
    BY <1>5, <2>2 DEF Rotate, Routine
  <2> QED
    BY <1>0, <2>1, <2>3
<1>6. CASE FindCred(r)
  <2>1. Ready(r, "findCred") /\ "findCred" \in Usual
    BY <1>6 DEF FindCred, Usual, Steps
  <2>2. Light(req[r], req[r])
    BY <2>1, ReadyPaid, OwnLight
  <2>3. Routine(r)
    BY <1>6, <2>2 DEF FindCred, Routine
  <2> QED
    BY <1>0, <2>1, <2>3
<1>7. CASE ReadList(r)
  <2>1. Ready(r, "readList") /\ "readList" \in Usual
    BY <1>7 DEF ReadList, Usual, Steps
  <2>2. Light(req[r], [req[r] EXCEPT !.bit = req[r].cred \in revoked, !.did = StatusIssuer])
    BY <2>1, ReadyPaid, FieldsAre DEF Light, Same, Alike
  <2>3. Routine(r)
    BY <1>7, <2>2 DEF ReadList, Routine
  <2> QED
    BY <1>0, <2>1, <2>3
<1>8. CASE MakeIssuer(r)
  <2>1. Ready(r, "makeIssuer") /\ "makeIssuer" \in Usual
    BY <1>8 DEF MakeIssuer, Usual, Steps
  <2>2. Light(req[r], [req[r] EXCEPT !.sig = [kid |-> 1, gen |-> resets[DefaultTenant]]])
    BY <2>1, ReadyPaid, FieldsAre DEF Light, Same, Alike
  <2>3. Routine(r)
    BY <1>8, <2>2 DEF MakeIssuer, Routine
  <2> QED
    BY <1>0, <2>1, <2>3
<1>9. CASE Fetch(r)
  <2>1. Ready(r, "fetch") /\ "fetch" \in Usual
    BY <1>9 DEF Fetch, Usual, Steps
  <2>2. Light(req[r], [req[r] EXCEPT !.seen = Document(req[r].did)])
    BY <2>1, ReadyPaid, FieldsAre DEF Light, Same, Alike
  <2>3. Routine(r)
    BY <1>9, <2>2 DEF Fetch, Routine
  <2> QED
    BY <1>0, <2>1, <2>3
<1>10. CASE Flush(r)
  <2>1. Ready(r, "flush") /\ "flush" \in Usual
    BY <1>10 DEF Flush, Usual, Steps
  <2>2. Light(req[r], req[r])
    BY <2>1, ReadyPaid, OwnLight
  <2>3. Routine(r)
    BY <1>10, <2>2 DEF Flush, Routine
  <2> QED
    BY <1>0, <2>1, <2>3
<1>11. CASE Record(r)
  <2>1. Ready(r, "record") /\ "record" \in Usual
    BY <1>11 DEF Record, Usual, Steps
  <2>2. Light(req[r], req[r])
    BY <2>1, ReadyPaid, OwnLight
  <2>3. Routine(r)
    BY <1>11, <2>2 DEF Record, Routine
  <2> QED
    BY <1>0, <2>1, <2>3
<1>12. CASE ReadEvents(r)
  <2>1. Ready(r, "readEvents") /\ "readEvents" \in Usual
    BY <1>12 DEF ReadEvents, Usual, Steps
  <2>2. Light(req[r], [req[r] EXCEPT !.tally = Profile(Of(events, req[r].agent, req[r].tenant))])
    BY <2>1, ReadyPaid, FieldsAre DEF Light, Same, Alike
  <2>3. Routine(r)
    BY <1>12, <2>2 DEF ReadEvents, Routine
  <2> QED
    BY <1>0, <2>1, <2>3
<1>13. CASE ReadAgents(r)
  <2>1. Ready(r, "readAgents") /\ "readAgents" \in Usual
    BY <1>13 DEF ReadAgents, Usual, Steps
  <2>2. Light(req[r], [req[r] EXCEPT !.seen = AgentsOf(req[r].tenant)])
    BY <2>1, ReadyPaid, FieldsAre DEF Light, Same, Alike
  <2>3. Routine(r)
    BY <1>13, <2>2 DEF ReadAgents, Routine
  <2> QED
    BY <1>0, <2>1, <2>3
<1>14. CASE WalkChain(r)
  <2>1. Ready(r, "walkChain") /\ "walkChain" \in Usual
    BY <1>14 DEF WalkChain, Usual, Steps
  <2>2. Light(req[r], [req[r] EXCEPT !.tally = Also(req[r].tally, [valid |-> Unbroken(log[req[r].tenant])])])
    BY <2>1, ReadyPaid, FieldsAre DEF Light, Same, Alike
  <2>3. Routine(r)
    BY <1>14, <2>2 DEF WalkChain, Routine
  <2> QED
    BY <1>0, <2>1, <2>3
<1>15. CASE Reply(r)
  <2>1. Ready(r, "reply") /\ "reply" \in Usual
    BY <1>15 DEF Reply, Usual, Steps
  <2>2. Light(req[r], req[r])
    BY <2>1, ReadyPaid, OwnLight
  <2>3. Routine(r)
    BY <1>15, <2>2 DEF Reply, Routine
  <2> QED
    BY <1>0, <2>1, <2>3
<1>16. CASE DeleteCreds(r)
  <2>1. Ready(r, "deleteCreds") /\ "deleteCreds" \in Usual
    BY <1>16 DEF DeleteCreds, Usual, Steps
  <2>2. Light(req[r], [req[r] EXCEPT !.seen = <<AgentsOf(req[r].tenant), RowsOf(req[r].tenant)>>])
    BY <2>1, ReadyPaid, FieldsAre DEF Light, Same, Alike
  <2>3. Routine(r)
    BY <1>16, <2>2 DEF DeleteCreds, Routine
  <2> QED
    BY <1>0, <2>1, <2>3
<1>17. CASE DeleteRest(r)
  <2>1. Ready(r, "deleteRest") /\ "deleteRest" \in Usual
    BY <1>17 DEF DeleteRest, Usual, Steps
  <2>2. Light(req[r], req[r])
    BY <2>1, ReadyPaid, OwnLight
  <2>3. Routine(r)
    BY <1>17, <2>2 DEF DeleteRest, Routine
  <2> QED
    BY <1>0, <2>1, <2>3
<1>18. CASE InsertHook(r)
  <2>1. Ready(r, "insertHook") /\ "insertHook" \in Usual
    BY <1>18 DEF InsertHook, Usual, Steps
  <2>2. Light(req[r], req[r])
    BY <2>1, ReadyPaid, OwnLight
  <2>3. Routine(r)
    BY <1>18, <2>2 DEF InsertHook, Routine
  <2> QED
    BY <1>0, <2>1, <2>3
<1>19. CASE DropHook(r)
  <2>1. Ready(r, "dropHook") /\ "dropHook" \in Usual
    BY <1>19 DEF DropHook, Usual, Steps
  <2>2. Light(req[r], req[r])
    BY <2>1, ReadyPaid, OwnLight
  <2>3. Routine(r)
    BY <1>19, <2>2 DEF DropHook, Routine
  <2> QED
    BY <1>0, <2>1, <2>3
<1>20. CASE CheckEmpty(r)
  <2>1. Ready(r, "checkEmpty") /\ "checkEmpty" \in Usual
    BY <1>20 DEF CheckEmpty, Usual, Steps
  <2>2. Light(req[r], req[r])
    BY <2>1, ReadyPaid, OwnLight
  <2>3. Routine(r)
    BY <1>20, <2>2 DEF CheckEmpty, Routine
  <2> QED
    BY <1>0, <2>1, <2>3
<1>21. CASE Spend(r)
  <2>1. Ready(r, "spend") /\ "spend" \in Usual
    BY <1>21 DEF Spend, Usual, Steps
  <2>2. Light(req[r], [req[r] EXCEPT !.spent = req[r].spent + req[r].price])
    BY <2>1, ReadyPaid, FieldsAre DEF Light, Same, Alike
  <2>3. Routine(r)
    BY <1>21, <2>2 DEF Spend, Routine
  <2> QED
    BY <1>0, <2>1, <2>3
<1>22. CASE SeedTrustEvents(r)
  <2>1. Ready(r, "seedEvents") /\ "seedEvents" \in Usual
    BY <1>22 DEF SeedTrustEvents, Usual, Steps
  <2>2. Light(req[r], req[r])
    BY <2>1, ReadyPaid, OwnLight
  <2>3. Routine(r)
    BY <1>22, <2>2 DEF SeedTrustEvents, Routine
  <2> QED
    BY <1>0, <2>1, <2>3
<1>23. CASE ReadBits(r)
  <2>1. Ready(r, "readBits") /\ "readBits" \in Usual
    BY <1>23 DEF ReadBits, Usual, Steps
  <2>2. Light(req[r], [req[r] EXCEPT !.bits = Bits(req[r].cred)])
    BY <2>1, ReadyPaid, FieldsAre DEF Light, Same, Alike
  <2>3. Routine(r)
    BY <1>23, <2>2 DEF ReadBits, Routine
  <2> QED
    BY <1>0, <2>1, <2>3
<1> QED
  BY <1>1, <1>2, <1>3, <1>4, <1>5, <1>6, <1>7, <1>8, <1>9, <1>10, <1>11, <1>12, <1>13, <1>14, <1>15, <1>16, <1>17, <1>18, <1>19, <1>20, <1>21, <1>22, <1>23

\* What verification believes.
LEMMA BelievePasses ==
  ASSUME RequestsInv, NEW r \in Jobs, req[r] # None, Believe(r, req[r])
  PROVE  Routine(r)
<1> DEFINE q == req[r]
<1>1. DOMAIN q = Fields /\ Light(q, q)
  BY OwnLight DEF RequestsInv, Request
<1>2. CASE q.bit = None
  BY <1>1, <1>2 DEF Believe, Routine
<1>3. CASE q.bit # None
  <2> DEFINE v == Append(q.verdicts, q.bit)
             s == IF q.kind = "score" THEN ValidityFactor(IF q.bit THEN "revoked" ELSE "valid", 0) ELSE q.score
             c == IF q.kind \in {"verify", "peer"} /\ q.bit THEN "revoked" ELSE q.code
             p == [q EXCEPT !.verdicts = v, !.score = s, !.code = c]
  <2>1. Proceed(r, p)
    BY <1>3 DEF Believe
  <2>2. (s = q.score \/ s \in Nat) /\ (c = q.code \/ c \in {"ok", "revoked"})
    BY DEF ValidityFactor
  <2> HIDE DEF v, s, c
  <2>3. Light(q, p)
    BY <1>1, <2>2, FieldsAre DEF Light, Same, Alike
  <2> QED
    BY <2>1, <2>3 DEF Routine
<1> QED
  BY <1>2, <1>3

\* A part of a script before the rest of it, after a step that leaves nothing.
LEMMA UsualInsists ==
  ASSUME RequestsInv, FitsInv, NEW r \in Jobs, req[r] # None, Paid(r), Doing(r) \in Usual \ (ItemSteps \cup {"seedCart"}),
         NEW q, Light(req[r], q), NEW w, Insist(r, q, w), NEW a, NEW z, Span(q.kind, w, a, z),
         a \notin {"findIssuer", "sign", "readBits", "setRevoked", "readHistory", "record"},
         a \in OnOwn => Doing(r) \notin Offline,
         \A x : Follows(q.kind, Doing(r), x) => Follows(q.kind, z, x),
         q.kind = "seed" => \A i \in 1..Len(w) : w[i] \notin OfItem \cup SeedItems
  PROVE  Passes(r)
<1>1. Typed(req[r]) /\ Stage(req[r], Doing(r)) /\ DOMAIN req[r] = Fields
  BY AsItStands DEF Apt
<1>2. Typed(q) /\ q.kind = req[r].kind /\ q.todo = req[r].todo /\ q.hook = req[r].hook /\ DOMAIN q = Fields
  BY <1>1, LightTyped
<1>3. Stage(q, a)
  <2>1. Doing(r) \notin {"allocate", "sign", "ensureTenant", "insert", "findHolder", "register", "refetch"}
    BY DEF Usual
  <2>2. q.kind \in {"attest", "drift"} => q.subject \in Agents
    BY <1>1, <1>2, <2>1 DEF Stage, Light
  <2>3. q.kind = "drift" => q.cred \in Creds
    BY <1>1, <1>2, <2>1 DEF Stage, Light
  <2> QED
    BY <2>2, <2>3 DEF Stage
<1>4. ASSUME q.kind = "seed" PROVE Seeding(q, w \o Tail(q.todo))
  <2> DEFINE t == req[r].todo
             u == Tail(t)
  <2>1. t \in Seq(Steps) /\ t # <<>> /\ Doing(r) = Head(t) /\ u \in Seq(Steps) /\ Seeding(req[r], t) /\ Drops(t, u, 1)
    BY <1>2, <1>4, AsItStands DEF Apt
  <2>2. Bare(u)
    <3>1. Bare(t)
      BY <2>1, BareIs DEF Seeding
    <3>2. \A i \in 1..Len(u) : u[i] = t[i + 1] /\ i + 1 \in 1..Len(t)
      BY <2>1 DEF Drops
    <3> QED
      BY <3>1, <3>2 DEF Bare
  <2>3. Seeding(q, u)
    BY <1>2, <1>4, TailSeeding DEF Light, Same, Usual
  <2>4. w \in Seq(Steps) /\ Seeding(q, w)
    BY <1>4, FrontSeeding DEF Span
  <2> HIDE DEF t
  <2>5. Seeding(q, w \o u)
    BY <2>1, <2>2, <2>3, <2>4, SeedingJoin
  <2> QED
    BY <1>2, <2>5 DEF t
<1> QED
  BY <1>2, <1>3, <1>4, InsistPasses

\* Verification, at home and at a peer.
LEMMA VerifyingPasses ==
  ASSUME RequestsInv, FitsInv, NEW r \in Jobs, Resolve(r) \/ EnsureIssuer(r) \/ Get(r) \/ Set(r)
  PROVE  Passes(r)
<1> DEFINE q == req[r]
           k == q.kind
<1>0. ASSUME NEW x \in Usual, Ready(r, x), Routine(r) PROVE Passes(r)
  BY <1>0, ReadyPaid, UsualPasses DEF Routine
<1>1. {"resolve", "ensureIssuer", "get", "set"} \subseteq Usual \ (ItemSteps \cup {"seedCart"})
  BY DEF Usual, Steps, ItemSteps, AuditSteps
<1>2. ASSUME NEW doc, NEW x \in Usual, Ready(r, x), JudgeAtPeer(r, doc) PROVE Passes(r)
  <2>1. Routine(r)
    BY <1>2, ReadyPaid, BelievePasses DEF JudgeAtPeer, Routine
  <2> QED
    BY <1>0, <1>2, <2>1
<1>3. CASE Resolve(r)
  <2>1. Ready(r, "resolve") /\ q # None /\ DOMAIN q = Fields /\ Doing(r) = "resolve" /\ Paid(r)
    BY <1>3, ReadyPaid DEF Resolve
  <2>2. CASE SignedBy(q.sig, Document(q.did)) /\ TooLate(q) /\ k = "score"
    <3> DEFINE v == ValidityFactor("expired", now - creds[q.cred].exp)
               p == [q EXCEPT !.score = v]
    <3>1. v \in Nat
      BY DEF ValidityFactor
    <3>2. Follow(r, p, From(q.todo, {"readIssuer"}))
      BY <1>3, <2>2 DEF Resolve
    <3> HIDE DEF v
    <3>3. Light(q, p) /\ p.kind = "score"
      BY <2>1, <2>2, <3>1, FieldsAre DEF Light, Same, Alike
    <3>4. {"readIssuer"} \cap (OnOwn \cup {"findIssuer", "sign", "readBits", "readHistory", "record"}) = {}
      BY DEF OnOwn
    <3> HIDE DEF p
    <3> QED
      BY <2>1, <3>2, <3>3, <3>4, FromPasses
  <2>3. CASE ~(SignedBy(q.sig, Document(q.did)) /\ TooLate(q) /\ k = "score")
    <3>1. Fail(r) \/ Believe(r, q)
      BY <1>3, <2>3 DEF Resolve
    <3>2. Routine(r)
      BY <2>1, <3>1, BelievePasses DEF Routine
    <3> QED
      BY <1>0, <1>1, <2>1, <3>2
  <2> QED
    BY <2>2, <2>3
<1>4. CASE EnsureIssuer(r)
  <2>1. Ready(r, "ensureIssuer") /\ q # None /\ DOMAIN q = Fields /\ Doing(r) = "ensureIssuer" /\ Paid(r)
    BY <1>4, ReadyPaid DEF EnsureIssuer
  <2>2. CASE StatusIssuer \in Registered
    <3>1. Light(q, SignedList(q, StatusIssuer))
      BY <2>1, FieldsAre DEF Light, Same, Alike, SignedList
    <3>2. Routine(r)
      BY <1>4, <2>2, <3>1 DEF EnsureIssuer, Routine
    <3> QED
      BY <1>0, <1>1, <2>1, <3>2
  <2>3. CASE StatusIssuer \notin Registered
    <3>1. Insist(r, q, <<"makeIssuer">>)
      BY <1>4, <2>3 DEF EnsureIssuer
    <3>2. Span(k, <<"makeIssuer">>, "makeIssuer", "makeIssuer")
      <4>1. "makeIssuer" \in Steps /\ Belongs(k, "makeIssuer")
        BY DEF Steps, Belongs, SeedItems
      <4> QED
        BY <4>1, SpanOne
    <3>3. \A x : Follows(k, "ensureIssuer", x) => Follows(k, "makeIssuer", x)
      BY DEF Follows, Offline
    <3>4. "ensureIssuer" \notin Offline
      BY DEF Offline
    <3>5. \A i \in 1..Len(<<"makeIssuer">>) : <<"makeIssuer">>[i] \notin OfItem \cup SeedItems
      BY DEF OfItem, SeedItems
    <3>6. PICK w : w = <<"makeIssuer">>
      OBVIOUS
    <3> HIDE DEF k
    <3>7. Insist(r, q, w) /\ Span(q.kind, w, "makeIssuer", "makeIssuer") /\ \A i \in 1..Len(w) : w[i] \notin OfItem \cup SeedItems
      BY <3>1, <3>2, <3>5, <3>6 DEF k
    <3>8. Light(q, q)
      BY <2>1, OwnLight
    <3> QED
      BY <1>1, <2>1, <3>3, <3>4, <3>7, <3>8, UsualInsists DEF k
  <2> QED
    BY <2>2, <2>3
<1>5. CASE Get(r)
  <2>1. Ready(r, "get") /\ q # None /\ DOMAIN q = Fields /\ Doing(r) = "get" /\ Paid(r)
    BY <1>5, ReadyPaid DEF Get
  <2>2. CASE Hits(cache, q.did, now) = {}
    <3> DEFINE p == [q EXCEPT !.since = now]
    <3>1. PICK w : w = <<"fetch", "set">>
      OBVIOUS
    <3>2. Insist(r, p, w)
      BY <1>5, <2>2, <3>1 DEF Get
    <3>3. Span(k, w, "fetch", "set")
      <4>1. {"fetch", "set"} \subseteq Steps /\ Belongs(k, "fetch") /\ Belongs(k, "set") /\ Follows(k, "fetch", "set")
        BY DEF Steps, Belongs, SeedItems, Follows, OnOwn
      <4> QED
        BY <3>1, <4>1, SpanTwo
    <3>4. \A x : Follows(k, "get", x) => Follows(k, "set", x)
      BY DEF Follows, Offline
    <3>5. "fetch" \notin OnOwn
      BY DEF OnOwn
    <3>6. \A i \in 1..Len(w) : w[i] \notin OfItem \cup SeedItems
      BY <3>1 DEF OfItem, SeedItems, AuditSteps
    <3>7. Light(q, p) /\ p.kind = k
      BY <2>1, FieldsAre DEF Light, Same, Alike
    <3> HIDE DEF p
    <3> QED
      BY <1>1, <2>1, <3>2, <3>3, <3>4, <3>5, <3>6, <3>7, UsualInsists
  <2>3. CASE Hits(cache, q.did, now) # {}
    BY <1>1, <1>2, <1>5, <2>1, <2>3 DEF Get
  <2> QED
    BY <2>2, <2>3
<1>6. CASE Set(r)
  <2>1. Ready(r, "set") /\ JudgeAtPeer(r, q.seen)
    BY <1>6 DEF Set
  <2> QED
    BY <1>1, <1>2, <2>1
<1> QED
  BY <1>3, <1>4, <1>5, <1>6

\* Reports, the dashboard, webhooks, and time running out.
LEMMA CountingPasses ==
  ASSUME RequestsInv, FitsInv, NEW r \in Jobs,
         \/ ReadBoard(r) \/ CheckCred(r) \/ CountEvents(r) \/ CountRows(r) \/ FindHook(r) \/ Dispatch(r)
         \/ SetRevoked(r) \/ Expire(r)
  PROVE  Passes(r)
<1> DEFINE q == req[r]
<1>0. ASSUME NEW x \in Usual, Ready(r, x), Routine(r) PROVE Passes(r)
  BY <1>0, ReadyPaid, UsualPasses DEF Routine
<1>1. {"readBoard", "checkCred", "countEvents", "countRows", "findHook", "dispatch", "setRevoked"} \subseteq Usual
  BY DEF Usual, Steps
<1>2. ASSUME q # None, DOMAIN q = Fields
      PROVE  \A x, y : Light(q, [q EXCEPT !.tally = x]) /\ Light(q, [q EXCEPT !.seen = x])
                       /\ Light(q, [q EXCEPT !.seen = x, !.tally = y])
  BY <1>2, FieldsAre DEF Light, Same, Alike
<1>3. CASE ReadBoard(r)
  <2>1. Ready(r, "readBoard") /\ \E x : Proceed(r, [q EXCEPT !.tally = x])
    BY <1>3 DEF ReadBoard
  <2>2. Routine(r)
    BY <1>2, <2>1, ReadyPaid DEF Routine
  <2> QED
    BY <1>0, <1>1, <2>1, <2>2
<1>4. CASE CountEvents(r)
  <2>1. Ready(r, "countEvents") /\ \E x : Proceed(r, [q EXCEPT !.tally = x])
    BY <1>4 DEF CountEvents
  <2>2. Routine(r)
    BY <1>2, <2>1, ReadyPaid DEF Routine
  <2> QED
    BY <1>0, <1>1, <2>1, <2>2
<1>5. CASE CheckCred(r)
  <2>1. Ready(r, "checkCred") /\ (Fail(r) \/ \E x, y : Proceed(r, [q EXCEPT !.seen = x, !.tally = y]))
    BY <1>5 DEF CheckCred
  <2>2. Routine(r)
    BY <1>2, <2>1, ReadyPaid DEF Routine
  <2> QED
    BY <1>0, <1>1, <2>1, <2>2
<1>6. CASE Dispatch(r)
  <2>1. Ready(r, "dispatch") /\ \E x : Proceed(r, [q EXCEPT !.seen = x])
    BY <1>6 DEF Dispatch
  <2>2. Routine(r)
    BY <1>2, <2>1, ReadyPaid DEF Routine
  <2> QED
    BY <1>0, <1>1, <2>1, <2>2
<1>7. CASE FindHook(r)
  <2>1. Ready(r, "findHook") /\ q # None /\ DOMAIN q = Fields /\ Doing(r) = "findHook"
    BY <1>7, ReadyPaid DEF FindHook
  <2>2. q.kind = "testHook"
    BY <2>1, AsItStands DEF Belongs
  <2>3. \A x : Light(q, [q EXCEPT !.topics = x])
    BY <2>1, <2>2, FieldsAre DEF Light, Same, Alike
  <2>4. Refuse(r) \/ \E x : Proceed(r, [q EXCEPT !.topics = x])
    BY <1>7 DEF FindHook
  <2>5. Routine(r)
    BY <2>3, <2>4 DEF Routine
  <2> QED
    BY <1>0, <1>1, <2>1, <2>5
<1>8. CASE Expire(r)
  <2>1. req[r] # None /\ Fail(r) /\ Doing(r) \notin {"seedAgents", "seedCreds"}
    BY <1>8 DEF Expire, TimeOut, Needs, Offline
  <2> QED
    BY <2>1, FailPasses
<1>9. CASE SetRevoked(r)
  <2>1. Ready(r, "setRevoked") /\ q # None /\ DOMAIN q = Fields /\ Doing(r) = "setRevoked" /\ Paid(r)
    BY <1>9, ReadyPaid DEF SetRevoked
  <2>2. \A x, y, z : Light(q, [q EXCEPT !.bits = None, !.bit = x, !.did = y, !.sig = z])
    BY <2>1, FieldsAre DEF Light, Same, Alike
  <2>3. Fail(r) \/ \E p : Light(q, p) /\ (Insist(r, p, Audit) \/ Proceed(r, p))
    BY <1>9, <2>2 DEF SetRevoked
  <2>4. ASSUME NEW p, Light(q, p), Insist(r, p, Audit) PROVE Passes(r)
    <3>1. Doing(r) \in Usual \ (ItemSteps \cup {"seedCart"}) /\ "readNewest" \notin OnOwn
      BY <1>1, <2>1 DEF ItemSteps, AuditSteps, OnOwn
    <3>2. Span(p.kind, Audit, "readNewest", "append")
      BY SharedSpans
    <3>3. \A x : Follows(p.kind, "setRevoked", x) => Follows(p.kind, "append", x)
      BY DEF Follows, Offline
    <3>4. \A i \in 1..Len(Audit) : Audit[i] \notin OfItem \cup SeedItems
      BY DEF Audit, OfItem, SeedItems
    <3> QED
      BY <2>1, <2>4, <3>1, <3>2, <3>3, <3>4, UsualInsists
  <2>5. (Fail(r) \/ \E p : Light(q, p) /\ Proceed(r, p)) => Routine(r)
    BY DEF Routine
  <2> QED
    BY <1>0, <1>1, <2>1, <2>3, <2>4, <2>5
<1>10. CASE CountRows(r)
  <2>1. Ready(r, "countRows") /\ q # None /\ DOMAIN q = Fields /\ Doing(r) = "countRows" /\ Paid(r)
    BY <1>10, ReadyPaid DEF CountRows
  <2>2. PICK p, n : /\ Light(q, p) /\ Insist(r, p, [i \in 1..n |-> "checkCred"])
                    /\ n = Cardinality(RowsOf(q.tenant))
    BY <1>2, <1>10, <2>1 DEF CountRows
  <2>3. n \in Nat
    <3>1. IsFiniteSet(RowsOf(q.tenant))
      BY RegistryAssumption, FS_Subset DEF RowsOf
    <3> QED
      BY <2>2, <3>1, FS_CardinalityType
  <2>4. PICK w : w = [i \in 1..n |-> "checkCred"]
    OBVIOUS
  <2>5. w \in Seq(Steps) /\ Len(w) = n /\ \A i \in 1..n : w[i] = "checkCred"
    BY <2>3, <2>4 DEF Steps
  <2>6. Insist(r, p, w)
    BY <2>2, <2>4
  <2>7. CASE n = 0
    <3>1. w = <<>> /\ Tail(p.todo) \in Seq(Steps)
      BY <2>1, <2>2, <2>5, <2>7, AsItStands DEF Light, Same, Alike
    <3>2. w \o Tail(p.todo) = Tail(p.todo)
      BY <3>1
    <3>3. Routine(r)
      BY <2>2, <2>6, <3>2 DEF Insist, Proceed, Routine
    <3> QED
      BY <1>0, <1>1, <2>1, <3>3
  <2>8. CASE n # 0
    <3>1. w # <<>> /\ Head(w) = "checkCred" /\ w[Len(w)] = "checkCred"
      BY <2>3, <2>5, <2>8
    <3>2. Piece(p.kind, w)
      <4>1. Follows(p.kind, "checkCred", "checkCred") /\ Belongs(p.kind, "checkCred")
        BY DEF Follows, Belongs, Offline, SeedItems
      <4>2. \A i \in 2..n : i - 1 \in 1..n /\ i \in 1..n
        BY <2>3
      <4> QED
        BY <2>5, <4>1, <4>2 DEF Piece
    <3>3. Doing(r) \in Usual \ (ItemSteps \cup {"seedCart"}) /\ Doing(r) \notin Offline
      BY <1>1, <2>1 DEF ItemSteps, AuditSteps, Offline
    <3>4. \A x : Follows(p.kind, "countRows", x) => Follows(p.kind, "checkCred", x)
      BY DEF Follows, Offline
    <3>5. \A i \in 1..Len(w) : w[i] \notin OfItem \cup SeedItems
      BY <2>5 DEF OfItem, SeedItems
    <3>6. Span(p.kind, w, "checkCred", "checkCred")
      BY <2>5, <3>1, <3>2 DEF Span
    <3> QED
      BY <2>1, <2>2, <2>6, <3>3, <3>4, <3>5, <3>6, UsualInsists
  <2> QED
    BY <2>7, <2>8
<1> QED
  BY <1>3, <1>4, <1>5, <1>6, <1>7, <1>8, <1>9, <1>10

\* Scores are numbers.
LEMMA BestIs ==
  ASSUME NEW S, S \subseteq {5, 10, 15, 20, 25}, 5 \in S
  PROVE  Max(S) \in Int
<1>1. \E x \in S : \A y \in S : x >= y
  <2>1. CASE 25 \in S
    BY <2>1
  <2>2. CASE 25 \notin S /\ 20 \in S
    BY <2>2
  <2>3. CASE 25 \notin S /\ 20 \notin S /\ 15 \in S
    BY <2>3
  <2>4. CASE S \subseteq {5, 10}
    BY <2>4
  <2> QED
    BY <2>1, <2>2, <2>3, <2>4
<1>2. PICK m : m = Max(S)
  OBVIOUS
<1>3. m \in S
  BY <1>1, <1>2 DEF Max
<1>4. m \in {5, 10, 15, 20, 25}
  BY <1>3
<1> QED
  BY <1>2, <1>4

LEMMA FactorsAre ==
  /\ \A x, y : IssuerFactor(x, y) \in Int
  /\ \A es : HistoryFactor(es) \in Int
  /\ \A depth \in Nat : DepthFactor(depth) \in Int
<1>1. \A part, whole : Banded(part, whole) \in Int
  <2> SUFFICES ASSUME NEW part, NEW whole PROVE Banded(part, whole) \in Int
    OBVIOUS
  <2> DEFINE bands == {<<5, 25>>, <<10, 20>>, <<20, 15>>, <<50, 10>>}
             some == {b \in bands : 100 * part < b[1] * whole}
             S == {5} \cup {b[2] : b \in some}
  <2>1. \A b \in bands : b[2] \in {5, 10, 15, 20, 25}
    OBVIOUS
  <2>2. some \subseteq bands
    OBVIOUS
  <2> HIDE DEF bands, some
  <2>3. S \subseteq {5, 10, 15, 20, 25} /\ 5 \in S
    BY <2>1, <2>2
  <2> HIDE DEF S
  <2>4. Max(S) \in Int
    BY <2>3, BestIs
  <2> QED
    BY <2>4 DEF Banded, S, some, bands
<1>2. \A es : HistoryFactor(es) \in Int
  <2> SUFFICES ASSUME NEW es PROVE HistoryFactor(es) \in Int
    OBVIOUS
  <2> DEFINE good == Count(es, {"verification_success"})
             total == Count(es, Verdicts)
             bands == {<<10, 95, 25>>, <<5, 90, 20>>, <<1, 80, 15>>, <<1, 50, 10>>}
             some == {b \in bands : total >= b[1] /\ 100 * good >= b[2] * total}
             S == {5} \cup {b[3] : b \in some}
  <2>1. \A b \in bands : b[3] \in {5, 10, 15, 20, 25}
    OBVIOUS
  <2>2. some \subseteq bands
    OBVIOUS
  <2>3. HistoryFactor(es) = IF total = 0 THEN 10 ELSE Max(S)
    BY DEF HistoryFactor
  <2> HIDE DEF bands, some, total, good
  <2>4. S \subseteq {5, 10, 15, 20, 25} /\ 5 \in S
    BY <2>1, <2>2
  <2> HIDE DEF S
  <2>5. Max(S) \in Int
    BY <2>4, BestIs
  <2> QED
    BY <2>3, <2>5
<1>3. \A depth \in Nat : DepthFactor(depth) \in Int
  BY DEF DepthFactor
<1> QED
  BY <1>1, <1>2, <1>3 DEF IssuerFactor

\* What is known of a credential.
CredsTyped == creds \in [DOMAIN creds -> Cred]

\* The parts of a score.
LEMMA ScoringPasses ==
  ASSUME RequestsInv, FitsInv, CredsTyped, NEW r \in Jobs, Verifies(r) => req[r].cred \in DOMAIN creds,
         ReadIssuer(r) \/ ReadHistory(r)
  PROVE  Passes(r)
<1> DEFINE q == req[r]
<1>1. PICK n : /\ n \in Int /\ Proceed(r, [q EXCEPT !.tally = n])
               /\ Ready(r, "readIssuer") \/ Ready(r, "readHistory")
  <2>1. CASE ReadIssuer(r)
    BY <2>1, FactorsAre DEF ReadIssuer
  <2>2. CASE ReadHistory(r)
    <3>1. Ready(r, "readHistory") /\ q # None /\ Doing(r) = "readHistory"
      BY <2>2, ReadyPaid DEF ReadHistory
    <3>2. q.kind = "score" /\ q.tally \in Int
      BY <3>1, AsItStands DEF Belongs, Apt, Stage
    <3>3. creds[q.cred].depth \in Nat
      BY <3>1, <3>2 DEF Verifies, Verifying, CredsTyped, Cred
    <3>4. PICK m, n : /\ m \in Int /\ n \in Int
                      /\ m = HistoryFactor(Of(events, q.subject, q.tenant)) /\ n = DepthFactor(creds[q.cred].depth)
      BY <3>3, FactorsAre
    <3>5. Proceed(r, [q EXCEPT !.tally = q.tally + m + n])
      BY <2>2, <3>4 DEF ReadHistory
    <3>6. q.tally + m + n \in Int
      BY <3>2, <3>4
    <3> QED
      BY <3>1, <3>5, <3>6
  <2> QED
    BY <2>1, <2>2
<1>2. /\ q # None /\ DOMAIN q = Fields /\ Doing(r) \in {"readIssuer", "readHistory"} /\ Paid(r)
      /\ Apt(q, q.todo) /\ Stage(q, Doing(r))
  BY <1>1, ReadyPaid, AsItStands DEF Apt
<1> DEFINE p == [q EXCEPT !.tally = n]
<1>3. Light(q, p) /\ p.tally = n
  BY <1>2, FieldsAre DEF Light, Same, Alike
<1> HIDE DEF p
<1>4. Typed(p) /\ p.kind = q.kind /\ p.todo = q.todo /\ p.hook = q.hook /\ DOMAIN p = Fields
  BY <1>2, <1>3, LightTyped DEF Apt
<1>5. Readies(r, p)
  <2>1. /\ p.kind \in {"attest", "drift"} => p.subject \in Agents
        /\ p.kind = "drift" => p.cred \in Creds
    BY <1>2, <1>3, <1>4 DEF Stage, Light
  <2> QED
    BY <1>1, <1>2, <1>3, <2>1 DEF Readies, Follows, Stage
<1>6. p.kind = "seed" => Seeding(p, Tail(p.todo))
  BY <1>2, <1>3, <1>4, TailSeeding DEF Light, Same
<1> QED
  BY <1>1, <1>2, <1>4, <1>5, <1>6, ProceedPasses DEF p

(***************************************************************************)
(* The steps that leave something for the next one.                        *)
(***************************************************************************)

\* What a step has found, for the next one.
LEMMA FoundPasses ==
  ASSUME RequestsInv, FitsInv, NEW r \in Jobs, req[r] # None, Paid(r),
         Doing(r) \notin {"seedAgents", "seedCreds", "store"},
         NEW q, DOMAIN q = Fields, q.hook = req[r].hook, q.kind = req[r].kind, q.todo = req[r].todo,
         q.issued = req[r].issued, q.intent = req[r].intent, q.made = req[r].made,
         q.subject = req[r].subject \/ q.subject \in Agents, Typed(q), Readies(r, q), Proceed(r, q)
  PROVE  Passes(r)
BY TailSeeding, ProceedPasses

LEMMA AllocatePasses ==
  ASSUME RequestsInv, FitsInv, RowsInv, NEW r \in Jobs, EnsureTenant(r) \/ Allocate(r) \/ FindIssuer(r)
  PROVE  Passes(r)
<1> DEFINE q == req[r]
<1>1. /\ q # None /\ DOMAIN q = Fields /\ Paid(r) /\ Doing(r) \in {"ensureTenant", "allocate", "findIssuer"}
      /\ Typed(q) /\ Stage(q, Doing(r)) /\ Belongs(q.kind, Doing(r)) /\ q.tenant \in Tenants
  <2>1. Ready(r, "ensureTenant") \/ Ready(r, "allocate") \/ Ready(r, "findIssuer")
    BY DEF EnsureTenant, Allocate, FindIssuer
  <2> QED
    BY <2>1, ReadyPaid, AsItStands, OwnData DEF Apt, Data
<1>2. ASSUME NEW p, Light(q, p), Readies(r, p), Proceed(r, p) PROVE Passes(r)
  <2>1. Typed(p) /\ p.kind = q.kind /\ p.todo = q.todo /\ p.hook = q.hook /\ DOMAIN p = Fields
    BY <1>1, <1>2, LightTyped
  <2> QED
    BY <1>1, <1>2, <2>1, FoundPasses DEF Light, Same
<1>3. CASE EnsureTenant(r)
  <2>1. PICK p : Proceed(r, p) /\ Light(q, p) /\ p.kind = q.kind
    BY <1>1, <1>3, FieldsAre DEF EnsureTenant, Light, Same, Alike
  <2>2. Doing(r) = "ensureTenant"
    BY <1>3 DEF EnsureTenant, Ready
  <2>3. Readies(r, p)
    BY <2>2 DEF Readies, Follows, Stage, Belongs
  <2> QED
    BY <1>2, <2>1, <2>3
<1>4. CASE Allocate(r)
  <2>1. PICK p : Proceed(r, p) /\ Light(q, p) /\ p.kind = q.kind /\ p.seen = resets[q.tenant]
    BY <1>1, <1>4, FieldsAre DEF Allocate, Light, Same, Alike
  <2>2. Doing(r) = "allocate" /\ p.seen \in Nat
    BY <1>1, <1>4, <2>1 DEF Allocate, Ready, RowsInv
  <2>3. p.kind \in {"attest", "drift"} => p.subject \in Agents
    BY <1>1, <2>1, <2>2 DEF Light, Stage
  <2>4. Readies(r, p)
    BY <2>2, <2>3 DEF Readies, Follows, Stage, Belongs
  <2> QED
    BY <1>2, <2>1, <2>4
<1>5. CASE FindIssuer(r)
  <2>1. Refuse(r) \/ Proceed(r, q)
    BY <1>5 DEF FindIssuer
  <2>2. Doing(r) = "findIssuer"
    BY <1>5 DEF FindIssuer, Ready
  <2>3. Readies(r, q)
    BY <1>1, <2>2 DEF Readies, Follows, Stage, Belongs
  <2>4. Light(q, q) /\ "refused" \in Codes
    BY <1>1, OwnLight DEF Codes
  <2> QED
    BY <1>2, <2>1, <2>3, <2>4, EndPasses DEF Refuse
<1> QED
  BY <1>3, <1>4, <1>5

\* A holder is an agent.
LEMMA HolderPasses ==
  ASSUME RequestsInv, FitsInv, NEW r \in Jobs, req[r] # None, Paid(r), NEW a \in Agents, Proceed(r, Holds(req[r], a)),
         Doing(r) \in {"findHolder", "register", "refetch"}
  PROVE  Passes(r)
<1> DEFINE q == req[r]
           p == Holds(q, a)
<1>1. DOMAIN q = Fields /\ Typed(q) /\ q.kind = "attest"
  BY AsItStands DEF Apt, Belongs
<1>2. /\ DOMAIN p = Fields /\ p.hook = q.hook /\ p.kind = q.kind /\ p.todo = q.todo /\ p.issued = q.issued
      /\ p.intent = q.intent /\ p.made = q.made /\ p.subject = a
      /\ p.score = q.score /\ p.price = q.price /\ p.targets = q.targets /\ p.deals = q.deals
      /\ p.carts = q.carts /\ p.code = q.code
  BY <1>1, FieldsAre DEF Holds
<1> HIDE DEF p
<1>3. Typed(p)
  BY <1>1, <1>2 DEF Typed
<1>4. Readies(r, p)
  BY <1>1, <1>2 DEF Readies, Follows, Stage, Belongs
<1>5. Proceed(r, p)
  BY DEF p
<1> QED
  BY <1>2, <1>3, <1>4, <1>5, FoundPasses

\* An attestation goes on with other steps to find its agent.
LEMMA AttestInsists ==
  ASSUME RequestsInv, FitsInv, NEW r \in Jobs, req[r] # None, Paid(r), Doing(r) \in {"findHolder", "register"},
         NEW w, Insist(r, req[r], w),
         \/ Doing(r) = "findHolder" /\ w = <<"ensureTenant", "register">>
         \/ Doing(r) = "register" /\ w = <<"refetch">>
  PROVE  Passes(r)
<1> DEFINE q == req[r]
           a == IF Doing(r) = "findHolder" THEN "ensureTenant" ELSE "refetch"
           z == IF Doing(r) = "findHolder" THEN "register" ELSE "refetch"
<1>1. DOMAIN q = Fields /\ Typed(q) /\ q.kind = "attest"
  BY AsItStands DEF Apt, Belongs
<1>2. Span("attest", w, a, z)
  <2>1. /\ {"ensureTenant", "register", "refetch"} \subseteq Steps /\ Belongs("attest", "refetch")
        /\ Belongs("attest", "ensureTenant") /\ Belongs("attest", "register") /\ Follows("attest", "ensureTenant", "register")
    BY DEF Steps, Belongs, SeedItems, Follows, Offline
  <2> QED
    BY <2>1, SpanOne, SpanTwo
<1>3. Stage(q, a) /\ a \notin OnOwn
  BY <1>1 DEF Stage, OnOwn
<1>4. \A x : Follows("attest", Doing(r), x) => Follows("attest", z, x)
  BY DEF Follows, Offline
<1> HIDE DEF a, z
<1> QED
  BY <1>1, <1>2, <1>3, <1>4, InsistPasses

LEMMA AttestPasses ==
  ASSUME RequestsInv, FitsInv, NEW r \in Jobs, FindHolder(r) \/ Register(r) \/ Refetch(r)
  PROVE  Passes(r)
<1>1. /\ req[r] # None /\ Paid(r) /\ Doing(r) \in {"findHolder", "register", "refetch"}
  <2>1. Ready(r, "findHolder") \/ Ready(r, "register") \/ Ready(r, "refetch")
    BY DEF FindHolder, Register, Refetch
  <2> QED
    BY <2>1, ReadyPaid
<1>2. HoldersOf(req[r].spiffe) \subseteq Agents
  BY DEF HoldersOf, Registered
<1>3. CASE FindHolder(r)
  <2>1. Doing(r) = "findHolder"
    BY <1>3 DEF FindHolder, Ready
  <2>2. \/ Insist(r, req[r], <<"ensureTenant", "register">>)
        \/ \E a \in HoldersOf(req[r].spiffe) : Proceed(r, Holds(req[r], a))
    BY <1>3 DEF FindHolder
  <2> QED
    BY <1>1, <1>2, <2>1, <2>2, HolderPasses, AttestInsists
<1>4. CASE Register(r)
  <2>1. Doing(r) = "register"
    BY <1>4 DEF Register, Ready
  <2>2. \/ Insist(r, req[r], <<"refetch">>)
        \/ RoomForAgent /\ Proceed(r, Holds(req[r], Min(Unused)))
    BY <1>4 DEF Register
  <2>3. RoomForAgent => Min(Unused) \in Agents
    BY LeastUnused
  <2> QED
    BY <1>1, <2>1, <2>2, <2>3, HolderPasses, AttestInsists
<1>5. CASE Refetch(r)
  <2>1. Fail(r) \/ \E a \in HoldersOf(req[r].spiffe) : Proceed(r, Holds(req[r], a))
    BY <1>5 DEF Refetch
  <2> QED
    BY <1>1, <1>2, <2>1, HolderPasses, FailPasses
<1> QED
  BY <1>3, <1>4, <1>5

\* An audit event of seeding.
LEMMA AuditPasses ==
  ASSUME RequestsInv, FitsInv, NEW r \in Jobs, req[r] # None, Paid(r), Doing(r) \in {"insert", "store"}, NEW q,
         Insist(r, q, Audit), q.kind = "seed",
         DOMAIN q = Fields, q.hook = req[r].hook, q.kind = req[r].kind, q.todo = req[r].todo, Typed(q),
         Seeding(q, Tail(q.todo))
  PROVE  Passes(r)
<1>1. Span(q.kind, Audit, "readNewest", "append") /\ Stage(q, "readNewest") /\ "readNewest" \notin OnOwn
  BY SharedSpans DEF Stage, OnOwn
<1>2. \A x : Follows(q.kind, Doing(r), x) => Follows(q.kind, "append", x)
  BY DEF Follows, Offline
<1>3. Seeding(q, Audit \o Tail(q.todo))
  <2>1. Audit \in Seq(Steps) /\ \A i \in 1..Len(Audit) : Audit[i] \in AuditSteps
    BY DEF Audit, Steps, AuditSteps
  <2>2. Seeding(q, Audit) /\ \A i \in 1..Len(Audit) : Audit[i] \in ItemSteps
    BY <2>1, FrontSeeding DEF OfItem, SeedItems, AuditSteps, ItemSteps
  <2>3. Tail(q.todo) \in Seq(Steps)
    BY AsItStands
  <2> QED
    BY <2>1, <2>2, <2>3, SeedingJoin
<1> QED
  BY <1>1, <1>2, <1>3, InsistPasses

LEMMA InsertPasses ==
  ASSUME RequestsInv, FitsInv, NEW r \in Jobs, InsertAgent(r)
  PROVE  Passes(r)
<1> DEFINE q == req[r]
           a == Min(Unused)
           b == IF q.agent = None THEN a ELSE q.agent
           p == [q EXCEPT !.fresh = FALSE, !.subject = a, !.agent = b]
           m == [q.made EXCEPT ![Len(q.made)] = a]
           s == [q EXCEPT !.fresh = FALSE, !.subject = a, !.agent = b, !.made = m]
<1>1. /\ q # None /\ DOMAIN q = Fields /\ Paid(r) /\ Doing(r) = "insert" /\ Typed(q) /\ Stage(q, Doing(r))
      /\ q.made \in Seq(Agents \cup {None})
  <2>1. Ready(r, "insert")
    BY DEF InsertAgent
  <2> QED
    BY <2>1, ReadyPaid, AsItStands, OwnData DEF Apt, Data
<1>2. \/ Fail(r)
      \/ RoomForAgent /\ IF q.kind = "seed" THEN Insist(r, s, Audit) ELSE Proceed(r, p)
  BY DEF InsertAgent
<1>3. CASE Fail(r)
  BY <1>1, <1>3, FailPasses
<1>4. CASE RoomForAgent /\ q.kind = "seed" /\ Insist(r, s, Audit)
  <2>1. a \in Agents
    BY <1>4, LeastUnused
  <2> HIDE DEF a, b
  <2>2. Len(m) = Len(q.made)
    BY <1>1
  <2> HIDE DEF m
  <2>3. /\ DOMAIN s = Fields /\ s.hook = q.hook /\ s.kind = q.kind /\ s.todo = q.todo /\ s.issued = q.issued
        /\ s.intent = q.intent /\ s.made = m /\ s.subject = a /\ s.cred = q.cred
        /\ s.score = q.score /\ s.price = q.price /\ s.targets = q.targets /\ s.deals = q.deals
        /\ s.carts = q.carts /\ s.code = q.code
    BY <1>1, FieldsAre
  <2>4. Insist(r, s, Audit)
    BY <1>4
  <2> HIDE DEF s
  <2>5. Typed(s)
    BY <1>1, <1>4, <2>3 DEF Typed
  <2>6. Seeding(s, Tail(q.todo))
    BY <1>1, <1>4, <2>1, <2>2, <2>3, TailSeeding
  <2> QED
    BY <1>1, <1>4, <2>3, <2>4, <2>5, <2>6, AuditPasses
<1>5. CASE RoomForAgent /\ q.kind # "seed" /\ Proceed(r, p)
  <2>1. a \in Agents
    BY <1>5, LeastUnused
  <2> HIDE DEF a, b
  <2>2. /\ DOMAIN p = Fields /\ p.hook = q.hook /\ p.kind = q.kind /\ p.todo = q.todo /\ p.issued = q.issued
        /\ p.intent = q.intent /\ p.made = q.made /\ p.subject = a /\ p.cred = q.cred
        /\ p.score = q.score /\ p.price = q.price /\ p.targets = q.targets /\ p.deals = q.deals
        /\ p.carts = q.carts /\ p.code = q.code /\ p.topics = q.topics
    BY <1>1, FieldsAre
  <2>3. Proceed(r, p)
    BY <1>5
  <2> HIDE DEF p
  <2>4. Typed(p)
    BY <1>1, <2>1, <2>2 DEF Typed
  <2>5. Readies(r, p)
    BY <1>1, <2>1, <2>2 DEF Readies, Follows, Stage
  <2> QED
    BY <1>1, <2>1, <2>2, <2>3, <2>4, <2>5, FoundPasses
<1> QED
  BY <1>2, <1>3, <1>4, <1>5

LEMMA SignPasses ==
  ASSUME RequestsInv, FitsInv, NEW r \in Jobs, Sign(r)
  PROVE  Passes(r)
<1> DEFINE q == req[r]
           c == Min(Unsigned)
<1>1. /\ q # None /\ DOMAIN q = Fields /\ Paid(r) /\ Doing(r) = "sign" /\ Typed(q) /\ Stage(q, Doing(r))
  <2>1. Ready(r, "sign")
    BY DEF Sign
  <2> QED
    BY <2>1, ReadyPaid, AsItStands DEF Apt
<1>2. \/ Fail(r)
      \/ \E sig : RoomForCred /\ Proceed(r, [q EXCEPT !.cred = c, !.did = q.agent, !.sig = sig, !.seen = None])
  BY DEF Sign
<1>3. CASE Fail(r)
  BY <1>1, <1>3, FailPasses
<1>4. ASSUME NEW sig, RoomForCred, Proceed(r, [q EXCEPT !.cred = c, !.did = q.agent, !.sig = sig, !.seen = None])
      PROVE  Passes(r)
  <2>1. c \in Creds
    BY <1>4, LeastUnused DEF Unsigned
  <2> HIDE DEF c
  <2> DEFINE p == [q EXCEPT !.cred = c, !.did = q.agent, !.sig = sig, !.seen = None]
  <2>2. /\ DOMAIN p = Fields /\ p.hook = q.hook /\ p.kind = q.kind /\ p.todo = q.todo /\ p.issued = q.issued
        /\ p.intent = q.intent /\ p.made = q.made /\ p.subject = q.subject /\ p.cred = c
        /\ p.score = q.score /\ p.price = q.price /\ p.targets = q.targets /\ p.deals = q.deals
        /\ p.carts = q.carts /\ p.code = q.code /\ p.topics = q.topics
    BY <1>1, FieldsAre
  <2>3. Proceed(r, p)
    BY <1>4
  <2> HIDE DEF p
  <2>4. Typed(p)
    BY <1>1, <2>1, <2>2 DEF Typed
  <2>5. p.kind \in {"attest", "drift"} => p.subject \in Agents
    BY <1>1, <2>2 DEF Stage
  <2>6. Readies(r, p)
    BY <1>1, <2>1, <2>2, <2>5 DEF Readies, Follows, Stage
  <2> QED
    BY <1>1, <2>2, <2>3, <2>4, <2>6, FoundPasses
<1> QED
  BY <1>2, <1>3, <1>4

\* A sequence with another last element.
LEMMA OtherLast ==
  ASSUME NEW A, NEW x \in Seq(A), NEW c \in A
  PROVE  LET l == [x EXCEPT ![Len(x)] = c] IN
         /\ l \in Seq(A) /\ Len(l) = Len(x)
         /\ \A i \in 1..Len(l) : l[i] = c \/ l[i] = x[i]
         /\ l # <<>> => l[Len(l)] = c
<1>1. PICK n : n = Len(x)
  OBVIOUS
<1>2. PICK l : l = [x EXCEPT ![n] = c]
  OBVIOUS
<1>3. n \in Nat /\ DOMAIN x = 1..n /\ \A i \in 1..n : x[i] \in A
  BY <1>1
<1>4. DOMAIN l = 1..n /\ (\A i \in 1..n : l[i] = IF i = n THEN c ELSE x[i]) /\ l = [i \in 1..n |-> l[i]]
  BY <1>2, <1>3
<1>5. l \in Seq(A) /\ Len(l) = n
  <2>1. \A i \in 1..n : l[i] \in A
    BY <1>3, <1>4
  <2>2. PICK f : f = [i \in 1..n |-> l[i]]
    OBVIOUS
  <2>3. f \in Seq(A) /\ Len(f) = n
    BY <1>3, <2>1, <2>2
  <2> QED
    BY <1>4, <2>2, <2>3
<1>6. l # <<>> => n \in 1..n
  BY <1>3, <1>5
<1> QED
  BY <1>1, <1>2, <1>4, <1>5, <1>6

LEMMA StorePasses ==
  ASSUME RequestsInv, FitsInv, AttestInv, NEW r \in Jobs, Store(r)
  PROVE  Passes(r)
<1> DEFINE q == req[r]
           l == [q.issued EXCEPT ![Len(q.issued)] = q.cred]
           p == [q EXCEPT !.issued = l]
<1>1. /\ q # None /\ DOMAIN q = Fields /\ Paid(r) /\ Doing(r) = "store" /\ Typed(q) /\ Stage(q, Doing(r))
      /\ q.todo \in Seq(Steps) /\ q.todo # <<>> /\ q.todo[1] = "store" /\ Drops(q.todo, Tail(q.todo), 1)
      /\ q.kind = "seed" => Seeding(q, q.todo)
  <2>1. Ready(r, "store")
    BY DEF Store
  <2> QED
    BY <2>1, ReadyPaid, AsItStands DEF Apt
<1>2. q.cred \in Creds
  BY <1>1 DEF AttestInv, CredsInv, Attesting, Doing
<1>3. \/ Fail(r)
      \/ IF q.kind = "seed" THEN Insist(r, p, Audit) ELSE Proceed(r, q)
  BY DEF Store
<1>4. CASE Fail(r)
  BY <1>1, <1>4, FailPasses
<1>5. CASE q.kind = "seed" /\ Insist(r, p, Audit)
  <2>1. /\ l \in Seq(Creds \cup {None}) /\ Len(l) = Len(q.issued)
        /\ \A i \in 1..Len(l) : l[i] = q.cred \/ l[i] = q.issued[i]
        /\ l # <<>> => l[Len(l)] = q.cred
    <3>1. q.issued \in Seq(Creds \cup {None}) /\ q.cred \in Creds \cup {None}
      BY <1>1, <1>2 DEF Typed
    <3>2. PICK x, c, A : x = q.issued /\ c = q.cred /\ A = Creds \cup {None}
      OBVIOUS
    <3>3. x \in Seq(A) /\ c \in A
      BY <3>1, <3>2
    <3>4. PICK e : e = [x EXCEPT ![Len(x)] = c]
      OBVIOUS
    <3>5. /\ e \in Seq(A) /\ Len(e) = Len(x) /\ \A i \in 1..Len(e) : e[i] = c \/ e[i] = x[i]
          /\ e # <<>> => e[Len(e)] = c
      BY <3>3, <3>4, OtherLast
    <3>6. e = l
      BY <3>2, <3>4
    <3> HIDE DEF l
    <3> QED
      BY <3>2, <3>5, <3>6
  <2> HIDE DEF l
  <2>2. /\ DOMAIN p = Fields /\ p.hook = q.hook /\ p.kind = q.kind /\ p.todo = q.todo /\ p.issued = l
        /\ p.intent = q.intent /\ p.made = q.made /\ p.subject = q.subject /\ p.cred = q.cred
        /\ p.score = q.score /\ p.price = q.price /\ p.targets = q.targets /\ p.deals = q.deals
        /\ p.carts = q.carts /\ p.code = q.code /\ p.topics = q.topics
    BY <1>1, FieldsAre
  <2>3. Insist(r, p, Audit)
    BY <1>5
  <2> HIDE DEF p
  <2>4. Typed(p)
    BY <1>1, <2>1, <2>2 DEF Typed
  <2>5. Seeding(p, q.todo)
    <3>1. Tidy(q.todo) /\ TreeAfter(q.todo) /\ Waits(q, q.todo) /\ Able(q, q.todo)
      BY <1>1, <1>5 DEF Seeding
    <3>2. Waits(p, q.todo)
      BY <2>1, <2>2, <3>1 DEF Waits
    <3>3. ASSUME q.intent \in 1..Len(q.issued), q.issued[q.intent] \in Creds
          PROVE  l[q.intent] \in Creds /\ l[Len(l)] \in Creds
      BY <1>2, <2>1, <3>3
    <3>4. Able(p, q.todo)
      BY <2>1, <2>2, <3>1, <3>3 DEF Able
    <3> QED
      BY <3>1, <3>2, <3>4 DEF Seeding
  <2>6. Seeding(p, Tail(q.todo))
    <3>1. \A i \in 1..1 : q.todo[i] # "seedAgents" /\ q.todo[i] # "seedCreds"
      BY <1>1
    <3>2. p.issued # <<>> => p.issued[Len(p.issued)] \in Creds
      BY <1>2, <2>1, <2>2
    <3> QED
      BY <1>1, <2>5, <3>1, <3>2, SeedingDrops
  <2> QED
    BY <1>1, <1>5, <2>2, <2>3, <2>4, <2>6, AuditPasses
<1>6. CASE q.kind # "seed" /\ Proceed(r, q)
  <2>1. Readies(r, q)
    BY <1>1, <1>2 DEF Readies, Follows, Stage
  <2> QED
    BY <1>1, <1>6, <2>1, ProceedPasses
<1> QED
  BY <1>3, <1>4, <1>5, <1>6

(***************************************************************************)
(* The steps of seeding.                                                   *)
(***************************************************************************)

\* What a step that uses what was seeded before finds.
LEMMA SeededBefore ==
  ASSUME RequestsInv, FitsInv, NEW r \in Jobs, req[r] # None, Belongs(req[r].kind, Doing(r)) => req[r].kind = "seed"
  PROVE  /\ Seeding(req[r], req[r].todo) /\ req[r].made \in Seq(Agents \cup {None})
         /\ req[r].issued \in Seq(Creds \cup {None})
         /\ Doing(r) \in {"seedCreds", "seedIntent", "seedEvents"} =>
              Len(req[r].made) = Len(Roster) /\ \A i \in DOMAIN Roster : req[r].made[i] \in Agents \cup {None}
         /\ Doing(r) = "seedRevoked" => \A n \in DOMAIN Plan : req[r].issued[n] \in Creds \cup {None}
         /\ Doing(r) = "seedCart" => req[r].subject \in Agents /\ req[r].intent \in 1..Len(req[r].issued)
         /\ Doing(r) = "spend" =>
              /\ req[r].intent \in 1..Len(req[r].issued) /\ req[r].issued[req[r].intent] \in Creds
              /\ req[r].issued[Len(req[r].issued)] \in Creds
<1> DEFINE q == req[r]
           t == q.todo
<1>1. /\ t \in Seq(Steps) /\ t # <<>> /\ Doing(r) = Head(t) /\ Seeding(q, t) /\ Typed(q)
      /\ q.made \in Seq(Agents \cup {None}) /\ Len(q.made) <= Len(Roster)
  BY AsItStands, OwnData DEF Apt, Data
<1>2. 1 \in 1..Len(t) /\ t[1] = Doing(r) /\ Len(t) \in Nat /\ 1..1 - 1 = {}
  BY <1>1
<1>3. /\ Len(Roster) \in Nat /\ Len(Plan) \in Nat /\ DOMAIN Roster = 1..Len(Roster) /\ DOMAIN Plan = 1..Len(Plan)
  BY BackendAssumption, SeedAssumption
<1>4. q.issued \in Seq(Creds \cup {None})
  BY <1>1 DEF Typed
<1>5. /\ Len(q.made) \in Nat /\ \A i \in 1..Len(q.made) : q.made[i] \in Agents \cup {None}
      /\ Len(q.issued) \in Nat /\ \A i \in 1..Len(q.issued) : q.issued[i] \in Creds \cup {None}
  BY <1>1, <1>4
<1> HIDE DEF t
<1>6. ASSUME NEW X, NEW z, Pending(t, X, z) PROVE Doing(r) \notin X
  BY <1>2, <1>6 DEF Pending
<1>7. Waits(q, t) /\ Able(q, t)
  BY <1>1 DEF Seeding
<1>8. Doing(r) \in {"seedCreds", "seedIntent", "seedEvents"} => ~(Len(q.made) < Len(Roster))
  BY <1>6, <1>7 DEF Waits
<1>9. Doing(r) = "seedRevoked" => ~(Len(q.issued) < Len(Plan))
  BY <1>6, <1>7 DEF Waits
<1>10. Doing(r) \in {"seedCreds", "seedIntent", "seedEvents"} =>
         Len(q.made) = Len(Roster) /\ \A i \in DOMAIN Roster : q.made[i] \in Agents \cup {None}
  BY <1>1, <1>3, <1>5, <1>8
<1>11. Doing(r) = "seedRevoked" => \A n \in DOMAIN Plan : q.issued[n] \in Creds \cup {None}
  BY <1>3, <1>5, <1>9
<1>12. Doing(r) = "seedCart" => q.subject \in Agents /\ q.intent \in 1..Len(q.issued)
  BY <1>2, <1>7 DEF Able
<1>13. Doing(r) = "spend" => /\ q.intent \in 1..Len(q.issued) /\ q.issued[q.intent] \in Creds
                             /\ q.issued[Len(q.issued)] \in Creds
  BY <1>2, <1>7 DEF Able
<1> QED
  BY <1>1, <1>4, <1>10, <1>11, <1>12, <1>13 DEF t

\* An item that is skipped.
LEMMA AgainPasses ==
  ASSUME RequestsInv, FitsInv, NEW r \in Jobs, req[r] # None, NEW q, Insist(r, q, <<Doing(r)>>),
         DOMAIN q = Fields, q.hook = req[r].hook, q.kind = req[r].kind, q.todo = req[r].todo, Typed(q),
         Doing(r) \in SeedItems, Seeding(q, q.todo)
  PROVE  Passes(r)
<1> DEFINE t == q.todo
<1>1. t \in Seq(Steps) /\ t # <<>> /\ Doing(r) = Head(t) /\ Apt(req[r], t)
  BY AsItStands
<1>2. <<Doing(r)>> \o Tail(t) = t
  BY <1>1, HeadBefore
<1>3. Follow(r, q, t) /\ q.code \in {"ok", "revoked"}
  BY <1>2 DEF Insist, Typed
<1>4. Stage(q, Head(t)) /\ Head(t) \notin OnOwn /\ q.kind = "seed"
  <2>1. Belongs(q.kind, Doing(r))
    BY AsItStands
  <2>2. q.kind = "seed"
    BY <2>1 DEF Belongs
  <2> QED
    BY <1>1, <2>2 DEF SeedItems, Stage, OnOwn
<1>5. Apt(q, t)
  BY <1>1, <1>4 DEF Apt
<1> HIDE DEF t
<1> QED
  BY <1>3, <1>4, <1>5, FollowPasses

\* The script of a loop is fit for what one more turn seeds.
LEMMA LoopSeeding ==
  ASSUME RequestsInv, FitsInv, NEW r \in Jobs, req[r] # None,
         Doing(r) \in {"seedAgents", "seedCreds", "seedRevoked", "seedIntent"},
         NEW p, Len(p.made) \in Nat, Len(p.issued) \in Nat,
         Len(req[r].made) <= Len(p.made), Len(req[r].issued) <= Len(p.issued)
  PROVE  /\ req[r].kind = "seed" /\ Seeding(p, req[r].todo)
         /\ \A v \in Seq(Steps) : Seeding(p, v) => Seeding(p, v \o req[r].todo)
<1> DEFINE t == req[r].todo
<1>1. req[r].kind = "seed" /\ t \in Seq(Steps) /\ t # <<>> /\ Doing(r) = Head(t)
  BY AsItStands DEF Belongs, SeedItems
<1>2. Seeding(req[r], t) /\ Len(req[r].made) \in Nat /\ Len(req[r].issued) \in Nat
  BY <1>1, SeededBefore
<1>3. Bare(t)
  <2>1. Head(t) \notin ItemSteps /\ Head(t) # "seedCart"
    BY <1>1 DEF ItemSteps, AuditSteps
  <2> QED
    BY <1>1, <1>2, <2>1, BareIs DEF Seeding
<1> HIDE DEF t
<1>4. Seeding(p, t)
  BY <1>2, <1>3, BareSeeding
<1>5. \A v \in Seq(Steps) : Seeding(p, v) => Seeding(p, v \o t)
  BY <1>1, <1>3, <1>4, SeedingJoin
<1> QED
  BY <1>1, <1>4, <1>5 DEF t

LEMMA SeedAgentsPasses ==
  ASSUME RequestsInv, FitsInv, NEW r \in Jobs, SeedAgents(r)
  PROVE  Passes(r)
<1> DEFINE q == req[r]
           m == Append(q.made, None)
           p == [q EXCEPT !.made = m, !.spiffe = Roster[Len(q.made) + 1]]
           l == [q EXCEPT !.spiffe = None]
<1>1. /\ q # None /\ DOMAIN q = Fields /\ Paid(r) /\ Doing(r) = "seedAgents" /\ Typed(q)
      /\ q.made \in Seq(Agents \cup {None}) /\ q.kind = "seed" /\ Len(q.issued) \in Nat
  <2>1. Ready(r, "seedAgents")
    BY DEF SeedAgents
  <2>2. q # None /\ DOMAIN q = Fields /\ Paid(r) /\ Doing(r) = "seedAgents"
    BY <2>1, ReadyPaid
  <2>3. q.kind = "seed" /\ Typed(q)
    BY <2>2, AsItStands DEF Belongs, SeedItems, Apt
  <2> QED
    BY <2>2, <2>3, SeededBefore
<1>2. IF Len(q.made) = Len(Roster) THEN Proceed(r, l) ELSE Insist(r, p, SeededAgent \o <<"seedAgents">>)
  BY DEF SeedAgents
<1>3. CASE Len(q.made) = Len(Roster) /\ Proceed(r, l)
  <2>1. /\ DOMAIN l = Fields /\ l.hook = q.hook /\ l.kind = q.kind /\ l.todo = q.todo /\ l.issued = q.issued
        /\ l.intent = q.intent /\ l.made = q.made /\ l.subject = q.subject /\ l.cred = q.cred
        /\ l.score = q.score /\ l.price = q.price /\ l.targets = q.targets /\ l.deals = q.deals
        /\ l.carts = q.carts /\ l.code = q.code
    BY <1>1, FieldsAre
  <2> HIDE DEF l
  <2>2. Typed(l)
    BY <1>1, <2>1 DEF Typed
  <2>3. Readies(r, l)
    BY <1>1, <2>1 DEF Readies, Follows, Stage
  <2>4. Seeding(l, Tail(q.todo))
    <3>1. Seeding(q, q.todo) /\ Drops(q.todo, Tail(q.todo), 1) /\ q.todo[1] = "seedAgents"
      BY <1>1, AsItStands DEF Apt
    <3>2. \A i \in 1..1 : q.todo[i] = "seedAgents"
      BY <3>1
    <3>3. ~(Len(q.made) < Len(Roster))
      BY <1>1, <1>3
    <3> QED
      BY <2>1, <3>1, <3>2, <3>3, SeedingDrops
  <2> QED
    BY <1>1, <1>3, <2>1, <2>2, <2>3, <2>4, ProceedPasses
<1>4. CASE Insist(r, p, SeededAgent \o <<"seedAgents">>)
  <2>1. Len(m) \in Nat /\ Len(q.made) <= Len(m)
    BY <1>1
  <2> HIDE DEF m
  <2>2. /\ DOMAIN p = Fields /\ p.hook = q.hook /\ p.kind = q.kind /\ p.todo = q.todo /\ p.issued = q.issued
        /\ p.intent = q.intent /\ p.made = m /\ p.subject = q.subject /\ p.cred = q.cred
        /\ p.score = q.score /\ p.price = q.price /\ p.targets = q.targets /\ p.deals = q.deals
        /\ p.carts = q.carts /\ p.code = q.code
    BY <1>1, FieldsAre
  <2>3. Insist(r, p, SeededAgent \o <<"seedAgents">>)
    BY <1>4
  <2> HIDE DEF p
  <2>4. Typed(p)
    BY <1>1, <2>2 DEF Typed
  <2>5. /\ Span(p.kind, SeededAgent, "ensureTenant", "insert") /\ SeededAgent \in Seq(Steps)
        /\ Stage(p, "ensureTenant") /\ "ensureTenant" \notin OnOwn /\ Follows(p.kind, "insert", "seedAgents")
    BY <1>1, <2>2, SharedSpans DEF Span, Stage, Follows, OnOwn
  <2>6. Seeding(p, SeededAgent)
    <3>1. \A i \in 1..Len(SeededAgent) : SeededAgent[i] \notin OfItem \cup SeedItems
      BY DEF SeededAgent, OfItem, SeedItems
    <3> QED
      BY <2>5, <3>1, FrontSeeding
  <2>7. Seeding(p, SeededAgent \o p.todo)
    <3>1. Len(p.made) \in Nat /\ Len(p.issued) \in Nat /\ Len(q.made) <= Len(p.made) /\ Len(q.issued) <= Len(p.issued)
      BY <1>1, <2>1, <2>2
    <3> QED
      BY <1>1, <2>2, <2>5, <2>6, <3>1, LoopSeeding
  <2> QED
    BY <1>1, <2>2, <2>3, <2>4, <2>5, <2>7, FrontPasses
<1> QED
  BY <1>2, <1>3, <1>4

LEMMA SeedCredsPasses ==
  ASSUME RequestsInv, FitsInv, NEW r \in Jobs, SeedCreds(r)
  PROVE  Passes(r)
<1> DEFINE q == req[r]
           n == Len(q.issued) + 1
           s == Append(q.issued, None)
           a == q.made[Plan[n][1]]
           b == q.made[Plan[n][2]]
           p == [q EXCEPT !.issued = s, !.agent = a, !.subject = b]
<1>1. /\ q # None /\ DOMAIN q = Fields /\ Paid(r) /\ Doing(r) = "seedCreds" /\ Typed(q) /\ q.kind = "seed"
      /\ q.made \in Seq(Agents \cup {None}) /\ q.issued \in Seq(Creds \cup {None})
      /\ \A i \in DOMAIN Roster : q.made[i] \in Agents \cup {None}
  <2>1. Ready(r, "seedCreds")
    BY DEF SeedCreds
  <2>2. q # None /\ DOMAIN q = Fields /\ Paid(r) /\ Doing(r) = "seedCreds"
    BY <2>1, ReadyPaid
  <2>3. q.kind = "seed" /\ Typed(q)
    BY <2>2, AsItStands DEF Belongs, SeedItems, Apt
  <2> QED
    BY <2>2, <2>3, SeededBefore
<1>2. IF n > Len(Plan) THEN Proceed(r, q)
      ELSE \/ Insist(r, [q EXCEPT !.issued = s, !.agent = a, !.subject = b], <<"seedCreds">>)
           \/ /\ b # None
              /\ Insist(r, [q EXCEPT !.issued = s, !.agent = a, !.subject = b], SeededCredential \o <<"seedCreds">>)
  <2>1. PICK e : e = [q EXCEPT !.issued = s, !.agent = a, !.subject = b]
    OBVIOUS
  <2>2. e.subject = b
    BY <1>1, <2>1, FieldsAre
  <2>3. IF n > Len(Plan) THEN Proceed(r, q)
        ELSE Insist(r, e, IF None \in {e.agent, e.subject} THEN <<"seedCreds">> ELSE SeededCredential \o <<"seedCreds">>)
    BY <2>1 DEF SeedCreds
  <2> HIDE DEF s, a, b, n
  <2> QED
    BY <2>1, <2>2, <2>3, Zenon
<1>3. CASE n > Len(Plan) /\ Proceed(r, q)
  <2>1. Readies(r, q)
    BY <1>1 DEF Readies, Follows, Stage
  <2>2. Seeding(q, Tail(q.todo))
    <3>1. Seeding(q, q.todo) /\ Drops(q.todo, Tail(q.todo), 1) /\ q.todo[1] = "seedCreds"
      BY <1>1, AsItStands DEF Apt
    <3>2. \A i \in 1..1 : q.todo[i] = "seedCreds"
      BY <3>1
    <3>3. ~(Len(q.issued) < Len(Plan))
      <4>1. Len(Plan) \in Nat /\ Len(q.issued) \in Nat
        BY <1>1, SeedAssumption
      <4> QED
        BY <1>3, <4>1
    <3> QED
      BY <3>1, <3>2, <3>3, SeedingDrops
  <2> QED
    BY <1>1, <1>3, <2>1, <2>2, ProceedPasses
<1>4. CASE ~(n > Len(Plan)) /\ \E w \in {<<"seedCreds">>, SeededCredential \o <<"seedCreds">>} :
             (w # <<"seedCreds">> => b # None) /\ Insist(r, p, w)
  <2>1. s \in Seq(Creds \cup {None}) /\ Len(s) \in Nat /\ Len(q.issued) <= Len(s) /\ Len(q.issued) \in Nat
    BY <1>1
  <2>2. b \in Agents \cup {None}
    <3>0. Len(Plan) \in Nat
      BY SeedAssumption
    <3>1. n \in 1..Len(Plan)
      BY <1>4, <2>1, <3>0
    <3>2. Plan[n] \in (DOMAIN Roster) \X (DOMAIN Roster)
      BY <3>1, SeedAssumption
    <3> QED
      BY <1>1, <3>2
  <2> HIDE DEF s, a, b, n
  <2>3. /\ DOMAIN p = Fields /\ p.hook = q.hook /\ p.kind = q.kind /\ p.todo = q.todo /\ p.issued = s
        /\ p.intent = q.intent /\ p.made = q.made /\ p.subject = b /\ p.cred = q.cred
        /\ p.score = q.score /\ p.price = q.price /\ p.targets = q.targets /\ p.deals = q.deals
        /\ p.carts = q.carts /\ p.code = q.code
    BY <1>1, FieldsAre
  <2>4. PICK w \in {<<"seedCreds">>, SeededCredential \o <<"seedCreds">>} :
             (w # <<"seedCreds">> => b # None) /\ Insist(r, p, w)
    BY <1>4
  <2> HIDE DEF p
  <2>5. Typed(p)
    BY <1>1, <2>1, <2>3 DEF Typed
  <2>6. /\ Seeding(p, q.todo) /\ \A v \in Seq(Steps) : Seeding(p, v) => Seeding(p, v \o q.todo)
    <3>1. Len(p.made) \in Nat /\ Len(p.issued) \in Nat /\ Len(q.made) <= Len(p.made) /\ Len(q.issued) <= Len(p.issued)
      BY <1>1, <2>1, <2>3
    <3> QED
      BY <1>1, <3>1, LoopSeeding
  <2>7. CASE w = <<"seedCreds">>
    BY <1>1, <2>3, <2>4, <2>5, <2>6, <2>7, AgainPasses DEF SeedItems
  <2>8. CASE w = SeededCredential \o <<"seedCreds">> /\ b # None
    <3>1. /\ Span(p.kind, SeededCredential, "allocate", "store") /\ SeededCredential \in Seq(Steps)
          /\ Stage(p, "allocate") /\ "allocate" \notin OnOwn /\ Follows(p.kind, "store", "seedCreds")
      BY <1>1, <2>3, CredentialIs DEF Stage, Follows, OnOwn
    <3>2. Seeding(p, SeededCredential)
      BY <2>2, <2>3, <2>8, FrontSeeding
    <3> QED
      BY <1>1, <2>3, <2>4, <2>5, <2>6, <2>8, <3>1, <3>2, FrontPasses
  <2> QED
    BY <2>4, <2>7, <2>8
<1> QED
  BY <1>2, <1>3, <1>4

LEMMA SeedRevokedPasses ==
  ASSUME RequestsInv, FitsInv, NEW r \in Jobs, SeedRevoked(r)
  PROVE  Passes(r)
<1> DEFINE q == req[r]
           n == q.targets + 1
           c == q.issued[Targets[n]]
           p == [q EXCEPT !.targets = n, !.cred = c]
<1>1. /\ q # None /\ DOMAIN q = Fields /\ Paid(r) /\ Doing(r) = "seedRevoked" /\ Typed(q) /\ q.kind = "seed"
      /\ q.made \in Seq(Agents \cup {None}) /\ Len(q.issued) \in Nat
      /\ \A i \in DOMAIN Plan : q.issued[i] \in Creds \cup {None}
  <2>1. Ready(r, "seedRevoked")
    BY DEF SeedRevoked
  <2>2. q # None /\ DOMAIN q = Fields /\ Paid(r) /\ Doing(r) = "seedRevoked"
    BY <2>1, ReadyPaid
  <2>3. q.kind = "seed" /\ Typed(q)
    BY <2>2, AsItStands DEF Belongs, SeedItems, Apt
  <2> QED
    BY <2>2, <2>3, SeededBefore
<1>2. IF n > Len(Targets) THEN Proceed(r, q)
      ELSE Insist(r, p, IF c = None THEN <<"seedRevoked">> ELSE SetBit \o <<"seedRevoked">>)
  BY DEF SeedRevoked
<1>3. CASE Proceed(r, q)
  <2>1. Doing(r) \in Usual /\ Light(q, q)
    BY <1>1, OwnLight DEF Usual, Steps
  <2> QED
    BY <1>1, <1>3, <2>1, UsualProceeds
<1>4. CASE ~(n > Len(Targets)) /\ Insist(r, p, IF c = None THEN <<"seedRevoked">> ELSE SetBit \o <<"seedRevoked">>)
  <2>1. n \in Nat /\ c \in Creds \cup {None}
    <3>0. Len(Targets) \in Nat /\ q.targets \in Nat
      BY <1>1, SeedAssumption DEF Typed
    <3>1. n \in 1..Len(Targets) /\ n \in Nat
      BY <1>4, <3>0
    <3>2. Targets[n] \in DOMAIN Plan
      BY <3>1, SeedAssumption
    <3> QED
      BY <1>1, <3>1, <3>2
  <2> HIDE DEF n, c
  <2>3. /\ DOMAIN p = Fields /\ p.hook = q.hook /\ p.kind = q.kind /\ p.todo = q.todo /\ p.issued = q.issued
        /\ p.intent = q.intent /\ p.made = q.made /\ p.subject = q.subject /\ p.cred = c
        /\ p.score = q.score /\ p.price = q.price /\ p.targets = n /\ p.deals = q.deals
        /\ p.carts = q.carts /\ p.code = q.code
    BY <1>1, FieldsAre
  <2>4. Insist(r, p, IF c = None THEN <<"seedRevoked">> ELSE SetBit \o <<"seedRevoked">>)
    BY <1>4
  <2> HIDE DEF p
  <2>5. Typed(p)
    BY <1>1, <2>1, <2>3 DEF Typed
  <2>6. /\ Seeding(p, q.todo) /\ \A v \in Seq(Steps) : Seeding(p, v) => Seeding(p, v \o q.todo)
    <3>1. Len(p.made) \in Nat /\ Len(p.issued) \in Nat /\ Len(q.made) <= Len(p.made) /\ Len(q.issued) <= Len(p.issued)
      BY <1>1, <2>3
    <3> QED
      BY <1>1, <3>1, LoopSeeding
  <2>7. CASE c = None
    BY <1>1, <2>3, <2>4, <2>5, <2>6, <2>7, AgainPasses DEF SeedItems
  <2>8. CASE c # None
    <3>0. {"readBits", "setRevoked"} \subseteq Steps /\ Belongs(p.kind, "readBits") /\ Belongs(p.kind, "setRevoked")
      BY <1>1, <2>3 DEF Steps, Belongs, SeedItems
    <3>1. /\ Span(p.kind, SetBit, "readBits", "setRevoked") /\ SetBit \in Seq(Steps)
          /\ Stage(p, "readBits") /\ "readBits" \notin OnOwn /\ Follows(p.kind, "setRevoked", "seedRevoked")
      <4>1. Follows(p.kind, "readBits", "setRevoked") /\ Follows(p.kind, "setRevoked", "seedRevoked")
        BY DEF Follows, OnOwn, Offline
      <4>2. Span(p.kind, SetBit, "readBits", "setRevoked")
        BY <3>0, <4>1, SpanTwo DEF SetBit
      <4>3. Stage(p, "readBits") /\ "readBits" \notin OnOwn
        BY <1>1, <2>1, <2>3, <2>8 DEF Stage, OnOwn
      <4> QED
        BY <4>1, <4>2, <4>3 DEF Span
    <3>2. Seeding(p, SetBit)
      <4>1. \A i \in 1..Len(SetBit) : SetBit[i] \notin OfItem \cup SeedItems
        BY DEF SetBit, OfItem, SeedItems
      <4> QED
        BY <3>1, <4>1, FrontSeeding
    <3>4. Insist(r, p, SetBit \o <<Doing(r)>>)
      BY <1>1, <2>4, <2>8
    <3> QED
      BY <1>1, <2>3, <2>5, <2>6, <3>1, <3>2, <3>4, FrontPasses
  <2> QED
    BY <2>7, <2>8
<1> QED
  BY <1>2, <1>3, <1>4

LEMMA SeedIntentPasses ==
  ASSUME RequestsInv, FitsInv, NEW r \in Jobs, SeedIntent(r)
  PROVE  Passes(r)
<1> DEFINE q == req[r]
           n == q.deals + 1
           a == q.made[Deals[n].buyer]
           x == Deals[n].carts
           p == [q EXCEPT !.deals = n, !.agent = a, !.subject = a, !.spent = 0, !.carts = x]
           s == Append(q.issued, None)
           l == [p EXCEPT !.issued = s, !.intent = Len(q.issued) + 1]
           w == SeededCredential \o <<"seedCart", "seedIntent">>
<1>1. /\ q # None /\ DOMAIN q = Fields /\ Paid(r) /\ Doing(r) = "seedIntent" /\ Typed(q) /\ q.kind = "seed"
      /\ q.made \in Seq(Agents \cup {None}) /\ q.issued \in Seq(Creds \cup {None})
      /\ \A i \in DOMAIN Roster : q.made[i] \in Agents \cup {None}
  <2>1. Ready(r, "seedIntent")
    BY DEF SeedIntent
  <2>2. q # None /\ DOMAIN q = Fields /\ Paid(r) /\ Doing(r) = "seedIntent"
    BY <2>1, ReadyPaid
  <2>3. q.kind = "seed" /\ Typed(q)
    BY <2>2, AsItStands DEF Belongs, SeedItems, Apt
  <2> QED
    BY <2>2, <2>3, SeededBefore
<1>2. IF n > Len(Deals) THEN Proceed(r, q)
      ELSE IF None \in {a, q.made[Deals[n].shop]} THEN Insist(r, p, <<"seedIntent">>) ELSE Insist(r, l, w)
  <2>1. PICK e : e = [q EXCEPT !.deals = n, !.agent = a, !.subject = a, !.spent = 0, !.carts = x]
    OBVIOUS
  <2>2. DOMAIN e = Fields /\ e.issued = q.issued
    BY <1>1, <2>1, FieldsAre
  <2>3. [e EXCEPT !.issued = Append(@, None), !.intent = Len(q.issued) + 1] =
        [e EXCEPT !.issued = s, !.intent = Len(q.issued) + 1]
    BY <2>2
  <2>4. IF n > Len(Deals) THEN Proceed(r, q)
        ELSE IF None \in {a, q.made[Deals[n].shop]} THEN Insist(r, e, <<"seedIntent">>)
             ELSE Insist(r, [e EXCEPT !.issued = Append(@, None), !.intent = Len(q.issued) + 1], w)
    BY <2>1 DEF SeedIntent
  <2> HIDE DEF s, a, x, n, w
  <2> QED
    BY <2>1, <2>3, <2>4, Zenon
<1>3. CASE Proceed(r, q)
  <2>1. Doing(r) \in Usual /\ Light(q, q)
    BY <1>1, OwnLight DEF Usual, Steps
  <2> QED
    BY <1>1, <1>3, <2>1, UsualProceeds
<1>4. ASSUME ~(n > Len(Deals)) PROVE n \in Nat /\ a \in Agents \cup {None} /\ x \in Seq(Nat)
  <2>1. Len(Deals) \in Nat /\ q.deals \in Nat
    BY <1>1, SeedAssumption DEF Typed
  <2>2. n \in 1..Len(Deals) /\ n \in Nat
    BY <1>4, <2>1
  <2>3. PICK d : d = Deals[n]
    OBVIOUS
  <2>4. d \in [buyer : DOMAIN Roster, shop : DOMAIN Roster, max : Nat, carts : Seq(Nat)]
    <3>1. PICK S : S = [buyer : DOMAIN Roster, shop : DOMAIN Roster, max : Nat, carts : Seq(Nat)]
      OBVIOUS
    <3>2. Deals \in Seq(S)
      BY <3>1, SeedAssumption
    <3>3. d \in S
      BY <2>2, <2>3, <3>2
    <3> QED
      BY <3>1, <3>3
  <2>5. d.buyer \in DOMAIN Roster /\ x \in Seq(Nat)
    BY <2>3, <2>4
  <2> QED
    BY <1>1, <2>2, <2>3, <2>5
<1>5. s \in Seq(Creds \cup {None}) /\ Len(s) = Len(q.issued) + 1 /\ Len(q.issued) \in Nat /\ Len(q.made) \in Nat
  BY <1>1
<1> DEFINE m == Len(q.issued) + 1
<1>6. m \in 1..m /\ m \in Nat /\ Len(s) = m /\ Len(q.issued) <= m
  BY <1>5
<1>7. /\ DOMAIN p = Fields /\ p.hook = q.hook /\ p.kind = q.kind /\ p.todo = q.todo /\ p.issued = q.issued
      /\ p.intent = q.intent /\ p.made = q.made /\ p.subject = a /\ p.cred = q.cred
      /\ p.score = q.score /\ p.price = q.price /\ p.targets = q.targets /\ p.deals = n
      /\ p.carts = x /\ p.code = q.code
  <2> HIDE DEF n, a, x
  <2> QED
    BY <1>1, FieldsAre
<1> HIDE DEF a, x, n, p, m
<1>8. CASE ~(n > Len(Deals)) /\ Insist(r, p, <<"seedIntent">>)
  <2>1. Typed(p)
    BY <1>1, <1>4, <1>7, <1>8 DEF Typed
  <2>2. Seeding(p, q.todo)
    <3>1. Len(p.made) \in Nat /\ Len(p.issued) \in Nat /\ Len(q.made) <= Len(p.made) /\ Len(q.issued) <= Len(p.issued)
      BY <1>5, <1>7
    <3> QED
      BY <1>1, <3>1, LoopSeeding
  <2> QED
    BY <1>1, <1>7, <1>8, <2>1, <2>2, AgainPasses DEF SeedItems
<1>9. CASE ~(n > Len(Deals)) /\ a # None /\ Insist(r, l, w)
  <2> HIDE DEF s
  <2>1. /\ DOMAIN l = Fields /\ l.hook = q.hook /\ l.kind = q.kind /\ l.todo = q.todo /\ l.issued = s
        /\ l.intent = m /\ l.made = q.made /\ l.subject = a /\ l.cred = q.cred
        /\ l.score = q.score /\ l.price = q.price /\ l.targets = q.targets /\ l.deals = n
        /\ l.carts = x /\ l.code = q.code
    BY <1>7, FieldsAre DEF m
  <2>2. Insist(r, l, w)
    BY <1>9
  <2> HIDE DEF l
  <2>3. Typed(l)
    BY <1>1, <1>4, <1>5, <1>9, <2>1 DEF Typed
  <2>4. /\ Seeding(l, q.todo) /\ \A v \in Seq(Steps) : Seeding(l, v) => Seeding(l, v \o q.todo)
    <3>1. Len(l.made) \in Nat /\ Len(l.issued) \in Nat /\ Len(q.made) <= Len(l.made) /\ Len(q.issued) <= Len(l.issued)
      BY <1>5, <1>6, <2>1
    <3> QED
      BY <1>1, <3>1, LoopSeeding
  <2>5. PICK v : v = SeededCredential \o <<"seedCart">>
    OBVIOUS
  <2>6. "seedCart" \in Steps /\ "seedIntent" \in Steps /\ Belongs(l.kind, "seedCart") /\ Follows("seed", "store", "seedCart")
    BY <1>1, <2>1 DEF Steps, Belongs, Follows, SeedItems, OnOwn
  <2>7. /\ Span(l.kind, v, "allocate", "seedCart") /\ v \in Seq(Steps)
        /\ Stage(l, "allocate") /\ "allocate" \notin OnOwn /\ Follows(l.kind, "seedCart", "seedIntent")
    <3>1. l.kind = "seed"
      BY <1>1, <2>1
    <3>2. v \in Seq(Steps) /\ (Follows("seed", "store", "seedCart") /\ Belongs("seed", "seedCart") => Span("seed", v, "allocate", "seedCart"))
      BY <2>5, <2>6, CredentialAnd
    <3>3. Stage(l, "allocate")
      BY <3>1 DEF Stage
    <3>4. "allocate" \notin OnOwn
      BY DEF OnOwn
    <3>5. Follows(l.kind, "seedCart", "seedIntent")
      BY <3>1 DEF Follows, OnOwn
    <3> QED
      BY <2>6, <3>1, <3>2, <3>3, <3>4, <3>5
  <2>8. Seeding(l, v)
    <3>1. l.subject \in Agents /\ l.intent \in 1..Len(l.issued)
      BY <1>4, <1>6, <1>9, <2>1
    <3> QED
      BY <2>5, <3>1, FrontSeeding
  <2>9. w = v \o <<Doing(r)>>
    <3>1. <<"seedCart", "seedIntent">> = <<"seedCart">> \o <<"seedIntent">>
      BY <2>6, PairIs
    <3>2. /\ SeededCredential \in Seq(Steps) /\ <<"seedCart">> \in Seq(Steps) /\ <<"seedIntent">> \in Seq(Steps)
      BY <2>6, CredentialIs
    <3>3. SeededCredential \o (<<"seedCart">> \o <<"seedIntent">>) = (SeededCredential \o <<"seedCart">>) \o <<"seedIntent">>
      BY <3>2, ConcatAssociative
    <3> QED
      BY <1>1, <2>5, <3>1, <3>3
  <2> QED
    BY <1>1, <2>1, <2>2, <2>3, <2>4, <2>7, <2>8, <2>9, FrontPasses
<1> QED
  BY <1>2, <1>3, <1>8, <1>9

\* A member more at the end changes none of those before.
LEMMA AppendKeeps ==
  ASSUME NEW A, NEW u \in Seq(A), NEW x \in A
  PROVE  /\ Append(u, x) \in Seq(A) /\ Len(Append(u, x)) = Len(u) + 1 /\ Len(u) \in Nat
         /\ \A i \in 1..Len(u) : i \in 1..Len(u) + 1 /\ Append(u, x)[i] = u[i]
OBVIOUS

LEMMA SeedCartPasses ==
  ASSUME RequestsInv, FitsInv, NEW r \in Jobs, SeedCart(r)
  PROVE  Passes(r)
<1> DEFINE q == req[r]
           s == Append(q.issued, None)
           x == Tail(q.carts)
           y == Head(q.carts)
           p == [q EXCEPT !.issued = s, !.carts = x, !.price = y]
           w == SeededCredential \o <<"spend", "seedCart">>
<1>1. /\ q # None /\ DOMAIN q = Fields /\ Paid(r) /\ Doing(r) = "seedCart" /\ Typed(q) /\ q.kind = "seed"
      /\ q.made \in Seq(Agents \cup {None}) /\ q.issued \in Seq(Creds \cup {None})
      /\ q.subject \in Agents /\ q.intent \in 1..Len(q.issued) /\ Seeding(q, q.todo)
  <2>1. Ready(r, "seedCart")
    BY DEF SeedCart
  <2>2. q # None /\ DOMAIN q = Fields /\ Paid(r) /\ Doing(r) = "seedCart"
    BY <2>1, ReadyPaid
  <2>3. q.kind = "seed" /\ Typed(q)
    BY <2>2, AsItStands DEF Belongs, SeedItems, Apt
  <2> QED
    BY <2>2, <2>3, SeededBefore
<1>2. \/ Proceed(r, q)
      \/ q.issued[q.intent] # None /\ q.carts # <<>> /\ Insist(r, p, w)
  BY DEF SeedCart
<1>3. CASE Proceed(r, q)
  <2>1. Doing(r) \in Usual /\ Light(q, q)
    BY <1>1, OwnLight DEF Usual, Steps
  <2> QED
    BY <1>1, <1>3, <2>1, UsualProceeds
<1>4. CASE q.issued[q.intent] # None /\ q.carts # <<>> /\ Insist(r, p, w)
  <2>1. /\ s \in Seq(Creds \cup {None}) /\ Len(s) = Len(q.issued) + 1 /\ Len(q.issued) \in Nat
        /\ q.intent \in 1..Len(q.issued) + 1 /\ s[q.intent] = q.issued[q.intent]
    <3>1. PICK A, u, e : A = Creds \cup {None} /\ u = q.issued /\ e = None
      OBVIOUS
    <3>2. u \in Seq(A) /\ e \in A /\ q.intent \in 1..Len(u)
      BY <1>1, <3>1
    <3>3. /\ Append(u, e) \in Seq(A) /\ Len(Append(u, e)) = Len(u) + 1 /\ Len(u) \in Nat
          /\ \A i \in 1..Len(u) : i \in 1..Len(u) + 1 /\ Append(u, e)[i] = u[i]
      BY <3>2, AppendKeeps
    <3> QED
      BY <3>1, <3>2, <3>3
  <2>2. x \in Seq(Nat) /\ y \in Nat
    <3>1. q.carts \in Seq(Nat) /\ q.carts # <<>>
      BY <1>1, <1>4 DEF Typed
    <3> QED
      BY <3>1
  <2>3. q.issued[q.intent] \in Creds
    <3>1. q.issued[q.intent] \in Creds \cup {None}
      BY <1>1
    <3> QED
      BY <1>4, <3>1
  <2> HIDE DEF s, x, y
  <2>4. /\ DOMAIN p = Fields /\ p.hook = q.hook /\ p.kind = q.kind /\ p.todo = q.todo /\ p.issued = s
        /\ p.intent = q.intent /\ p.made = q.made /\ p.subject = q.subject /\ p.cred = q.cred
        /\ p.score = q.score /\ p.price = y /\ p.targets = q.targets /\ p.deals = q.deals
        /\ p.carts = x /\ p.code = q.code
    BY <1>1, FieldsAre
  <2>5. Insist(r, p, w)
    BY <1>4
  <2> HIDE DEF p
  <2>6. Typed(p)
    BY <1>1, <2>1, <2>2, <2>4 DEF Typed
  <2>7. PICK v : v = SeededCredential \o <<"spend">>
    OBVIOUS
  <2>8. "spend" \in Steps /\ "seedCart" \in Steps /\ Belongs(p.kind, "spend") /\ Follows("seed", "store", "spend")
    BY <1>1, <2>4 DEF Steps, Belongs, Follows, OnOwn
  <2>9. /\ Span(p.kind, v, "allocate", "spend") /\ v \in Seq(Steps) /\ Len(v) = 4
        /\ v[1] = "allocate" /\ v[2] = "sign" /\ v[3] = "store" /\ v[4] = "spend"
        /\ Stage(p, "allocate") /\ "allocate" \notin OnOwn /\ Follows(p.kind, "spend", "seedCart")
    <3>1. Stage(p, "allocate") /\ "allocate" \notin OnOwn /\ Follows(p.kind, "spend", "seedCart")
      BY <1>1, <2>4 DEF Stage, Follows, OnOwn
    <3> QED
      BY <1>1, <2>4, <2>7, <2>8, <3>1, CredentialAnd
  <2>10. Seeding(p, v)
    <3>1. p.subject \in Agents /\ p.intent \in 1..Len(p.issued) /\ p.issued[p.intent] \in Creds
      BY <1>1, <2>1, <2>3, <2>4
    <3> QED
      BY <2>7, <3>1, FrontSeeding
  <2>11. \A i \in 1..Len(v) : v[i] \in ItemSteps
    <3>1. \A i \in 1..4 : i = 1 \/ i = 2 \/ i = 3 \/ i = 4
      OBVIOUS
    <3> QED
      BY <2>9, <3>1 DEF ItemSteps
  <2>12. Seeding(p, q.todo)
    <3> DEFINE t == q.todo
    <3>1. t \in Seq(Steps) /\ t # <<>> /\ Head(t) = "seedCart" /\ Tidy(t) /\ TreeAfter(t) /\ Waits(q, t) /\ Able(q, t)
      BY <1>1, AsItStands DEF Seeding
    <3>2. Len(t) \in Nat /\ t[1] = "seedCart" /\ \A i \in 1..Len(t) : i = 1 \/ 1 \in 1..i - 1
      BY <3>1
    <3> HIDE DEF t
    <3>3. \A i \in 1..Len(t) : t[i] # "spend"
      <4>1. "spend" \in OfItem /\ "seedCart" \notin ItemSteps
        BY DEF OfItem, ItemSteps, AuditSteps
      <4> QED
        BY <3>1, <3>2, <4>1 DEF Tidy
    <3>4. Waits(p, t)
      <4>1. Len(p.made) = Len(q.made) /\ (Len(p.issued) < Len(Plan) => Len(q.issued) < Len(Plan))
        <5>1. Len(Plan) \in Nat
          BY SeedAssumption
        <5> QED
          BY <2>1, <2>4, <5>1
      <4> QED
        BY <3>1, <4>1 DEF Waits
    <3>5. Able(p, t)
      BY <1>1, <2>1, <2>4, <3>3 DEF Able
    <3> QED
      BY <3>1, <3>4, <3>5 DEF Seeding, t
  <2>13. Seeding(p, v \o q.todo)
    <3>1. q.todo \in Seq(Steps)
      BY <1>1, AsItStands
    <3> QED
      BY <2>9, <2>10, <2>11, <2>12, <3>1, SeedingJoin
  <2>14. w = v \o <<Doing(r)>>
    <3>1. <<"spend", "seedCart">> = <<"spend">> \o <<"seedCart">>
      BY <2>8, PairIs
    <3>2. /\ SeededCredential \in Seq(Steps) /\ <<"spend">> \in Seq(Steps) /\ <<"seedCart">> \in Seq(Steps)
      BY <2>8, CredentialIs
    <3>3. SeededCredential \o (<<"spend">> \o <<"seedCart">>) = (SeededCredential \o <<"spend">>) \o <<"seedCart">>
      BY <3>2, ConcatAssociative
    <3> QED
      BY <1>1, <2>7, <3>1, <3>3
  <2> QED
    BY <1>1, <2>4, <2>5, <2>6, <2>9, <2>13, <2>14, FrontPasses
<1> QED
  BY <1>2, <1>3, <1>4

\* The audit events of the delegations.
LEMMA SeedTreePasses ==
  ASSUME RequestsInv, FitsInv, NEW r \in Jobs, SeedTree(r)
  PROVE  Passes(r)
<1> DEFINE q == req[r]
           w == FlattenSeq([n \in DOMAIN Tree |-> Audit])
<1>1. q # None /\ Paid(r) /\ Doing(r) = "seedTree" /\ q.todo \in Seq(Steps)
  <2>1. Ready(r, "seedTree")
    BY DEF SeedTree
  <2> QED
    BY <2>1, ReadyPaid, AsItStands
<1>2. Doing(r) \in Usual /\ Light(q, q)
  BY <1>1, OwnLight DEF Usual, Steps
<1>3. CASE Proceed(r, q)
  BY <1>1, <1>2, <1>3, UsualProceeds
<1>4. CASE Insist(r, q, w)
  <2>1. Len(Tree) \in Nat /\ DOMAIN Tree = 1..Len(Tree)
    BY BackendAssumption
  <2>2. w = <<>> \/ Fragment(q.kind, w, "readNewest", "append", AuditSteps)
    BY <2>1, AuditsInTurn
  <2> HIDE DEF w
  <2>3. CASE w = <<>>
    <3>1. w \o Tail(q.todo) = Tail(q.todo)
      <4>1. Tail(q.todo) \in Seq(Steps)
        BY <1>1, AsItStands
      <4> QED
        BY <2>3, <4>1, ConcatEmptySeq
    <3>2. Proceed(r, q)
      BY <1>4, <3>1 DEF Insist, Proceed
    <3> QED
      BY <1>1, <1>2, <3>2, UsualProceeds
  <2>4. CASE Fragment(q.kind, w, "readNewest", "append", AuditSteps)
    <3>1. /\ w \in Seq(Steps) /\ w # <<>> /\ Head(w) = "readNewest" /\ w[Len(w)] = "append"
          /\ \A i \in 1..Len(w) : w[i] \in AuditSteps
      BY <2>4 DEF Fragment
    <3>2. Len(w) \in Nat /\ \A i \in 2..Len(w) : i \in 1..Len(w) /\ i - 1 \in 1..Len(w)
      BY <3>1
    <3>3. \A x, y \in AuditSteps : Follows(q.kind, y, x) /\ Belongs(q.kind, x)
      BY DEF AuditSteps, Follows, Belongs, Offline, SeedItems
    <3>4. Span(q.kind, w, "readNewest", "append")
      BY <3>1, <3>2, <3>3 DEF Span, Piece
    <3>5. \A x : Follows(q.kind, "seedTree", x) => Follows(q.kind, "append", x)
      BY DEF Follows, Offline
    <3>6. /\ "readNewest" \notin OnOwn
          /\ "readNewest" \notin {"findIssuer", "sign", "readBits", "setRevoked", "readHistory", "record"}
      BY DEF OnOwn
    <3>7. \A i \in 1..Len(w) : w[i] \notin OfItem \cup SeedItems
      BY <3>1 DEF OfItem, SeedItems, AuditSteps
    <3>8. Doing(r) \in Usual \ (ItemSteps \cup {"seedCart"})
      BY <1>1, <1>2 DEF ItemSteps, AuditSteps
    <3> QED
      BY <1>1, <1>2, <1>4, <3>4, <3>5, <3>6, <3>7, <3>8, UsualInsists
  <2> QED
    BY <2>2, <2>3, <2>4
<1> QED
  BY <1>3, <1>4 DEF SeedTree

\* All steps.
LEMMA StepPasses ==
  ASSUME RequestsInv, FitsInv, RowsInv, AttestInv, CredsTyped, NEW r \in Jobs, Step(r),
         Verifies(r) => req[r].cred \in DOMAIN creds
  PROVE  Passes(r)
<1>1. CASE \/ ReadNewest(r) \/ Stamp(r) \/ AppendEvent(r) \/ ReadKeys(r) \/ Rotate(r)
           \/ FindCred(r) \/ ReadBits(r) \/ ReadList(r) \/ MakeIssuer(r) \/ Fetch(r) \/ Flush(r)
           \/ Record(r) \/ ReadEvents(r) \/ ReadAgents(r) \/ WalkChain(r) \/ Reply(r)
           \/ DeleteCreds(r) \/ DeleteRest(r) \/ InsertHook(r) \/ DropHook(r) \/ CheckEmpty(r)
           \/ Spend(r) \/ SeedTrustEvents(r)
  BY <1>1, UsualSteps
<1>2. CASE Resolve(r) \/ EnsureIssuer(r) \/ Get(r) \/ Set(r)
  BY <1>2, VerifyingPasses
<1>3. CASE \/ ReadBoard(r) \/ CheckCred(r) \/ CountEvents(r) \/ CountRows(r) \/ FindHook(r) \/ Dispatch(r)
           \/ SetRevoked(r) \/ Expire(r)
  BY <1>3, CountingPasses
<1>4. CASE ReadIssuer(r) \/ ReadHistory(r)
  BY <1>4, ScoringPasses
<1>5. CASE EnsureTenant(r) \/ Allocate(r) \/ FindIssuer(r)
  BY <1>5, AllocatePasses
<1>6. CASE FindHolder(r) \/ Register(r) \/ Refetch(r)
  BY <1>6, AttestPasses
<1>7. CASE InsertAgent(r) \/ Sign(r) \/ Store(r)
  BY <1>7, InsertPasses, SignPasses, StorePasses
<1>8. CASE SeedAgents(r) \/ SeedCreds(r) \/ SeedRevoked(r) \/ SeedIntent(r) \/ SeedCart(r) \/ SeedTree(r)
  BY <1>8, SeedAgentsPasses, SeedCredsPasses, SeedRevokedPasses, SeedIntentPasses, SeedCartPasses, SeedTreePasses
<1> QED
  BY <1>1, <1>2, <1>3, <1>4, <1>5, <1>6, <1>7, <1>8 DEF Step

(***************************************************************************)
(* A request that arrives.                                                 *)
(***************************************************************************)

\* The whole script of seeding is fit for anything.
LEMMA SeedingStarts ==
  ASSUME NEW q
  PROVE  Seeding(q, SeedTenant)
<1> DEFINE u == SeedStart \o Audit
           t == u \o <<"seedEvents">>
<1>1. /\ u \in Seq(Steps) /\ Len(u) = 9 /\ (\A i \in 1..6 : u[i] = SeedStart[i])
      /\ \A i \in 7..9 : u[i] \in AuditSteps
  <2>1. Audit \in Seq(Steps) /\ Len(Audit) = 3 /\ \A i \in 1..3 : Audit[i] \in AuditSteps
    BY DEF Audit, Steps, AuditSteps
  <2>2. /\ u \in Seq(Steps) /\ Len(u) = Len(SeedStart) + Len(Audit)
        /\ \A i \in 1..Len(SeedStart) : u[i] = SeedStart[i]
        /\ \A i \in Len(SeedStart) + 1..Len(SeedStart) + Len(Audit) : u[i] = Audit[i - Len(SeedStart)]
    <3>1. SeedStart \in Seq(Steps) /\ Audit \in Seq(Steps)
      BY <2>1, SeedStartIs
    <3> QED
      BY <3>1, Concatenated
  <2> HIDE DEF u
  <2>3. \A i \in 7..9 : i - 6 \in 1..3
    OBVIOUS
  <2> QED
    BY <2>1, <2>2, <2>3, SeedStartIs
<1>2. /\ t \in Seq(Steps) /\ Len(t) = 10 /\ (\A i \in 1..9 : t[i] = u[i]) /\ t[10] = "seedEvents"
  <2>1. PICK e : e = <<"seedEvents">>
    OBVIOUS
  <2>2. e \in Seq(Steps) /\ Len(e) = 1 /\ e[1] = "seedEvents"
    BY <2>1 DEF Steps
  <2>3. /\ u \o e \in Seq(Steps) /\ Len(u \o e) = Len(u) + Len(e)
        /\ \A i \in 1..Len(u) : (u \o e)[i] = u[i]
        /\ \A i \in 1..Len(e) : (u \o e)[Len(u) + i] = e[i]
    <3>1. u \in Seq(Steps) /\ e \in Seq(Steps)
      BY <1>1, <2>2
    <3> HIDE DEF u
    <3> QED
      BY <3>1, Concatenated
  <2>4. 9 + 1 = 10 /\ 1 \in 1..1
    OBVIOUS
  <2> HIDE DEF u
  <2> QED
    BY <1>1, <2>1, <2>2, <2>3, <2>4
<1> HIDE DEF u, t
<1>3. /\ t[1] = "checkEmpty" /\ t[2] = "seedAgents" /\ t[3] = "seedCreds" /\ t[4] = "seedRevoked"
      /\ t[5] = "seedTree" /\ t[6] = "seedIntent"
  <2>1. \A i \in 1..6 : t[i] = SeedStart[i]
    BY <1>1, <1>2
  <2> QED
    BY <2>1, SeedStartIs
<1>4. \A i \in 7..10 : t[i] \in AuditSteps \cup {"seedEvents"} /\ (i < 10 => t[i] \in AuditSteps)
  BY <1>1, <1>2
<1>5. \A i \in 1..Len(t) : i = 1 \/ i = 2 \/ i = 3 \/ i = 4 \/ i = 5 \/ i = 6 \/ i \in 7..10
  BY <1>2
<1>6. \A i \in 1..Len(t) : t[i] \notin OfItem
  BY <1>3, <1>4, <1>5 DEF OfItem, AuditSteps
<1>7. \A i \in 1..Len(t) :
        /\ t[i] \in {"seedAgents", "seedCreds", "seedRevoked"} => 5 \in i + 1..Len(t)
        /\ t[i] \in {"seedCreds", "seedIntent", "seedEvents"} => 2 \in 1..i - 1
        /\ t[i] = "seedRevoked" => 3 \in 1..i - 1
  <2>1. \A i \in 7..10 : t[i] \notin {"seedAgents", "seedCreds", "seedRevoked"}
    BY <1>4 DEF AuditSteps
  <2> QED
    BY <1>2, <1>3, <1>5, <2>1
<1>8. Tidy(t) /\ TreeAfter(t)
  BY <1>3, <1>6, <1>7 DEF Tidy, TreeAfter
<1>9. Waits(q, t)
  BY <1>3, <1>7 DEF Waits, Pending
<1>10. Able(q, t)
  BY <1>6 DEF Able, OfItem
<1>11. SeedTenant = t
  BY DEF SeedTenant, SeedStart, t, u
<1> QED
  BY <1>8, <1>9, <1>10, <1>11 DEF Seeding

HooksTyped == hooks \in [Hooks -> Webhook \cup {None}]

\* A request for a webhook names one that is there.
Hooked(q, hs) == q.kind \in {"dropHook", "testHook"} => q.hook \in Hooks /\ hs[q.hook] \in Webhook

\* What clients ask for.
LEMMA ArgumentsTyped ==
  ASSUME CredsTyped, HooksTyped, NEW job, job.kind \in Kinds, job.depth \in Nat, NEW t, NEW q \in Arguments(job, t)
  PROVE  Typed(q) /\ Hooked(q, hooks) /\ q.kind = job.kind /\ DOMAIN q = Fields
<1> DEFINE b == [Blank EXCEPT !.kind = job.kind, !.tenant = t]
           New(p) == /\ DOMAIN p = Fields /\ p.kind = job.kind /\ p.code = "ok" /\ p.price = 0 /\ p.targets = 0
                     /\ p.deals = 0 /\ p.carts = <<>> /\ p.issued = <<>> /\ p.score \in Nat
<1>1. New(b)
  <2>1. /\ DOMAIN Blank = Fields /\ Blank.code = "ok" /\ Blank.price = 0 /\ Blank.targets = 0 /\ Blank.deals = 0
        /\ Blank.carts = <<>> /\ Blank.issued = <<>> /\ Blank.score = 0
    BY DEF Fields, Blank
  <2>2. /\ DOMAIN b = Fields /\ b.kind = job.kind /\ b.code = "ok" /\ b.price = 0 /\ b.targets = 0 /\ b.deals = 0
        /\ b.carts = <<>> /\ b.issued = <<>> /\ b.score = 0
    BY <2>1, FieldsAre
  <2> QED
    BY <2>2
<1>2. ASSUME New(q), q.kind \in {"issue", "score"} => q.subject \in Agents, q.kind = "revoke" => q.cred \in Creds,
             q.kind = "addHook" => q.topics \in Topics, Hooked(q, hooks)
      PROVE  Typed(q) /\ Hooked(q, hooks) /\ q.kind = job.kind /\ DOMAIN q = Fields
  <2>1. <<>> \in Seq(Nat) /\ <<>> \in Seq(Creds \cup {None}) /\ 0 \in Nat
    OBVIOUS
  <2> QED
    BY <1>2, <2>1 DEF Typed
<1>3. CASE job.kind \in {"rotate", "profile"}
  <2>1. q \in {[b EXCEPT !.agent = a, !.subject = a] : a \in Known}
    BY <1>3 DEF Arguments
  <2> HIDE DEF b
  <2>2. PICK a \in Known : q = [b EXCEPT !.agent = a, !.subject = a]
    BY <2>1
  <2>3. New(q)
    BY <1>1, <2>2, FieldsAre
  <2> QED
    BY <1>2, <1>3, <2>3 DEF Hooked
<1>4. CASE job.kind = "issue"
  <2>1. q \in {[b EXCEPT !.agent = a, !.subject = a, !.ttl = job.ttl, !.score = job.depth] : a \in Known}
    BY <1>4 DEF Arguments
  <2> HIDE DEF b
  <2>2. PICK a \in Known : q = [b EXCEPT !.agent = a, !.subject = a, !.ttl = job.ttl, !.score = job.depth]
    BY <2>1
  <2>3. New(q) /\ q.subject \in Agents
    BY <1>1, <2>2, FieldsAre DEF Known
  <2> QED
    BY <1>2, <1>4, <2>3 DEF Hooked
<1>5. CASE job.kind = "attest"
  <2>1. q \in {[b EXCEPT !.spiffe = s, !.ttl = AttestTtl] : s \in Spiffes}
    BY <1>5 DEF Arguments
  <2> HIDE DEF b
  <2>2. PICK s \in Spiffes : q = [b EXCEPT !.spiffe = s, !.ttl = AttestTtl]
    BY <2>1
  <2>3. New(q)
    BY <1>1, <2>2, FieldsAre
  <2> QED
    BY <1>2, <1>5, <2>3 DEF Hooked
<1>6. CASE job.kind \in {"revoke", "verify", "score", "peer"}
  <2>1. q \in {[b EXCEPT !.cred = c, !.did = creds[c].issuer, !.agent = creds[c].issuer,
                    !.subject = creds[c].subject,
                    !.sig = [kid |-> creds[c].kid, gen |-> creds[c].gen],
                    !.void = c \in Settled] : c \in {c \in Creds : Given(c)}}
    BY <1>6 DEF Arguments
  <2> HIDE DEF b
  <2>2. PICK c \in Creds : /\ Given(c)
                           /\ q = [b EXCEPT !.cred = c, !.did = creds[c].issuer, !.agent = creds[c].issuer,
                                    !.subject = creds[c].subject,
                                    !.sig = [kid |-> creds[c].kid, gen |-> creds[c].gen],
                                    !.void = c \in Settled]
    BY <2>1
  <2>3. creds[c] \in Cred
    BY <2>2 DEF Given, CredsTyped
  <2>4. creds[c].subject \in Agents
    BY <2>3 DEF Cred
  <2>5. New(q) /\ q.subject \in Agents /\ q.cred \in Creds
    BY <1>1, <2>2, <2>4, FieldsAre
  <2> QED
    BY <1>2, <1>6, <2>5 DEF Hooked
<1>7. CASE job.kind = "addHook"
  <2>1. q \in {[b EXCEPT !.topics = s] : s \in Topics}
    BY <1>7 DEF Arguments
  <2> HIDE DEF b
  <2>2. PICK s \in Topics : q = [b EXCEPT !.topics = s]
    BY <2>1
  <2>3. New(q) /\ q.topics \in Topics
    BY <1>1, <2>2, FieldsAre
  <2> QED
    BY <1>2, <1>7, <2>3 DEF Hooked
<1>8. CASE job.kind \in {"dropHook", "testHook"}
  <2>1. q \in {[b EXCEPT !.hook = h] : h \in {h \in Hooks : hooks[h] # None}}
    BY <1>8 DEF Arguments
  <2> HIDE DEF b
  <2>2. PICK h \in Hooks : hooks[h] # None /\ q = [b EXCEPT !.hook = h]
    BY <2>1
  <2>3. New(q) /\ q.hook \in Hooks /\ hooks[q.hook] # None
    BY <1>1, <2>2, FieldsAre
  <2>4. hooks[q.hook] \in Webhook
    BY <2>3 DEF HooksTyped
  <2> QED
    BY <1>2, <1>8, <2>3, <2>4 DEF Hooked
<1>9. CASE job.kind \in {"report", "board"}
  <2>1. q \in {[b EXCEPT !.start = Truth(t, Settled), !.since = resets[t]]}
    BY <1>9 DEF Arguments
  <2> HIDE DEF b
  <2>2. q = [b EXCEPT !.start = Truth(t, Settled), !.since = resets[t]]
    BY <2>1
  <2>3. New(q)
    BY <1>1, <2>2, FieldsAre
  <2> QED
    BY <1>2, <1>9, <2>3 DEF Hooked
<1>10. CASE job.kind \in {"create", "reset", "flush", "seed", "drift"}
  <2>1. q \in {b}
    BY <1>10 DEF Arguments
  <2> HIDE DEF b
  <2>2. New(q)
    BY <1>1, <2>1
  <2> QED
    BY <1>2, <1>10, <2>2 DEF Hooked
<1> QED
  BY <1>3, <1>4, <1>5, <1>6, <1>7, <1>8, <1>9, <1>10, KindsAre

\* Only whether it was alone, or its script, is another.
LEMMA AptSame ==
  ASSUME NEW q, NEW p, NEW t, Apt(q, t), p.kind = q.kind, p.score = q.score, p.price = q.price,
         p.targets = q.targets, p.deals = q.deals, p.carts = q.carts, p.issued = q.issued, p.code = q.code,
         p.subject = q.subject, p.cred = q.cred, p.topics = q.topics, p.seen = q.seen, p.tally = q.tally,
         p.intent = q.intent, p.made = q.made
  PROVE  Apt(p, t)
<1>1. Typed(p) /\ Stage(p, Head(t))
  BY DEF Apt, Typed, Stage
<1>2. q.kind = "seed" => Seeding(p, t)
  BY DEF Apt, Seeding, Waits, Able
<1> QED
  BY <1>1, <1>2 DEF Apt

\* What becomes of the requests when one arrives.
LEMMA ArriveFits ==
  ASSUME RequestsInv, load \in Loads, FitsInv, CredsTyped, HooksTyped, NEW r \in Jobs, Arrive(r)
  PROVE  /\ out' \in [Jobs -> Codes \cup {None}] /\ req[r] = None
         /\ req'[r] # None =>
              /\ Apt(req'[r], req'[r].todo) /\ Hooked(req'[r], hooks) /\ Head(req'[r].todo) \notin OnOwn
         /\ \A s \in Jobs : s # r /\ req'[s] # None =>
              /\ req[s] # None /\ Apt(req'[s], req'[s].todo) /\ req'[s].todo = req[s].todo
              /\ req'[s].kind = req[s].kind /\ req'[s].hook = req[s].hook
<1> DEFINE job == load.jobs[r]
           token == Tokens[job.as]
<1>1. job.kind \in Kinds /\ job.depth \in Nat /\ req[r] = None
  <2>1. r \in DOMAIN load.jobs
    BY DEF Arrive, Coming
  <2> QED
    BY <2>1, BackendAssumption, LoadAssumption DEF Kinds, Arrive, Coming, Arrived
<1>2. \/ \E c \in Codes : TurnAway(r, c)
      \/ \E q \in Arguments(job, TenantOf(token)) : Begin(r, q)
  <2>1. \/ TurnAway(r, "429") \/ TurnAway(r, "refused")
        \/ Refusal(job.kind, token, job.large) # "" /\ TurnAway(r, Refusal(job.kind, token, job.large))
        \/ \E q \in Arguments(job, TenantOf(token)) : Begin(r, q)
    BY DEF Arrive
  <2>2. Refusal(job.kind, token, job.large) \in {"", "413", "401", "403"}
    BY DEF Refusal
  <2>3. {"429", "refused", "413", "401", "403"} \subseteq Codes
    BY DEF Codes
  <2> QED
    BY <2>1, <2>2, <2>3
<1>3. ASSUME NEW c \in Codes, TurnAway(r, c)
      PROVE  out' \in [Jobs -> Codes \cup {None}] /\ req' = req
  BY <1>3 DEF TurnAway, FitsInv
<1>4. CASE \E c \in Codes : TurnAway(r, c)
  BY <1>1, <1>3, <1>4 DEF FitsInv
<1>5. ASSUME NEW q \in Arguments(job, TenantOf(token)), Begin(r, q)
      PROVE  /\ out' \in [Jobs -> Codes \cup {None}]
             /\ Apt(req'[r], req'[r].todo) /\ Hooked(req'[r], hooks) /\ Head(req'[r].todo) \notin OnOwn
             /\ \A s \in Jobs : s # r /\ req'[s] # None =>
                  /\ req[s] # None /\ Apt(req'[s], req'[s].todo) /\ req'[s].todo = req[s].todo
                  /\ req'[s].kind = req[s].kind /\ req'[s].hook = req[s].hook
  <2>1. Typed(q) /\ Hooked(q, hooks) /\ q.kind = job.kind /\ DOMAIN q = Fields
    <3> HIDE DEF job, token
    <3> QED
      BY <1>1, ArgumentsTyped
  <2> DEFINE k == q.kind
             h == Handlers[k]
             p == [q EXCEPT !.alone = Active = {}, !.todo = h]
  <2>2. req' = [s \in Jobs |-> IF s = r THEN p ELSE IF s \in Active THEN Overlapping(req[s]) ELSE None] /\ out' = out
    BY <1>5 DEF Begin
  <2> HIDE DEF h
  <2>3. /\ p.kind = q.kind /\ p.score = q.score /\ p.price = q.price /\ p.todo = h /\ p.hook = q.hook
        /\ p.targets = q.targets /\ p.deals = q.deals /\ p.carts = q.carts /\ p.issued = q.issued /\ p.code = q.code
        /\ p.subject = q.subject /\ p.cred = q.cred /\ p.topics = q.topics /\ p.seen = q.seen /\ p.tally = q.tally
        /\ p.intent = q.intent /\ p.made = q.made
    BY <2>1, FieldsAre
  <2> HIDE DEF p
  <2>4. Apt(q, h) /\ Head(h) \notin OnOwn
    <3>1. /\ Piece(k, h) /\ Head(h) \in Firsts
          /\ k = "attest" => Head(h) = "findHolder"
          /\ k = "drift" => Head(h) = "ensureTenant"
      BY <1>1, <2>1, HandlersPieces DEF h
    <3>2. Stage(q, Head(h)) /\ Head(h) \notin OnOwn
      BY <3>1 DEF Stage, Firsts, OnOwn
    <3>3. k = "seed" => Seeding(q, h)
      BY SeedingStarts, HandlersAre DEF h
    <3> QED
      BY <2>1, <3>1, <3>2, <3>3 DEF Apt
  <2>5. Apt(p, h)
    BY <2>3, <2>4, AptSame
  <2>6. req'[r] = p
    BY <2>2
  <2>7. Hooked(p, hooks)
    BY <2>1, <2>3 DEF Hooked
  <2>8. ASSUME NEW s \in Jobs, s # r, req'[s] # None
        PROVE  /\ req[s] # None /\ Apt(req'[s], req'[s].todo) /\ req'[s].todo = req[s].todo
               /\ req'[s].kind = req[s].kind /\ req'[s].hook = req[s].hook
    <3>1. s \in Active /\ req'[s] = Overlapping(req[s])
      BY <2>2, <2>8
    <3>2. req[s] # None /\ DOMAIN req[s] = Fields /\ Apt(req[s], req[s].todo)
      BY <3>1, AsItStands DEF Active
    <3> DEFINE o == Overlapping(req[s])
    <3>3. /\ o.kind = req[s].kind /\ o.score = req[s].score /\ o.price = req[s].price /\ o.todo = req[s].todo
          /\ o.hook = req[s].hook /\ o.targets = req[s].targets /\ o.deals = req[s].deals /\ o.carts = req[s].carts
          /\ o.issued = req[s].issued /\ o.code = req[s].code /\ o.subject = req[s].subject /\ o.cred = req[s].cred
          /\ o.topics = req[s].topics /\ o.seen = req[s].seen /\ o.tally = req[s].tally
          /\ o.intent = req[s].intent /\ o.made = req[s].made
      BY <3>2, FieldsAre DEF Overlapping
    <3> HIDE DEF o
    <3>4. Apt(o, o.todo)
      BY <3>2, <3>3, AptSame
    <3> QED
      BY <3>1, <3>2, <3>3, <3>4 DEF o
  <2> QED
    BY <2>2, <2>3, <2>4, <2>5, <2>6, <2>7, <2>8 DEF FitsInv
<1>6. CASE \E q \in Arguments(job, TenantOf(token)) : Begin(r, q)
  BY <1>1, <1>5, <1>6
<1> QED
  BY <1>2, <1>4, <1>6

\* Every request can do the step that comes next in its script.
LEMMA FitsStep ==
  ASSUME RequestsInv, load \in Loads, KeysInv, AttestInv, CheckInv, FitsInv, CredsTyped, HooksTyped, [Next]_vars
  PROVE  FitsInv'
<1>1. ASSUME NEW r \in Jobs, Arrive(r) PROVE FitsInv'
  <2>1. \A s \in Jobs : s = r \/ s # r
    OBVIOUS
  <2> QED
    BY <1>1, <2>1, ArriveFits DEF FitsInv
<1>2. ASSUME NEW r \in Jobs, Step(r) PROVE FitsInv'
  <2>1. Passes(r) /\ Only(r)
    <3>1. Verifies(r) => req[r].cred \in DOMAIN creds
      BY DEF CheckInv, Checked, About
    <3> QED
      BY <1>2, <3>1, StepPasses, StepKeeps DEF KeysInv
  <2>2. ASSUME NEW s \in Jobs, req'[s] # None PROVE Apt(req'[s], req'[s].todo)
    BY <2>1, <2>2 DEF Passes, Only, FitsInv
  <2> QED
    BY <2>1, <2>2 DEF Passes, FitsInv
<1>3. CASE Tick \/ UNCHANGED vars
  <2>1. req' = req /\ out' = out
    BY <1>3 DEF Tick, vars, requestVars
  <2> QED
    BY <2>1 DEF FitsInv
<1> QED
  BY <1>1, <1>2, <1>3 DEF Next

(***************************************************************************)
(* The other rows: which steps touch which.                                *)
(***************************************************************************)

LEMMA SideTouched ==
  ASSUME NEW r \in Jobs, Step(r)
  PROVE  /\ UNCHANGED arrivalVars
         /\ hooks' = hooks \/ InsertHook(r) \/ DropHook(r)
         /\ events' = events \/ Record(r) \/ SeedTrustEvents(r)
         /\ delegations' = delegations \/ SeedTree(r)
         /\ spends' = spends \/ Spend(r)
<1> DEFINE P == UNCHANGED <<arrivalVars, hooks, events, delegations, spends>>
<1>1. ASSUME ReadNewest(r) \/ Stamp(r) \/ AppendEvent(r) \/ EnsureTenant(r) \/ ReadKeys(r) PROVE P
  BY <1>1 DEF ReadNewest, Stamp, AppendEvent, EnsureTenant, ReadKeys, sideVars, seededVars
<1>2. ASSUME Rotate(r) \/ InsertAgent(r) \/ FindHolder(r) \/ Register(r) \/ Refetch(r) PROVE P
  BY <1>2 DEF Rotate, InsertAgent, FindHolder, Register, Refetch, sideVars, seededVars
<1>3. ASSUME Allocate(r) \/ FindIssuer(r) \/ Sign(r) \/ Store(r) \/ FindCred(r) \/ ReadBits(r) \/ SetRevoked(r) PROVE P
  BY <1>3 DEF Allocate, FindIssuer, Sign, Store, FindCred, ReadBits, SetRevoked, sideVars, seededVars
<1>4. ASSUME Resolve(r) \/ ReadList(r) \/ EnsureIssuer(r) \/ MakeIssuer(r) \/ Fetch(r) PROVE P
  BY <1>4 DEF Resolve, ReadList, EnsureIssuer, MakeIssuer, Fetch, sideVars, seededVars
<1>5. ASSUME Get(r) \/ Set(r) \/ Flush(r) PROVE P
  BY <1>5 DEF Get, Set, Flush, seededVars
<1>6. ASSUME ReadIssuer(r) \/ ReadHistory(r) \/ ReadEvents(r) \/ ReadAgents(r) \/ ReadBoard(r) PROVE P
  BY <1>6 DEF ReadIssuer, ReadHistory, ReadEvents, ReadAgents, ReadBoard, sideVars, seededVars
<1>7. ASSUME CountRows(r) \/ CheckCred(r) \/ CountEvents(r) \/ WalkChain(r) \/ Reply(r) PROVE P
  BY <1>7 DEF CountRows, CheckCred, CountEvents, WalkChain, Reply, sideVars, seededVars
<1>8. ASSUME DeleteCreds(r) \/ DeleteRest(r) \/ FindHook(r) \/ Dispatch(r) \/ CheckEmpty(r) \/ Expire(r) PROVE P
  BY <1>8 DEF DeleteCreds, DeleteRest, FindHook, Dispatch, CheckEmpty, Expire, sideVars, seededVars
<1>9. ASSUME SeedAgents(r) \/ SeedCreds(r) \/ SeedRevoked(r) PROVE P
  BY <1>9 DEF SeedAgents, SeedCreds, SeedRevoked, sideVars, seededVars
<1>14. ASSUME SeedIntent(r) \/ SeedCart(r) PROVE P
  BY <1>14 DEF SeedIntent, SeedCart, sideVars, seededVars
<1>10. CASE InsertHook(r) \/ DropHook(r)
  BY <1>10 DEF InsertHook, DropHook, seededVars
<1>11. CASE Record(r) \/ SeedTrustEvents(r)
  BY <1>11 DEF Record, SeedTrustEvents, seededVars
<1>12. CASE SeedTree(r) \/ Spend(r)
  BY <1>12 DEF SeedTree, Spend
<1> HIDE DEF P
<1>13. CASE P
  BY <1>13 DEF P
<1> QED
  BY <1>1, <1>2, <1>3, <1>4, <1>5, <1>6, <1>7, <1>8, <1>9, <1>10, <1>11, <1>12, <1>13, <1>14 DEF Step

\* Tenants get rows by their own requests only, but for the audit events of verification.
LEMMA RowsTouched ==
  ASSUME NEW r \in Jobs, Step(r)
  PROVE  /\ creds' = creds \/ Sign(r) \/ Store(r) \/ DeleteRest(r)
         /\ UNCHANGED <<revoked, struck>> \/ SetRevoked(r)
         /\ tenants' \subseteq tenants \cup {req[r].tenant} /\ lists' \subseteq lists \cup {req[r].tenant}
         /\ forked' \subseteq forked \cup {AuditTenant(req[r])} /\ torn' \subseteq torn \cup {req[r].tenant}
         /\ UNCHANGED <<log, stamps>> \/ ReadNewest(r) \/ Stamp(r) \/ AppendEvent(r) \/ DeleteRest(r)
<1> DEFINE P == /\ UNCHANGED <<creds, revoked, struck, log, stamps>>
                /\ tenants' \subseteq tenants \cup {req[r].tenant} /\ lists' \subseteq lists \cup {req[r].tenant}
                /\ forked' = forked /\ torn' = torn
<1>1. CASE ReadNewest(r) \/ Stamp(r) \/ AppendEvent(r)
  BY <1>1 DEF ReadNewest, Stamp, AppendEvent, registryVars
<1>2. ASSUME EnsureTenant(r) \/ ReadKeys(r) \/ Rotate(r) PROVE P
  BY <1>2 DEF EnsureTenant, ReadKeys, Rotate, registryVars, auditVars
<1>3. ASSUME InsertAgent(r) PROVE P
  BY <1>3 DEF InsertAgent, InsertRows, registryVars, auditVars
<1>4. ASSUME FindHolder(r) \/ Register(r) \/ Refetch(r) PROVE P
  BY <1>4 DEF FindHolder, Register, InsertRows, Refetch, registryVars, auditVars
<1>5. ASSUME Allocate(r) \/ FindIssuer(r) \/ FindCred(r) \/ ReadBits(r) PROVE P
  BY <1>5 DEF Allocate, FindIssuer, FindCred, ReadBits, registryVars, auditVars
<1>6. CASE Sign(r) \/ Store(r)
  BY <1>6 DEF Sign, Store, registryVars, auditVars
<1>7. CASE SetRevoked(r)
  BY <1>7 DEF SetRevoked, registryVars, auditVars
<1>8. ASSUME Resolve(r) \/ ReadList(r) \/ EnsureIssuer(r) \/ MakeIssuer(r) \/ Fetch(r) PROVE P
  BY <1>8 DEF Resolve, ReadList, EnsureIssuer, MakeIssuer, Fetch, registryVars, auditVars
<1>9. ASSUME Get(r) \/ Set(r) \/ Flush(r) \/ Record(r) PROVE P
  BY <1>9 DEF Get, Set, Flush, Record, registryVars, auditVars
<1>10. ASSUME ReadIssuer(r) \/ ReadHistory(r) \/ ReadEvents(r) \/ ReadAgents(r) \/ ReadBoard(r) PROVE P
  BY <1>10 DEF ReadIssuer, ReadHistory, ReadEvents, ReadAgents, ReadBoard, registryVars, auditVars
<1>11. ASSUME CountRows(r) \/ CheckCred(r) \/ CountEvents(r) \/ WalkChain(r) \/ Reply(r) PROVE P
  BY <1>11 DEF CountRows, CheckCred, CountEvents, WalkChain, Reply, registryVars, auditVars
<1>12. ASSUME DeleteCreds(r) \/ FindHook(r) \/ Dispatch(r) \/ CheckEmpty(r) \/ Expire(r) PROVE P
  BY <1>12 DEF DeleteCreds, FindHook, Dispatch, CheckEmpty, Expire, registryVars, auditVars
<1>13. CASE DeleteRest(r)
  BY <1>13 DEF DeleteRest, registryVars, auditVars
<1>14. ASSUME InsertHook(r) \/ DropHook(r) \/ SeedTree(r) \/ Spend(r) \/ SeedTrustEvents(r) PROVE P
  BY <1>14 DEF InsertHook, DropHook, SeedTree, Spend, SeedTrustEvents, registryVars, auditVars
<1>15. ASSUME SeedAgents(r) \/ SeedCreds(r) \/ SeedRevoked(r) PROVE P
  BY <1>15 DEF SeedAgents, SeedCreds, SeedRevoked, registryVars, auditVars
<1>16. ASSUME SeedIntent(r) \/ SeedCart(r) PROVE P
  BY <1>16 DEF SeedIntent, SeedCart, registryVars, auditVars
<1> HIDE DEF P
<1>17. CASE P
  BY <1>17 DEF P
<1> QED
  BY <1>1, <1>2, <1>3, <1>4, <1>5, <1>6, <1>7, <1>8, <1>9, <1>10, <1>11, <1>12, <1>13, <1>14, <1>15, <1>16, <1>17 DEF Step

\* Who signs is there, and what it signs has the types of a row.
LEMMA SignTyped ==
  ASSUME RequestsInv, KeysInv, FitsInv, NEW r \in Jobs, Sign(r), req[r].agent \in Registered
  PROVE  \E x \in Cred : creds' = CredsWith(Min(Unsigned), x)
<1> DEFINE q == req[r]
           a == q.agent
<1>1. q # None /\ Doing(r) = "sign" /\ Data(q) /\ Apt(q, q.todo) /\ Belongs(q.kind, "sign")
      /\ q.todo \in Seq(Steps) /\ q.todo # <<>> /\ Doing(r) = Head(q.todo)
  <2>1. q # None /\ Doing(r) = "sign"
    BY Standing DEF Sign
  <2> QED
    BY <2>1, AsItStands, OwnData
<1>2. q.subject \in Agents
  <2>1. Typed(q) /\ Stage(q, "sign")
    BY <1>1 DEF Apt
  <2>2. CASE q.kind = "issue"
    BY <2>1, <2>2 DEF Typed
  <2>3. CASE q.kind \in {"attest", "drift"}
    BY <2>1, <2>3 DEF Stage
  <2>4. CASE q.kind = "seed"
    <3>1. Able(q, q.todo)
      BY <1>1, <2>4 DEF Apt, Seeding
    <3>2. 1 \in 1..Len(q.todo) /\ q.todo[1] = "sign"
      BY <1>1
    <3> QED
      BY <3>1, <3>2 DEF Able
  <2> QED
    BY <1>1, <2>2, <2>3, <2>4 DEF Belongs
<1>3. PICK sig : sig = Signature(a, SigningKey(a))
  OBVIOUS
<1>4. sig.kid \in Nat /\ sig.gen \in Nat
  <2>1. sig.kid \in DOMAIN keys[a] /\ keys[a][sig.kid].gen = sig.gen /\ a \in Agents
    BY <1>3, NewestSigns DEF Registered
  <2>2. PICK ks : ks = keys[a]
    OBVIOUS
  <2>3. ks \in Seq(KeyRecord)
    BY <2>1, <2>2 DEF KeysInv, RowsInv
  <2>4. PICK n : n = sig.kid
    OBVIOUS
  <2>5. n \in Nat /\ ks[n] \in KeyRecord
    BY <2>1, <2>2, <2>3, <2>4
  <2> QED
    BY <2>1, <2>2, <2>4, <2>5 DEF KeyRecord
<1>5. creds' = CredsWith(Min(Unsigned),
                 [issuer |-> a, subject |-> q.subject, kid |-> sig.kid, gen |-> sig.gen,
                  tenant |-> q.tenant, list |-> q.seen, exp |-> IF q.ttl = 0 THEN 0 ELSE now + q.ttl,
                  stored |-> FALSE, spiffe |-> q.spiffe, depth |-> q.score, by |-> r])
  BY <1>3 DEF Sign
<1>6. PICK e : e = IF q.ttl = 0 THEN 0 ELSE now + q.ttl
  OBVIOUS
<1>7. e \in Nat
  BY <1>1, <1>6 DEF Data, KeysInv, RowsInv
<1>8. /\ a \in Agents /\ q.tenant \in Tenants /\ q.seen \in Nat /\ q.spiffe \in Spiffes \cup {None}
      /\ q.score \in Nat /\ r \in Nat
  <2>1. a \in Agents
    BY DEF Registered
  <2>2. q.tenant \in Tenants /\ q.spiffe \in Spiffes \cup {None}
    BY <1>1 DEF Data
  <2>3. q.seen \in Nat /\ q.score \in Nat
    BY <1>1 DEF Apt, Typed, Stage
  <2>4. r \in Nat
    BY DEF Jobs
  <2> QED
    BY <2>1, <2>2, <2>3, <2>4
<1> HIDE DEF a, q
<1>9. [issuer |-> a, subject |-> q.subject, kid |-> sig.kid, gen |-> sig.gen,
       tenant |-> q.tenant, list |-> q.seen, exp |-> e,
       stored |-> FALSE, spiffe |-> q.spiffe, depth |-> q.score, by |-> r] \in Cred
  BY <1>2, <1>4, <1>7, <1>8 DEF Cred
<1> QED
  BY <1>5, <1>6, <1>9

\* The rows of the credentials have their types.
LEMMA CredsTypedStep ==
  ASSUME RequestsInv, KeysInv, AttestInv, FitsInv, CredsTyped, NEW r \in Jobs, Step(r)
  PROVE  CredsTyped'
<1>0. \A x \in Cred : [x EXCEPT !.stored = TRUE] \in Cred /\ [x EXCEPT !.stored = FALSE] \in Cred
  BY DEF Cred
<1>1. CASE creds' = creds
  BY <1>1 DEF CredsTyped
<1>2. CASE Sign(r)
  <2>1. CASE req[r].agent \notin Registered
    BY <1>1, <1>2, <2>1 DEF Sign, registryVars
  <2>2. CASE req[r].agent \in Registered
    <3>1. PICK x \in Cred : creds' = CredsWith(Min(Unsigned), x)
      BY <1>2, <2>2, SignTyped
    <3>2. PICK c : c = Min(Unsigned)
      OBVIOUS
    <3>3. creds' = [d \in DOMAIN creds \cup {c} |-> IF d = c THEN x ELSE creds[d]]
      BY <3>1, <3>2 DEF CredsWith
    <3> QED
      BY <3>1, <3>3 DEF CredsTyped
  <2> QED
    BY <2>1, <2>2
<1>3. CASE Store(r)
  <2>1. creds' = creds \/ creds' = [creds EXCEPT ![req[r].cred].stored = TRUE]
    BY <1>3 DEF Store, registryVars
  <2>2. PICK c : c = req[r].cred
    OBVIOUS
  <2>3. CASE creds' = [creds EXCEPT ![c].stored = TRUE]
    <3>1. DOMAIN creds' = DOMAIN creds
      BY <2>3
    <3>2. ASSUME NEW d \in DOMAIN creds PROVE creds'[d] \in Cred
      <4>1. creds[d] \in Cred
        BY DEF CredsTyped
      <4>2. creds'[d] = IF d = c THEN [creds[d] EXCEPT !.stored = TRUE] ELSE creds[d]
        BY <2>3
      <4> QED
        BY <1>0, <4>1, <4>2
    <3>3. creds' = [d \in DOMAIN creds' |-> creds'[d]]
      BY <2>3
    <3> QED
      BY <3>1, <3>2, <3>3 DEF CredsTyped
  <2> QED
    BY <1>1, <2>1, <2>2, <2>3
<1>4. CASE DeleteRest(r)
  <2>1. \/ creds' = creds
        \/ \E t : creds' = [c \in DOMAIN creds |-> IF c \in RowsOf(t) THEN [creds[c] EXCEPT !.stored = FALSE] ELSE creds[c]]
    BY <1>4 DEF DeleteRest, registryVars
  <2>2. ASSUME NEW t, creds' = [c \in DOMAIN creds |-> IF c \in RowsOf(t) THEN [creds[c] EXCEPT !.stored = FALSE] ELSE creds[c]]
        PROVE  CredsTyped'
    <3>1. \A c \in DOMAIN creds : creds[c] \in Cred /\ [creds[c] EXCEPT !.stored = FALSE] \in Cred
      BY <1>0 DEF CredsTyped
    <3> QED
      BY <2>2, <3>1 DEF CredsTyped
  <2> QED
    BY <1>1, <2>1, <2>2
<1> QED
  BY <1>1, <1>2, <1>3, <1>4, RowsTouched

\* Only credentials are revoked, and what is revoked, or was when a list was read, was struck.
BitsInv ==
  /\ revoked \subseteq struck /\ struck \subseteq Creds
  /\ \A r \in Jobs : req[r] # None /\ Head(req[r].todo) = "setRevoked" => req[r].bits.set \subseteq struck

\* A write leaves it so.
LEMMA WriteTyped ==
  ASSUME RequestsInv, FitsInv, BitsInv, NEW r \in Jobs, SetRevoked(r)
  PROVE  struck \subseteq struck' /\ revoked' \subseteq struck' /\ struck' \subseteq Creds
<1>1. req[r] # None /\ Doing(r) = "setRevoked"
  BY Standing DEF SetRevoked
<1>2. Typed(req[r]) /\ Stage(req[r], "setRevoked") /\ Belongs(req[r].kind, "setRevoked")
  BY <1>1, AsItStands DEF Apt
<1>3. req[r].cred \in Creds
  BY <1>1, <1>2 DEF Typed, Stage, Belongs
<1>4. req[r].bits.set \subseteq struck
  BY <1>1 DEF BitsInv, Doing
<1>5. \/ UNCHANGED <<revoked, struck>>
      \/ revoked' = Written(req[r].cred, req[r].bits) /\ struck' = struck \cup {req[r].cred}
  BY DEF SetRevoked, registryVars
<1> QED
  BY <1>3, <1>4, <1>5 DEF BitsInv, Written

LEMMA BitsStep ==
  ASSUME RequestsInv, load \in Loads, FitsInv, BitsInv, [Next]_vars
  PROVE  BitsInv'
<1>1. ASSUME NEW r \in Jobs, \A s \in Jobs : s # r => Kept(s),
             struck \subseteq struck', revoked' \subseteq struck', struck' \subseteq Creds,
             req'[r] # None /\ Head(req'[r].todo) = "setRevoked" => req'[r].bits.set \subseteq struck
      PROVE  BitsInv'
  <2>1. ASSUME NEW s \in Jobs, req'[s] # None, Head(req'[s].todo) = "setRevoked"
        PROVE  req'[s].bits.set \subseteq struck
    <3>1. CASE s = r
      BY <1>1, <2>1, <3>1
    <3>2. CASE s # r
      BY <1>1, <2>1, <3>2 DEF Kept, Left, BitsInv
    <3> QED
      BY <3>1, <3>2
  <2> QED
    BY <1>1, <2>1 DEF BitsInv
<1>2. ASSUME NEW r \in Jobs, Arrive(r) PROVE BitsInv'
  <2>1. Settles(r) /\ UNCHANGED <<revoked, struck>>
    BY <1>2, ArriveSettles DEF Arrive, registryVars
  <2>2. ~(req'[r] # None /\ Head(req'[r].todo) = "setRevoked")
    BY <2>1 DEF Settles, Rests, Awaits
  <2> QED
    BY <1>1, <2>1, <2>2 DEF Settles, BitsInv
<1>3. ASSUME NEW r \in Jobs, Step(r) PROVE BitsInv'
  <2>1. struck \subseteq struck' /\ revoked' \subseteq struck' /\ struck' \subseteq Creds
    BY <1>3, StepConfined, WriteTyped DEF Confined, BitsInv
  <2>2. \A s \in Jobs : s # r => Kept(s)
    BY <1>3, StepKeeps, OnlyKept
  <2>3. ASSUME req'[r] # None, Head(req'[r].todo) = "setRevoked" PROVE req'[r].bits.set \subseteq struck
    <3>1. ~Calm(r)
      BY <2>3 DEF Calm, Settles, Rests, Awaits
    <3>2. req'[r].bits = Bits(req[r].cred)
      BY <1>3, <2>3, <3>1, StepCases, BitsRead
    <3> QED
      BY <3>2 DEF Bits, BitsInv
  <2> QED
    BY <1>1, <2>1, <2>2, <2>3
<1>4. CASE Tick \/ UNCHANGED vars
  <2>1. UNCHANGED <<req, revoked, struck>>
    BY <1>4 DEF Tick, vars, requestVars, registryVars
  <2> QED
    BY <2>1 DEF BitsInv
<1> QED
  BY <1>2, <1>3, <1>4 DEF Next

HooksInv == HooksTyped /\ \A r \in Jobs : req[r] # None => Hooked(req[r], hooks)

\* A webhook that is there stays.
LEMMA HooksStay ==
  ASSUME RequestsInv, FitsInv, HooksInv, NEW r \in Jobs, Step(r)
  PROVE  HooksTyped' /\ \A h \in Hooks : hooks[h] \in Webhook => hooks'[h] \in Webhook
<1> DEFINE P == HooksTyped' /\ \A h \in Hooks : hooks[h] \in Webhook => hooks'[h] \in Webhook
<1>1. ASSUME hooks' = hooks PROVE P
  BY <1>1 DEF HooksInv, HooksTyped
<1>2. ASSUME NEW h, NEW w \in Webhook, hooks' = [hooks EXCEPT ![h] = w] PROVE P
  BY <1>2 DEF HooksInv, HooksTyped
<1>3. ASSUME InsertHook(r) PROVE P
  <2>1. req[r] # None /\ Doing(r) = "insertHook"
    BY <1>3, Standing DEF InsertHook
  <2>2. Typed(req[r]) /\ req[r].kind = "addHook" /\ req[r].tenant \in Tenants
    BY <2>1, AsItStands, OwnData DEF Apt, Belongs, Data
  <2>3. [tenant |-> req[r].tenant, topics |-> req[r].topics, active |-> TRUE] \in Webhook
    BY <2>2 DEF Typed, Webhook
  <2>4. \E h : hooks' = [hooks EXCEPT ![h] = [tenant |-> req[r].tenant, topics |-> req[r].topics, active |-> TRUE]]
    BY <1>3 DEF InsertHook
  <2> HIDE DEF P
  <2> QED
    BY <1>2, <2>3, <2>4
<1>4. ASSUME DropHook(r) PROVE P
  <2>1. req[r] # None /\ Doing(r) = "dropHook"
    BY <1>4, Standing DEF DropHook
  <2>2. PICK h : h = req[r].hook
    OBVIOUS
  <2>3. h \in Hooks /\ hooks[h] \in Webhook
    BY <2>1, <2>2, AsItStands DEF Belongs, HooksInv, Hooked
  <2>4. [hooks[h] EXCEPT !.active = FALSE] \in Webhook
    BY <2>3 DEF Webhook
  <2>5. hooks' = hooks \/ hooks' = [hooks EXCEPT ![h].active = FALSE]
    BY <1>4, <2>2 DEF DropHook
  <2>6. hooks' = hooks \/ hooks' = [hooks EXCEPT ![h] = [hooks[h] EXCEPT !.active = FALSE]]
    BY <2>5
  <2> HIDE DEF P
  <2> QED
    BY <1>1, <1>2, <2>4, <2>6
<1> QED
  BY <1>1, <1>3, <1>4, SideTouched

LEMMA HooksStep ==
  ASSUME RequestsInv, load \in Loads, KeysInv, AttestInv, CheckInv, FitsInv, CredsTyped, HooksInv, [Next]_vars
  PROVE  HooksInv'
<1>1. ASSUME NEW r \in Jobs, Step(r) PROVE HooksInv'
  <2>1. Passes(r) /\ Only(r) /\ (req'[r] # None => req'[r].kind = req[r].kind) /\ req[r] # None
    <3>1. Verifies(r) => req[r].cred \in DOMAIN creds
      BY DEF CheckInv, Checked, About
    <3> QED
      BY <1>1, <3>1, StepPasses, StepKeeps, StepOfActive DEF KeysInv
  <2>2. HooksTyped' /\ \A h \in Hooks : hooks[h] \in Webhook => hooks'[h] \in Webhook
    BY <1>1, HooksStay
  <2>3. ASSUME NEW s \in Jobs, req'[s] # None PROVE Hooked(req'[s], hooks')
    <3>1. req[s] # None /\ req'[s].kind = req[s].kind /\ req'[s].hook = req[s].hook
      BY <2>1, <2>3 DEF Passes, Only
    <3>2. Hooked(req[s], hooks)
      BY <3>1 DEF HooksInv
    <3> QED
      BY <2>2, <3>1, <3>2 DEF Hooked
  <2> QED
    BY <2>2, <2>3 DEF HooksInv
<1>2. ASSUME NEW r \in Jobs, Arrive(r) PROVE HooksInv'
  <2>1. hooks' = hooks
    BY <1>2 DEF Arrive, sideVars
  <2>2. ASSUME NEW s \in Jobs, req'[s] # None PROVE Hooked(req'[s], hooks)
    <3>1. CASE s = r
      BY <1>2, <2>2, <3>1, ArriveFits DEF HooksInv
    <3>2. CASE s # r
      <4>1. req[s] # None /\ req'[s].kind = req[s].kind /\ req'[s].hook = req[s].hook
        BY <1>2, <2>2, <3>2, ArriveFits DEF HooksInv
      <4> QED
        BY <4>1 DEF HooksInv, Hooked
    <3> QED
      BY <3>1, <3>2
  <2> QED
    BY <2>1, <2>2 DEF HooksInv, HooksTyped
<1>3. CASE Tick \/ UNCHANGED vars
  <2>1. hooks' = hooks /\ req' = req
    BY <1>3 DEF Tick, vars, sideVars, requestVars
  <2> QED
    BY <2>1 DEF HooksInv, HooksTyped
<1> QED
  BY <1>1, <1>2, <1>3 DEF Next

\* Sequences one after the other.
LEMMA AllInOne ==
  ASSUME NEW A, NEW seqs \in Seq(Seq(A))
  PROVE  FlattenSeq(seqs) \in Seq(A)
<1> DEFINE n == Len(seqs)
<1>0. \A i \in 1..n : seqs[i] \in Seq(A)
  OBVIOUS
<1>9. n \in Nat
  OBVIOUS
<1>1. CASE seqs = <<>>
  <2>1. Len(seqs) = 0 /\ <<>> \in Seq(A)
    BY <1>1
  <2> QED
    BY <1>1, <2>1 DEF FlattenSeq
<1>2. CASE seqs # <<>>
  <2>1. PICK h : /\ h[1] = seqs[1] /\ \A i \in 2..n : h[i] = h[i - 1] \o seqs[i]
                 /\ FlattenSeq(seqs) = h[n]
    BY <1>2, Flattened
  <2>2. n # 0
    BY <1>2
  <2> HIDE DEF n
  <2> DEFINE S == {i \in Nat : i \in 1..n => h[i] \in Seq(A)}
  <2>3. 0 \in S
    OBVIOUS
  <2>4. ASSUME NEW i \in Nat, i \in S PROVE i + 1 \in S
    <3> SUFFICES ASSUME i + 1 \in 1..n PROVE h[i + 1] \in Seq(A)
      OBVIOUS
    <3>1. CASE i = 0
      BY <1>0, <2>1, <3>1
    <3>2. CASE i # 0
      <4>1. i \in 1..n /\ i + 1 \in 2..n /\ i + 1 \in 1..n /\ (i + 1) - 1 = i
        BY <1>9, <3>2
      <4>2. PICK u, v : u = h[i] /\ v = seqs[i + 1]
        OBVIOUS
      <4>3. h[i + 1] = u \o v /\ u \in Seq(A) /\ v \in Seq(A)
        BY <1>0, <2>1, <2>4, <4>1, <4>2
      <4>4. u \o v \in Seq(A)
        BY <4>3, Concatenated
      <4> QED
        BY <4>3, <4>4
    <3> QED
      BY <3>1, <3>2
  <2>5. Nat \subseteq S
    <3> HIDE DEF S
    <3> QED
      BY <2>3, <2>4, Induction
  <2>6. n \in S /\ n \in 1..n
    BY <1>9, <2>2, <2>5
  <2> QED
    BY <2>1, <2>6
<1> QED
  BY <1>1, <1>2

\* The trust events that seeding writes have their types.
LEMMA TrustEventsAre ==
  ASSUME RequestsInv, FitsInv, NEW r \in Jobs, SeedTrustEvents(r)
  PROVE  TrustEventsOf(req[r]) \in Seq(TrustEvent)
<1> DEFINE q == req[r]
<1>0. PICK T : T = TrustEvent
  OBVIOUS
<1>1. q # None /\ Doing(r) = "seedEvents"
  BY Standing DEF SeedTrustEvents
<1>2. q.tenant \in Tenants /\ \A i \in DOMAIN Roster : q.made[i] \in Agents \cup {None}
  <2>1. Belongs(q.kind, Doing(r)) => q.kind = "seed"
    BY <1>1 DEF Belongs, SeedItems
  <2> QED
    BY <1>1, <2>1, SeededBefore, OwnData DEF Data
<1> DEFINE one(e) == IF q.made[e.who] = None THEN <<>>
                     ELSE <<[agent |-> q.made[e.who], tenant |-> q.tenant, kind |-> e.kind, delta |-> e.delta]>>
           seqs == [i \in DOMAIN SeedEvents |-> one(SeedEvents[i])]
<1>3. ASSUME NEW e \in [who : DOMAIN Roster, kind : Seeded, delta : Int]
      PROVE  one(e) \in Seq(T)
  <2>1. e.who \in DOMAIN Roster /\ e.kind \in Seeded /\ e.delta \in Int
    OBVIOUS
  <2>2. CASE q.made[e.who] = None
    BY <2>2
  <2>3. CASE q.made[e.who] # None
    <3>1. q.made[e.who] \in Agents
      BY <1>2, <2>1, <2>3
    <3>2. PICK x : x = [agent |-> q.made[e.who], tenant |-> q.tenant, kind |-> e.kind, delta |-> e.delta]
      OBVIOUS
    <3>3. x \in T
      BY <1>0, <1>2, <2>1, <3>1, <3>2 DEF TrustEvent
    <3> QED
      BY <2>3, <3>2, <3>3
  <2> QED
    BY <2>2, <2>3
<1> HIDE DEF one
<1>4. seqs \in Seq(Seq(T))
  <2>1. PICK K : K = [who : DOMAIN Roster, kind : Seeded, delta : Int]
    OBVIOUS
  <2>2. SeedEvents \in Seq(K)
    BY <2>1, SeedAssumption
  <2>3. PICK n \in Nat : DOMAIN SeedEvents = 1..n /\ \A i \in 1..n : SeedEvents[i] \in K
    BY <2>2
  <2>4. \A i \in 1..n : one(SeedEvents[i]) \in Seq(T)
    BY <1>3, <2>1, <2>3
  <2> QED
    BY <2>3, <2>4
<1>5. TrustEventsOf(q) = FlattenSeq(seqs)
  BY DEF TrustEventsOf, one
<1> HIDE DEF seqs
<1>6. PICK w : w = TrustEventsOf(q)
  OBVIOUS
<1>7. w \in Seq(T)
  BY <1>4, <1>5, <1>6, AllInOne
<1> QED
  BY <1>0, <1>6, <1>7

\* Trust events: those that scoring records and those that are seeded.
LEMMA EventsStep ==
  ASSUME RequestsInv, FitsInv, events \in Seq(TrustEvent), NEW r \in Jobs, Step(r)
  PROVE  events' \in Seq(TrustEvent)
<1> DEFINE q == req[r]
<1>0. PICK T : T = TrustEvent
  OBVIOUS
<1>1. CASE Record(r)
  <2>1. q # None /\ Doing(r) = "record"
    BY <1>1, Standing DEF Record
  <2>2. Typed(q) /\ Stage(q, "record") /\ q.kind = "score" /\ q.tenant \in Tenants
    BY <2>1, AsItStands, OwnData DEF Apt, Belongs, Data
  <2>3. PICK d : d = q.score + q.tally
    OBVIOUS
  <2>4. d \in Int
    BY <2>2, <2>3 DEF Typed, Stage
  <2>5. q.subject \in Agents /\ Verdict(q.score) \in Verdicts
    BY <2>2 DEF Typed, Verdict, Verdicts
  <2>6. PICK e : e = [agent |-> q.subject, tenant |-> q.tenant, kind |-> Verdict(q.score), delta |-> q.score + q.tally]
    OBVIOUS
  <2>7. e \in T
    BY <1>0, <2>2, <2>3, <2>4, <2>5, <2>6 DEF TrustEvent
  <2>8. events' = Append(events, e)
    BY <1>1, <2>6 DEF Record
  <2> QED
    BY <1>0, <2>7, <2>8
<1>2. CASE SeedTrustEvents(r)
  <2>1. PICK w : w = TrustEventsOf(req[r])
    OBVIOUS
  <2>2. w \in Seq(T)
    BY <1>0, <1>2, <2>1, TrustEventsAre
  <2>3. events' = w \o events
    BY <1>2, <2>1 DEF SeedTrustEvents
  <2>4. w \o events \in Seq(T)
    BY <1>0, <2>2, Concatenated
  <2> QED
    BY <1>0, <2>3, <2>4
<1> QED
  BY <1>1, <1>2, SideTouched

\* Delegations and spends that are seeded.
LEMMA SeededStep ==
  ASSUME RequestsInv, FitsInv, NEW r \in Jobs, Step(r),
         delegations \in [Tenants -> Nat], spends \subseteq MandateSpend
  PROVE  delegations' \in [Tenants -> Nat] /\ spends' \subseteq MandateSpend
<1> DEFINE q == req[r]
<1>1. delegations' \in [Tenants -> Nat]
  <2>1. CASE SeedTree(r)
    <3>1. Len(Tree) \in Nat
      BY BackendAssumption
    <3>2. delegations' = delegations \/ delegations' = [delegations EXCEPT ![q.tenant] = @ + Len(Tree)]
      BY <2>1 DEF SeedTree
    <3> QED
      BY <3>1, <3>2
  <2> QED
    BY <2>1, SideTouched
<1>2. spends' \subseteq MandateSpend
  <2>1. CASE Spend(r)
    <3>1. q # None /\ Doing(r) = "spend"
      BY <2>1, Standing DEF Spend
    <3>2. q.tenant \in Tenants /\ q.issued[q.intent] \in Creds /\ q.issued[Len(q.issued)] \in Creds
      <4>1. Belongs(q.kind, Doing(r)) => q.kind = "seed"
        BY <3>1 DEF Belongs
      <4> QED
        BY <3>1, <4>1, SeededBefore, OwnData DEF Data
    <3>3. q.price \in Nat
      BY <3>1, AsItStands DEF Apt, Typed
    <3>4. PICK x : x = [tenant |-> q.tenant, intent |-> q.issued[q.intent],
                        cart |-> q.issued[Len(q.issued)], amount |-> q.price]
      OBVIOUS
    <3>5. x \in MandateSpend
      BY <3>2, <3>3, <3>4 DEF MandateSpend
    <3>6. spends' = spends \cup {x}
      BY <2>1, <3>4 DEF Spend
    <3> QED
      BY <3>5, <3>6
  <2> QED
    BY <2>1, SideTouched
<1> QED
  BY <1>1, <1>2

\* Only tenants have rows.
LEMMA PlacesStep ==
  ASSUME RequestsInv, NEW r \in Jobs, Step(r), tenants \cup lists \cup forked \cup torn \subseteq Tenants
  PROVE  tenants' \cup lists' \cup forked' \cup torn' \subseteq Tenants
<1>1. req[r].tenant \in Tenants /\ AuditTenant(req[r]) \in Tenants
  BY StepOfActive, OwnData, BackendAssumption DEF Data, AuditTenant
<1> QED
  BY <1>1, RowsTouched

(***************************************************************************)
(* The rows of the audit log.                                              *)
(***************************************************************************)

\* What a row is stamped with and chained to was given out before.
LogInv ==
  /\ \A t \in Tenants : log[t] \subseteq Rows(1..stamps)
  /\ \A r \in Jobs : req[r] # None /\ Writes(req[r]) => req[r].prev \in 0..stamps

LEMMA RowsAre ==
  ASSUME NEW n \in Nat, NEW e
  PROVE  /\ e \in Rows(1..n) => e.at \in 1..n /\ e.prev \in 0..n /\ e \in Rows(1..n + 1)
         /\ \A at \in 1..n : \A prev \in 0..n : [at |-> at, prev |-> prev] \in Rows(1..n)
<1>1. (1..n) \subseteq 1..n + 1 /\ {Genesis} \cup (1..n) = 0..n /\ {Genesis} \cup (1..n + 1) = 0..n + 1
  BY DEF Genesis
<1>2. (0..n) \subseteq 0..n + 1
  OBVIOUS
<1>3. PICK A, B, C, D : A = 1..n /\ B = 0..n /\ C = 1..n + 1 /\ D = 0..n + 1
  OBVIOUS
<1>4. A \subseteq C /\ B \subseteq D
  BY <1>1, <1>2, <1>3
<1>5. Rows(A) = [at : A, prev : B] /\ Rows(C) = [at : C, prev : D]
  BY <1>1, <1>3 DEF Rows
<1>6. /\ e \in Rows(A) => e.at \in A /\ e.prev \in B /\ e \in Rows(C)
      /\ \A at \in A : \A prev \in B : [at |-> at, prev |-> prev] \in Rows(A)
  BY <1>4, <1>5
<1> QED
  BY <1>3, <1>6

\* Requests and rows that are left alone, while time stamps are given out.
LEMMA LogStays ==
  ASSUME EventsInv, LogInv, NEW r \in Jobs, \A s \in Jobs : s # r => Kept(s),
         stamps' = stamps \/ stamps' = stamps + 1,
         \A t \in Tenants : log'[t] \subseteq log[t] \cup Rows(1..stamps),
         req'[r] # None /\ Writes(req'[r]) => req'[r].prev \in 0..stamps
  PROVE  LogInv'
<1>1. stamps \in Nat /\ stamps' \in Nat /\ (0..stamps) \subseteq 0..stamps'
  BY DEF EventsInv
<1>2. Rows(1..stamps) \subseteq Rows(1..stamps')
  BY <1>1, RowsAre
<1>3. ASSUME NEW t \in Tenants PROVE log'[t] \subseteq Rows(1..stamps')
  <2>1. log[t] \subseteq Rows(1..stamps)
    BY DEF LogInv
  <2> QED
    BY <1>2, <2>1
<1>4. ASSUME NEW s \in Jobs, req'[s] # None, Writes(req'[s]) PROVE req'[s].prev \in 0..stamps
  <2>1. CASE s = r
    BY <1>4, <2>1
  <2>2. CASE s # r
    <3>1. req[s] # None /\ req'[s].prev = req[s].prev /\ Writes(req[s])
      BY <1>4, <2>2 DEF Kept, Left, Writes
    <3> QED
      BY <3>1 DEF LogInv
  <2> QED
    BY <2>1, <2>2
<1> QED
  BY <1>1, <1>3, <1>4 DEF LogInv

LEMMA ReadNewestLogs ==
  ASSUME RequestsInv, ChainInv, LogInv, NEW r \in Jobs, ReadNewest(r)
  PROVE  LogInv'
<1> DEFINE t == AuditTenant(req[r])
           q == [req[r] EXCEPT !.prev = Newest(log[t])]
<1>1. req[r] # None /\ DOMAIN req[r] = Fields /\ Lands(r, q)
  BY ReadNewestLands
<1>2. \A s \in Jobs : s # r => Kept(s)
  BY <1>1, LandsOn, OnlyKept
<1>3. UNCHANGED <<log, stamps>>
  BY DEF ReadNewest
<1>4. Newest(log[t]) \in 0..stamps
  <2>1. t \in Tenants
    BY <1>1, OwnData, BackendAssumption DEF Data, AuditTenant
  <2>2. stamps \in Nat /\ (\A e \in log[t] : e.at \in 1..stamps) /\ HasNewest(log[t])
    BY <2>1 DEF ChainInv, EventsInv
  <2>3. PICK rows : rows = log[t]
    OBVIOUS
  <2>4. \A e \in rows : e.at \in Nat /\ e.at \in 0..stamps
    BY <2>2, <2>3
  <2>5. (rows = {} /\ Newest(rows) = Genesis) \/ \E d \in rows : d.at = Newest(rows)
    BY <2>2, <2>3, <2>4, NewestIs
  <2> QED
    BY <2>2, <2>3, <2>4, <2>5 DEF Genesis
<1>5. req'[r] # None => req'[r].prev \in 0..stamps
  <2>1. q.prev = Newest(log[t])
    BY <1>1, FieldsAre
  <2> HIDE DEF q, t
  <2>2. req'[r] # None => Left(q, req'[r])
    BY <1>1, LandsOn
  <2> QED
    BY <1>4, <2>1, <2>2 DEF Left
<1> QED
  BY <1>2, <1>3, <1>5, LogStays DEF ChainInv

LEMMA StampLogs ==
  ASSUME RequestsInv, ChainInv, LogInv, NEW r \in Jobs, Stamp(r)
  PROVE  LogInv'
<1> DEFINE q == [req[r] EXCEPT !.at = stamps + 1]
<1>1. req[r] # None /\ Doing(r) = "stamp" /\ DOMAIN req[r] = Fields /\ Lands(r, q)
  BY StampLands
<1>2. \A s \in Jobs : s # r => Kept(s)
  BY <1>1, LandsOn, OnlyKept
<1>3. log' = log /\ stamps' = stamps + 1
  BY DEF Stamp
<1>4. req[r].prev \in 0..stamps
  BY <1>1 DEF LogInv, Writes, Doing
<1>5. req'[r] # None => req'[r].prev \in 0..stamps
  <2>1. q.prev = req[r].prev
    BY <1>1, FieldsAre
  <2> HIDE DEF q
  <2>2. req'[r] # None => Left(q, req'[r])
    BY <1>1, LandsOn
  <2> QED
    BY <1>4, <2>1, <2>2 DEF Left
<1> QED
  BY <1>2, <1>3, <1>5, LogStays DEF ChainInv

LEMMA AppendLogs ==
  ASSUME RequestsInv, ChainInv, LogInv, NEW r \in Jobs, AppendEvent(r)
  PROVE  LogInv'
<1>1. req[r] # None /\ Doing(r) = "append" /\ Moves(r)
  BY AppendMoves
<1>2. \A s \in Jobs : s # r => Kept(s)
  BY <1>1, OnlyKept DEF Moves
<1>3. req'[r] # None => ~Writes(req'[r])
  BY <1>1 DEF Moves, Rests, Awaits, Writes
<1>4. req[r].at \in 1..stamps /\ req[r].prev \in 0..stamps /\ stamps \in Nat
  BY <1>1 DEF LogInv, ChainInv, EventsInv, WritersInv, Chaining, Stamped, Writes, Doing
<1>5. PICK f : f = [at |-> req[r].at, prev |-> req[r].prev]
  OBVIOUS
<1>6. f \in Rows(1..stamps)
  BY <1>4, <1>5, RowsAre
<1>7. PICK t : log' = [log EXCEPT ![t] = @ \cup {f}]
  BY <1>5 DEF AppendEvent
<1>8. \A u \in Tenants : log'[u] \subseteq log[u] \cup Rows(1..stamps)
  BY <1>6, <1>7 DEF ChainInv, EventsInv
<1>9. stamps' = stamps
  BY DEF AppendEvent
<1> QED
  BY <1>2, <1>3, <1>8, <1>9, LogStays DEF ChainInv

LEMMA LogStep ==
  ASSUME RequestsInv, load \in Loads, ChainInv, LogInv, [Next]_vars
  PROVE  LogInv'
<1>1. ASSUME NEW r \in Jobs, Calm(r) PROVE LogInv'
  <2>1. req'[r] # None => ~Writes(req'[r])
    BY <1>1 DEF Calm, Settles, Rests, Awaits, Writes
  <2>2. UNCHANGED <<log, stamps>> /\ \A s \in Jobs : s # r => Kept(s)
    BY <1>1 DEF Calm, Settles, auditVars
  <2> QED
    BY <2>1, <2>2, LogStays DEF ChainInv
<1>2. ASSUME NEW r \in Jobs, Telling(r) PROVE LogInv'
  <2>1. CASE ReadNewest(r) \/ Stamp(r) \/ AppendEvent(r)
    BY <2>1, ReadNewestLogs, StampLogs, AppendLogs
  <2>2. CASE ~(ReadNewest(r) \/ Stamp(r) \/ AppendEvent(r))
    <3>1. stamps' = stamps /\ \A t \in Tenants : log'[t] \subseteq log[t]
      <4>1. CASE DeleteRest(r)
        <5>1. stamps' = stamps /\ (log' = log \/ \E u : log' = [log EXCEPT ![u] = {}])
          BY <4>1 DEF DeleteRest, auditVars
        <5> QED
          BY <5>1 DEF ChainInv, EventsInv
      <4>2. CASE ~DeleteRest(r)
        BY <1>2, <2>2, <4>2 DEF Telling, InsertAgent, ReadKeys, ReadBits, Rotate, FindHolder, Register, Refetch, Allocate,
                               Sign, Store, MakeIssuer, auditVars
      <4> QED
        BY <4>1, <4>2
    <3>2. \A s \in Jobs : s # r => Kept(s)
      BY <1>2, TellingKeeps, OnlyKept
    <3>3. req'[r] # None => ~Writes(req'[r])
      BY <1>2, <2>2, WhoPrepares DEF Writes
    <3> QED
      BY <3>1, <3>2, <3>3, LogStays DEF ChainInv
  <2> QED
    BY <2>1, <2>2
<1>3. CASE Tick \/ UNCHANGED vars
  <2>1. UNCHANGED <<req, log, stamps>>
    BY <1>3 DEF Tick, vars, requestVars, auditVars
  <2> QED
    BY <2>1 DEF LogInv
<1>4. ASSUME NEW r \in Jobs, Arrive(r) PROVE LogInv'
  <2>1. Calm(r)
    BY <1>4, ArriveSettles DEF Arrive, Calm, registryVars
  <2> QED
    BY <1>1, <2>1
<1>5. ASSUME NEW r \in Jobs, Step(r) PROVE LogInv'
  BY <1>1, <1>2, <1>5, StepCases
<1> QED
  BY <1>3, <1>4, <1>5 DEF Next

(***************************************************************************)
(* The limits.                                                             *)
(***************************************************************************)

\* Requests that hold a connection.
Busy == {r \in Active : Doing(r) \in OnOwn}

LimitInv == Cardinality(Active) <= MaxAtOnce /\ InUse <= load.pool

LEMMA JobsFinite ==
  ASSUME NEW S, S \subseteq Jobs
  PROVE  /\ IsFiniteSet(S) /\ Cardinality(S) \in Nat
         /\ \A T : T \subseteq S => Cardinality(T) <= Cardinality(S)
         /\ \A x, T : T \subseteq S \cup {x} /\ x \in Jobs => Cardinality(T) <= Cardinality(S) + 1
<1>1. IsFiniteSet(Jobs)
  BY LoadAssumption, FS_Interval DEF Jobs
<1>2. IsFiniteSet(S) /\ Cardinality(S) \in Nat
  BY <1>1, FS_Subset, FS_CardinalityType
<1>3. ASSUME NEW T, T \subseteq S PROVE Cardinality(T) <= Cardinality(S)
  BY <1>2, <1>3, FS_Subset
<1>4. ASSUME NEW x, NEW T, T \subseteq S \cup {x}, x \in Jobs PROVE Cardinality(T) <= Cardinality(S) + 1
  <2>1. PICK U : U = S \cup {x}
    OBVIOUS
  <2>2. IsFiniteSet(U) /\ (Cardinality(U) = Cardinality(S) \/ Cardinality(U) = Cardinality(S) + 1)
    BY <1>2, <2>1, FS_AddElement
  <2>3. T \in SUBSET U
    BY <1>4, <2>1
  <2>4. Cardinality(T) <= Cardinality(U) /\ IsFiniteSet(T)
    BY <2>2, <2>3, FS_Subset
  <2>5. Cardinality(T) \in Nat /\ Cardinality(U) \in Nat
    BY <2>2, <2>4, FS_CardinalityType
  <2> QED
    BY <1>2, <2>2, <2>4, <2>5
<1> QED
  BY <1>2, <1>3, <1>4

LEMMA LimitStep ==
  ASSUME RequestsInv, load \in Loads, KeysInv, AttestInv, CheckInv, FitsInv, CredsTyped, HooksTyped, LimitInv,
         [Next]_vars
  PROVE  LimitInv'
<1>0. /\ Active \subseteq Jobs /\ Busy \subseteq Jobs /\ InUse = Cardinality(Busy) /\ InUse' = Cardinality(Busy')
      /\ MaxAtOnce \in Nat /\ load.pool \in Nat
  BY LoadAssumption DEF Active, Busy, InUse
<1>1. Cardinality(Active) \in Nat /\ InUse \in Nat
  BY <1>0, JobsFinite
<1>2. ASSUME NEW r \in Jobs, Step(r) PROVE LimitInv'
  <2>1. Passes(r) /\ Only(r) /\ req[r] # None
    <3>1. Verifies(r) => req[r].cred \in DOMAIN creds
      BY DEF CheckInv, Checked, About
    <3> QED
      BY <1>2, <3>1, StepPasses, StepKeeps, StepOfActive DEF KeysInv
  <2>2. load' = load
    BY <1>2, SideTouched DEF arrivalVars
  <2>3. Active' \subseteq Active
    BY <2>1 DEF Active, Only
  <2>4. Cardinality(Active') <= Cardinality(Active) /\ Cardinality(Active') \in Nat
    <3>1. Active' \subseteq Jobs
      BY <1>0, <2>3
    <3> QED
      BY <1>0, <2>3, <3>1, JobsFinite
  <2>5. Busy' \subseteq Busy \/ (Busy' \subseteq Busy \cup {r} /\ Free > 0)
    <3>1. \A s \in Jobs : s # r /\ s \in Busy' => s \in Busy
      BY <2>1 DEF Busy, Active, Only, Doing
    <3>2. r \in Busy' => r \in Busy \/ Free > 0
      BY <2>1 DEF Busy, Active, Passes, Doing
    <3>3. Busy' \subseteq Jobs
      BY <1>0, <2>3 DEF Busy
    <3> QED
      BY <3>1, <3>2, <3>3
  <2>6. Cardinality(Busy') <= load.pool
    <3>1. Busy' \subseteq Jobs
      BY <1>0, <2>3 DEF Busy
    <3>2. Cardinality(Busy') \in Nat
      BY <3>1, JobsFinite
    <3>3. CASE Busy' \subseteq Busy
      <4>1. Cardinality(Busy') <= Cardinality(Busy)
        BY <1>0, <3>3, JobsFinite
      <4> QED
        BY <1>0, <1>1, <3>2, <4>1 DEF LimitInv
    <3>4. CASE Busy' \subseteq Busy \cup {r} /\ Free > 0
      <4>1. Cardinality(Busy') <= Cardinality(Busy) + 1
        BY <1>0, <3>4, JobsFinite
      <4>2. load.pool - InUse > 0
        BY <3>4 DEF Free
      <4> QED
        BY <1>0, <1>1, <3>2, <4>1, <4>2
    <3> QED
      BY <2>5, <3>3, <3>4
  <2> QED
    BY <1>0, <1>1, <2>2, <2>4, <2>6 DEF LimitInv
<1>3. ASSUME NEW r \in Jobs, Arrive(r) PROVE LimitInv'
  <2>1. load' = load /\ Cardinality(Active) < MaxAtOnce
    BY <1>3 DEF Arrive
  <2>2. /\ req'[r] # None => Head(req'[r].todo) \notin OnOwn
        /\ \A s \in Jobs : s # r /\ req'[s] # None => req[s] # None /\ req'[s].todo = req[s].todo
    BY <1>3, ArriveFits
  <2>3. Active' \subseteq Active \cup {r} /\ Busy' \subseteq Busy
    BY <2>2 DEF Active, Busy, Doing
  <2>4. Cardinality(Active') <= Cardinality(Active) + 1
    BY <1>0, <2>3, JobsFinite
  <2>5. Cardinality(Busy') <= Cardinality(Busy)
    BY <1>0, <2>3, JobsFinite
  <2>6. Cardinality(Active') \in Nat /\ Cardinality(Busy') \in Nat
    <3>1. Active' \subseteq Jobs /\ Busy' \subseteq Jobs
      BY <1>0, <2>3
    <3> QED
      BY <3>1, JobsFinite
  <2> QED
    BY <1>0, <1>1, <2>1, <2>4, <2>5, <2>6 DEF LimitInv
<1>4. CASE Tick \/ UNCHANGED vars
  <2>1. req' = req /\ load' = load
    BY <1>4 DEF Tick, vars, requestVars, arrivalVars
  <2> QED
    BY <2>1 DEF LimitInv, InUse, Active, Doing
<1> QED
  BY <1>2, <1>3, <1>4 DEF Next

\* The hits that still count are the newest.
LEMMA RecentIs ==
  ASSUME NEW h \in Seq(Nat), NEW time
  PROVE  Recent(h, time) \in Seq(Nat) /\ Len(Recent(h, time)) <= Len(h) /\ Len(Recent(h, time)) \in Nat
<1> DEFINE old == {i \in DOMAIN h : \A j \in 1..i : time - h[j] > Window}
<1>1. PICK n : n = Cardinality(old)
  OBVIOUS
<1>2. Len(h) \in Nat /\ DOMAIN h = 1..Len(h)
  OBVIOUS
<1>3. n \in Nat /\ n <= Len(h)
  <2>1. old \in SUBSET (1..Len(h))
    BY <1>2
  <2> HIDE DEF old
  <2>2. IsFiniteSet(1..Len(h)) /\ Cardinality(1..Len(h)) = IF 1 > Len(h) THEN 0 ELSE Len(h) - 1 + 1
    <3>1. 1 \in Int /\ Len(h) \in Int
      BY <1>2
    <3> QED
      BY <3>1, FS_Interval
  <2>3. IsFiniteSet(old) /\ Cardinality(old) <= Cardinality(1..Len(h))
    BY <2>1, <2>2, FS_Subset
  <2>4. Cardinality(old) \in Nat
    BY <2>3, FS_CardinalityType
  <2>5. Cardinality(1..Len(h)) = Len(h)
    BY <1>2, <2>2
  <2> QED
    BY <1>1, <2>3, <2>4, <2>5
<1>4. Recent(h, time) = SubSeq(h, n + 1, Len(h))
  BY <1>1, Zenon DEF Recent
<1>5. PICK m : m = n + 1
  OBVIOUS
<1>6. m \in 1..Len(h) + 1
  BY <1>2, <1>3, <1>5
<1>7. PICK t : t = SubSeq(h, m, Len(h))
  OBVIOUS
<1>8. t \in Seq(Nat) /\ Len(t) = Len(h) - m + 1
  BY <1>6, <1>7, RestOf
<1>9. Len(t) <= Len(h) /\ Len(t) \in Nat
  BY <1>2, <1>3, <1>5, <1>8
<1>10. Recent(h, time) = t
  BY <1>4, <1>5, <1>7
<1> QED
  BY <1>8, <1>9, <1>10

HitsInv == hits \in Seq(Nat) /\ Len(hits) <= RateLimit

LEMMA HitsStep ==
  ASSUME RowsInv, HitsInv, [Next]_vars
  PROVE  HitsInv'
<1>1. CASE hits' = hits
  BY <1>1 DEF HitsInv
<1>2. CASE hits' = Counted(hits, now)
  <2>1. PICK h : h = Recent(hits, now)
    OBVIOUS
  <2>2. h \in Seq(Nat) /\ Len(h) <= RateLimit /\ Len(h) \in Nat /\ now \in Nat /\ RateLimit \in Nat
    <3>1. h \in Seq(Nat) /\ Len(h) <= Len(hits) /\ Len(h) \in Nat
      BY <2>1, RecentIs DEF HitsInv
    <3>2. Len(hits) \in Nat /\ Len(hits) <= RateLimit
      BY DEF HitsInv
    <3> QED
      BY <3>1, <3>2, AdmissionAssumption DEF RowsInv
  <2>3. CASE OverLimit(hits, now)
    BY <1>2, <2>1, <2>2, <2>3 DEF Counted, HitsInv
  <2>4. CASE ~OverLimit(hits, now)
    <3>1. Len(h) < RateLimit /\ hits' = Append(h, now)
      BY <1>2, <2>1, <2>2, <2>4 DEF OverLimit, Counted
    <3>2. Append(h, now) \in Seq(Nat) /\ Len(Append(h, now)) = Len(h) + 1
      BY <2>2
    <3>3. Len(h) + 1 <= RateLimit
      BY <2>2, <3>1
    <3> QED
      BY <3>1, <3>2, <3>3 DEF HitsInv
  <2> QED
    BY <2>3, <2>4
<1>3. \A r \in Jobs : Arrive(r) => hits' = hits \/ hits' = Counted(hits, now)
  BY DEF Arrive
<1>4. \A r \in Jobs : Step(r) => hits' = hits
  BY SideTouched DEF arrivalVars
<1>5. Tick \/ UNCHANGED vars => hits' = hits
  BY DEF Tick, vars, arrivalVars
<1> QED
  BY <1>1, <1>2, <1>3, <1>4, <1>5 DEF Next

(***************************************************************************)
(* The peer's cache.                                                       *)
(***************************************************************************)

\* A document has one entry at most.
OnceEach(c) == \A i, j \in DOMAIN c : c[i].did = c[j].did => i = j

\* A sequence without its member i.
LEMMA RemovedAt ==
  ASSUME NEW E, NEW c \in Seq(E), NEW i \in 1..Len(c), NEW w, w = RemoveAt(c, i)
  PROVE  /\ w \in Seq(E) /\ Len(w) = Len(c) - 1
         /\ \A j \in 1..Len(w) : \E k \in 1..Len(c) :
              w[j] = c[k] /\ ((j < i /\ k = j) \/ (j >= i /\ k = j + 1))
<1>1. PICK n, h, u : n = Len(c) /\ h = SubSeq(c, 1, i - 1) /\ u = SubSeq(c, i + 1, n)
  OBVIOUS
<1>2. n \in Nat /\ i \in Nat /\ 1 <= i /\ i <= n
  BY <1>1
<1>3. h \in Seq(E) /\ Len(h) = i - 1 /\ \A j \in 1..i - 1 : h[j] = c[j]
  BY <1>1, <1>2
<1>4. u \in Seq(E) /\ Len(u) = n - i /\ \A j \in 1..n - i : u[j] = c[i + j]
  <2>1. PICK m : m = i + 1
    OBVIOUS
  <2>2. m \in 1..Len(c) + 1 /\ u = SubSeq(c, m, Len(c))
    BY <1>1, <1>2, <2>1
  <2>3. u \in Seq(E) /\ Len(u) = Len(c) - m + 1 /\ \A j \in 1..Len(u) : u[j] = c[m + j - 1]
    BY <2>2, RestOf
  <2>4. Len(c) - m + 1 = n - i /\ \A j \in 1..n - i : m + j - 1 = i + j
    BY <1>1, <1>2, <2>1
  <2>5. Len(u) = n - i
    BY <2>3, <2>4
  <2>6. ASSUME NEW j \in 1..n - i PROVE u[j] = c[i + j]
    <3>1. u[j] = c[m + j - 1]
      BY <2>3, <2>5
    <3> QED
      BY <2>4, <3>1
  <2> QED
    BY <2>3, <2>5, <2>6
<1>5. w = h \o u
  BY <1>1 DEF RemoveAt
<1>6. PICK a, b : a = Len(h) /\ b = Len(u)
  OBVIOUS
<1>7. /\ w \in Seq(E) /\ Len(w) = a + b
      /\ \A j \in 1..a : w[j] = h[j]
      /\ \A j \in a + 1..a + b : w[j] = u[j - a]
  <2>1. h \in Seq(E) /\ u \in Seq(E)
    BY <1>3, <1>4
  <2> QED
    BY <1>5, <1>6, <2>1, Concatenated
<1>8. a = i - 1 /\ b = n - i /\ a + b = n - 1
  BY <1>2, <1>3, <1>4, <1>6
<1>9. ASSUME NEW j \in 1..n - 1
      PROVE  \E k \in 1..n : w[j] = c[k] /\ ((j < i /\ k = j) \/ (j >= i /\ k = j + 1))
  <2>1. CASE j < i
    <3>1. j \in 1..a /\ j \in 1..i - 1 /\ j \in 1..n
      BY <1>2, <1>8, <2>1
    <3> QED
      BY <1>3, <1>7, <2>1, <3>1
  <2>2. CASE j >= i
    <3>1. PICK k, l : k = j + 1 /\ l = j - a
      OBVIOUS
    <3>2. j \in a + 1..a + b /\ l \in 1..n - i /\ i + l = k /\ k \in 1..n
      BY <1>2, <1>8, <2>2, <3>1
    <3>3. w[j] = u[l]
      BY <1>7, <3>1, <3>2
    <3>4. u[l] = c[k]
      BY <1>4, <3>2
    <3> QED
      BY <2>2, <3>1, <3>2, <3>3, <3>4
  <2> QED
    BY <1>2, <2>1, <2>2
<1> QED
  BY <1>1, <1>7, <1>8, <1>9

\* Without the entry of a document, and nothing else is gone.
LEMMA WithoutOnce ==
  ASSUME NEW E, NEW c \in Seq(E), OnceEach(c), NEW did, NEW w, w = Without(c, did)
  PROVE  /\ w \in Seq(E) /\ OnceEach(w) /\ \A j \in DOMAIN w : w[j].did # did
         /\ Len(w) \in Nat /\ Len(w) <= Len(c)
         /\ EntriesOf(c, did) # {} => Len(w) + 1 <= Len(c)
<1>1. CASE EntriesOf(c, did) = {}
  <2>1. w = c /\ \A j \in DOMAIN c : c[j].did # did
    BY <1>1 DEF Without, EntriesOf
  <2>2. Len(c) \in Nat
    OBVIOUS
  <2> QED
    BY <1>1, <2>1, <2>2
<1>2. CASE EntriesOf(c, did) # {}
  <2>1. PICK i : i = CHOOSE j \in EntriesOf(c, did) : TRUE
    OBVIOUS
  <2>2. i \in DOMAIN c /\ c[i].did = did
    BY <1>2, <2>1 DEF EntriesOf
  <2>3. DOMAIN c = 1..Len(c) /\ Len(c) \in Nat
    OBVIOUS
  <2>4. i \in 1..Len(c) /\ i \in Nat
    BY <2>2, <2>3
  <2>5. w = RemoveAt(c, i)
    BY <1>2, <2>1 DEF Without
  <2>6. /\ w \in Seq(E) /\ Len(w) = Len(c) - 1
        /\ \A j \in 1..Len(w) : \E k \in 1..Len(c) :
             w[j] = c[k] /\ ((j < i /\ k = j) \/ (j >= i /\ k = j + 1))
    BY <2>4, <2>5, RemovedAt
  <2>7. DOMAIN w = 1..Len(w) /\ Len(w) \in Nat
    BY <2>6
  <2>8. \A j \in DOMAIN w : j \in Nat
    BY <2>7
  <2>9. ASSUME NEW j \in DOMAIN w, NEW l \in DOMAIN w, w[j].did = w[l].did PROVE j = l
    <3>1. PICK k \in DOMAIN c : w[j] = c[k] /\ ((j < i /\ k = j) \/ (j >= i /\ k = j + 1))
      BY <2>3, <2>6, <2>7
    <3>2. PICK m \in DOMAIN c : w[l] = c[m] /\ ((l < i /\ m = l) \/ (l >= i /\ m = l + 1))
      BY <2>3, <2>6, <2>7
    <3>3. k = m
      BY <2>9, <3>1, <3>2 DEF OnceEach
    <3>4. j \in Nat /\ l \in Nat
      BY <2>8
    <3> QED
      BY <2>4, <3>1, <3>2, <3>3, <3>4
  <2>10. ASSUME NEW j \in DOMAIN w PROVE w[j].did # did
    <3>1. PICK k \in DOMAIN c : w[j] = c[k] /\ ((j < i /\ k = j) \/ (j >= i /\ k = j + 1))
      BY <2>3, <2>6, <2>7
    <3>2. k # i
      BY <2>4, <2>8, <3>1
    <3> QED
      BY <2>2, <3>1, <3>2 DEF OnceEach
  <2> QED
    BY <2>3, <2>6, <2>7, <2>9, <2>10 DEF OnceEach
<1> QED
  BY <1>1, <1>2

\* One entry more, of a document that had none.
LEMMA AppendOnce ==
  ASSUME NEW E, NEW c \in Seq(E), OnceEach(c), NEW e \in E, \A j \in DOMAIN c : c[j].did # e.did,
         NEW w, w = Append(c, e)
  PROVE  w \in Seq(E) /\ OnceEach(w) /\ Len(w) = Len(c) + 1
<1>1. w \in Seq(E) /\ Len(w) = Len(c) + 1 /\ w[Len(c) + 1] = e /\ \A j \in DOMAIN c : w[j] = c[j]
  OBVIOUS
<1>2. DOMAIN w = DOMAIN c \cup {Len(c) + 1}
  BY <1>1
<1>3. PICK n : n = Len(c) + 1
  OBVIOUS
<1>4. OnceEach(w)
  <2>1. ASSUME NEW i \in DOMAIN c, NEW j \in DOMAIN c, w[i].did = w[j].did PROVE i = j
    BY <1>1, <2>1 DEF OnceEach
  <2>2. w[n] = e /\ \A i \in DOMAIN c : w[i].did # w[n].did
    BY <1>1, <1>3
  <2>3. \A i \in DOMAIN w : i \in DOMAIN c \/ i = n
    BY <1>2, <1>3
  <2>4. ASSUME NEW i \in DOMAIN w, NEW j \in DOMAIN w, w[i].did = w[j].did PROVE i = j
    <3>1. (i \in DOMAIN c /\ j \in DOMAIN c) \/ (i = n /\ j = n)
      BY <2>2, <2>3, <2>4
    <3> QED
      BY <2>1, <2>4, <3>1
  <2> QED
    BY <2>4 DEF OnceEach
<1> QED
  BY <1>1, <1>4

\* The oldest entry gone.
LEMMA TailOnce ==
  ASSUME NEW E, NEW c \in Seq(E), c # <<>>, OnceEach(c), NEW w, w = Tail(c)
  PROVE  w \in Seq(E) /\ OnceEach(w) /\ Len(w) = Len(c) - 1
<1>1. w \in Seq(E) /\ Len(w) = Len(c) - 1 /\ \A j \in DOMAIN w : j \in Nat /\ w[j] = c[j + 1] /\ j + 1 \in DOMAIN c
  OBVIOUS
<1>2. ASSUME NEW i \in DOMAIN w, NEW j \in DOMAIN w, w[i].did = w[j].did PROVE i = j
  <2>1. PICK k, l : k = i + 1 /\ l = j + 1
    OBVIOUS
  <2>2. k = l
    BY <1>1, <1>2, <2>1 DEF OnceEach
  <2> QED
    BY <1>1, <2>1, <2>2
<1> QED
  BY <1>1, <1>2 DEF OnceEach

CacheInv == Len(cache) <= CacheSize /\ OnceEach(cache)

\* What is read becomes the newest entry; what is written may push out the oldest one.
LEMMA CacheInvStep ==
  ASSUME CheckInv, CacheInv, [Next]_vars
  PROVE  CacheInv'
<1>1. PICK E : E = Entries(keys, now)
  OBVIOUS
<1>2. cache \in Seq(E) /\ OnceEach(cache) /\ Len(cache) \in Nat /\ Len(cache) <= CacheSize /\ CacheSize \in Nat \ {0}
  BY <1>1, CacheAssumption DEF CheckInv, CacheInv
<1>3. ASSUME NEW r, Get(r) PROVE CacheInv'
  <2>1. PICK did, time, c : did = req[r].did /\ time = now /\ c = cache
    OBVIOUS
  <2>2. PICK w : w = Without(c, did)
    OBVIOUS
  <2>3. /\ w \in Seq(E) /\ OnceEach(w) /\ \A j \in DOMAIN w : w[j].did # did
        /\ Len(w) \in Nat /\ Len(w) <= Len(c)
        /\ EntriesOf(c, did) # {} => Len(w) + 1 <= Len(c)
    BY <1>2, <2>1, <2>2, WithoutOnce
  <2>4. cache' = AfterGet(c, did, time)
    BY <1>3, <2>1 DEF Get
  <2>5. CASE Hits(c, did, time) = {}
    <3>1. cache' = w
      BY <2>2, <2>3, <2>4, <2>5 DEF AfterGet
    <3> QED
      BY <1>2, <2>1, <2>3, <3>1 DEF CacheInv
  <2>6. CASE Hits(c, did, time) # {}
    <3>1. PICK e : e = c[CHOOSE i \in Hits(c, did, time) : TRUE]
      OBVIOUS
    <3>2. e \in E /\ e.did = did /\ EntriesOf(c, did) # {}
      <4>1. e = Found(c, did, time)
        BY <3>1 DEF Found
      <4>2. EntriesOf(c, did) # {}
        BY <2>6 DEF Hits
      <4> QED
        BY <1>2, <2>1, <2>6, <4>1, <4>2, FoundIs
    <3>3. cache' = w \o <<e>>
      BY <2>2, <2>4, <2>6, <3>1 DEF AfterGet
    <3>4. cache' = Append(w, e)
      BY <2>3, <3>2, <3>3
    <3>5. OnceEach(cache') /\ Len(cache') = Len(w) + 1
      BY <2>3, <3>2, <3>4, AppendOnce
    <3> QED
      BY <1>2, <2>1, <2>3, <3>2, <3>5 DEF CacheInv
  <2> QED
    BY <2>5, <2>6
<1>4. ASSUME NEW r, Set(r) PROVE CacheInv'
  <2>1. PICK did, doc, e : did = req[r].did /\ doc = req[r].seen /\ e = Entry(did, doc, now)
    OBVIOUS
  <2>2. PICK w, all : w = Without(cache, did) /\ all = Append(w, e)
    OBVIOUS
  <2>3. PICK F : F = E \cup {e}
    OBVIOUS
  <2>4. cache \in Seq(F) /\ e \in F /\ e.did = did
    BY <1>2, <2>1, <2>3 DEF Entry
  <2>5. w \in Seq(F) /\ OnceEach(w) /\ (\A j \in DOMAIN w : w[j].did # did) /\ Len(w) \in Nat /\ Len(w) <= Len(cache)
    BY <1>2, <2>2, <2>4, WithoutOnce
  <2>6. all \in Seq(F) /\ OnceEach(all) /\ Len(all) = Len(w) + 1 /\ all # <<>>
    <3>1. all \in Seq(F) /\ OnceEach(all) /\ Len(all) = Len(w) + 1
      <4>1. \A j \in DOMAIN w : w[j].did # e.did
        BY <2>4, <2>5, Zenon
      <4>2. w \in Seq(F) /\ OnceEach(w) /\ e \in F /\ all = Append(w, e)
        BY <2>2, <2>4, <2>5, Zenon
      <4> QED
        BY <4>1, <4>2, AppendOnce
    <3>2. all # <<>>
      BY <2>2, <2>5
    <3> QED
      BY <3>1, <3>2
  <2>7. cache' = IF Len(all) > CacheSize THEN Tail(all) ELSE all
    BY <1>4, <2>1, <2>2 DEF Set, AfterSet
  <2>8. CASE Len(all) > CacheSize
    <3>1. OnceEach(cache') /\ Len(cache') = Len(all) - 1
      BY <2>6, <2>7, <2>8, TailOnce
    <3> QED
      BY <1>2, <2>5, <2>6, <3>1 DEF CacheInv
  <2>9. CASE ~(Len(all) > CacheSize)
    BY <1>2, <2>5, <2>6, <2>7, <2>9 DEF CacheInv
  <2> QED
    BY <2>8, <2>9
<1>5. ASSUME cache' = <<>> PROVE CacheInv'
  <2>1. Len(cache') = 0 /\ DOMAIN cache' = {}
    BY <1>5
  <2> QED
    BY <1>2, <2>1 DEF CacheInv, OnceEach
<1>6. CASE cache' = cache
  BY <1>6 DEF CacheInv
<1>7. \A r \in Jobs : Step(r) => cache' = cache \/ Get(r) \/ Set(r) \/ Flush(r)
  BY StepConfined
<1>8. \A r : Flush(r) => cache' = <<>>
  BY DEF Flush
<1>9. \A r \in Jobs : Arrive(r) => cache' = cache
  BY DEF Arrive, sideVars
<1>10. Tick \/ UNCHANGED vars => cache' = cache
  BY DEF Tick, vars, sideVars
<1> QED
  BY <1>3, <1>4, <1>5, <1>6, <1>7, <1>8, <1>9, <1>10 DEF Next

(***************************************************************************)
(* Types.                                                                  *)
(***************************************************************************)

\* What is stored has its type.
StoredInv ==
  /\ CredsTyped /\ events \in Seq(TrustEvent)
  /\ delegations \in [Tenants -> Nat] /\ spends \subseteq MandateSpend
  /\ tenants \cup lists \cup forked \cup torn \subseteq Tenants

LEMMA StoredStep ==
  ASSUME RequestsInv, KeysInv, AttestInv, FitsInv, StoredInv, [Next]_vars
  PROVE  StoredInv'
<1>1. ASSUME NEW r \in Jobs, Step(r) PROVE StoredInv'
  <2>1. CredsTyped' /\ events' \in Seq(TrustEvent)
    BY <1>1, CredsTypedStep, EventsStep DEF StoredInv
  <2>2. /\ delegations' \in [Tenants -> Nat] /\ spends' \subseteq MandateSpend
        /\ tenants' \cup lists' \cup forked' \cup torn' \subseteq Tenants
    BY <1>1, SeededStep, PlacesStep DEF StoredInv
  <2> QED
    BY <2>1, <2>2 DEF StoredInv
<1>2. ASSUME UNCHANGED <<registryVars, sideVars, auditVars>> PROVE StoredInv'
  <2>1. UNCHANGED <<creds, events, delegations, spends, tenants, lists, forked, torn>>
    BY <1>2 DEF registryVars, sideVars, seededVars, auditVars
  <2> QED
    BY <2>1 DEF StoredInv, CredsTyped
<1>3. \A r \in Jobs : Arrive(r) => UNCHANGED <<registryVars, sideVars, auditVars>>
  BY DEF Arrive
<1>4. Tick \/ UNCHANGED vars => UNCHANGED <<registryVars, sideVars, auditVars>>
  BY DEF Tick, vars
<1> QED
  BY <1>1, <1>2, <1>3, <1>4 DEF Next

\* A load begins with rows that have their types.
LEMMA InitStored ==
  ASSUME Init
  PROVE  StoredInv
<1> DEFINE x == [issuer |-> 1, subject |-> 1, kid |-> 1, gen |-> 0, tenant |-> HomeTenant, list |-> 0,
                 exp |-> 0, stored |-> TRUE, spiffe |-> None, depth |-> 0, by |-> 0]
<1>1. 1 \in Agents /\ HomeTenant \in Tenants
  BY BackendAssumption
<1>2. x \in Cred
  BY <1>1 DEF Cred
<1>3. creds = [c \in {1} |-> x]
  BY DEF Init
<1> HIDE DEF x
<1>4. CredsTyped
  BY <1>2, <1>3 DEF CredsTyped
<1>5. /\ tenants = {HomeTenant} /\ lists = {HomeTenant} /\ forked = {} /\ torn = {}
      /\ delegations = [t \in Tenants |-> 0] /\ spends = {}
  BY DEF Init
<1>6. events \in Seq(TrustEvent)
  <2>1. events = <<>>
    BY DEF Init
  <2> QED
    BY <2>1
<1> QED
  BY <1>1, <1>4, <1>5, <1>6 DEF StoredInv

\* ... no request, no event, and no more documents in the cache than it holds.
LEMMA InitIdle ==
  ASSUME Init
  PROVE  FitsInv /\ HooksInv /\ BitsInv /\ LogInv /\ LimitInv /\ HitsInv
<1>1. /\ \A r \in Jobs : req[r] = None
      /\ out = [r \in Jobs |-> None] /\ hooks = [h \in Hooks |-> None]
      /\ log = [t \in Tenants |-> {}] /\ hits = <<>> /\ load \in Loads /\ revoked = {} /\ struck = {}
  BY DEF Init
<1>2. FitsInv /\ HooksInv /\ BitsInv /\ LogInv
  BY <1>1 DEF FitsInv, HooksInv, HooksTyped, BitsInv, LogInv
<1>3. LimitInv
  <2>1. Active = {} /\ {r \in Active : Doing(r) \in OnOwn} = {}
    BY <1>1 DEF Active
  <2>2. Cardinality(Active) = 0 /\ InUse = 0
    BY <2>1, FS_EmptySet DEF InUse
  <2>3. MaxAtOnce \in Nat /\ load.pool \in Nat
    BY <1>1, LoadAssumption
  <2> QED
    BY <2>2, <2>3 DEF LimitInv
<1>4. HitsInv
  BY <1>1, AdmissionAssumption DEF HitsInv
<1> QED
  BY <1>2, <1>3, <1>4

LEMMA InitCached ==
  ASSUME Init
  PROVE  CacheInv
<1>1. CacheSize \in Nat \ {0} /\ StatusIssuer # 1 /\ (load.settled => CacheSize > 1)
  <2>1. load \in Loads
    BY DEF Init
  <2> QED
    BY <2>1, CacheAssumption, LoadAssumption
<1>2. CASE ~load.settled
  <2>1. cache = <<>>
    BY <1>2 DEF Init
  <2>2. Len(cache) = 0 /\ DOMAIN cache = {}
    BY <2>1
  <2> QED
    BY <1>1, <2>2 DEF CacheInv, OnceEach
<1>3. CASE load.settled
  <2>1. PICK e, f : e = Entry(StatusIssuer, Document(StatusIssuer), 0) /\ f = Entry(1, Document(1), 0)
    OBVIOUS
  <2>2. e.did = StatusIssuer /\ f.did = 1
    BY <2>1 DEF Entry
  <2>3. cache = <<e, f>>
    BY <1>3, <2>1 DEF Init
  <2>4. Len(cache) = 2 /\ DOMAIN cache = {1, 2} /\ cache[1] = e /\ cache[2] = f
    BY <2>3
  <2>5. OnceEach(cache)
    BY <1>1, <2>2, <2>4 DEF OnceEach
  <2> QED
    BY <1>1, <1>3, <2>4, <2>5 DEF CacheInv
<1> QED
  BY <1>2, <1>3

\* In whatever order requests arrive and their steps are taken, what the routes store has
\* its type, no more connections are out than the pool has, no more requests are under way
\* than the server takes at once, no more mutating requests were let through in a minute
\* than the limit says, and the resolver's cache keeps within its size with one entry for
\* a document.
THEOREM TypesHold == Spec => []TypeOK
<1> DEFINE Rest == StoredInv /\ BitsInv /\ HooksInv /\ LogInv /\ LimitInv /\ HitsInv /\ CacheInv
           Inv == /\ RequestsInv /\ load \in Loads /\ KeysInv /\ AttestInv /\ CheckInv /\ ChainInv /\ FitsInv
                  /\ Rest
<1>1. Init => Inv
  BY InitRows, InitAttests, InitChecks, InitChains, InitStored, InitIdle, InitCached
<1>2. Inv /\ [Next]_vars => Inv'
  <2> SUFFICES ASSUME Inv, [Next]_vars PROVE Inv'
    OBVIOUS
  <2>1. HooksTyped /\ CredsTyped /\ RowsInv
    BY DEF HooksInv, StoredInv, KeysInv
  <2>2. RequestsInv' /\ (load \in Loads)' /\ KeysInv' /\ AttestInv' /\ CheckInv' /\ ChainInv' /\ FitsInv'
    BY <2>1, RequestsStep, KeysStep, AttestStep, CheckStep, ChainsStep, FitsStep
  <2>3. StoredInv' /\ BitsInv' /\ HooksInv' /\ LogInv' /\ LimitInv' /\ HitsInv' /\ CacheInv'
    BY <2>1, StoredStep, BitsStep, HooksStep, LogStep, LimitStep, HitsStep, CacheInvStep
  <2> QED
    BY <2>2, <2>3
<1>3. Inv => TypeOK
  <2> SUFFICES ASSUME Inv PROVE TypeOK
    OBVIOUS
  <2>1. /\ agents \in [Agents -> Agent \cup {None}] /\ resets \in [Tenants -> Nat]
        /\ \A a \in Agents : keys[a] \in Seq([active : BOOLEAN, at : Nat, gen : Nat])
    BY DEF KeysInv, RowsInv, KeyRecord
  <2>2. DOMAIN creds \subseteq Creds /\ creds \in [DOMAIN creds -> Cred]
    BY DEF AttestInv, CredsInv, StoredInv, CredsTyped
  <2>3. Len(Recent(hits, now)) <= RateLimit
    <3>1. Len(Recent(hits, now)) <= Len(hits) /\ Len(Recent(hits, now)) \in Nat /\ Len(hits) \in Nat
      BY RecentIs DEF HitsInv
    <3> QED
      BY <3>1, AdmissionAssumption DEF HitsInv
  <2>4. hooks \in [Hooks -> Webhook \cup {None}] /\ out \in [Jobs -> Codes \cup {None}]
    BY DEF HooksInv, HooksTyped, FitsInv
  <2> QED
    BY <2>1, <2>2, <2>3, <2>4 DEF TypeOK, StoredInv, BitsInv, LogInv, LimitInv, CacheInv, OnceEach
<1> QED
  BY <1>1, <1>2, <1>3, PTL DEF Spec
=============================================================================
