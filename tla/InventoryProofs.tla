--------------------------- MODULE InventoryProofs ---------------------------
(***************************************************************************)
(* Proofs about the observing half of the adapter, for any windows, faces  *)
(* and mix of the two ways of draining: the queue of events brings the     *)
(* workspace to the last inventory, what one refresh does is the closed    *)
(* form Absorb, and windows that stay keep their order.                    *)
(***************************************************************************)
EXTENDS Inventory, WorkspaceLemmas

Events == [type : {"upsert"}, id : Views, face : Faces] \cup [type : {"remove"}, id : Views]

\* Every window has one place.
Once(ws) == \A i, j \in DOMAIN ws : ws[i].id = ws[j].id => i = j

\* Window u comes before window v.
Ahead(ws, u, v) == \E i, j \in DOMAIN ws : i < j /\ ws[i].id = u /\ ws[j].id = v

-----------------------------------------------------------------------------
(* Order. *)

\* Two windows of a workspace come one before the other, and not both.
LEMMA AheadIsOrder ==
  ASSUME NEW ws \in Seq(Toplevels), Once(ws)
  PROVE  /\ \A u, v : Ahead(ws, u, v) => u \in Ids(ws) /\ v \in Ids(ws) /\ u # v
         /\ \A u, v : ~(Ahead(ws, u, v) /\ Ahead(ws, v, u))
         /\ \A u, v \in Ids(ws) : u # v => Ahead(ws, u, v) \/ Ahead(ws, v, u)
<1>1. \A i \in DOMAIN ws : i \in Nat
  OBVIOUS
<1>2. ASSUME NEW u, NEW v, Ahead(ws, u, v) PROVE u \in Ids(ws) /\ v \in Ids(ws) /\ u # v
  BY <1>1, <1>2 DEF Ahead, Ids, Once
<1>3. ASSUME NEW u, NEW v, Ahead(ws, u, v), Ahead(ws, v, u) PROVE FALSE
  <2>1. PICK i \in DOMAIN ws, j \in DOMAIN ws : i < j /\ ws[i].id = u /\ ws[j].id = v
    BY <1>3 DEF Ahead
  <2>2. PICK k \in DOMAIN ws, l \in DOMAIN ws : k < l /\ ws[k].id = v /\ ws[l].id = u
    BY <1>3 DEF Ahead
  <2>3. i = l /\ j = k
    BY <2>1, <2>2 DEF Once
  <2> QED BY <1>1, <2>1, <2>2, <2>3
<1>4. ASSUME NEW u \in Ids(ws), NEW v \in Ids(ws), u # v PROVE Ahead(ws, u, v) \/ Ahead(ws, v, u)
  <2>1. PICK i \in DOMAIN ws : ws[i].id = u
    BY DEF Ids
  <2>2. PICK j \in DOMAIN ws : ws[j].id = v
    BY DEF Ids
  <2>3. i < j \/ j < i
    BY <1>1, <1>4, <2>1, <2>2
  <2> QED BY <2>1, <2>2, <2>3 DEF Ahead
<1> QED BY <1>2, <1>3, <1>4

\* A workspace has as many places as windows.
LEMMA OnceCounts ==
  ASSUME NEW s \in Seq(Toplevels), Once(s)
  PROVE  Len(s) = Cardinality(Ids(s))
<1> DEFINE ids == [k \in 1..Len(s) |-> s[k].id]
<1>1. Len(s) \in Nat /\ DOMAIN s = 1..Len(s) /\ \A k \in DOMAIN s : s[k] \in Toplevels
  OBVIOUS
<1>2. ids \in [1..Len(s) -> Views]
  BY <1>1 DEF Toplevels
<1>3. ids \in Seq(Views) /\ Len(ids) = Len(s) /\ DOMAIN ids = 1..Len(s)
  BY <1>1, <1>2
<1>4. \A k \in 1..Len(s) : ids[k] = s[k].id
  OBVIOUS
<1> HIDE DEF ids
<1>5. \A j, k \in DOMAIN ids : ids[j] = ids[k] => j = k
  BY <1>1, <1>3, <1>4 DEF Once
<1>6. /\ \A k \in DOMAIN ids : ids[k] \in Ids(s)
      /\ \A v \in Ids(s) : \E k \in DOMAIN ids : ids[k] = v
  BY <1>1, <1>3, <1>4 DEF Ids
<1>7. Cardinality(Ids(s)) = Len(ids)
  BY <1>3, <1>5, <1>6, ListCount
<1> QED BY <1>3, <1>7

\* Two workspaces with the same windows in no conflicting order are the same.
LEMMA SameOrderSameList ==
  ASSUME NEW r \in Seq(Toplevels), NEW q \in Seq(Toplevels), Once(r), Once(q), Ids(r) = Ids(q),
         \A i \in DOMAIN r, j \in DOMAIN q : r[i].id = q[j].id => r[i] = q[j],
         \A u, v : ~(Ahead(r, u, v) /\ Ahead(q, v, u))
  PROVE  r = q
<1>1. /\ Len(r) \in Nat /\ DOMAIN r = 1..Len(r) /\ r = [k \in 1..Len(r) |-> r[k]]
      /\ Len(q) \in Nat /\ DOMAIN q = 1..Len(q) /\ q = [k \in 1..Len(q) |-> q[k]]
  OBVIOUS
<1>2. Cardinality(Ids(r)) = Len(r) /\ Cardinality(Ids(q)) = Len(q)
  BY OnceCounts
<1>3. Len(r) = Len(q)
  BY <1>2
<1> DEFINE D == {k \in 1..Len(r) : r[k].id # q[k].id}
<1>4. ASSUME D # {} PROVE FALSE
  <2>1. D \in SUBSET Nat
    OBVIOUS
  <2>2. PICK k \in D : \A j \in D : k <= j
    <3> HIDE DEF D
    <3> QED BY <1>4, <2>1, LeastElement
  <2>3. k \in DOMAIN r /\ k \in DOMAIN q /\ r[k].id # q[k].id
    BY <1>1, <1>3, <2>2
  <2>4. \A j \in 1..Len(r) : j < k => r[j].id = q[j].id
    BY <1>1, <2>2
  <2>5. PICK j \in DOMAIN q : q[j].id = r[k].id
    BY <2>3 DEF Ids
  <2>6. k < j
    BY <1>1, <1>3, <2>3, <2>4, <2>5 DEF Once
  <2>7. PICK i \in DOMAIN r : r[i].id = q[k].id
    BY <2>3 DEF Ids
  <2>8. k < i
    BY <1>1, <1>3, <2>3, <2>4, <2>7 DEF Once
  <2>9. Ahead(r, r[k].id, q[k].id) /\ Ahead(q, q[k].id, r[k].id)
    BY <2>3, <2>5, <2>6, <2>7, <2>8 DEF Ahead
  <2> QED BY <2>9
<1>5. \A k \in 1..Len(r) : r[k] = q[k]
  BY <1>1, <1>3, <1>4
<1> QED BY <1>1, <1>3, <1>5

-----------------------------------------------------------------------------
(* One event. *)

\* An inserted or updated window has the face of the event, everything else
\* stays, and only a new window comes to the end.
LEMMA UpsertFacts ==
  ASSUME NEW ws \in Seq(Toplevels), Once(ws), NEW v \in Views, NEW face \in Faces,
         NEW r, r = apply(ws, Upsert(v, face))
  PROVE  /\ r \in Seq(Toplevels) /\ Once(r) /\ Ids(r) = Ids(ws) \cup {v}
         /\ \A i \in DOMAIN r : \/ r[i].id = v /\ r[i].face = face
                                \/ r[i].id # v /\ \E j \in DOMAIN ws : ws[j] = r[i]
         /\ \A x, y : Ahead(r, x, y) =>
              Ahead(ws, x, y) \/ (x \in Ids(ws) /\ y \notin Ids(ws) /\ y = v)
<1> DEFINE t == [id |-> v, face |-> face]
<1>1. t \in Toplevels /\ t.id = v /\ t.face = face
  BY DEF Toplevels
<1>2. /\ Len(ws) \in Nat /\ DOMAIN ws = 1..Len(ws)
      /\ \A i \in DOMAIN ws : ws[i] \in Toplevels
  OBVIOUS
<1>3. r = upsert(ws, t)
  BY DEF apply, Upsert
<1> HIDE DEF t
<1>4. CASE v \in Ids(ws)
  <2>1. r = [i \in DOMAIN ws |-> IF ws[i].id = v THEN t ELSE ws[i]]
    BY <1>1, <1>3, <1>4 DEF upsert
  <2>2. r \in [1..Len(ws) -> Toplevels]
    BY <1>1, <1>2, <2>1
  <2>3. r \in Seq(Toplevels) /\ DOMAIN r = DOMAIN ws
    BY <1>2, <2>2
  <2>4. \A i \in DOMAIN ws : r[i].id = ws[i].id /\ (r[i] = ws[i] \/ (ws[i].id = v /\ r[i] = t))
    BY <1>1, <2>1
  <2>5. Once(r) /\ Ids(r) = Ids(ws)
    BY <2>3, <2>4 DEF Once, Ids
  <2>6. \A i \in DOMAIN r : \/ r[i].id = v /\ r[i].face = face
                            \/ r[i].id # v /\ \E j \in DOMAIN ws : ws[j] = r[i]
    BY <1>1, <2>1, <2>3
  <2>7. \A x, y : Ahead(r, x, y) => Ahead(ws, x, y)
    BY <2>3, <2>4 DEF Ahead
  <2> QED BY <1>4, <2>3, <2>5, <2>6, <2>7
<1>5. CASE v \notin Ids(ws)
  <2>1. r = Append(ws, t)
    BY <1>1, <1>3, <1>5 DEF upsert
  <2>2. /\ r \in Seq(Toplevels) /\ DOMAIN r = 1..(Len(ws) + 1)
        /\ \A i \in DOMAIN ws : r[i] = ws[i]
        /\ r[Len(ws) + 1] = t
    BY <1>1, <1>2, <2>1
  <2>3. \A i \in DOMAIN r : i \in DOMAIN ws \/ i = Len(ws) + 1
    BY <1>2, <2>2
  <2>4. \A i \in DOMAIN ws : i \in DOMAIN r /\ ws[i].id \in Ids(ws) /\ ws[i].id # v
    BY <1>2, <1>5, <2>2 DEF Ids
  <2>5. Len(ws) + 1 \in DOMAIN r
    BY <1>2, <2>2
  <2>6. Once(r)
    BY <1>1, <2>2, <2>3, <2>4 DEF Once
  <2>7. Ids(r) = Ids(ws) \cup {v}
    <3>1. \A x : x \in Ids(r) <=> x \in Ids(ws) \/ x = v
      BY <1>1, <2>2, <2>3, <2>4, <2>5 DEF Ids
    <3> QED BY <3>1
  <2>8. \A i \in DOMAIN r : \/ r[i].id = v /\ r[i].face = face
                            \/ r[i].id # v /\ \E j \in DOMAIN ws : ws[j] = r[i]
    BY <1>1, <2>2, <2>3, <2>4
  <2>9. ASSUME NEW x, NEW y, Ahead(r, x, y)
        PROVE  Ahead(ws, x, y) \/ (x \in Ids(ws) /\ y \notin Ids(ws) /\ y = v)
    <3>1. PICK i \in DOMAIN r, j \in DOMAIN r : i < j /\ r[i].id = x /\ r[j].id = y
      BY <2>9 DEF Ahead
    <3>2. i \in DOMAIN ws
      BY <1>2, <2>2, <3>1
    <3>3. CASE j \in DOMAIN ws
      BY <2>2, <3>1, <3>2, <3>3 DEF Ahead
    <3>4. CASE j = Len(ws) + 1
      BY <1>1, <1>5, <2>2, <2>4, <3>1, <3>2, <3>4
    <3> QED BY <2>3, <3>3, <3>4
  <2> QED BY <2>2, <2>6, <2>7, <2>8, <2>9
<1> QED BY <1>4, <1>5

\* A removed window leaves the others as they are and in their order.
LEMMA RemovalFacts ==
  ASSUME NEW ws \in Seq(Toplevels), Once(ws), NEW v \in Views, NEW r, r = apply(ws, Removal(v))
  PROVE  /\ r \in Seq(Toplevels) /\ Once(r) /\ Ids(r) = Ids(ws) \ {v}
         /\ \A i \in DOMAIN r : \E j \in DOMAIN ws : ws[j] = r[i]
         /\ \A x, y : Ahead(r, x, y) => Ahead(ws, x, y)
<1> DEFINE P == {i \in DOMAIN ws : ws[i].id # v}
<1>1. r = InOrder(ws, P)
  BY DEF apply, Removal
<1>2. /\ Len(ws) \in Nat /\ DOMAIN ws = 1..Len(ws) /\ P \in SUBSET DOMAIN ws
      /\ P \in SUBSET (0..Len(ws))
  OBVIOUS
<1>3. \A i : i \in P <=> i \in DOMAIN ws /\ ws[i].id # v
  OBVIOUS
<1> HIDE DEF P
<1> DEFINE n == Cardinality(P)
<1>4. /\ r \in Seq(Toplevels) /\ Len(r) = n /\ n \in Nat
      /\ \A k \in 1..n : Kth(P, k) \in P /\ r[k] = ws[Kth(P, k)]
      /\ \A j, k \in 1..n : Kth(P, j) = Kth(P, k) => j = k
      /\ \A i \in P : \E k \in 1..n : Kth(P, k) = i
  BY <1>1, <1>2, InOrderIsSubsequence
<1>5. \A j, k \in 1..n : Kth(P, j) < Kth(P, k) => j < k
  BY <1>2, KthMonotone
<1> HIDE DEF n
<1>6. DOMAIN r = 1..n
  BY <1>4
<1>7. Once(r)
  <2> SUFFICES ASSUME NEW j \in 1..n, NEW k \in 1..n, r[j].id = r[k].id PROVE j = k
    BY <1>6 DEF Once
  <2>1. Kth(P, j) = Kth(P, k)
    BY <1>3, <1>4 DEF Once
  <2> QED BY <1>4, <2>1
<1>8. Ids(r) = Ids(ws) \ {v}
  <2>1. ASSUME NEW x \in Ids(r) PROVE x \in Ids(ws) /\ x # v
    BY <1>3, <1>4, <1>6 DEF Ids
  <2>2. ASSUME NEW x \in Ids(ws), x # v PROVE x \in Ids(r)
    <3>1. PICK i \in DOMAIN ws : ws[i].id = x
      BY DEF Ids
    <3>2. PICK k \in 1..n : Kth(P, k) = i
      BY <1>3, <1>4, <2>2, <3>1
    <3>3. r[k].id = x
      BY <1>4, <3>1, <3>2
    <3> QED BY <1>6, <3>3 DEF Ids
  <2> QED BY <2>1, <2>2
<1>9. \A i \in DOMAIN r : \E j \in DOMAIN ws : ws[j] = r[i]
  BY <1>3, <1>4, <1>6
<1>10. ASSUME NEW x, NEW y, Ahead(r, x, y) PROVE Ahead(ws, x, y)
  <2>1. PICK j \in 1..n, k \in 1..n : j < k /\ r[j].id = x /\ r[k].id = y
    BY <1>6, <1>10 DEF Ahead
  <2> DEFINE p == Kth(P, j)
             q == Kth(P, k)
  <2>2. p \in DOMAIN ws /\ q \in DOMAIN ws /\ ws[p].id = x /\ ws[q].id = y
    BY <1>3, <1>4, <2>1
  <2>3. ~(q < p) /\ (p = q => j = k)
    BY <1>4, <1>5, <2>1
  <2> HIDE DEF p, q
  <2>4. p < q
    BY <1>2, <2>1, <2>2, <2>3
  <2> QED BY <2>2, <2>4 DEF Ahead
<1> QED BY <1>4, <1>7, <1>8, <1>9, <1>10

-----------------------------------------------------------------------------
(* A queue of events.  drain is defined by recursion over the queue; what   *)
(* follows shows that the recursion has a solution and only one.           *)

\* Counting up to n, in terms of the set of numbers that have been reached.
LEMMA UpInduction ==
  ASSUME NEW n \in Nat, NEW S, 0 \in S, \A k \in 0..n : k \in S /\ k < n => k + 1 \in S
  PROVE  \A k \in 0..n : k \in S
<1> DEFINE T == {k \in 0..n : k \notin S}
<1>1. ASSUME T # {} PROVE FALSE
  <2>1. T \in SUBSET Nat
    OBVIOUS
  <2>2. PICK k \in T : \A j \in T : k <= j
    <3> HIDE DEF T
    <3> QED BY <1>1, <2>1, LeastElement
  <2>3. k \in 0..n /\ k \notin S /\ k # 0
    BY <2>2
  <2>4. k - 1 \in 0..n /\ k - 1 < n /\ (k - 1) + 1 = k /\ ~(k <= k - 1)
    BY <2>3
  <2>5. k - 1 \in S
    BY <2>2, <2>4
  <2> QED BY <2>3, <2>4, <2>5
<1> QED BY <1>1

\* The workspaces between the events of a queue.
Step(run, ws, queue, k) == IF k = 0 THEN ws ELSE apply(run[k - 1], queue[k])
IsRun(run, ws, queue) ==
  run[0] = ws /\ \A k \in 1..Len(queue) : run[k] = apply(run[k - 1], queue[k])

\* The recursion can be carried on by one more event.
LEMMA RunExtends ==
  ASSUME NEW ws, NEW queue, NEW n \in Nat, NEW g, g = [k \in 0..n |-> Step(g, ws, queue, k)]
  PROVE  \E h : h = [k \in 0..(n + 1) |-> Step(h, ws, queue, k)]
<1> DEFINE h == [k \in 0..(n + 1) |-> IF k <= n THEN g[k] ELSE apply(g[n], queue[n + 1])]
           h2 == [k \in 0..(n + 1) |-> Step(h, ws, queue, k)]
<1>1. \A k \in 0..n : g[k] = Step(g, ws, queue, k)
  BY Zenon
<1>2. ASSUME NEW k \in 0..(n + 1) PROVE h[k] = Step(h, ws, queue, k)
  <2>1. CASE k <= n
    <3>1. k \in 0..n /\ h[k] = g[k] /\ (k # 0 => h[k - 1] = g[k - 1])
      BY <2>1
    <3> QED BY <1>1, <3>1 DEF Step
  <2>2. CASE k = n + 1
    <3>1. h[k] = apply(g[n], queue[k]) /\ h[k - 1] = g[n] /\ k # 0
      BY <2>2
    <3> QED BY <3>1 DEF Step
  <2> QED BY <2>1, <2>2
<1>3. h = [k \in 0..(n + 1) |-> h[k]] /\ h2 = [k \in 0..(n + 1) |-> h2[k]]
  OBVIOUS
<1>4. \A k \in 0..(n + 1) : h2[k] = Step(h, ws, queue, k)
  BY Zenon
<1> HIDE DEF h, h2
<1>5. h = h2
  BY <1>2, <1>3, <1>4
<1> QED BY <1>5 DEF h2

\* drain is the last workspace of a run.
LEMMA DrainRuns ==
  ASSUME NEW ws, NEW queue, Len(queue) \in Nat
  PROVE  \E run : IsRun(run, ws, queue) /\ drain(ws, queue) = run[Len(queue)]
<1> DEFINE Solved == {n \in Nat : \E g : g = [k \in 0..n |-> Step(g, ws, queue, k)]}
           run == CHOOSE g : g = [k \in 0..Len(queue) |-> Step(g, ws, queue, k)]
<1>1. 0 \in Solved
  <2> DEFINE g == [k \in 0..0 |-> ws]
             g2 == [k \in 0..0 |-> Step(g, ws, queue, k)]
  <2>1. g = [k \in 0..0 |-> g[k]] /\ g2 = [k \in 0..0 |-> g2[k]]
    OBVIOUS
  <2>2. \A k \in 0..0 : g[k] = ws /\ g2[k] = Step(g, ws, queue, k) /\ k = 0
    OBVIOUS
  <2> HIDE DEF g, g2
  <2>3. g = g2
    BY <2>1, <2>2 DEF Step
  <2> QED BY <2>3 DEF g2
<1>2. \A n \in 0..Len(queue) : n \in Solved /\ n < Len(queue) => n + 1 \in Solved
  BY RunExtends
<1>3. Len(queue) \in Solved
  <2>1. \A k \in 0..Len(queue) : k \in Solved
    <3> HIDE DEF Solved
    <3> QED BY <1>1, <1>2, UpInduction
  <2>2. Len(queue) \in 0..Len(queue)
    OBVIOUS
  <2> HIDE DEF Solved
  <2> QED BY <2>1, <2>2
<1>4. run = [k \in 0..Len(queue) |-> Step(run, ws, queue, k)]
  BY <1>3
<1>5. drain(ws, queue) = run[Len(queue)]
  BY DEF drain, Step
<1> HIDE DEF run
<1>6. \A k \in 0..Len(queue) : run[k] = Step(run, ws, queue, k)
  BY <1>4, Zenon
<1>7. IsRun(run, ws, queue)
  BY <1>6 DEF IsRun, Step
<1> QED BY <1>5, <1>7

\* And any run ends with it.
LEMMA RunsAgree ==
  ASSUME NEW ws, NEW queue, Len(queue) \in Nat, NEW run, IsRun(run, ws, queue)
  PROVE  run[Len(queue)] = drain(ws, queue)
<1>1. PICK g : IsRun(g, ws, queue) /\ drain(ws, queue) = g[Len(queue)]
  BY DrainRuns
<1> DEFINE Same == {k \in 0..Len(queue) : run[k] = g[k]}
<1>2. 0 \in Same
  BY <1>1 DEF IsRun
<1>3. ASSUME NEW k \in 0..Len(queue), k \in Same, k < Len(queue) PROVE k + 1 \in Same
  <2>1. k + 1 \in 1..Len(queue) /\ k + 1 \in 0..Len(queue) /\ (k + 1) - 1 = k
    BY <1>3
  <2> QED BY <1>1, <1>3, <2>1 DEF IsRun
<1>4. \A k \in 0..Len(queue) : k \in Same
  <2> HIDE DEF Same
  <2> QED BY <1>2, <1>3, UpInduction
<1> QED BY <1>1, <1>4

\* A queue may be drained in two parts.
LEMMA DrainConcat ==
  ASSUME NEW ws, NEW p \in Seq(Events), NEW q \in Seq(Events)
  PROVE  drain(ws, p \o q) = drain(drain(ws, p), q)
<1> DEFINE pq == p \o q
<1>1. /\ Len(p) \in Nat /\ Len(q) \in Nat /\ Len(pq) = Len(p) + Len(q)
      /\ \A k \in 1..Len(p) : k \in 1..Len(pq) /\ pq[k] = p[k]
      /\ \A k \in 1..Len(q) : Len(p) + k \in 1..Len(pq) /\ pq[Len(p) + k] = q[k]
  OBVIOUS
<1> HIDE DEF pq
<1>2. PICK run : IsRun(run, ws, pq) /\ drain(ws, pq) = run[Len(pq)]
  <2>1. Len(pq) \in Nat
    BY <1>1
  <2> QED BY <2>1, DrainRuns
<1>3. IsRun(run, ws, p)
  BY <1>1, <1>2 DEF IsRun
<1>4. run[Len(p)] = drain(ws, p)
  BY <1>1, <1>3, RunsAgree
<1> DEFINE rest == [k \in 0..Len(q) |-> run[Len(p) + k]]
<1>5. \A k \in 0..Len(q) : rest[k] = run[Len(p) + k]
  OBVIOUS
<1> HIDE DEF rest
<1>6. IsRun(rest, drain(ws, p), q)
  <2>1. rest[0] = drain(ws, p)
    BY <1>1, <1>4, <1>5
  <2>2. ASSUME NEW k \in 1..Len(q) PROVE rest[k] = apply(rest[k - 1], q[k])
    <3>1. /\ k \in 0..Len(q) /\ k - 1 \in 0..Len(q) /\ Len(p) + (k - 1) = (Len(p) + k) - 1
          /\ Len(p) + k \in 1..Len(pq) /\ pq[Len(p) + k] = q[k]
      BY <1>1
    <3>2. run[Len(p) + k] = apply(run[(Len(p) + k) - 1], pq[Len(p) + k])
      BY <1>2, <3>1 DEF IsRun
    <3> QED BY <1>5, <3>1, <3>2
  <2> QED BY <2>1, <2>2 DEF IsRun
<1>7. rest[Len(q)] = drain(drain(ws, p), q)
  BY <1>1, <1>6, RunsAgree
<1>8. rest[Len(q)] = run[Len(pq)]
  BY <1>1, <1>5
<1> QED BY <1>2, <1>7, <1>8 DEF pq

\* An empty queue does nothing, a queue of one event applies it.
LEMMA DrainFew ==
  ASSUME NEW ws, NEW e \in Events
  PROVE  drain(ws, << >>) = ws /\ drain(ws, <<e>>) = apply(ws, e)
<1>1. Len(<< >>) = 0 /\ Len(<<e>>) = 1 /\ <<e>>[1] = e
  OBVIOUS
<1>2. PICK run : IsRun(run, ws, << >>) /\ drain(ws, << >>) = run[0]
  BY <1>1, DrainRuns
<1>3. PICK g : IsRun(g, ws, <<e>>) /\ drain(ws, <<e>>) = g[1]
  BY <1>1, DrainRuns
<1> QED BY <1>1, <1>2, <1>3 DEF IsRun

-----------------------------------------------------------------------------
(* One refresh. *)

\* The order that a refresh of ws may leave: old windows as they were, new
\* ones behind them by id.
Precedes(ws, u, v) ==
  \/ Ahead(ws, u, v)
  \/ u \in Ids(ws) /\ v \notin Ids(ws)
  \/ u \notin Ids(ws) /\ v \notin Ids(ws) /\ u < v

\* r is ws after the upserts of the windows U.
Updated(r, ws, current, U) ==
  /\ r \in Seq(Toplevels) /\ Once(r) /\ Ids(r) = Ids(ws) \cup U
  /\ \A i \in DOMAIN r : \/ r[i].id \in U /\ r[i].face = current[r[i].id]
                         \/ r[i].id \notin U /\ \E j \in DOMAIN ws : ws[j] = r[i]
  /\ \A u, v : Ahead(r, u, v) => Precedes(ws, u, v)

\* r is ws after the removals of the windows U.
Reduced(r, ws, U) ==
  /\ r \in Seq(Toplevels) /\ Once(r) /\ Ids(r) = Ids(ws) \ U
  /\ \A i \in DOMAIN r : \E j \in DOMAIN ws : ws[j] = r[i]
  /\ \A u, v : Ahead(r, u, v) => Ahead(ws, u, v)

\* One more upsert, of a window behind those already updated.
LEMMA UpsertStep ==
  ASSUME NEW ws \in Seq(Toplevels), NEW current, NEW U, NEW r, Updated(r, ws, current, U),
         NEW v \in Views, v \notin U, \A u \in U : u < v, current[v] \in Faces,
         NEW next, next = apply(r, Upsert(v, current[v]))
  PROVE  Updated(next, ws, current, U \cup {v})
<1>1. /\ r \in Seq(Toplevels) /\ Once(r) /\ Ids(r) = Ids(ws) \cup U
      /\ \A i \in DOMAIN r : \/ r[i].id \in U /\ r[i].face = current[r[i].id]
                             \/ r[i].id \notin U /\ \E j \in DOMAIN ws : ws[j] = r[i]
      /\ \A x, y : Ahead(r, x, y) => Precedes(ws, x, y)
  BY DEF Updated
<1>2. /\ next \in Seq(Toplevels) /\ Once(next) /\ Ids(next) = Ids(r) \cup {v}
      /\ \A i \in DOMAIN next : \/ next[i].id = v /\ next[i].face = current[v]
                                \/ next[i].id # v /\ \E j \in DOMAIN r : r[j] = next[i]
      /\ \A x, y : Ahead(next, x, y) =>
           Ahead(r, x, y) \/ (x \in Ids(r) /\ y \notin Ids(r) /\ y = v)
  BY <1>1, UpsertFacts
<1>3. ASSUME NEW i \in DOMAIN next
      PROVE  \/ next[i].id \in U \cup {v} /\ next[i].face = current[next[i].id]
             \/ next[i].id \notin U \cup {v} /\ \E j \in DOMAIN ws : ws[j] = next[i]
  BY <1>1, <1>2
<1>4. ASSUME NEW x, NEW y, Ahead(next, x, y) PROVE Precedes(ws, x, y)
  <2>1. CASE Ahead(r, x, y)
    BY <1>1, <2>1
  <2>2. CASE x \in Ids(r) /\ y \notin Ids(r) /\ y = v
    BY <1>1, <2>2 DEF Precedes
  <2> QED BY <1>2, <1>4, <2>1, <2>2
<1>5. Ids(next) = Ids(ws) \cup (U \cup {v})
  BY <1>1, <1>2
<1> QED BY <1>2, <1>3, <1>4, <1>5 DEF Updated

\* One more removal.
LEMMA RemovalStep ==
  ASSUME NEW ws \in Seq(Toplevels), NEW U, NEW r, Reduced(r, ws, U), NEW v \in Views,
         NEW next, next = apply(r, Removal(v))
  PROVE  Reduced(next, ws, U \cup {v})
<1>1. /\ r \in Seq(Toplevels) /\ Once(r) /\ Ids(r) = Ids(ws) \ U
      /\ \A i \in DOMAIN r : \E j \in DOMAIN ws : ws[j] = r[i]
      /\ \A x, y : Ahead(r, x, y) => Ahead(ws, x, y)
  BY DEF Reduced
<1>2. /\ next \in Seq(Toplevels) /\ Once(next) /\ Ids(next) = Ids(r) \ {v}
      /\ \A i \in DOMAIN next : \E j \in DOMAIN r : r[j] = next[i]
      /\ \A x, y : Ahead(next, x, y) => Ahead(r, x, y)
  BY <1>1, RemovalFacts
<1>3. \A i \in DOMAIN next : \E j \in DOMAIN ws : ws[j] = next[i]
  BY <1>1, <1>2
<1>4. Ids(next) = Ids(ws) \ (U \cup {v})
  BY <1>1, <1>2
<1> QED BY <1>1, <1>2, <1>3, <1>4 DEF Reduced

\* The elements of a list up to one place.
FirstOf(s, k) == {s[j] : j \in 1..k}

\* They are none, one more for each place, and in the end all.
LEMMA FirstOfSteps ==
  ASSUME NEW s, Len(s) \in Nat, DOMAIN s = 1..Len(s)
  PROVE  /\ FirstOf(s, 0) = {}
         /\ \A k \in Nat : FirstOf(s, k + 1) = FirstOf(s, k) \cup {s[k + 1]}
         /\ \A x : x \in FirstOf(s, Len(s)) <=> \E k \in DOMAIN s : s[k] = x
<1>1. FirstOf(s, 0) = {}
  BY DEF FirstOf
<1>2. ASSUME NEW k \in Nat PROVE FirstOf(s, k + 1) = FirstOf(s, k) \cup {s[k + 1]}
  <2>1. \A j : j \in 1..(k + 1) <=> j \in 1..k \/ j = k + 1
    OBVIOUS
  <2>2. ASSUME NEW x PROVE x \in FirstOf(s, k + 1) <=> x \in FirstOf(s, k) \/ x = s[k + 1]
    BY <2>1 DEF FirstOf
  <2> QED BY <2>2
<1>3. \A x : x \in FirstOf(s, Len(s)) <=> \E k \in DOMAIN s : s[k] = x
  BY DEF FirstOf
<1> QED BY <1>1, <1>2, <1>3

\* The ids of a set of views are listed from the smallest up.
LEMMA AscendingRises ==
  ASSUME NEW S \in SUBSET Views, NEW j \in DOMAIN Ascending(S), NEW k \in DOMAIN Ascending(S), j < k
  PROVE  Ascending(S)[j] < Ascending(S)[k]
<1>1. PICK n \in Nat : Views \subseteq 0..n
  BY ViewsAssumption
<1>2. S \in SUBSET (0..n)
  BY <1>1
<1>3. /\ Cardinality(S) \in Nat /\ DOMAIN Ascending(S) = 1..Cardinality(S)
      /\ Ascending(S)[j] = Kth(S, j) /\ Ascending(S)[k] = Kth(S, k)
  BY <1>2, BoundedIsFinite DEF Ascending
<1>4. Kth(S, j) \in S /\ Kth(S, k) \in S /\ Kth(S, j) # Kth(S, k)
  BY <1>2, <1>3, KthIsElement, KthInjective
<1>5. Kth(S, j) \in Nat /\ Kth(S, k) \in Nat
  <2>1. \A x \in S : x \in Nat
    BY <1>2
  <2> QED BY <1>4, <2>1
<1>6. ~(Kth(S, k) < Kth(S, j))
  BY <1>2, <1>3, KthMonotone
<1> QED BY <1>3, <1>4, <1>5, <1>6

\* The first half of a refresh, the upserts in id order, updates the changed
\* windows in place and puts the new ones behind all others.
LEMMA UpsertsUpdate ==
  ASSUME NEW ws \in Seq(Toplevels), Once(ws), NEW C \in SUBSET Views, NEW current,
         \A v \in C : current[v] \in Faces,
         NEW q \in Seq(Events), Len(q) = Len(Ascending(C)),
         \A k \in DOMAIN q : q[k] = Upsert(Ascending(C)[k], current[Ascending(C)[k]])
  PROVE  Updated(drain(ws, q), ws, current, C)
<1> DEFINE s == Ascending(C)
<1>1. Len(q) \in Nat /\ DOMAIN q = 1..Len(q)
  OBVIOUS
<1>2. PICK run : IsRun(run, ws, q) /\ drain(ws, q) = run[Len(q)]
  BY <1>1, DrainRuns
<1>3. /\ DOMAIN s = 1..Len(q) /\ \A k \in DOMAIN s : s[k] \in C
      /\ \A v \in C : \E k \in DOMAIN s : s[k] = v
  <2>1. s \in Seq(C) /\ \A k \in DOMAIN s : s[k] \in C
    BY AscendingLists
  <2>2. \A v \in C : \E k \in DOMAIN s : s[k] = v
    BY AscendingLists
  <2>3. DOMAIN s = 1..Len(s)
    BY <2>1
  <2> QED BY <2>1, <2>2, <2>3
<1>4. \A j, k \in DOMAIN s : j < k => s[j] < s[k]
  BY AscendingRises
<1> HIDE DEF s
<1>5. /\ FirstOf(s, 0) = {}
      /\ \A k \in Nat : FirstOf(s, k + 1) = FirstOf(s, k) \cup {s[k + 1]}
      /\ \A x : x \in FirstOf(s, Len(q)) <=> \E k \in DOMAIN s : s[k] = x
  <2>1. Len(s) = Len(q)
    BY DEF s
  <2> QED BY <1>1, <1>3, <2>1, FirstOfSteps
<1> DEFINE Good == {k \in 0..Len(q) : Updated(run[k], ws, current, FirstOf(s, k))}
<1>6. 0 \in Good
  <2>1. run[0] = ws
    BY <1>2 DEF IsRun
  <2>2. Updated(ws, ws, current, {})
    BY DEF Updated, Precedes
  <2>3. Updated(run[0], ws, current, FirstOf(s, 0))
    BY <1>5, <2>1, <2>2
  <2>4. 0 \in 0..Len(q)
    BY <1>1
  <2> QED BY <2>3, <2>4
<1>7. ASSUME NEW k \in 0..Len(q), k \in Good, k < Len(q) PROVE k + 1 \in Good
  <2> DEFINE v == s[k + 1]
  <2>1. k + 1 \in 1..Len(q) /\ k + 1 \in 0..Len(q) /\ k \in Nat /\ (k + 1) - 1 = k
    BY <1>1, <1>7
  <2>2. q[k + 1] = Upsert(v, current[v])
    BY <1>1, <2>1 DEF s
  <2>3. run[k + 1] = apply(run[k], Upsert(v, current[v]))
    BY <1>2, <2>1, <2>2 DEF IsRun
  <2>4. v \in Views /\ current[v] \in Faces
    BY <1>3, <2>1
  <2>5. \A j \in 1..k : s[j] < v
    <3>1. \A j \in 1..k : j \in DOMAIN s /\ j < k + 1
      BY <1>1, <1>3, <1>7
    <3> QED BY <1>3, <1>4, <2>1, <3>1
  <2>6. \A u \in FirstOf(s, k) : u < v
    BY <2>5 DEF FirstOf
  <2>7. v \notin FirstOf(s, k)
    <3>1. v \in Nat
      BY <2>4, ViewsAssumption
    <3> QED BY <2>6, <3>1
  <2>8. Updated(run[k], ws, current, FirstOf(s, k))
    BY <1>7
  <2> HIDE DEF v
  <2>9. Updated(run[k + 1], ws, current, FirstOf(s, k) \cup {v})
    BY <2>3, <2>4, <2>6, <2>7, <2>8, UpsertStep
  <2> QED BY <1>5, <2>1, <2>9 DEF v
<1>8. Len(q) \in Good
  <2>1. \A k \in 0..Len(q) : k \in Good
    <3> HIDE DEF Good
    <3> QED BY <1>1, <1>6, <1>7, UpInduction
  <2>2. Len(q) \in 0..Len(q)
    BY <1>1
  <2> HIDE DEF Good
  <2> QED BY <2>1, <2>2
<1>9. FirstOf(s, Len(q)) = C
  <2>1. \A x : x \in FirstOf(s, Len(q)) <=> x \in C
    BY <1>3, <1>5
  <2> QED BY <2>1
<1> QED BY <1>2, <1>8, <1>9

\* The second half, the removals, takes the lost windows out.
LEMMA RemovalsReduce ==
  ASSUME NEW ws \in Seq(Toplevels), Once(ws), NEW C \in SUBSET Views,
         NEW q \in Seq(Events), Len(q) = Len(Ascending(C)),
         \A k \in DOMAIN q : q[k] = Removal(Ascending(C)[k])
  PROVE  Reduced(drain(ws, q), ws, C)
<1> DEFINE s == Ascending(C)
<1>1. Len(q) \in Nat /\ DOMAIN q = 1..Len(q)
  OBVIOUS
<1>2. PICK run : IsRun(run, ws, q) /\ drain(ws, q) = run[Len(q)]
  BY <1>1, DrainRuns
<1>3. /\ DOMAIN s = 1..Len(q) /\ \A k \in DOMAIN s : s[k] \in C
      /\ \A v \in C : \E k \in DOMAIN s : s[k] = v
  <2>1. s \in Seq(C) /\ \A k \in DOMAIN s : s[k] \in C
    BY AscendingLists
  <2>2. \A v \in C : \E k \in DOMAIN s : s[k] = v
    BY AscendingLists
  <2>3. DOMAIN s = 1..Len(s)
    BY <2>1
  <2> QED BY <2>1, <2>2, <2>3
<1> HIDE DEF s
<1>4. /\ FirstOf(s, 0) = {}
      /\ \A k \in Nat : FirstOf(s, k + 1) = FirstOf(s, k) \cup {s[k + 1]}
      /\ \A x : x \in FirstOf(s, Len(q)) <=> \E k \in DOMAIN s : s[k] = x
  <2>1. Len(s) = Len(q)
    BY DEF s
  <2> QED BY <1>1, <1>3, <2>1, FirstOfSteps
<1> DEFINE Good == {k \in 0..Len(q) : Reduced(run[k], ws, FirstOf(s, k))}
<1>5. 0 \in Good
  <2>1. run[0] = ws
    BY <1>2 DEF IsRun
  <2>2. Reduced(ws, ws, {})
    BY DEF Reduced
  <2>3. Reduced(run[0], ws, FirstOf(s, 0))
    BY <1>4, <2>1, <2>2
  <2>4. 0 \in 0..Len(q)
    BY <1>1
  <2> QED BY <2>3, <2>4
<1>6. ASSUME NEW k \in 0..Len(q), k \in Good, k < Len(q) PROVE k + 1 \in Good
  <2> DEFINE v == s[k + 1]
  <2>1. k + 1 \in 1..Len(q) /\ k + 1 \in 0..Len(q) /\ k \in Nat /\ (k + 1) - 1 = k
    BY <1>1, <1>6
  <2>2. q[k + 1] = Removal(v)
    BY <1>1, <2>1 DEF s
  <2>3. run[k + 1] = apply(run[k], Removal(v))
    BY <1>2, <2>1, <2>2 DEF IsRun
  <2>4. v \in Views
    BY <1>3, <2>1
  <2>5. Reduced(run[k], ws, FirstOf(s, k))
    BY <1>6
  <2> HIDE DEF v
  <2>6. Reduced(run[k + 1], ws, FirstOf(s, k) \cup {v})
    BY <2>3, <2>4, <2>5, RemovalStep
  <2> QED BY <1>4, <2>1, <2>6 DEF v
<1>7. Len(q) \in Good
  <2>1. \A k \in 0..Len(q) : k \in Good
    <3> HIDE DEF Good
    <3> QED BY <1>1, <1>5, <1>6, UpInduction
  <2>2. Len(q) \in 0..Len(q)
    BY <1>1
  <2> HIDE DEF Good
  <2> QED BY <2>1, <2>2
<1>8. FirstOf(s, Len(q)) = C
  <2>1. \A x : x \in FirstOf(s, Len(q)) <=> x \in C
    BY <1>3, <1>4
  <2> QED BY <2>1
<1> QED BY <1>2, <1>7, <1>8

\* The events of a refresh: its upserts, then its removals, one per window.
LEMMA EventsParts ==
  ASSUME NEW old \in Inventories, NEW current \in Inventories
  PROVE  LET changed == Ascending(Changed(old, current))
             gone == Ascending(Gone(old, current))
             p == [k \in DOMAIN changed |-> Upsert(changed[k], current[changed[k]])]
             q == [k \in DOMAIN gone |-> Removal(gone[k])]
         IN  /\ p \in Seq(Events) /\ Len(p) = Len(changed)
             /\ q \in Seq(Events) /\ Len(q) = Len(gone)
             /\ events(old, current) = p \o q
             /\ p \o q \in Seq(Events)
             /\ \A j, k \in DOMAIN (p \o q) : (p \o q)[j].id = (p \o q)[k].id => j = k
             /\ \A k \in DOMAIN (p \o q) : (p \o q)[k].type = "remove" =>
                                             (p \o q)[k].id \in Gone(old, current)
<1> DEFINE C == Changed(old, current)
           G == Gone(old, current)
           changed == Ascending(C)
           gone == Ascending(G)
           p == [k \in DOMAIN changed |-> Upsert(changed[k], current[changed[k]])]
           q == [k \in DOMAIN gone |-> Removal(gone[k])]
<1>1. /\ C \in SUBSET Views /\ G \in SUBSET Views
      /\ \A v \in C : current[v] \in Faces /\ v \in DOMAIN current
      /\ \A v \in G : v \notin DOMAIN current
  BY DEF Inventories, Changed, Gone
<1>2. events(old, current) = p \o q
  BY DEF events
<1> HIDE DEF C, G
<1>3. /\ changed \in Seq(C) /\ gone \in Seq(G)
      /\ \A j, k \in DOMAIN changed : changed[j] = changed[k] => j = k
      /\ \A j, k \in DOMAIN gone : gone[j] = gone[k] => j = k
  BY <1>1, AscendingLists
<1> HIDE DEF changed, gone
<1>4. /\ Len(changed) \in Nat /\ DOMAIN changed = 1..Len(changed)
      /\ Len(gone) \in Nat /\ DOMAIN gone = 1..Len(gone)
      /\ \A k \in DOMAIN changed : changed[k] \in C
      /\ \A k \in DOMAIN gone : gone[k] \in G
  BY <1>3
<1>5. /\ p \in Seq(Events) /\ Len(p) = Len(changed) /\ DOMAIN p = DOMAIN changed
      /\ \A k \in DOMAIN changed : p[k].id = changed[k] /\ p[k].type = "upsert"
  <2>1. \A k \in DOMAIN changed : Upsert(changed[k], current[changed[k]]) \in Events
    BY <1>1, <1>4 DEF Upsert, Events
  <2>2. p \in [1..Len(changed) -> Events]
    BY <1>4, <2>1
  <2> QED BY <1>4, <2>2 DEF Upsert
<1>6. /\ q \in Seq(Events) /\ Len(q) = Len(gone) /\ DOMAIN q = DOMAIN gone
      /\ \A k \in DOMAIN gone : q[k].id = gone[k] /\ q[k].type = "remove"
  <2>1. \A k \in DOMAIN gone : Removal(gone[k]) \in Events
    BY <1>1, <1>4 DEF Removal, Events
  <2>2. q \in [1..Len(gone) -> Events]
    BY <1>4, <2>1
  <2> QED BY <1>4, <2>2 DEF Removal
<1> HIDE DEF p, q
<1> DEFINE pq == p \o q
<1>7. /\ pq \in Seq(Events)
      /\ \A k \in DOMAIN pq : \/ k \in DOMAIN p /\ pq[k] = p[k]
                              \/ k - Len(p) \in DOMAIN q /\ pq[k] = q[k - Len(p)]
  BY <1>5, <1>6, ConcatParts
<1> HIDE DEF pq
<1>8. ASSUME NEW k \in DOMAIN pq
      PROVE  \/ k \in DOMAIN changed /\ pq[k].id = changed[k] /\ pq[k].id \in C
                /\ pq[k].type = "upsert"
             \/ k - Len(p) \in DOMAIN gone /\ pq[k].id = gone[k - Len(p)] /\ pq[k].id \in G
                /\ pq[k].type = "remove"
  BY <1>4, <1>5, <1>6, <1>7
<1>9. C \cap G = {}
  BY <1>1
<1>10. ASSUME NEW j \in DOMAIN pq, NEW k \in DOMAIN pq, pq[j].id = pq[k].id PROVE j = k
  <2>1. j \in Int /\ k \in Int /\ Len(p) \in Int
    BY <1>4, <1>5, <1>7
  <2>2. CASE pq[j].id \in C
    <3>1. j \in DOMAIN changed /\ pq[j].id = changed[j]
      BY <1>8, <1>9, <2>2
    <3>2. k \in DOMAIN changed /\ pq[k].id = changed[k]
      BY <1>8, <1>9, <1>10, <2>2
    <3> QED BY <1>3, <1>10, <3>1, <3>2
  <2>3. CASE pq[j].id \in G
    <3>1. j - Len(p) \in DOMAIN gone /\ pq[j].id = gone[j - Len(p)]
      BY <1>8, <1>9, <2>3
    <3>2. k - Len(p) \in DOMAIN gone /\ pq[k].id = gone[k - Len(p)]
      BY <1>8, <1>9, <1>10, <2>3
    <3>3. j - Len(p) = k - Len(p)
      BY <1>3, <1>10, <3>1, <3>2
    <3> QED BY <2>1, <3>3
  <2> QED BY <1>8, <2>2, <2>3
<1>11. \A k \in DOMAIN pq : pq[k].type = "remove" => pq[k].id \in G
  BY <1>8
<1> QED BY <1>2, <1>5, <1>6, <1>7, <1>10, <1>11 DEF pq, p, q, changed, gone, C, G

\* The queue of a refresh, one event per window.
LEMMA EventsAreTyped ==
  ASSUME NEW old \in Inventories, NEW current \in Inventories, NEW ev, ev = events(old, current)
  PROVE  ev \in Seq(Events) /\ \A j, k \in DOMAIN ev : ev[j].id = ev[k].id => j = k
<1> DEFINE changed == Ascending(Changed(old, current))
           gone == Ascending(Gone(old, current))
           p == [k \in DOMAIN changed |-> Upsert(changed[k], current[changed[k]])]
           q == [k \in DOMAIN gone |-> Removal(gone[k])]
           pq == p \o q
<1>1. /\ ev = pq /\ pq \in Seq(Events)
      /\ \A j, k \in DOMAIN pq : pq[j].id = pq[k].id => j = k
  BY EventsParts
<1> HIDE DEF pq
<1> QED BY <1>1

\* A refresh brings a workspace that mirrors the last inventory to one that
\* mirrors the next, old windows in their order and new ones behind them.
LEMMA RefreshDoes ==
  ASSUME NEW ws \in Seq(Toplevels), NEW old \in Inventories, NEW current \in Inventories,
         Mirrors(ws, old), NEW r, r = drain(ws, events(old, current))
  PROVE  /\ r \in Seq(Toplevels) /\ Mirrors(r, current)
         /\ \A u, v : Ahead(r, u, v) => Precedes(ws, u, v)
<1> DEFINE C == Changed(old, current)
           G == Gone(old, current)
           changed == Ascending(C)
           gone == Ascending(G)
           p == [k \in DOMAIN changed |-> Upsert(changed[k], current[changed[k]])]
           q == [k \in DOMAIN gone |-> Removal(gone[k])]
           mid == drain(ws, p)
<1>1. /\ p \in Seq(Events) /\ Len(p) = Len(changed)
      /\ q \in Seq(Events) /\ Len(q) = Len(gone)
      /\ events(old, current) = p \o q
  BY EventsParts
<1>2. /\ C \in SUBSET Views /\ G \in SUBSET Views
      /\ \A v \in C : current[v] \in Faces
  BY DEF Inventories, Changed, Gone
<1>3. /\ \A k \in DOMAIN p : p[k] = Upsert(changed[k], current[changed[k]])
      /\ \A k \in DOMAIN q : q[k] = Removal(gone[k])
  OBVIOUS
<1>4. /\ Once(ws) /\ Ids(ws) = DOMAIN old
      /\ \A i \in DOMAIN ws : ws[i].face = old[ws[i].id]
  BY DEF Mirrors, Once
<1> HIDE DEF p, q
<1>5. Updated(mid, ws, current, C)
  <2> HIDE DEF C
  <2> QED BY <1>1, <1>2, <1>3, <1>4, UpsertsUpdate
<1>6. r = drain(mid, q)
  BY <1>1, DrainConcat
<1> HIDE DEF mid
<1>7. Once(mid) /\ mid \in Seq(Toplevels)
  BY <1>5 DEF Updated
<1>8. Reduced(r, mid, G)
  <2> HIDE DEF G
  <2> QED BY <1>1, <1>2, <1>3, <1>6, <1>7, RemovalsReduce
<1> HIDE DEF changed, gone, C, G
<1>9. /\ Ids(mid) = Ids(ws) \cup C
      /\ \A i \in DOMAIN mid : \/ mid[i].id \in C /\ mid[i].face = current[mid[i].id]
                               \/ mid[i].id \notin C /\ \E j \in DOMAIN ws : ws[j] = mid[i]
      /\ \A u, v : Ahead(mid, u, v) => Precedes(ws, u, v)
  BY <1>5 DEF Updated
<1>10. /\ r \in Seq(Toplevels) /\ Once(r) /\ Ids(r) = Ids(mid) \ G
       /\ \A i \in DOMAIN r : \E j \in DOMAIN mid : mid[j] = r[i]
       /\ \A u, v : Ahead(r, u, v) => Ahead(mid, u, v)
  BY <1>8 DEF Reduced
<1>11. Ids(r) = DOMAIN current
  <2>1. (DOMAIN old \cup C) \ G = DOMAIN current
    BY DEF C, G, Changed, Gone
  <2> QED BY <1>4, <1>9, <1>10, <2>1
<1>12. ASSUME NEW i \in DOMAIN r PROVE r[i].face = current[r[i].id]
  <2>1. PICK j \in DOMAIN mid : mid[j] = r[i]
    BY <1>10
  <2>2. CASE mid[j].id \in C /\ mid[j].face = current[mid[j].id]
    BY <2>1, <2>2
  <2>3. CASE mid[j].id \notin C /\ \E k \in DOMAIN ws : ws[k] = mid[j]
    <3>1. PICK k \in DOMAIN ws : ws[k] = r[i]
      BY <2>1, <2>3
    <3>2. r[i].face = old[r[i].id] /\ r[i].id \in DOMAIN old
      BY <1>4, <3>1 DEF Ids
    <3>3. r[i].id \in DOMAIN current
      BY <1>11 DEF Ids
    <3>4. r[i].id \notin C
      BY <2>1, <2>3
    <3> QED BY <3>2, <3>3, <3>4 DEF C, Changed
  <2> QED BY <1>9, <2>2, <2>3
<1>13. Mirrors(r, current)
  BY <1>10, <1>11, <1>12 DEF Mirrors, Once
<1> QED BY <1>9, <1>10, <1>13

\* The closed form puts the new windows behind the old ones, by id.
LEMMA AbsorbNewBehind ==
  ASSUME NEW ws \in Seq(Toplevels), NEW old \in Inventories, NEW current \in Inventories,
         Mirrors(ws, old),
         NEW u, NEW v, Ahead(Absorb(ws, old, current), u, v), u \notin Ids(ws)
  PROVE  v \notin Ids(ws) /\ u < v
<1> DEFINE C == Changed(old, current)
           R == [k \in DOMAIN ws |-> IF ws[k].id \in C
                                     THEN [ws[k] EXCEPT !.face = current[ws[k].id]]
                                     ELSE ws[k]]
           K == {k \in DOMAIN ws : ws[k].id \notin Gone(old, current)}
           D == C \ Ids(ws)
           new == Ascending(D)
           F == InOrder(R, K)
           G == [k \in DOMAIN new |-> [id |-> new[k], face |-> current[new[k]]]]
<1>1. Absorb(ws, old, current) = F \o G
  BY DEF Absorb
<1>2. Len(ws) \in Nat /\ DOMAIN ws = 1..Len(ws) /\ \A k \in DOMAIN ws : ws[k] \in Toplevels
  OBVIOUS
<1>3. \A k \in DOMAIN ws : R[k].id = ws[k].id
  BY <1>2 DEF Toplevels
<1>4. R \in Seq(Toplevels) /\ DOMAIN R = DOMAIN ws
  <2>1. \A x \in DOMAIN current : x \in Views /\ current[x] \in Faces
    BY DEF Inventories
  <2>2. \A k \in DOMAIN ws : R[k] \in Toplevels
    BY <1>2, <2>1 DEF Toplevels, Changed
  <2>3. R \in [1..Len(ws) -> Toplevels]
    BY <1>2, <2>2
  <2> QED BY <1>2, <2>3
<1>5. K \in SUBSET DOMAIN R
  BY <1>4
<1>6. D \in SUBSET Views /\ \A x \in D : x \notin Ids(ws) /\ current[x] \in Faces
  BY DEF Changed, Inventories
<1> HIDE DEF R, K, D
<1>7. F \in Seq(Toplevels) /\ \A k \in DOMAIN F : F[k].id \in Ids(ws)
  <2>1. /\ F \in Seq(Toplevels) /\ Len(F) = Cardinality(K) /\ Cardinality(K) \in Nat
        /\ \A k \in 1..Cardinality(K) : Kth(K, k) \in K /\ F[k] = R[Kth(K, k)]
    BY <1>4, <1>5, InOrderIsSubsequence
  <2> HIDE DEF F
  <2>2. DOMAIN F = 1..Cardinality(K)
    BY <2>1
  <2> QED BY <1>3, <1>4, <1>5, <2>1, <2>2 DEF Ids
<1>8. /\ DOMAIN new = 1..Len(new) /\ Len(new) \in Nat
      /\ \A k \in DOMAIN new : new[k] \in D
      /\ \A j, k \in DOMAIN new : j < k => new[j] < new[k]
  <2>1. new \in Seq(D) /\ \A k \in DOMAIN new : new[k] \in D
    BY <1>6, AscendingLists
  <2>2. \A j, k \in DOMAIN new : j < k => new[j] < new[k]
    BY <1>6, AscendingRises
  <2> HIDE DEF new
  <2> QED BY <2>1, <2>2
<1> HIDE DEF new
<1>9. G \in Seq(Toplevels) /\ DOMAIN G = DOMAIN new /\ \A k \in DOMAIN new : G[k].id = new[k]
  <2>1. \A k \in DOMAIN new : G[k] \in Toplevels
    BY <1>6, <1>8 DEF Toplevels
  <2>2. G \in [1..Len(new) -> Toplevels]
    BY <1>8, <2>1
  <2> QED BY <1>8, <2>2
<1> HIDE DEF F, G
<1> DEFINE A == F \o G
<1>10. \A k \in DOMAIN A : \/ k \in DOMAIN F /\ A[k] = F[k]
                           \/ k - Len(F) \in DOMAIN G /\ A[k] = G[k - Len(F)]
  BY <1>7, <1>9, ConcatParts
<1>11. Len(F) \in Nat /\ DOMAIN F = 1..Len(F) /\ A \in Seq(Toplevels) /\ \A k \in DOMAIN A : k \in Nat
  BY <1>7, <1>9
<1>12. PICK j \in DOMAIN A, k \in DOMAIN A : j < k /\ A[j].id = u /\ A[k].id = v
  BY <1>1 DEF Ahead
<1> HIDE DEF A
<1>13. j - Len(F) \in DOMAIN G /\ A[j] = G[j - Len(F)]
  BY <1>7, <1>10, <1>12
<1>14. k - Len(F) \in DOMAIN G /\ A[k] = G[k - Len(F)]
  <2>1. k \notin DOMAIN F
    BY <1>8, <1>9, <1>11, <1>12, <1>13
  <2> QED BY <1>10, <2>1
<1>15. u = new[j - Len(F)] /\ v = new[k - Len(F)] /\ j - Len(F) < k - Len(F)
  BY <1>9, <1>11, <1>12, <1>13, <1>14
<1> QED BY <1>6, <1>8, <1>9, <1>13, <1>14, <1>15

\* The closed form is what the events of a refresh do.
LEMMA AbsorbIsRefresh ==
  ASSUME NEW ws \in Seq(Toplevels), NEW old \in Inventories, NEW current \in Inventories,
         Mirrors(ws, old)
  PROVE  drain(ws, events(old, current)) = Absorb(ws, old, current)
<1> DEFINE r == drain(ws, events(old, current))
           a == Absorb(ws, old, current)
<1>1. /\ r \in Seq(Toplevels) /\ Mirrors(r, current)
      /\ \A u, v : Ahead(r, u, v) => Precedes(ws, u, v)
  BY RefreshDoes
<1>2. a \in Seq(Toplevels) /\ Mirrors(a, current)
  BY AbsorbMirrors
<1>3. \A u, v : Ahead(a, u, v) /\ u \notin Ids(ws) => v \notin Ids(ws) /\ u < v
  BY AbsorbNewBehind
<1>4. ASSUME NEW u, NEW v, Ahead(ws, u, v), u \in DOMAIN current, v \in DOMAIN current
      PROVE  Ahead(a, u, v)
  <2>1. PICK i \in DOMAIN ws, j \in DOMAIN ws : i < j /\ ws[i].id = u /\ ws[j].id = v
    BY <1>4 DEF Ahead
  <2>2. \E k, l \in DOMAIN a : k < l /\ a[k].id = ws[i].id /\ a[l].id = ws[j].id
    BY <1>4, <2>1, AbsorbKeepsOrder
  <2> HIDE DEF a
  <2> QED BY <2>1, <2>2 DEF Ahead
<1> HIDE DEF r, a
<1>5. /\ Once(r) /\ Ids(r) = DOMAIN current /\ \A i \in DOMAIN r : r[i].face = current[r[i].id]
      /\ Once(a) /\ Ids(a) = DOMAIN current /\ \A i \in DOMAIN a : a[i].face = current[a[i].id]
  BY <1>1, <1>2 DEF Mirrors, Once
<1>6. \A i \in DOMAIN r, j \in DOMAIN a : r[i].id = a[j].id => r[i] = a[j]
  <2>1. \A t1, t2 \in Toplevels : t1.id = t2.id /\ t1.face = t2.face => t1 = t2
    BY DEF Toplevels
  <2>2. (\A i \in DOMAIN r : r[i] \in Toplevels) /\ (\A i \in DOMAIN a : a[i] \in Toplevels)
    BY <1>1, <1>2
  <2> QED BY <1>5, <2>1, <2>2
<1>7. ASSUME NEW u, NEW v, Ahead(r, u, v), Ahead(a, v, u) PROVE FALSE
  <2>1. u \in DOMAIN current /\ v \in DOMAIN current /\ u # v
    BY <1>1, <1>5, <1>7, AheadIsOrder
  <2>2. ~Ahead(a, u, v)
    BY <1>2, <1>5, <1>7, AheadIsOrder
  <2>3. ~Ahead(ws, u, v)
    BY <1>4, <2>1, <2>2
  <2>4. CASE u \in Ids(ws) /\ v \notin Ids(ws)
    BY <1>3, <1>7, <2>4
  <2>5. CASE u \notin Ids(ws) /\ v \notin Ids(ws) /\ u < v
    <3>1. v < u
      BY <1>3, <1>7, <2>5
    <3>2. u \in Nat /\ v \in Nat
      BY <2>1, ViewsAssumption DEF Inventories
    <3> QED BY <2>5, <3>1, <3>2
  <2> QED BY <1>1, <1>7, <2>3, <2>4, <2>5 DEF Precedes
<1>8. r = a
  BY <1>1, <1>2, <1>5, <1>6, <1>7, SameOrderSameList
<1> QED BY <1>8 DEF r, a

-----------------------------------------------------------------------------
(* The invariant: the workspace and what is pending come from one inventory. *)

IInv ==
  /\ known \in Inventories
  /\ workspace \in Seq(Toplevels) /\ Once(workspace)
  /\ pending \in Seq(Events)
  /\ \A j, k \in DOMAIN pending : pending[j].id = pending[k].id => j = k
  /\ drain(workspace, pending) \in Seq(Toplevels)
  /\ Mirrors(drain(workspace, pending), known)

\* One event keeps a workspace well-formed.
LEMMA ApplyKeeps ==
  ASSUME NEW ws \in Seq(Toplevels), Once(ws), NEW e \in Events, NEW r, r = apply(ws, e)
  PROVE  /\ r \in Seq(Toplevels) /\ Once(r)
         /\ \A u, v : Ahead(r, u, v) => Ahead(ws, u, v) \/ v \notin Ids(ws)
         /\ \A u \in Ids(ws) : u \in Ids(r) \/ e = Removal(u)
<1>1. CASE e \in [type : {"upsert"}, id : Views, face : Faces]
  <2>1. e.id \in Views /\ e.face \in Faces /\ e = Upsert(e.id, e.face)
    BY <1>1 DEF Upsert
  <2>2. /\ r \in Seq(Toplevels) /\ Once(r) /\ Ids(r) = Ids(ws) \cup {e.id}
        /\ \A x, y : Ahead(r, x, y) =>
             Ahead(ws, x, y) \/ (x \in Ids(ws) /\ y \notin Ids(ws) /\ y = e.id)
    BY <2>1, UpsertFacts
  <2> QED BY <2>2
<1>2. CASE e \in [type : {"remove"}, id : Views]
  <2>1. e.id \in Views /\ e = Removal(e.id)
    BY <1>2 DEF Removal
  <2>2. /\ r \in Seq(Toplevels) /\ Once(r) /\ Ids(r) = Ids(ws) \ {e.id}
        /\ \A x, y : Ahead(r, x, y) => Ahead(ws, x, y)
    BY <2>1, RemovalFacts
  <2> QED BY <2>1, <2>2
<1> QED BY <1>1, <1>2 DEF Events

\* A queue keeps the order of two windows that it does not remove.
LEMMA DrainKeeps ==
  ASSUME NEW ws \in Seq(Toplevels), Once(ws), NEW q \in Seq(Events), NEW u, NEW v, Ahead(ws, u, v),
         \A k \in DOMAIN q : q[k] # Removal(u) /\ q[k] # Removal(v)
  PROVE  Ahead(drain(ws, q), u, v)
<1>1. Len(q) \in Nat /\ DOMAIN q = 1..Len(q)
  OBVIOUS
<1>2. PICK run : IsRun(run, ws, q) /\ drain(ws, q) = run[Len(q)]
  BY <1>1, DrainRuns
<1> DEFINE Good == {k \in 0..Len(q) : /\ run[k] \in Seq(Toplevels) /\ Once(run[k])
                                      /\ Ahead(run[k], u, v)}
<1>3. 0 \in Good
  <2>1. run[0] = ws /\ 0 \in 0..Len(q)
    BY <1>1, <1>2 DEF IsRun
  <2> QED BY <2>1
<1>4. ASSUME NEW k \in 0..Len(q), k \in Good, k < Len(q) PROVE k + 1 \in Good
  <2> DEFINE s == run[k]
             t == run[k + 1]
             e == q[k + 1]
  <2>1. k + 1 \in 1..Len(q) /\ k + 1 \in 0..Len(q) /\ (k + 1) - 1 = k
    BY <1>1, <1>4
  <2>2. t = apply(s, e) /\ e \in Events
    BY <1>1, <1>2, <2>1 DEF IsRun
  <2>3. s \in Seq(Toplevels) /\ Once(s) /\ Ahead(s, u, v)
    BY <1>4
  <2>4. e # Removal(u) /\ e # Removal(v)
    BY <1>1, <2>1
  <2> HIDE DEF s, t, e
  <2>5. u \in Ids(s) /\ v \in Ids(s) /\ u # v /\ ~Ahead(s, v, u)
    BY <2>3, AheadIsOrder
  <2>6. /\ t \in Seq(Toplevels) /\ Once(t)
        /\ \A x, y : Ahead(t, x, y) => Ahead(s, x, y) \/ y \notin Ids(s)
        /\ \A x \in Ids(s) : x \in Ids(t) \/ e = Removal(x)
    BY <2>2, <2>3, ApplyKeeps
  <2>7. u \in Ids(t) /\ v \in Ids(t)
    BY <2>4, <2>5, <2>6
  <2>8. Ahead(t, u, v)
    BY <2>5, <2>6, <2>7, AheadIsOrder
  <2> QED BY <2>1, <2>6, <2>8 DEF t
<1>5. Len(q) \in Good
  <2>1. \A k \in 0..Len(q) : k \in Good
    <3> HIDE DEF Good
    <3> QED BY <1>1, <1>3, <1>4, UpInduction
  <2>2. Len(q) \in 0..Len(q)
    BY <1>1
  <2> HIDE DEF Good
  <2> QED BY <2>1, <2>2
<1> QED BY <1>2, <1>5

\* A queue is its first event and the rest.
LEMMA HeadAndTail ==
  ASSUME NEW q \in Seq(Events), q # << >>
  PROVE  /\ Head(q) \in Events /\ Tail(q) \in Seq(Events)
         /\ \A ws : drain(apply(ws, Head(q)), Tail(q)) = drain(ws, q)
         /\ (\A j, k \in DOMAIN q : q[j].id = q[k].id => j = k)
              => \A j, k \in DOMAIN Tail(q) : Tail(q)[j].id = Tail(q)[k].id => j = k
<1>1. /\ Head(q) \in Events /\ Tail(q) \in Seq(Events) /\ Head(q) = q[1]
      /\ Len(q) \in Nat /\ Len(q) # 0 /\ DOMAIN q = 1..Len(q)
      /\ DOMAIN Tail(q) = 1..(Len(q) - 1) /\ \A k \in DOMAIN Tail(q) : Tail(q)[k] = q[k + 1]
  OBVIOUS
<1>2. q = <<Head(q)>> \o Tail(q)
  OBVIOUS
<1>3. ASSUME NEW ws PROVE drain(apply(ws, Head(q)), Tail(q)) = drain(ws, q)
  <2> DEFINE h == <<Head(q)>>
  <2>1. h \in Seq(Events) /\ drain(ws, h) = apply(ws, Head(q))
    BY <1>1, DrainFew
  <2> HIDE DEF h
  <2>2. drain(ws, h \o Tail(q)) = drain(drain(ws, h), Tail(q))
    BY <1>1, <2>1, DrainConcat
  <2>3. h \o Tail(q) = q
    BY <1>2 DEF h
  <2> QED BY <2>1, <2>2, <2>3
<1>4. ASSUME \A j, k \in DOMAIN q : q[j].id = q[k].id => j = k,
             NEW j \in DOMAIN Tail(q), NEW k \in DOMAIN Tail(q), Tail(q)[j].id = Tail(q)[k].id
      PROVE  j = k
  <2>1. j \in Nat /\ k \in Nat /\ j + 1 \in DOMAIN q /\ k + 1 \in DOMAIN q
    BY <1>1
  <2>2. j + 1 = k + 1
    BY <1>1, <1>4, <2>1
  <2> QED BY <2>1, <2>2
<1> QED BY <1>1, <1>3, <1>4

\* Initially nothing is known, pending or shown.
LEMMA IInvInit == Init => IInv
<1> SUFFICES ASSUME Init PROVE IInv
  OBVIOUS
<1>1. known = << >> /\ pending = << >> /\ workspace = << >>
  BY DEF Init
<1>2. known \in [{} -> Faces]
  BY <1>1
<1>3. known \in Inventories
  <2>1. {} \in SUBSET Views
    OBVIOUS
  <2> QED BY <1>2, <2>1 DEF Inventories
<1>4. drain(workspace, pending) = << >>
  <2>1. Len(pending) \in Nat /\ Len(pending) = 0
    BY <1>1
  <2>2. PICK run : IsRun(run, workspace, pending) /\ drain(workspace, pending) = run[Len(pending)]
    BY <2>1, DrainRuns
  <2> QED BY <1>1, <2>1, <2>2 DEF IsRun
<1>5. Mirrors(<< >>, known) /\ Once(<< >>)
  <2>1. DOMAIN << >> = {} /\ DOMAIN known = {}
    BY <1>1
  <2> QED BY <2>1 DEF Mirrors, Once, Ids
<1>6. << >> \in Seq(Toplevels) /\ << >> \in Seq(Events) /\ DOMAIN << >> = {}
  OBVIOUS
<1> QED BY <1>1, <1>3, <1>4, <1>5, <1>6 DEF IInv

\* Whatever is pending, a refresh behind it yields the new inventory.
LEMMA PendingThenRefresh ==
  ASSUME IInv, NEW current \in Inventories
  PROVE  LET queue == pending \o events(known, current)
             ws == drain(workspace, queue)
         IN  /\ ws \in Seq(Toplevels) /\ Mirrors(ws, current)
             /\ \A u, v : Ahead(ws, u, v) => Precedes(drain(workspace, pending), u, v)
<1> DEFINE ev == events(known, current)
           mid == drain(workspace, pending)
<1>1. ev \in Seq(Events)
  <2>1. known \in Inventories
    BY DEF IInv
  <2> QED BY <2>1, EventsAreTyped
<1>2. mid \in Seq(Toplevels) /\ Mirrors(mid, known) /\ known \in Inventories
  BY DEF IInv
<1>3. drain(workspace, pending \o ev) = drain(mid, ev)
  <2> HIDE DEF ev
  <2>1. pending \in Seq(Events)
    BY DEF IInv
  <2> QED BY <1>1, <2>1, DrainConcat DEF mid
<1> HIDE DEF mid
<1>4. /\ drain(mid, ev) \in Seq(Toplevels) /\ Mirrors(drain(mid, ev), current)
      /\ \A u, v : Ahead(drain(mid, ev), u, v) => Precedes(mid, u, v)
  BY <1>2, RefreshDoes
<1> QED BY <1>3, <1>4 DEF mid

\* The daemon's way of observing.
LEMMA IInvWorkspace ==
  ASSUME IInv, NEW current \in Inventories, observe_workspace(current)
  PROVE  IInv'
<1>1. /\ workspace' = drain(workspace, pending \o events(known, current))
      /\ known' = current /\ pending' = << >>
  BY DEF observe_workspace
<1>2. workspace' \in Seq(Toplevels) /\ Mirrors(workspace', current)
  BY <1>1, PendingThenRefresh
<1>3. drain(workspace', pending') = workspace'
  <2>1. Len(pending') \in Nat /\ Len(pending') = 0
    BY <1>1
  <2>2. PICK run : IsRun(run, workspace', pending')
                   /\ drain(workspace', pending') = run[Len(pending')]
    BY <2>1, DrainRuns
  <2> QED BY <2>1, <2>2 DEF IsRun
<1>4. Once(workspace')
  BY <1>2 DEF Mirrors, Once
<1>5. pending' \in Seq(Events) /\ DOMAIN pending' = {}
  BY <1>1
<1> QED BY <1>1, <1>2, <1>3, <1>4, <1>5 DEF IInv

\* The queue that observe_toplevel takes its event from ends at the inventory
\* it then knows.
LEMMA QueueFacts ==
  ASSUME IInv, NEW current \in Inventories,
         NEW queue, queue = IF pending = << >> THEN events(known, current) ELSE pending,
         NEW seen, seen = IF pending = << >> THEN current ELSE known
  PROVE  /\ seen \in Inventories /\ queue \in Seq(Events)
         /\ \A j, k \in DOMAIN queue : queue[j].id = queue[k].id => j = k
         /\ drain(workspace, queue) \in Seq(Toplevels)
         /\ Mirrors(drain(workspace, queue), seen)
<1>1. CASE pending = << >>
  <2> DEFINE ev == events(known, current)
  <2>1. /\ ev \in Seq(Events)
        /\ \A j, k \in DOMAIN ev : ev[j].id = ev[k].id => j = k
    <3>1. known \in Inventories
      BY DEF IInv
    <3> QED BY <3>1, EventsAreTyped
  <2>2. /\ drain(workspace, pending \o ev) \in Seq(Toplevels)
        /\ Mirrors(drain(workspace, pending \o ev), current)
    BY PendingThenRefresh
  <2> HIDE DEF ev
  <2>3. pending \o ev = ev
    BY <1>1, <2>1
  <2> QED BY <1>1, <2>1, <2>2, <2>3 DEF ev
<1>2. CASE pending # << >>
  BY <1>2 DEF IInv
<1> QED BY <1>1, <1>2

\* One event per call.
LEMMA IInvToplevel ==
  ASSUME IInv, NEW current \in Inventories, observe_toplevel(current)
  PROVE  IInv'
<1> DEFINE queue == IF pending = << >> THEN events(known, current) ELSE pending
<1>1. /\ queue # << >> /\ workspace' = apply(workspace, Head(queue)) /\ pending' = Tail(queue)
      /\ known' = IF pending = << >> THEN current ELSE known
  BY DEF observe_toplevel
<1>2. /\ known' \in Inventories /\ queue \in Seq(Events)
      /\ \A j, k \in DOMAIN queue : queue[j].id = queue[k].id => j = k
      /\ drain(workspace, queue) \in Seq(Toplevels)
      /\ Mirrors(drain(workspace, queue), known')
  BY <1>1, QueueFacts
<1> HIDE DEF queue
<1>3. /\ Head(queue) \in Events /\ Tail(queue) \in Seq(Events)
      /\ drain(apply(workspace, Head(queue)), Tail(queue)) = drain(workspace, queue)
      /\ \A j, k \in DOMAIN Tail(queue) : Tail(queue)[j].id = Tail(queue)[k].id => j = k
  BY <1>1, <1>2, HeadAndTail
<1>4. workspace' \in Seq(Toplevels) /\ Once(workspace')
  BY <1>1, <1>3, ApplyKeeps DEF IInv
<1> QED BY <1>1, <1>2, <1>3, <1>4 DEF IInv

\* Every step keeps the invariant.
LEMMA IInvStep == IInv /\ [Next]_vars => IInv'
<1> SUFFICES ASSUME IInv, [Next]_vars PROVE IInv'
  OBVIOUS
<1>1. CASE UNCHANGED vars
  BY <1>1 DEF IInv, vars
<1>2. ASSUME NEW current \in Inventories, observe_workspace(current) PROVE IInv'
  BY <1>2, IInvWorkspace
<1>3. ASSUME NEW current \in Inventories, observe_toplevel(current) PROVE IInv'
  BY <1>3, IInvToplevel
<1> QED BY <1>1, <1>2, <1>3 DEF Next

\* The invariant holds in every state.
LEMMA IInvHolds == Spec => []IInv
<1> QED BY IInvInit, IInvStep, PTL DEF Spec

\* The adapter's state has its types, and no window has two pending events
\* (refresh and the queue of labwc.rs).
THEOREM InventoryTyped == Spec => []Typing
<1>1. IInv => Typing
  BY DEF IInv, Typing, Events
<1> QED BY <1>1, IInvHolds, PTL

\* However observe_workspace and observe_toplevel are mixed, the pending
\* events bring the workspace to exactly the windows last read, each once and
\* with its current face.
THEOREM QueueReachesTheInventory == Spec => []DrainedMirrorsKnown
<1>1. ASSUME IInv PROVE DrainedMirrorsKnown
  <2> DEFINE ws == drain(workspace, pending)
  <2>1. ws \in Seq(Toplevels) /\ Mirrors(ws, known)
    BY <1>1 DEF IInv
  <2> HIDE DEF ws
  <2>2. Once(ws) /\ Ids(ws) = DOMAIN known /\ \A i \in DOMAIN ws : ws[i].face = known[ws[i].id]
    BY <2>1 DEF Mirrors, Once
  <2>3. Len(ws) = Cardinality(DOMAIN known)
    BY <2>1, <2>2, OnceCounts
  <2> QED BY <2>2, <2>3 DEF DrainedMirrorsKnown, ws
<1> QED BY <1>1, IInvHolds, PTL

\* The closed form Absorb of the daemon's specification is what draining the
\* events of one refresh does, for every next inventory.
THEOREM AbsorbIsExact == Spec => []AbsorbIsTheDrainedRefresh
<1>1. ASSUME IInv, pending = << >>, NEW current \in Inventories
      PROVE  drain(workspace, events(known, current)) = Absorb(workspace, known, current)
  <2>1. Len(pending) \in Nat /\ Len(pending) = 0
    BY <1>1
  <2>2. PICK run : IsRun(run, workspace, pending) /\ drain(workspace, pending) = run[Len(pending)]
    BY <2>1, DrainRuns
  <2>3. drain(workspace, pending) = workspace
    BY <2>1, <2>2 DEF IsRun
  <2>4. workspace \in Seq(Toplevels) /\ known \in Inventories /\ Mirrors(workspace, known)
    BY <1>1, <2>3 DEF IInv
  <2> QED BY <2>4, AbsorbIsRefresh
<1>2. IInv => AbsorbIsTheDrainedRefresh
  BY <1>1 DEF AbsorbIsTheDrainedRefresh
<1> QED BY <1>2, IInvHolds, PTL

-----------------------------------------------------------------------------
(* The order of windows that stay. *)

\* The place of a window, for a workspace that holds it once.
LEMMA PlacesOrder ==
  ASSUME NEW ws \in Seq(Toplevels), Once(ws), NEW u \in Ids(ws), NEW v \in Ids(ws)
  PROVE  PositionOf(ws, u) < PositionOf(ws, v) <=> Ahead(ws, u, v)
<1>1. PositionOf(ws, u) \in DOMAIN ws /\ ws[PositionOf(ws, u)].id = u
  <2>1. \E i \in DOMAIN ws : ws[i].id = u
    BY DEF Ids
  <2> QED BY <2>1 DEF PositionOf
<1>2. PositionOf(ws, v) \in DOMAIN ws /\ ws[PositionOf(ws, v)].id = v
  <2>1. \E i \in DOMAIN ws : ws[i].id = v
    BY DEF Ids
  <2> QED BY <2>1 DEF PositionOf
<1>3. ASSUME Ahead(ws, u, v) PROVE PositionOf(ws, u) < PositionOf(ws, v)
  <2>1. PICK i \in DOMAIN ws, j \in DOMAIN ws : i < j /\ ws[i].id = u /\ ws[j].id = v
    BY <1>3 DEF Ahead
  <2>2. i = PositionOf(ws, u) /\ j = PositionOf(ws, v)
    BY <1>1, <1>2, <2>1 DEF Once
  <2> QED BY <2>1, <2>2
<1> QED BY <1>1, <1>2, <1>3 DEF Ahead

\* No step swaps two windows that stay.
LEMMA OrderStep ==
  ASSUME IInv, IInv', [Next]_vars,
         NEW u \in Staying \cap Ids(workspace'), NEW v \in Staying \cap Ids(workspace'),
         PositionOf(workspace, u) < PositionOf(workspace, v)
  PROVE  PositionOf(workspace', u) < PositionOf(workspace', v)
<1>1. /\ workspace \in Seq(Toplevels) /\ Once(workspace)
      /\ workspace' \in Seq(Toplevels) /\ Once(workspace')
      /\ u \in Ids(workspace) /\ v \in Ids(workspace)
      /\ u \in Ids(workspace') /\ v \in Ids(workspace')
  BY DEF IInv, Staying
<1>2. Ahead(workspace, u, v)
  BY <1>1, PlacesOrder
<1>3. u # v /\ ~Ahead(workspace, v, u)
  BY <1>1, <1>2, AheadIsOrder
<1>4. SUFFICES ASSUME Ahead(workspace', v, u) PROVE FALSE
  <2>1. Ahead(workspace', u, v)
    BY <1>1, <1>3, <1>4, AheadIsOrder
  <2> QED BY <1>1, <2>1, PlacesOrder
<1>5. CASE UNCHANGED vars
  BY <1>3, <1>4, <1>5 DEF vars
<1>6. ASSUME NEW current \in Inventories, observe_workspace(current) PROVE FALSE
  <2> DEFINE mid == drain(workspace, pending)
  <2>1. workspace' = drain(workspace, pending \o events(known, current))
    BY <1>6 DEF observe_workspace
  <2>2. Precedes(mid, v, u)
    BY <1>4, <2>1, PendingThenRefresh
  <2>3. Ahead(mid, u, v)
    <3>1. \A k \in DOMAIN pending : pending[k] # Removal(u) /\ pending[k] # Removal(v)
      BY DEF Staying
    <3>2. pending \in Seq(Events)
      BY DEF IInv
    <3> QED BY <1>1, <1>2, <3>1, <3>2, DrainKeeps
  <2>4. mid \in Seq(Toplevels) /\ Once(mid)
    BY DEF IInv, Mirrors, Once
  <2> HIDE DEF mid
  <2>5. u \in Ids(mid) /\ v \in Ids(mid) /\ ~Ahead(mid, v, u)
    BY <2>3, <2>4, AheadIsOrder
  <2> QED BY <2>2, <2>5 DEF Precedes
<1>7. ASSUME NEW current \in Inventories, observe_toplevel(current) PROVE FALSE
  <2> DEFINE queue == IF pending = << >> THEN events(known, current) ELSE pending
  <2>1. queue # << >> /\ workspace' = apply(workspace, Head(queue))
    BY <1>7 DEF observe_toplevel
  <2>2. queue \in Seq(Events)
    BY QueueFacts
  <2> HIDE DEF queue
  <2>3. Head(queue) \in Events
    BY <2>1, <2>2, HeadAndTail
  <2>4. Ahead(workspace, v, u) \/ u \notin Ids(workspace)
    BY <1>1, <1>4, <2>1, <2>3, ApplyKeeps
  <2> QED BY <1>1, <1>3, <2>4
<1> QED BY <1>5, <1>6, <1>7 DEF Next

\* Whatever is queued, mapping, unmapping and relabelling windows never swaps
\* two windows that stay.
THEOREM OrderIsKeptByEvents == Spec => OrderIsStable
<1>1. ASSUME IInv, IInv', [Next]_vars
      PROVE  [\A u, v \in Staying \cap Ids(workspace') :
                PositionOf(workspace, u) < PositionOf(workspace, v)
                  => PositionOf(workspace', u) < PositionOf(workspace', v)]_vars
  BY <1>1, OrderStep
<1> QED BY <1>1, IInvHolds, PTL DEF Spec, OrderIsStable

=============================================================================
