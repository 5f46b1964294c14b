----------------------------- MODULE PacketProofs -----------------------------
(***************************************************************************)
(* Proofs about packets: the context of a graph query, which is put         *)
(* together by a breadth-first search from its seeds, and the answer of     *)
(* several providers, which is put together from the packets of each.       *)
(***************************************************************************)
EXTENDS ReadingProofs

-----------------------------------------------------------------------------
(* Context packets.                                                        *)

\* The states of a context packet.
JoinStates ==
  [nodes : SUBSET Vertex, edges : SUBSET RowType, priority : Seq(Vertex), queue : Seq(Vertex \X Nat),
   reads : Nat, truncated : BOOLEAN]

\* The other end of a row, which v is when the row is a loop.
NextOf(r, v) == IF r.from = v THEN r.to ELSE r.from

\* What one row does to a packet: the entity behind it is there, joins, or does
\* not fit.
LEMMA JoinIs ==
  ASSUME NEW c \in JoinStates, NEW r \in RowType, NEW v \in Vertex, NEW level \in Nat
  PROVE  /\ Joins(c, r, v, level) \in JoinStates
         /\ Joins(c, r, v, level).edges = c.edges \cup {r}
         /\ Joins(c, r, v, level).reads = c.reads
         /\ \/ /\ NextOf(r, v) \in c.nodes /\ Joins(c, r, v, level).nodes = c.nodes
               /\ Joins(c, r, v, level).queue = c.queue /\ Joins(c, r, v, level).truncated = c.truncated
            \/ /\ NextOf(r, v) \notin c.nodes /\ Cardinality(c.nodes) < Asked.nodes
               /\ Joins(c, r, v, level).nodes = c.nodes \cup {NextOf(r, v)}
               /\ Joins(c, r, v, level).queue = Append(c.queue, <<NextOf(r, v), level + 1>>)
               /\ Joins(c, r, v, level).truncated = c.truncated
            \/ /\ Joins(c, r, v, level).nodes = c.nodes /\ Joins(c, r, v, level).queue = c.queue
               /\ Joins(c, r, v, level).truncated = TRUE
<1> DEFINE u == NextOf(r, v)
           edges == c.edges \cup {r}
           nodes == c.nodes \cup {u}
           priority == Append(c.priority, u)
           queue == Append(c.queue, <<u, level + 1>>)
           t == Joins(c, r, v, level)
           a == [c EXCEPT !.edges = edges]
           b == [c EXCEPT !.edges = edges, !.nodes = nodes, !.priority = priority, !.queue = queue]
           d == [c EXCEPT !.edges = edges, !.truncated = TRUE]
<1>1. /\ c.nodes \in SUBSET Vertex /\ c.edges \in SUBSET RowType /\ c.priority \in Seq(Vertex)
      /\ c.queue \in Seq(Vertex \X Nat) /\ c.reads \in Nat /\ c.truncated \in BOOLEAN
  BY DEF JoinStates
<1>2. u \in Vertex
  BY DEF NextOf, RowType
<1>3. t = IF u \in c.nodes THEN a ELSE IF Cardinality(c.nodes) < Asked.nodes THEN b ELSE d
  <2>1. /\ [a EXCEPT !.nodes = c.nodes \cup {u}, !.priority = Append(a.priority, u),
                     !.queue = Append(a.queue, <<u, level + 1>>)] = b
        /\ [a EXCEPT !.truncated = TRUE] = d /\ a.nodes = c.nodes
    BY DEF JoinStates
  <2> QED BY <2>1 DEF Joins, NextOf, JoinStates
<1>4. edges \in SUBSET RowType /\ nodes \in SUBSET Vertex /\ priority \in Seq(Vertex)
  <2>1. priority \in Seq(Vertex)
    <3> HIDE DEF u
    <3> QED BY <1>1, <1>2
  <2> QED BY <1>1, <1>2, <2>1
<1>5. queue \in Seq(Vertex \X Nat)
  <2> DEFINE A == Vertex \X Nat
             x == <<u, level + 1>>
  <2>1. x \in A /\ c.queue \in Seq(A)
    BY <1>1, <1>2
  <2> HIDE DEF A, x
  <2>2. Append(c.queue, x) \in Seq(A)
    BY <2>1
  <2> QED BY <2>2 DEF A, x
<1>6. queue = Append(c.queue, <<u, level + 1>>) /\ nodes = c.nodes \cup {u} /\ edges = c.edges \cup {r}
  OBVIOUS
<1> HIDE DEF t, edges, nodes, priority, queue, u
<1>7. /\ a \in JoinStates /\ a.edges = edges /\ a.reads = c.reads /\ a.nodes = c.nodes
      /\ a.queue = c.queue /\ a.truncated = c.truncated
  BY <1>4 DEF JoinStates
<1>8. /\ b \in JoinStates /\ b.edges = edges /\ b.reads = c.reads /\ b.nodes = nodes
      /\ b.queue = queue /\ b.truncated = c.truncated
  BY <1>4, <1>5 DEF JoinStates
<1>9. /\ d \in JoinStates /\ d.edges = edges /\ d.reads = c.reads /\ d.nodes = c.nodes
      /\ d.queue = c.queue /\ d.truncated = TRUE
  BY <1>4 DEF JoinStates
<1> HIDE DEF a, b, d
<1>10. /\ t \in JoinStates /\ t.edges = edges /\ t.reads = c.reads
       /\ \/ u \in c.nodes /\ t.nodes = c.nodes /\ t.queue = c.queue /\ t.truncated = c.truncated
          \/ /\ u \notin c.nodes /\ Cardinality(c.nodes) < Asked.nodes /\ t.nodes = nodes /\ t.queue = queue
             /\ t.truncated = c.truncated
          \/ t.nodes = c.nodes /\ t.queue = c.queue /\ t.truncated = TRUE
  BY <1>3, <1>7, <1>8, <1>9
<1> QED BY <1>6, <1>10 DEF t, u

\* An expansion: all its rows, one after the other.
JoinAll(c, v, level, rows) == FoldLeft(LAMBDA d, r : Joins(d, r, v, level), c, rows)
JoinSteps(T, v, level, rows) == [x \in T \X (1 .. Len(rows)) |-> Joins(x[1], rows[x[2]], v, level)]

\* It is a chain of such steps.
LEMMA Joining ==
  ASSUME NEW start, NEW v, NEW level, NEW R, NEW rows \in Seq(R), NEW T, start \in T,
         \A t \in T, r \in R : Joins(t, r, v, level) \in T
  PROVE  \E h : /\ Chain(h, JoinSteps(T, v, level, rows), start, Len(rows), T)
                /\ JoinAll(start, v, level, rows) = h[Len(rows)]
<1> DEFINE m == Len(rows)
           J(t, r) == Joins(t, r, v, level)
           G == [x \in T \X (1 .. m) |-> J(x[1], rows[x[2]])]
           Rec(f) == f = [s \in SUBSET DOMAIN rows |->
                            IF s = {} THEN start ELSE J(f[s \ {Max(s)}], rows[Max(s)])]
           f == CHOOSE f : Rec(f)
<1>1. m \in Nat /\ DOMAIN rows = 1 .. m /\ \A i \in 1 .. m : rows[i] \in R
  OBVIOUS
<1>2. JoinAll(start, v, level, rows) = f[DOMAIN rows]
  BY DEF JoinAll, FoldLeft, MapThenFoldSet
<1>0. \A t \in T, r \in R : J(t, r) \in T
  OBVIOUS
<1>b. G = JoinSteps(T, v, level, rows)
  BY DEF JoinSteps
<1> HIDE DEF J
<1>3. G \in FoldSteps(T, m)
  BY <1>0, <1>1 DEF FoldSteps
<1> HIDE DEF m
<1>4. \A t \in T, i \in 1 .. m : G[<<t, i>>] = J(t, rows[i])
  OBVIOUS
<1> HIDE DEF G
<1>5. \E g : Rec(g)
  <2>0. PICK g : IsFold(g, G, start, m, T)
    BY <1>1, <1>3, FoldExists
  <2>1. g \in [SUBSET (1 .. m) -> T] /\ \A s \in SUBSET (1 .. m) : g[s] = Round(g, G, start, s)
    BY <2>0 DEF IsFold
  <2>2. ASSUME NEW s \in SUBSET (1 .. m), s # {}
        PROVE  G[<<g[s \ {Max(s)}], Max(s)>>] = J(g[s \ {Max(s)}], rows[Max(s)])
    <3>1. Max(s) \in s
      BY <1>1, <2>2, GreatestIndex
    <3>2. g[s \ {Max(s)}] \in T /\ Max(s) \in 1 .. m
      BY <3>1, <2>1
    <3> QED BY <3>2, <1>4
  <2>3. \A s \in SUBSET (1 .. m) : g[s] = IF s = {} THEN start ELSE J(g[s \ {Max(s)}], rows[Max(s)])
    BY <2>1, <2>2 DEF Round
  <2>4. g = [s \in SUBSET (1 .. m) |-> g[s]]
    BY <2>1
  <2> QED BY <1>1, <2>3, <2>4
<1>6. Rec(f)
  BY <1>5
<1> HIDE DEF f
<1>7. \A s \in SUBSET (1 .. m) : f[s] = IF s = {} THEN start ELSE J(f[s \ {Max(s)}], rows[Max(s)])
  BY <1>1, <1>6
<1>8. ASSUME NEW s \in SUBSET (1 .. m), s # {}, f[s \ {Max(s)}] \in T
      PROVE  f[s] = G[<<f[s \ {Max(s)}], Max(s)>>]
  <2>1. Max(s) \in 1 .. m
    BY <1>1, <1>8, GreatestIndex
  <2> QED BY <1>4, <1>7, <1>8, <2>1
<1>9. f[{}] = start
  BY <1>7
<1>a. FoldFollows(f, G, start, m, T)
  BY <1>8, <1>9 DEF FoldFollows
<1>10. \E h : Chain(h, G, start, m, T) /\ h[m] = f[1 .. m]
  BY <1>1, <1>3, <1>a, FoldChain
<1> QED BY <1>1, <1>2, <1>10, <1>b DEF m

\* What an expansion reads: rows of v, all of them unless there are too many.
AdjacentFine(page, R, limit) ==
  /\ page \in Seq(R) /\ Len(page) <= limit
  /\ Len(page) < limit => \A r \in R : \E i \in 1 .. Len(page) : page[i] = r

\* The order of the rows of v, by neighbour and then by row.
BesideBefore(v, R) ==
  {p \in R \X R : \/ NextOf(p[1], v) < NextOf(p[2], v)
                  \/ NextOf(p[1], v) = NextOf(p[2], v) /\ p[1].id < p[2].id}

\* It is an order, on any rows that are numbered.
LEMMA BesideSorts ==
  ASSUME NEW R, NumberedRows(R), R \subseteq RowType, NEW v
  PROVE  Sorts(BesideBefore(v, R), R)
<1> DEFINE B == BesideBefore(v, R)
           N(r) == NextOf(r, v)
<1>1. \A r \in R : N(r) \in Nat /\ r.id \in Nat
  BY ReadingAssumption DEF NextOf, RowType
<1>2. \A r, s \in R : r.id = s.id => r = s
  BY DEF NumberedRows
<1>3. \A r, s \in R : <<r, s>> \in B <=> N(r) < N(s) \/ (N(r) = N(s) /\ r.id < s.id)
  BY DEF BesideBefore
<1> HIDE DEF N, B
<1>4. \A x \in R : <<x, x>> \notin B
  BY <1>1, <1>3
<1>5. ASSUME NEW x \in R, NEW y \in R, x # y PROVE <<x, y>> \in B \/ <<y, x>> \in B
  <2>1. x.id # y.id
    BY <1>2, <1>5
  <2> QED BY <1>1, <1>3, <2>1
<1>6. ASSUME NEW x \in R, NEW y \in R, NEW z \in R, <<x, y>> \in B, <<y, z>> \in B PROVE <<x, z>> \in B
  <2>1. N(x) \in Nat /\ N(y) \in Nat /\ N(z) \in Nat /\ x.id \in Nat /\ y.id \in Nat /\ z.id \in Nat
    BY <1>1
  <2>2. /\ N(x) < N(y) \/ (N(x) = N(y) /\ x.id < y.id)
        /\ N(y) < N(z) \/ (N(y) = N(z) /\ y.id < z.id)
    BY <1>3, <1>6
  <2>3. N(x) < N(z) \/ (N(x) = N(z) /\ x.id < z.id)
    BY <2>1, <2>2
  <2> QED BY <1>3, <2>3
<1> QED BY <1>4, <1>5, <1>6 DEF Sorts, B

\* Adjacent reads such rows.
LEMMA AdjacentIs ==
  ASSUME NEW g, GraphFine(g), NEW v, NEW limit \in Nat
  PROVE  AdjacentFine(Adjacent(g, v, limit), {r \in g.rows : v \in {r.from, r.to}}, limit)
<1> DEFINE R == {r \in g.rows : v \in {r.from, r.to}}
           B == BesideBefore(v, R)
           L(r, s) == NextOf(r, v) < NextOf(s, v) \/ (NextOf(r, v) = NextOf(s, v) /\ r.id < s.id)
           o == [k \in 1 .. Cardinality(R) |-> CHOOSE x \in R : Cardinality({y \in R : L(y, x)}) = k - 1]
           n == Len(o)
           m == IF n < limit THEN n ELSE limit
           s == SubSeq(o, 1, m)
<1>1. NumberedRows(R) /\ R \subseteq RowType /\ IsFiniteSet(R)
  <2>1. R \subseteq g.rows /\ NumberedRows(g.rows) /\ g.rows \subseteq RowType /\ IsFiniteSet(g.rows)
    BY DEF GraphFine
  <2> HIDE DEF R
  <2> QED BY <2>1, FewerAreNumbered, FS_Subset
<1>2. Adjacent(g, v, limit) = s
  BY DEF Adjacent, Ranked, NextOf
<1> HIDE DEF R
<1>3. o = RankedBy(R, B)
  <2>1. ASSUME NEW x \in R PROVE {y \in R : L(y, x)} = Below(x, R, B)
    BY DEF Below, BesideBefore
  <2> HIDE DEF L, B
  <2> DEFINE F(k) == CHOOSE x \in R : Cardinality({y \in R : L(y, x)}) = k - 1
             H(k) == CHOOSE x \in R : Cardinality(Below(x, R, B)) = k - 1
  <2>2. ASSUME NEW k \in 1 .. Cardinality(R) PROVE F(k) = H(k)
    <3> DEFINE Q(x) == Cardinality({y \in R : L(y, x)}) = k - 1
               T(x) == Cardinality(Below(x, R, B)) = k - 1
    <3>1. \A x \in R : Q(x) <=> T(x)
      BY <2>1
    <3> HIDE DEF Q, T
    <3>3. (CHOOSE x \in R : Q(x)) = (CHOOSE x \in R : T(x))
      BY <3>1
    <3> QED BY <3>3 DEF Q, T
  <2>3. o = [k \in 1 .. Cardinality(R) |-> F(k)] /\ RankedBy(R, B) = [k \in 1 .. Cardinality(R) |-> H(k)]
    BY DEF RankedBy
  <2> HIDE DEF o, F, H
  <2> QED BY <2>2, <2>3
<1> HIDE DEF o
<1>4. Sorts(B, R)
  BY <1>1, BesideSorts
<1> HIDE DEF B
<1>5. /\ o \in Seq(R) /\ \A x \in R : \E i \in 1 .. n : o[i] = x
  <2> DEFINE c == Cardinality(R)
             w == RankedBy(R, B)
  <2>1. /\ c \in Nat /\ w \in Seq(R) /\ Len(w) = c
        /\ \A x \in R : Cardinality(Below(x, R, B)) + 1 \in 1 .. c /\ w[Cardinality(Below(x, R, B)) + 1] = x
    BY <1>1, <1>4, RankedFacts
  <2> QED BY <1>3, <2>1
<1>6. n \in Nat /\ \A i \in 1 .. n : o[i] \in R
  BY <1>5
<1> HIDE DEF n
<1>7. m \in Nat /\ m <= n /\ m <= limit /\ (m < limit => m = n)
  BY <1>6
<1> HIDE DEF m
<1>8. \A i \in 1 .. m : o[i] \in R
  BY <1>6, <1>7
<1>9. s \in Seq(R) /\ Len(s) = m /\ \A i \in 1 .. m : s[i] = o[i]
  BY <1>5, <1>7, <1>8, SubSeqProperties DEF n
<1> HIDE DEF s
<1>10. AdjacentFine(s, R, limit)
  BY <1>5, <1>7, <1>9 DEF AdjacentFine
<1> QED BY <1>2, <1>10 DEF R

\* A packet holds entities and rows of its build, no more than were asked for.
PacketBounded(c, g, n) == c.nodes \subseteq g.nodes /\ Cardinality(c.nodes) <= n /\ c.edges \subseteq g.rows

\* Nothing in it, and nothing that waits, is out of reach.
PacketNear(c, rows, S, hops) ==
  /\ c.nodes \subseteq Within(rows, S, hops)
  /\ \A i \in DOMAIN c.queue : c.queue[i][2] <= hops /\ c.queue[i][1] \in Within(rows, S, c.queue[i][2])

\* What was expanded has all its rows in the packet.
EdgesFine(nodes, queue, edges, rows, S, open, hops) ==
  \A w \in nodes : \/ \E i \in DOMAIN queue : queue[i][1] = w
                   \/ \E o \in open : o[1] = w
                   \/ \A k \in Nat : AtDist(rows, S, w, k) /\ k < hops =>
                        \A r \in rows : w \in {r.from, r.to} => r \in edges

\* A packet that left nothing out.
PacketWhole(c, rows, S, open, hops) ==
  /\ Frontier(rows, S, c.nodes, c.queue, open, hops)
  /\ EdgesFine(c.nodes, c.queue, c.edges, rows, S, open, hops)

\* A packet while v is expanded, after k of its rows.
Joined(t, v, level, g, S, n, hops, near, page, k) ==
  /\ PacketBounded(t, g, n)
  /\ near => PacketNear(t, g.rows, S, hops)
  /\ near /\ ~ t.truncated =>
       /\ PacketWhole(t, g.rows, S, {<<v, level>>}, hops)
       /\ \A j \in 1 .. k : page[j] \in t.edges /\ NextOf(page[j], v) \in t.nodes

\* A longer queue.
LEMMA LongerQueue ==
  ASSUME NEW A, NEW queue \in Seq(A), NEW x \in A
  PROVE  /\ DOMAIN queue = 1 .. Len(queue) /\ Len(queue) \in Nat
         /\ DOMAIN Append(queue, x) = 1 .. Len(queue) + 1 /\ Append(queue, x)[Len(queue) + 1] = x
         /\ \A i \in 1 .. Len(queue) : Append(queue, x)[i] = queue[i]
OBVIOUS

\* One row of an expansion.
LEMMA JoinsOne ==
  ASSUME NEW t \in JoinStates, NEW g, GraphFine(g), NEW v \in Vertex, NEW level \in Nat, NEW hops \in Nat,
         level < hops, NEW n \in Nat, n = Asked.nodes, NEW S, NEW near \in BOOLEAN,
         near => v \in Within(g.rows, S, level), NEW page, NEW k \in Nat \ {0},
         page[k] \in g.rows, v \in {page[k].from, page[k].to},
         Joined(t, v, level, g, S, n, hops, near, page, k - 1)
  PROVE  /\ Joins(t, page[k], v, level) \in JoinStates /\ Joins(t, page[k], v, level).reads = t.reads
         /\ t.truncated => Joins(t, page[k], v, level).truncated
         /\ Joined(Joins(t, page[k], v, level), v, level, g, S, n, hops, near, page, k)
<1> DEFINE r == page[k]
           u == NextOf(r, v)
           d == Joins(t, r, v, level)
           rows == g.rows
           e == <<u, level + 1>>
           open == {<<v, level>>}
<1>1. r \in RowType /\ r \in rows /\ v \in {r.from, r.to} /\ u \in {r.from, r.to} /\ u \in g.nodes /\ u \in Vertex
  BY DEF GraphFine, NextOf
<1>2. /\ d \in JoinStates /\ d.edges = t.edges \cup {r} /\ d.reads = t.reads
      /\ \/ u \in t.nodes /\ d.nodes = t.nodes /\ d.queue = t.queue /\ d.truncated = t.truncated
         \/ /\ u \notin t.nodes /\ Cardinality(t.nodes) < n /\ d.nodes = t.nodes \cup {u}
            /\ d.queue = Append(t.queue, e) /\ d.truncated = t.truncated
         \/ d.nodes = t.nodes /\ d.queue = t.queue /\ d.truncated = TRUE
  <2> HIDE DEF r
  <2>1. r \in RowType
    BY <1>1
  <2>2. /\ Joins(t, r, v, level) \in JoinStates
        /\ Joins(t, r, v, level).edges = t.edges \cup {r}
        /\ Joins(t, r, v, level).reads = t.reads
        /\ \/ /\ NextOf(r, v) \in t.nodes /\ Joins(t, r, v, level).nodes = t.nodes
              /\ Joins(t, r, v, level).queue = t.queue /\ Joins(t, r, v, level).truncated = t.truncated
           \/ /\ NextOf(r, v) \notin t.nodes /\ Cardinality(t.nodes) < Asked.nodes
              /\ Joins(t, r, v, level).nodes = t.nodes \cup {NextOf(r, v)}
              /\ Joins(t, r, v, level).queue = Append(t.queue, <<NextOf(r, v), level + 1>>)
              /\ Joins(t, r, v, level).truncated = t.truncated
           \/ /\ Joins(t, r, v, level).nodes = t.nodes /\ Joins(t, r, v, level).queue = t.queue
              /\ Joins(t, r, v, level).truncated = TRUE
    BY <2>1, JoinIs
  <2> QED BY <2>2
<1>3. /\ PacketBounded(t, g, n) /\ (near => PacketNear(t, rows, S, hops))
      /\ near /\ ~ t.truncated =>
           /\ PacketWhole(t, rows, S, open, hops)
           /\ \A j \in 1 .. k - 1 : page[j] \in t.edges /\ NextOf(page[j], v) \in t.nodes
  BY DEF Joined
<1>4. \A j \in 1 .. k : j = k \/ j \in 1 .. k - 1
  OBVIOUS
<1>5. page[k] = r /\ NextOf(page[k], v) = u
  OBVIOUS
<1> HIDE DEF r, u, d
<1>6. d.edges \subseteq rows /\ r \in d.edges /\ t.edges \subseteq d.edges
  BY <1>1, <1>2, <1>3 DEF PacketBounded
<1>7. CASE u \in t.nodes /\ d.nodes = t.nodes /\ d.queue = t.queue /\ d.truncated = t.truncated
  <2>1. PacketBounded(d, g, n)
    BY <1>3, <1>6, <1>7 DEF PacketBounded
  <2>2. near => PacketNear(d, rows, S, hops)
    BY <1>3, <1>7 DEF PacketNear
  <2>3. near /\ ~ d.truncated => PacketWhole(d, rows, S, open, hops)
    <3> SUFFICES ASSUME near, ~ d.truncated PROVE PacketWhole(d, rows, S, open, hops)
      OBVIOUS
    <3>1. /\ Frontier(rows, S, t.nodes, t.queue, open, hops)
          /\ EdgesFine(t.nodes, t.queue, t.edges, rows, S, open, hops)
      BY <1>3, <1>7 DEF PacketWhole
    <3>2. EdgesFine(t.nodes, t.queue, d.edges, rows, S, open, hops)
      <4> HIDE DEF open, rows
      <4> QED BY <1>6, <3>1 DEF EdgesFine
    <3> QED BY <1>7, <3>1, <3>2 DEF PacketWhole
  <2>4. near /\ ~ d.truncated => \A j \in 1 .. k : page[j] \in d.edges /\ NextOf(page[j], v) \in d.nodes
    BY <1>3, <1>4, <1>5, <1>6, <1>7
  <2> QED BY <1>2, <2>1, <2>2, <2>3, <2>4 DEF Joined, d, r
<1>8. CASE /\ u \notin t.nodes /\ Cardinality(t.nodes) < n /\ d.nodes = t.nodes \cup {u}
           /\ d.queue = Append(t.queue, e) /\ d.truncated = t.truncated
  <2>0. e[1] = u /\ e[2] = level + 1 /\ e \in Vertex \X Nat /\ t.queue \in Seq(Vertex \X Nat)
    BY <1>1 DEF JoinStates
  <2> DEFINE len == Len(t.queue)
             q == Append(t.queue, e)
  <2>00. /\ DOMAIN t.queue = 1 .. len /\ len \in Nat /\ DOMAIN q = 1 .. len + 1 /\ q[len + 1] = e
         /\ \A i \in 1 .. len : q[i] = t.queue[i]
    <3> DEFINE A == Vertex \X Nat
    <3>1. t.queue \in Seq(A) /\ e \in A
      BY <2>0
    <3> HIDE DEF A, e
    <3> QED BY <3>1, LongerQueue
  <2>01. \A i \in DOMAIN q : i = len + 1 \/ i \in 1 .. len
    BY <2>00
  <2> HIDE DEF e
  <2>02. d.queue = q
    BY <1>8
  <2> HIDE DEF q, len
  <2>1. PacketBounded(d, g, n)
    <3> DEFINE N == t.nodes
    <3>1. IsFiniteSet(N)
      BY <1>3, FS_Subset DEF PacketBounded, GraphFine
    <3>2. u \notin N /\ d.nodes = N \cup {u} /\ Cardinality(N) < n
      BY <1>8
    <3> HIDE DEF N
    <3>3. Cardinality(N \cup {u}) = Cardinality(N) + 1 /\ Cardinality(N) \in Nat
      BY <3>1, <3>2, FS_AddElement, FS_CardinalityType
    <3>4. Cardinality(d.nodes) <= n
      BY <3>2, <3>3
    <3> QED BY <1>1, <1>3, <1>6, <3>2, <3>4 DEF PacketBounded, N
  <2>2. near => PacketNear(d, rows, S, hops)
    <3> SUFFICES ASSUME near PROVE PacketNear(d, rows, S, hops)
      OBVIOUS
    <3>1. PacketNear(t, rows, S, hops) /\ v \in Within(rows, S, level)
      BY <1>3
    <3>2. u \in Within(rows, S, level + 1)
      <4> HIDE DEF rows
      <4>1. CASE u = v
        <5>1. level + 1 \in Nat /\ level <= level + 1
          OBVIOUS
        <5>2. Within(rows, S, level) \subseteq Within(rows, S, level + 1)
          BY <5>1, WithinGrows
        <5> QED BY <3>1, <4>1, <5>2
      <4>2. CASE u # v
        <5>1. u \in Beside(rows, v)
          BY <1>1, <4>2, BesideRows
        <5> QED BY <3>1, <5>1, OneFurther
      <4> QED BY <4>1, <4>2
    <3>3. level + 1 \in Nat /\ level + 1 <= hops
      OBVIOUS
    <3>4. Within(rows, S, level + 1) \subseteq Within(rows, S, hops)
      <4> HIDE DEF rows
      <4> QED BY <3>3, WithinGrows
    <3>5. ASSUME NEW i \in DOMAIN q PROVE q[i][2] <= hops /\ q[i][1] \in Within(rows, S, q[i][2])
      <4>1. CASE i = len + 1
        BY <2>0, <2>00, <3>2, <3>3, <4>1
      <4>2. CASE i \in 1 .. len
        BY <2>00, <3>1, <4>2 DEF PacketNear
      <4> QED BY <2>01, <4>1, <4>2
    <3>6. d.nodes \subseteq Within(rows, S, hops)
      BY <1>8, <3>1, <3>2, <3>4 DEF PacketNear
    <3> QED BY <2>02, <3>5, <3>6 DEF PacketNear
  <2>3. near /\ ~ d.truncated => PacketWhole(d, rows, S, open, hops)
    <3> SUFFICES ASSUME near, ~ d.truncated PROVE PacketWhole(d, rows, S, open, hops)
      OBVIOUS
    <3> DEFINE N == t.nodes
               Q == t.queue
    <3>1. /\ Frontier(rows, S, N, Q, open, hops)
          /\ EdgesFine(N, Q, t.edges, rows, S, open, hops)
      BY <1>3, <1>8 DEF PacketWhole
    <3>2. u \notin N /\ d.nodes = N \cup {u} /\ q = Append(Q, <<u, level + 1>>)
      BY <1>8 DEF q, e
    <3> HIDE DEF N, Q, rows
    <3>3. Within(rows, S, level) \subseteq N /\ v \in N /\ AtDist(rows, S, v, level)
      <4>1. level <= hops
        OBVIOUS
      <4> QED BY <3>1, <4>1, OpenIsNearest DEF open
    <3>4. u # v /\ u \notin Within(rows, S, level)
      BY <3>2, <3>3
    <3>5. u \in Beside(rows, v)
      BY <1>1, <3>4, BesideRows
    <3>6. AtDist(rows, S, u, level + 1)
      BY <3>3, <3>4, <3>5, NextDistance
    <3>7. Frontier(rows, S, N \cup {u}, q, open, hops)
      BY <3>1, <3>2, <3>6, FrontierGrows DEF open
    <3>8. EdgesFine(N \cup {u}, q, d.edges, rows, S, open, hops)
      <4> SUFFICES ASSUME NEW w \in N \cup {u}
                   PROVE  \/ \E i \in DOMAIN q : q[i][1] = w
                          \/ \E o \in open : o[1] = w
                          \/ \A j \in Nat : AtDist(rows, S, w, j) /\ j < hops =>
                               \A x \in rows : w \in {x.from, x.to} => x \in d.edges
        BY DEF EdgesFine
      <4>1. CASE w = u
        <5>1. len + 1 \in DOMAIN q /\ q[len + 1][1] = u
          BY <2>0, <2>00
        <5> QED BY <4>1, <5>1
      <4>2. CASE w \in N
        <5>1. \/ \E i \in DOMAIN Q : Q[i][1] = w
              \/ \E o \in open : o[1] = w
              \/ \A j \in Nat : AtDist(rows, S, w, j) /\ j < hops =>
                   \A x \in rows : w \in {x.from, x.to} => x \in t.edges
          BY <3>1, <4>2 DEF EdgesFine
        <5>2. ASSUME NEW i \in DOMAIN Q, Q[i][1] = w PROVE \E j \in DOMAIN q : q[j][1] = w
          <6>1. i \in 1 .. len /\ i \in DOMAIN q /\ q[i] = Q[i]
            BY <2>00 DEF Q
          <6> QED BY <5>2, <6>1
        <5> QED BY <1>6, <5>1, <5>2
      <4> QED BY <4>1, <4>2
    <3> QED BY <2>02, <3>2, <3>7, <3>8 DEF PacketWhole
  <2>4. near /\ ~ d.truncated => \A j \in 1 .. k : page[j] \in d.edges /\ NextOf(page[j], v) \in d.nodes
    BY <1>3, <1>4, <1>5, <1>6, <1>8
  <2> QED BY <1>2, <2>1, <2>2, <2>3, <2>4 DEF Joined, d, r
<1>9. CASE d.nodes = t.nodes /\ d.queue = t.queue /\ d.truncated = TRUE
  <2>1. PacketBounded(d, g, n)
    BY <1>3, <1>6, <1>9 DEF PacketBounded
  <2>2. near => PacketNear(d, rows, S, hops)
    BY <1>3, <1>9 DEF PacketNear
  <2> QED BY <1>2, <1>9, <2>1, <2>2 DEF Joined, d, r
<1> QED BY <1>2, <1>7, <1>8, <1>9

\* All its rows.
LEMMA JoinsAll ==
  ASSUME NEW c \in JoinStates, NEW g, GraphFine(g), NEW v \in Vertex, NEW level \in Nat, NEW hops \in Nat,
         level < hops, NEW n \in Nat, n = Asked.nodes, NEW S, NEW near \in BOOLEAN,
         near => v \in Within(g.rows, S, level), NEW R, R \subseteq g.rows, NEW page \in Seq(R),
         \A r \in R : v \in {r.from, r.to},
         Joined(c, v, level, g, S, n, hops, near, page, 0)
  PROVE  /\ JoinAll(c, v, level, page) \in JoinStates /\ JoinAll(c, v, level, page).reads = c.reads
         /\ c.truncated => JoinAll(c, v, level, page).truncated
         /\ Joined(JoinAll(c, v, level, page), v, level, g, S, n, hops, near, page, Len(page))
<1> DEFINE T == JoinStates
           m == Len(page)
           G == JoinSteps(T, v, level, page)
           Good(i, t) == t.reads = c.reads /\ (c.truncated => t.truncated) /\ Joined(t, v, level, g, S, n, hops, near, page, i)
           I == {x \in (0 .. m) \X T : Good(x[1], x[2])}
<1>1. m \in Nat /\ \A i \in 1 .. m : page[i] \in R
  OBVIOUS
<1>2. \A t \in T, r \in R : Joins(t, r, v, level) \in T
  <2>1. R \subseteq RowType
    BY DEF GraphFine
  <2> QED BY <2>1, JoinIs
<1>3. c \in T
  OBVIOUS
<1>4. PICK h : Chain(h, G, c, m, T) /\ JoinAll(c, v, level, page) = h[m]
  <2> HIDE DEF T
  <2> QED BY <1>2, <1>3, Joining
<1>5. \A t \in T, i \in 1 .. m : G[<<t, i>>] = Joins(t, page[i], v, level)
  <2> HIDE DEF T
  <2> QED BY DEF JoinSteps
<1> HIDE DEF G
<1>6. <<0, c>> \in I
  <2>1. Good(0, c)
    OBVIOUS
  <2> HIDE DEF Good, T
  <2> QED BY <1>1, <1>3, <2>1
<1>7. ASSUME NEW k \in 1 .. m, NEW t \in T, <<k - 1, t>> \in I PROVE <<k, G[<<t, k>>]>> \in I
  <2>1. Good(k - 1, t)
    <3> HIDE DEF Good
    <3> QED BY <1>7
  <2>2. page[k] \in g.rows /\ v \in {page[k].from, page[k].to} /\ k \in Nat \ {0}
    BY <1>1
  <2>3. Joins(t, page[k], v, level) \in T /\ Good(k, Joins(t, page[k], v, level))
    BY <2>1, <2>2, JoinsOne
  <2> HIDE DEF Good, T
  <2> QED BY <1>5, <2>3
<1>8. h[m] \in T /\ <<m, h[m]>> \in I
  <2>1. \A k \in 0 .. m : h[k] \in T /\ <<k, h[k]>> \in I
    <3>1. Carries(I, G, m, T)
      <4> HIDE DEF I, T, m
      <4> QED BY <1>7 DEF Carries
    <3> HIDE DEF I, T, m
    <3> QED BY <1>1, <1>4, <1>6, <3>1, ChainHolds
  <2>2. m \in 0 .. m
    BY <1>1
  <2> HIDE DEF I, T, m
  <2> QED BY <2>1, <2>2
<1>9. Good(m, h[m])
  <2> HIDE DEF Good, T
  <2> QED BY <1>8
<1> QED BY <1>4, <1>8, <1>9

\* A packet that is made, whenever it is looked at.
PacketFine(c, g, S, n, hops, near) ==
  /\ c.reads \in 0 .. EdgeCap
  /\ PacketBounded(c, g, n)
  /\ near => PacketNear(c, g.rows, S, hops)
  /\ near /\ ~ c.truncated => PacketWhole(c, g.rows, S, {}, hops)

\* The first that waits is taken.
LEMMA EdgesPop ==
  ASSUME NEW nodes, NEW A, NEW queue \in Seq(A), queue # <<>>, NEW edges, NEW rows, NEW S, NEW hops,
         EdgesFine(nodes, queue, edges, rows, S, {}, hops)
  PROVE  EdgesFine(nodes, Tail(queue), edges, rows, S, {Head(queue)}, hops)
<1> DEFINE q == Tail(queue)
           o == Head(queue)
           n == Len(queue)
<1>1. /\ n \in Nat \ {0} /\ DOMAIN queue = 1 .. n /\ DOMAIN q = 1 .. n - 1
      /\ o = queue[1] /\ \A i \in 1 .. n - 1 : q[i] = queue[i + 1]
  OBVIOUS
<1> HIDE DEF q, o, n
<1>2. ASSUME NEW w \in nodes
      PROVE  \/ \E i \in DOMAIN q : q[i][1] = w
             \/ \E x \in {o} : x[1] = w
             \/ \A k \in Nat : AtDist(rows, S, w, k) /\ k < hops => \A r \in rows : w \in {r.from, r.to} => r \in edges
  <2>1. \/ \E i \in DOMAIN queue : queue[i][1] = w
        \/ \A k \in Nat : AtDist(rows, S, w, k) /\ k < hops => \A r \in rows : w \in {r.from, r.to} => r \in edges
    BY DEF EdgesFine
  <2>2. ASSUME NEW i \in DOMAIN queue, queue[i][1] = w, i # 1 PROVE \E j \in DOMAIN q : q[j][1] = w
    <3>1. i - 1 \in DOMAIN q /\ (i - 1) + 1 = i
      BY <1>1, <2>2
    <3>2. q[i - 1] = queue[i]
      BY <1>1, <3>1
    <3> QED BY <2>2, <3>1, <3>2
  <2> QED BY <1>1, <2>1, <2>2
<1> QED BY <1>2 DEF EdgesFine, q, o

\* It is expanded, or as far as the packet goes.
LEMMA EdgesClose ==
  ASSUME NEW nodes, NEW queue, NEW edges, NEW rows, NEW S, NEW hops, NEW v, NEW d \in Nat,
         AtDist(rows, S, v, d), EdgesFine(nodes, queue, edges, rows, S, {<<v, d>>}, hops),
         d < hops => \A r \in rows : v \in {r.from, r.to} => r \in edges
  PROVE  EdgesFine(nodes, queue, edges, rows, S, {}, hops)
<1>1. ASSUME NEW w \in nodes
      PROVE  \/ \E i \in DOMAIN queue : queue[i][1] = w
             \/ \A k \in Nat : AtDist(rows, S, w, k) /\ k < hops => \A r \in rows : w \in {r.from, r.to} => r \in edges
  <2>1. ASSUME w = v, NEW k \in Nat, AtDist(rows, S, w, k), k < hops
        PROVE  \A r \in rows : w \in {r.from, r.to} => r \in edges
    <3>1. k = d
      BY <2>1, OneDistance
    <3> QED BY <2>1, <3>1
  <2>2. \A x \in {<<v, d>>} : x[1] = v
    OBVIOUS
  <2>3. \/ \E i \in DOMAIN queue : queue[i][1] = w
        \/ \E x \in {<<v, d>>} : x[1] = w
        \/ \A k \in Nat : AtDist(rows, S, w, k) /\ k < hops => \A r \in rows : w \in {r.from, r.to} => r \in edges
    BY DEF EdgesFine
  <2> QED BY <2>1, <2>2, <2>3
<1> QED BY <1>1 DEF EdgesFine

\* An expansion in parts: what is taken, read, kept and charged for.
Popped(c) == [c EXCEPT !.queue = Tail(@)]
Remaining(c) == EdgeCap - c.reads
RowsOf(c) == Adjacent(PinnedGraph, Head(c.queue)[1], Remaining(c) + 1)
KeptOf(c) == SubSeq(RowsOf(c), 1, IF Len(RowsOf(c)) < Remaining(c) THEN Len(RowsOf(c)) ELSE Remaining(c))
Charged(c) == [Popped(c) EXCEPT !.truncated = Saturated(c, RowsOf(c), Remaining(c)), !.reads = @ + Len(KeptOf(c))]
CutShort(c) == [Popped(c) EXCEPT !.queue = <<>>, !.truncated = TRUE]
Expanded(c) ==
  IF Head(c.queue)[2] >= Asked.depth THEN Popped(c)
  ELSE IF Remaining(c) = 0 THEN CutShort(c)
  ELSE JoinAll(Charged(c), Head(c.queue)[1], Head(c.queue)[2], KeptOf(c))

\* It is what Expand does.
LEMMA ExpandIs ==
  ASSUME Readable, Expand
  PROVE  /\ read' = [read EXCEPT !.context = Expanded(read.context)] /\ read.context.queue # <<>>
         /\ At("expand", "context") /\ UNCHANGED <<content, published, pointer>>
BY DEF Expand, Expanded, Popped, Remaining, RowsOf, KeptOf, Charged, CutShort, JoinAll

\* What is kept of the rows of an entity: all of them, or the packet says so.
LEMMA KeptIs ==
  ASSUME NEW c \in JoinStates, c.reads \in 0 .. EdgeCap, GraphFine(PinnedGraph)
  PROVE  LET R == {r \in PinnedGraph.rows : Head(c.queue)[1] \in {r.from, r.to}}
         IN  /\ KeptOf(c) \in Seq(R) /\ Len(KeptOf(c)) \in Nat /\ Len(KeptOf(c)) <= Remaining(c)
             /\ Remaining(c) \in Nat /\ Saturated(c, RowsOf(c), Remaining(c)) \in BOOLEAN
             /\ ~ Saturated(c, RowsOf(c), Remaining(c)) =>
                  ~ c.truncated /\ \A r \in R : \E i \in 1 .. Len(KeptOf(c)) : KeptOf(c)[i] = r
<1> DEFINE g == PinnedGraph
           v == Head(c.queue)[1]
           R == {r \in g.rows : v \in {r.from, r.to}}
           rem == Remaining(c)
           rows == RowsOf(c)
           n == Len(rows)
           m == IF n < rem THEN n ELSE rem
           kept == SubSeq(rows, 1, m)
<1>1. rem \in Nat /\ EdgeCap \in Nat /\ rem + 1 \in Nat
  BY ReadingAssumption DEF Remaining
<1>2. AdjacentFine(rows, R, rem + 1)
  <2>1. rows = Adjacent(g, v, rem + 1) /\ GraphFine(g)
    BY DEF RowsOf
  <2> HIDE DEF rows, g, v, rem
  <2> QED BY <1>1, <2>1, AdjacentIs
<1>3. kept = KeptOf(c)
  BY DEF KeptOf
<1>4. Saturated(c, rows, rem) = (c.truncated \/ n > rem) /\ c.truncated \in BOOLEAN
  BY DEF Saturated, JoinStates
<1> HIDE DEF R, rem, rows
<1>5. rows \in Seq(R) /\ n \in Nat /\ (n < rem + 1 => \A r \in R : \E i \in 1 .. n : rows[i] = r)
  BY <1>2 DEF AdjacentFine
<1>6. \A i \in 1 .. n : rows[i] \in R
  BY <1>5
<1> HIDE DEF n
<1>7. m \in Nat /\ m <= n /\ m <= rem /\ (n < rem + 1 => m = n)
  BY <1>1, <1>5
<1> HIDE DEF m
<1>8. \A i \in 1 .. m : rows[i] \in R
  BY <1>5, <1>6, <1>7
<1>9. kept \in Seq(R) /\ Len(kept) = m /\ \A i \in 1 .. m : kept[i] = rows[i]
  BY <1>5, <1>7, <1>8, SubSeqProperties DEF n
<1> HIDE DEF kept
<1>10. ~ (n > rem) => \A r \in R : \E i \in 1 .. Len(kept) : kept[i] = r
  <2> SUFFICES ASSUME ~ (n > rem) PROVE \A r \in R : \E i \in 1 .. Len(kept) : kept[i] = r
    OBVIOUS
  <2>1. n < rem + 1
    BY <1>1, <1>5
  <2>2. m = n /\ Len(kept) = n /\ \A i \in 1 .. n : kept[i] = rows[i]
    BY <1>7, <1>9, <2>1
  <2> QED BY <1>5, <2>1, <2>2
<1> QED BY <1>1, <1>3, <1>4, <1>7, <1>9, <1>10 DEF R, rem, rows

\* What is taken of a queue.
LEMMA QueuePops ==
  ASSUME NEW c \in JoinStates, c.queue # <<>>
  PROVE  /\ Head(c.queue)[1] \in Vertex /\ Head(c.queue)[2] \in Nat
         /\ Head(c.queue) = <<Head(c.queue)[1], Head(c.queue)[2]>>
         /\ Tail(c.queue) \in Seq(Vertex \X Nat) /\ 1 \in DOMAIN c.queue /\ Head(c.queue) = c.queue[1]
         /\ \A i \in DOMAIN Tail(c.queue) : \E j \in DOMAIN c.queue : Tail(c.queue)[i] = c.queue[j]
<1> DEFINE A == Vertex \X Nat
           queue == c.queue
           q == Tail(queue)
           o == Head(queue)
           n == Len(queue)
<1>1. queue \in Seq(A) /\ queue # <<>>
  BY DEF JoinStates
<1>2. \A x \in A : x = <<x[1], x[2]>> /\ x[2] \in Nat /\ x[1] \in Vertex
  OBVIOUS
<1> HIDE DEF A, queue
<1>3. /\ q \in Seq(A) /\ o \in A /\ n \in Nat \ {0} /\ DOMAIN queue = 1 .. n /\ DOMAIN q = 1 .. n - 1
      /\ o = queue[1] /\ \A i \in 1 .. n - 1 : q[i] = queue[i + 1]
  BY <1>1
<1> HIDE DEF q, o, n
<1>4. \A i \in 1 .. n - 1 : i + 1 \in 1 .. n /\ 1 \in 1 .. n
  BY <1>3
<1>5. 1 \in DOMAIN queue /\ \A i \in DOMAIN q : \E j \in DOMAIN queue : q[i] = queue[j]
  BY <1>3, <1>4
<1> QED BY <1>2, <1>3, <1>5 DEF A, queue, q, o

\* The states an expansion goes through.
LEMMA ExpansionTyped ==
  ASSUME NEW c \in JoinStates, c.queue # <<>>, c.reads \in 0 .. EdgeCap, GraphFine(PinnedGraph)
  PROVE  /\ Popped(c) \in JoinStates /\ Popped(c).queue = Tail(c.queue) /\ Popped(c).nodes = c.nodes
         /\ Popped(c).edges = c.edges /\ Popped(c).reads = c.reads /\ Popped(c).truncated = c.truncated
         /\ CutShort(c) \in JoinStates /\ CutShort(c).queue = <<>> /\ CutShort(c).nodes = c.nodes
         /\ CutShort(c).edges = c.edges /\ CutShort(c).reads = c.reads /\ CutShort(c).truncated = TRUE
         /\ Charged(c) \in JoinStates /\ Charged(c).queue = Tail(c.queue) /\ Charged(c).nodes = c.nodes
         /\ Charged(c).edges = c.edges /\ Charged(c).reads = c.reads + Len(KeptOf(c))
         /\ Charged(c).truncated = Saturated(c, RowsOf(c), Remaining(c))
<1> DEFINE queue == Tail(c.queue)
           p == Popped(c)
           s == Saturated(c, RowsOf(c), Remaining(c))
           n == Len(KeptOf(c))
<1>1. queue \in Seq(Vertex \X Nat)
  BY QueuePops
<1>2. s \in BOOLEAN /\ n \in Nat
  BY KeptIs
<1>3. <<>> \in Seq(Vertex \X Nat)
  <2> DEFINE A == Vertex \X Nat
  <2> HIDE DEF A
  <2>1. <<>> \in Seq(A)
    OBVIOUS
  <2> QED BY <2>1 DEF A
<1>4. p = [c EXCEPT !.queue = queue]
  BY DEF Popped, JoinStates
<1>5. Charged(c) = [p EXCEPT !.truncated = s, !.reads = p.reads + n]
  <2> HIDE DEF n, s
  <2>1. Charged(c) = [Popped(c) EXCEPT !.truncated = s, !.reads = @ + n]
    BY DEF Charged, n, s
  <2>2. p \in JoinStates
    BY <1>1, <1>4 DEF JoinStates
  <2> HIDE DEF p
  <2>3. [p EXCEPT !.truncated = s, !.reads = @ + n] = [p EXCEPT !.truncated = s, !.reads = p.reads + n]
    BY <2>2 DEF JoinStates
  <2> QED BY <2>1, <2>3 DEF p
<1>6. CutShort(c) = [p EXCEPT !.queue = <<>>, !.truncated = TRUE]
  BY DEF CutShort
<1> HIDE DEF queue, p, s, n
<1>7. /\ p \in JoinStates /\ p.queue = queue /\ p.nodes = c.nodes /\ p.edges = c.edges
      /\ p.reads = c.reads /\ p.truncated = c.truncated
  BY <1>1, <1>4 DEF JoinStates
<1>8. /\ CutShort(c) \in JoinStates /\ CutShort(c).queue = <<>> /\ CutShort(c).nodes = p.nodes
      /\ CutShort(c).edges = p.edges /\ CutShort(c).reads = p.reads /\ CutShort(c).truncated = TRUE
  BY <1>3, <1>6, <1>7 DEF JoinStates
<1>9. /\ Charged(c) \in JoinStates /\ Charged(c).queue = p.queue /\ Charged(c).nodes = p.nodes
      /\ Charged(c).edges = p.edges /\ Charged(c).reads = p.reads + n /\ Charged(c).truncated = s
  <2> DEFINE w == p.reads + n
  <2>1. w \in Nat
    BY <1>2, <1>7 DEF JoinStates
  <2> HIDE DEF w
  <2>2. Charged(c) = [p EXCEPT !.truncated = s, !.reads = w]
    BY <1>5 DEF w
  <2>3. /\ Charged(c) \in JoinStates /\ Charged(c).queue = p.queue /\ Charged(c).nodes = p.nodes
        /\ Charged(c).edges = p.edges /\ Charged(c).reads = w /\ Charged(c).truncated = s
    BY <1>2, <1>7, <2>1, <2>2 DEF JoinStates
  <2> QED BY <2>3 DEF w
<1> QED BY <1>7, <1>8, <1>9 DEF queue, p, s, n

\* An expansion keeps what is known of a packet.
LEMMA PacketExpands ==
  ASSUME NEW c \in JoinStates, c.queue # <<>>, NEW g, g = PinnedGraph, GraphFine(g), NEW S,
         NEW n \in Nat, n = Asked.nodes, NEW hops \in Nat, hops = Asked.depth, NEW near \in BOOLEAN,
         PacketFine(c, g, S, n, hops, near)
  PROVE  Expanded(c) \in JoinStates /\ PacketFine(Expanded(c), g, S, n, hops, near)
<1> DEFINE v == Head(c.queue)[1]
           level == Head(c.queue)[2]
           rows == g.rows
           rest == Tail(c.queue)
           R == {r \in rows : v \in {r.from, r.to}}
           kept == KeptOf(c)
           s == Saturated(c, RowsOf(c), Remaining(c))
           open == {<<v, level>>}
<1>1. /\ c.reads \in 0 .. EdgeCap /\ PacketBounded(c, g, n) /\ (near => PacketNear(c, rows, S, hops))
      /\ near /\ ~ c.truncated => PacketWhole(c, rows, S, {}, hops)
  BY DEF PacketFine
<1>2. /\ v \in Vertex /\ level \in Nat /\ Head(c.queue) = <<v, level>> /\ 1 \in DOMAIN c.queue /\ Head(c.queue) = c.queue[1]
      /\ \A i \in DOMAIN rest : \E j \in DOMAIN c.queue : rest[i] = c.queue[j]
  BY QueuePops
<1>3. /\ kept \in Seq(R) /\ Len(kept) \in Nat /\ Len(kept) <= Remaining(c)
      /\ Remaining(c) \in Nat /\ s \in BOOLEAN
      /\ ~ s => ~ c.truncated /\ \A r \in R : \E i \in 1 .. Len(kept) : kept[i] = r
  BY <1>1, KeptIs
<1>4. /\ Popped(c) \in JoinStates /\ Popped(c).queue = rest /\ Popped(c).nodes = c.nodes
      /\ Popped(c).edges = c.edges /\ Popped(c).reads = c.reads /\ Popped(c).truncated = c.truncated
      /\ CutShort(c) \in JoinStates /\ CutShort(c).queue = <<>> /\ CutShort(c).nodes = c.nodes
      /\ CutShort(c).edges = c.edges /\ CutShort(c).reads = c.reads /\ CutShort(c).truncated = TRUE
      /\ Charged(c) \in JoinStates /\ Charged(c).queue = rest /\ Charged(c).nodes = c.nodes
      /\ Charged(c).edges = c.edges /\ Charged(c).reads = c.reads + Len(kept) /\ Charged(c).truncated = s
  BY <1>1, ExpansionTyped
<1>5. Expanded(c) = IF level >= hops THEN Popped(c) ELSE IF Remaining(c) = 0 THEN CutShort(c)
                    ELSE JoinAll(Charged(c), v, level, kept)
  BY DEF Expanded
<1>6. near /\ ~ c.truncated =>
        /\ Frontier(rows, S, c.nodes, rest, open, hops)
        /\ EdgesFine(c.nodes, rest, c.edges, rows, S, open, hops)
        /\ AtDist(rows, S, v, level)
  <2> SUFFICES ASSUME near, ~ c.truncated
               PROVE  /\ Frontier(rows, S, c.nodes, rest, open, hops)
                      /\ EdgesFine(c.nodes, rest, c.edges, rows, S, open, hops)
                      /\ AtDist(rows, S, v, level)
    OBVIOUS
  <2> DEFINE nodes == c.nodes
             queue == c.queue
             edges == c.edges
             o == Head(queue)
  <2>1. /\ Frontier(rows, S, nodes, queue, {}, hops) /\ EdgesFine(nodes, queue, edges, rows, S, {}, hops)
        /\ queue # <<>> /\ queue \in Seq(Vertex \X Nat)
    BY <1>1 DEF PacketWhole, JoinStates
  <2> HIDE DEF nodes, queue, edges, rows, o
  <2>2. Frontier(rows, S, nodes, Tail(queue), {o}, hops)
    BY <2>1, FrontierPops DEF o
  <2>3. EdgesFine(nodes, Tail(queue), edges, rows, S, {o}, hops)
    <3> DEFINE A == Vertex \X Nat
    <3>1. queue \in Seq(A)
      BY <2>1
    <3> HIDE DEF A
    <3> QED BY <2>1, <3>1, EdgesPop DEF o
  <2>4. o = <<v, level>> /\ {o} = open
    BY <1>2 DEF o, queue
  <2>5. AtDist(rows, S, o[1], o[2])
    BY <2>2 DEF Frontier
  <2>6. AtDist(rows, S, v, level)
    BY <2>5 DEF o, queue
  <2>7. /\ Frontier(rows, S, nodes, Tail(queue), open, hops)
        /\ EdgesFine(nodes, Tail(queue), edges, rows, S, open, hops)
    BY <2>2, <2>3, <2>4
  <2> QED BY <2>6, <2>7 DEF nodes, queue, edges
<1>7. near => v \in Within(rows, S, level)
  BY <1>1, <1>2 DEF PacketNear
<1>8. near => \A i \in DOMAIN rest : rest[i][2] <= hops /\ rest[i][1] \in Within(rows, S, rest[i][2])
  BY <1>1, <1>2 DEF PacketNear
<1>9. near => c.nodes \subseteq Within(rows, S, hops)
  BY <1>1 DEF PacketNear
<1>0. GraphFine(g) /\ EdgeCap \in Nat
  BY ReadingAssumption
<1>10. CASE level >= hops
  <2> DEFINE p == Popped(c)
  <2>1. Expanded(c) = p /\ p \in JoinStates
    BY <1>4, <1>5, <1>10
  <2>2. near /\ ~ c.truncated => Frontier(rows, S, c.nodes, rest, {}, hops) /\ EdgesFine(c.nodes, rest, c.edges, rows, S, {}, hops)
    <3> SUFFICES ASSUME near, ~ c.truncated
                 PROVE  Frontier(rows, S, c.nodes, rest, {}, hops) /\ EdgesFine(c.nodes, rest, c.edges, rows, S, {}, hops)
      OBVIOUS
    <3> HIDE DEF rest, rows, level, v
    <3>1. ~ (level < hops) /\ level \in Nat
      BY <1>2, <1>10
    <3>2. Frontier(rows, S, c.nodes, rest, {<<v, level>>}, hops) /\ EdgesFine(c.nodes, rest, c.edges, rows, S, {<<v, level>>}, hops)
      BY <1>6
    <3>3. Frontier(rows, S, c.nodes, rest, {}, hops)
      BY <3>1, <3>2, FrontierCloses
    <3>4. AtDist(rows, S, v, level)
      BY <1>6
    <3>5. EdgesFine(c.nodes, rest, c.edges, rows, S, {}, hops)
      BY <3>1, <3>2, <3>4, EdgesClose
    <3> QED BY <3>3, <3>5
  <2> HIDE DEF p, rest, rows
  <2>3. /\ p.queue = rest /\ p.nodes = c.nodes /\ p.edges = c.edges /\ p.reads = c.reads /\ p.truncated = c.truncated
    BY <1>4 DEF p
  <2>4. PacketBounded(p, g, n)
    BY <1>1, <2>3 DEF PacketBounded
  <2>5. near => PacketNear(p, rows, S, hops)
    BY <1>8, <1>9, <2>3 DEF PacketNear
  <2>6. near /\ ~ p.truncated => PacketWhole(p, rows, S, {}, hops)
    BY <2>2, <2>3 DEF PacketWhole
  <2> QED BY <1>1, <2>1, <2>3, <2>4, <2>5, <2>6 DEF PacketFine, rows
<1>11. CASE ~ (level >= hops) /\ Remaining(c) = 0
  <2> DEFINE p == CutShort(c)
  <2>1. Expanded(c) = p /\ p \in JoinStates
    BY <1>4, <1>5, <1>11
  <2> HIDE DEF p, rest, rows
  <2>3. /\ p.queue = <<>> /\ p.nodes = c.nodes /\ p.edges = c.edges /\ p.reads = c.reads /\ p.truncated = TRUE
    BY <1>4 DEF p
  <2>4. PacketBounded(p, g, n)
    BY <1>1, <2>3 DEF PacketBounded
  <2>5. near => PacketNear(p, rows, S, hops)
    <3>1. DOMAIN <<>> = {}
      OBVIOUS
    <3> QED BY <1>9, <2>3, <3>1 DEF PacketNear
  <2> QED BY <1>1, <2>1, <2>3, <2>4, <2>5 DEF PacketFine, rows
<1>12. CASE ~ (level >= hops) /\ Remaining(c) # 0
  <2> DEFINE p == Charged(c)
             d == JoinAll(p, v, level, kept)
  <2>1. Expanded(c) = d
    BY <1>5, <1>12
  <2>2. /\ p \in JoinStates /\ p.queue = rest /\ p.nodes = c.nodes /\ p.edges = c.edges
        /\ p.reads = c.reads + Len(kept) /\ p.truncated = s
    BY <1>4
  <2>3. level < hops
    BY <1>2, <1>12
  <2> HIDE DEF p
  <2>4. Joined(p, v, level, g, S, n, hops, near, kept, 0)
    <3> HIDE DEF rest, kept, s, v, level
    <3>1. PacketBounded(p, g, n)
      BY <1>1, <2>2 DEF PacketBounded
    <3>2. near => PacketNear(p, rows, S, hops)
      BY <1>8, <1>9, <2>2 DEF PacketNear
    <3>3. near /\ ~ p.truncated => PacketWhole(p, rows, S, open, hops)
      BY <1>3, <1>6, <2>2 DEF PacketWhole
    <3>4. \A j \in 1 .. 0 : FALSE
      OBVIOUS
    <3> QED BY <3>1, <3>2, <3>3, <3>4 DEF Joined
  <2>5. /\ d \in JoinStates /\ d.reads = p.reads /\ (p.truncated => d.truncated)
        /\ Joined(d, v, level, g, S, n, hops, near, kept, Len(kept))
    <3>1. R \subseteq g.rows /\ \A r \in R : v \in {r.from, r.to}
      OBVIOUS
    <3>2. kept \in Seq(R) /\ v \in Vertex /\ level \in Nat /\ (near => v \in Within(g.rows, S, level))
      BY <1>2, <1>3, <1>7
    <3> HIDE DEF R, kept, v, level, d
    <3> QED BY <2>2, <2>3, <2>4, <3>1, <3>2, JoinsAll DEF d
  <2> HIDE DEF d
  <2>6. d.reads \in 0 .. EdgeCap
    <3>1. Remaining(c) = EdgeCap - c.reads
      BY DEF Remaining
    <3> DEFINE k == Len(kept)
    <3>2. d.reads = c.reads + k /\ k \in Nat /\ k <= Remaining(c)
      BY <1>3, <2>2, <2>5
    <3> HIDE DEF k
    <3> QED BY <1>0, <1>1, <3>1, <3>2
  <2>7. near /\ ~ d.truncated => PacketWhole(d, rows, S, {}, hops)
    <3> SUFFICES ASSUME near, ~ d.truncated PROVE PacketWhole(d, rows, S, {}, hops)
      OBVIOUS
    <3>1. /\ PacketWhole(d, rows, S, open, hops)
          /\ \A j \in 1 .. Len(kept) : kept[j] \in d.edges /\ NextOf(kept[j], v) \in d.nodes
      BY <2>5 DEF Joined
    <3>2. ~ s
      BY <2>2, <2>5
    <3>3. \A r \in R : \E j \in 1 .. Len(kept) : kept[j] = r
      BY <1>3, <3>2
    <3>4. \A r \in rows : v \in {r.from, r.to} => r \in d.edges /\ NextOf(r, v) \in d.nodes
      <4> SUFFICES ASSUME NEW r \in R PROVE r \in d.edges /\ NextOf(r, v) \in d.nodes
        OBVIOUS
      <4> HIDE DEF R, kept, v
      <4> QED BY <3>1, <3>3
    <3>5. AtDist(rows, S, v, level) /\ level \in Nat
      BY <1>2, <1>6, <3>2, <1>3
    <3> HIDE DEF v, level, rows
    <3>6. Beside(rows, v) \subseteq d.nodes
      <4> SUFFICES ASSUME NEW u \in Beside(rows, v) PROVE u \in d.nodes
        OBVIOUS
      <4>1. PICK r \in rows : u # v /\ v \in {r.from, r.to} /\ u \in {r.from, r.to}
        BY BesideRows
      <4>2. NextOf(r, v) = u
        BY <4>1 DEF NextOf
      <4> QED BY <3>4, <4>1, <4>2
    <3>7. Frontier(rows, S, d.nodes, d.queue, {}, hops)
      <4>1. Frontier(rows, S, d.nodes, d.queue, {<<v, level>>}, hops)
        BY <3>1 DEF PacketWhole
      <4> QED BY <3>5, <3>6, <4>1, FrontierCloses
    <3>8. EdgesFine(d.nodes, d.queue, d.edges, rows, S, {}, hops)
      <4>1. EdgesFine(d.nodes, d.queue, d.edges, rows, S, {<<v, level>>}, hops)
        BY <3>1 DEF PacketWhole
      <4> QED BY <3>4, <3>5, <4>1, EdgesClose
    <3> QED BY <3>7, <3>8 DEF PacketWhole
  <2> QED BY <2>1, <2>5, <2>6, <2>7 DEF Joined, PacketFine
<1> HIDE DEF level
<1> QED BY <1>10, <1>11, <1>12

\* A set as a sequence has each of its elements.
LEMMA SequenceOfSet ==
  ASSUME NEW S, IsFiniteSet(S)
  PROVE  /\ Cardinality(S) \in Nat /\ SetToSeq(S) \in [1 .. Cardinality(S) -> S]
         /\ \A x \in S : \E i \in 1 .. Cardinality(S) : SetToSeq(S)[i] = x
<1> DEFINE n == Cardinality(S)
           s == SetToSeq(S)
           D == 1 .. n
<1>1. n \in Nat /\ ExistsBijection(D, S)
  BY FS_CardinalityType
<1>2. \E f \in [D -> S] : IsInjective(f)
  BY <1>1 DEF ExistsBijection, Bijection, Injection
<1>3. s \in [D -> S] /\ IsInjective(s)
  BY <1>2 DEF SetToSeq
<1>4. IsFiniteSet(D) /\ Cardinality(D) = n
  <2> HIDE DEF n
  <2> QED BY <1>1, FS_Interval
<1> HIDE DEF s
<1>5. s \in Surjection(D, S)
  <2>1. s \in Injection(D, S)
    BY <1>3 DEF Injection
  <2> HIDE DEF D
  <2> QED BY <1>4, <2>1, FS_Injection
<1> QED BY <1>1, <1>3, <1>5 DEF Surjection, s

\* The best of a set are some of it, or all.
LEMMA BestAre ==
  ASSUME NEW S, IsFiniteSet(S), NEW n \in Nat, NEW C \in Best(S, n)
  PROVE  /\ C \subseteq S /\ IsFiniteSet(C) /\ Cardinality(C) \in Nat /\ Cardinality(C) <= n
         /\ Cardinality(C) < n => C = S
<1> DEFINE k == Cardinality(S)
           m == Cardinality(C)
<1>1. C \subseteq S /\ m = IF k < n THEN k ELSE n
  BY DEF Best
<1>2. k \in Nat /\ IsFiniteSet(C) /\ m \in Nat /\ (k = m => C = S)
  BY <1>1, FS_CardinalityType, FS_Subset
<1> HIDE DEF k, m
<1>3. m <= n /\ (m < n => C = S)
  BY <1>1, <1>2
<1> QED BY <1>1, <1>2, <1>3 DEF m

\* What a packet begins with: some of the matches, all of them if it does not
\* say that it is truncated.
LEMMA SeedsAre ==
  ASSUME NEW g, GraphFine(g), NEW n \in Nat, NEW near \in BOOLEAN, NEW hits \in Best(g.similar, n + 1),
         NEW others \in IF near THEN {{}} ELSE Best(g.nodes, n),
         NEW seeds \in IF near THEN Best(hits, n) ELSE Best(hits \cup others, n)
  PROVE  /\ seeds \subseteq g.nodes /\ IsFiniteSet(seeds) /\ Cardinality(seeds) <= n
         /\ near => seeds \subseteq g.similar
         /\ near /\ ~ (Cardinality(hits) > n) => seeds = g.similar
<1>0. IsFiniteSet(g.nodes) /\ IsFiniteSet(g.similar) /\ g.similar \subseteq g.nodes /\ n + 1 \in Nat
  BY FS_Subset DEF GraphFine
<1>1. /\ hits \subseteq g.similar /\ IsFiniteSet(hits) /\ Cardinality(hits) \in Nat
      /\ Cardinality(hits) < n + 1 => hits = g.similar
  BY <1>0, BestAre
<1>2. CASE near
  <2>1. /\ seeds \subseteq hits /\ IsFiniteSet(seeds) /\ Cardinality(seeds) <= n /\ Cardinality(seeds) \in Nat
        /\ Cardinality(seeds) < n => seeds = hits
    <3>1. seeds \in Best(hits, n)
      BY <1>2
    <3> QED BY <1>1, <3>1, BestAre
  <2>2. ASSUME ~ (Cardinality(hits) > n) PROVE seeds = g.similar
    <3> DEFINE a == Cardinality(hits)
               b == Cardinality(seeds)
               c == IF a < n THEN a ELSE n
    <3>1. b = c
      BY <1>2 DEF Best
    <3>2. a \in Nat /\ a <= n
      BY <1>1, <2>2
    <3> HIDE DEF a, b
    <3>3. b = a /\ a < n + 1
      BY <3>1, <3>2
    <3>4. hits = g.similar
      BY <1>1, <3>3 DEF a
    <3>5. seeds = hits
      BY <1>1, <2>1, <3>3, FS_Subset DEF a, b
    <3> QED BY <3>4, <3>5
  <2> QED BY <1>0, <1>1, <1>2, <2>1, <2>2
<1>3. CASE ~ near
  <2>1. others \in Best(g.nodes, n) /\ seeds \in Best(hits \cup others, n)
    BY <1>3
  <2>2. others \subseteq g.nodes
    BY <2>1 DEF Best
  <2>3. hits \cup others \subseteq g.nodes /\ IsFiniteSet(hits \cup others)
    BY <1>0, <1>1, <2>2, FS_Subset
  <2>4. seeds \subseteq hits \cup others /\ IsFiniteSet(seeds) /\ Cardinality(seeds) <= n
    BY <2>1, <2>3, BestAre
  <2> QED BY <1>3, <2>3, <2>4
<1> QED BY <1>2, <1>3

\* A packet that begins.
Seeded(seeds, truncated) ==
  [NoContext EXCEPT !.nodes = seeds, !.priority = SetToSeq(seeds),
     !.queue = [i \in DOMAIN SetToSeq(seeds) |-> <<SetToSeq(seeds)[i], 0>>], !.truncated = truncated]

\* No packet is one, too.
LEMMA NoPacket == NoContext \in JoinStates /\ NoContext.reads \in 0 .. EdgeCap
<1>1. <<>> \in Seq(Vertex \X Nat)
  <2> DEFINE A == Vertex \X Nat
  <2> HIDE DEF A
  <2>1. <<>> \in Seq(A)
    OBVIOUS
  <2> QED BY <2>1 DEF A
<1>2. EdgeCap \in Nat /\ <<>> \in Seq(Vertex)
  BY ReadingAssumption
<1> QED BY <1>1, <1>2 DEF NoContext, JoinStates

\* It is known what is to be known of a packet.
LEMMA SeededIsFine ==
  ASSUME NEW g, GraphFine(g), NEW n \in Nat, NEW hops \in Nat, NEW near \in BOOLEAN,
         NEW seeds, seeds \subseteq g.nodes, IsFiniteSet(seeds), Cardinality(seeds) <= n,
         NEW truncated \in BOOLEAN, near => seeds \subseteq g.similar, near /\ ~ truncated => seeds = g.similar
  PROVE  /\ Seeded(seeds, truncated) \in JoinStates
         /\ PacketFine(Seeded(seeds, truncated), g, g.similar, n, hops, near)
<1> DEFINE c == Seeded(seeds, truncated)
           order == SetToSeq(seeds)
           m == Cardinality(seeds)
           queue == [i \in 1 .. m |-> <<order[i], 0>>]
           rows == g.rows
           S == g.similar
<1>1. m \in Nat /\ order \in [1 .. m -> seeds] /\ \A x \in seeds : \E i \in 1 .. m : order[i] = x
  BY SequenceOfSet
<1>2. seeds \subseteq Vertex
  BY DEF GraphFine
<1> HIDE DEF order, m
<1>3. DOMAIN order = 1 .. m
  BY <1>1
<1>4. order \in Seq(Vertex)
  <2>1. order \in [1 .. m -> Vertex]
    BY <1>1, <1>2
  <2> QED BY <1>1, <2>1, IsASeq
<1>5. queue \in Seq(Vertex \X Nat)
  <2>1. queue \in [1 .. m -> Vertex \X Nat]
    BY <1>1, <1>2
  <2> HIDE DEF queue
  <2> DEFINE A == Vertex \X Nat
  <2>2. queue \in [1 .. m -> A]
    BY <2>1
  <2> HIDE DEF A
  <2>3. queue \in Seq(A)
    BY <1>1, <2>2, IsASeq
  <2> QED BY <2>3 DEF A
<1>6. DOMAIN queue = 1 .. m /\ \A i \in 1 .. m : queue[i][1] \in seeds /\ queue[i][2] = 0
  BY <1>1
<1>7. near /\ ~ truncated => Frontier(rows, S, seeds, queue, {}, hops)
  <2> SUFFICES ASSUME near, ~ truncated PROVE Frontier(rows, S, seeds, queue, {}, hops)
    OBVIOUS
  <2>1. seeds = S
    OBVIOUS
  <2>2. Frontier(rows, seeds, seeds, queue, {}, hops)
    <3>1. order \in [1 .. m -> seeds] /\ \A x \in seeds : \E i \in 1 .. m : order[i] = x
      BY <1>1
    <3>2. m \in Nat
      BY <1>1
    <3>3. queue = AtZero(order, m)
      BY DEF AtZero
    <3> HIDE DEF rows, S, queue, c
    <3>4. Frontier(rows, seeds, seeds, AtZero(order, m), {}, hops)
      BY <3>1, <3>2, FrontierBegins
    <3> QED BY <3>3, <3>4
  <2> QED BY <2>1, <2>2
<1>8. \A x \in seeds : \E i \in DOMAIN queue : queue[i][1] = x
  BY <1>1
<1>9. c = [NoContext EXCEPT !.nodes = seeds, !.priority = order, !.queue = queue, !.truncated = truncated]
  BY <1>3 DEF Seeded, order
<1> HIDE DEF c, queue
<1>10. /\ c \in JoinStates /\ c.nodes = seeds /\ c.queue = queue /\ c.truncated = truncated
       /\ c.reads \in 0 .. EdgeCap /\ c.edges = {}
  BY <1>2, <1>4, <1>5, <1>9, NoPacket DEF NoContext, JoinStates
<1>11. PacketBounded(c, g, n)
  BY <1>10 DEF PacketBounded
<1>12. near => PacketNear(c, rows, S, hops)
  <2> SUFFICES ASSUME near PROVE PacketNear(c, rows, S, hops)
    OBVIOUS
  <2> HIDE DEF rows, S
  <2>1. Within(rows, S, 0) = S /\ Within(rows, S, 0) \subseteq Within(rows, S, hops) /\ seeds \subseteq S
    BY WithinSteps, WithinGrows DEF S
  <2> QED BY <1>6, <1>10, <2>1 DEF PacketNear
<1>13. near /\ ~ c.truncated => PacketWhole(c, rows, S, {}, hops)
  BY <1>7, <1>8, <1>10 DEF PacketWhole, EdgesFine
<1> QED BY <1>10, <1>11, <1>12, <1>13 DEF PacketFine, c

\* What a packet that is answered says (ContextIsHonest).
AnswerHonest(answer, c, g, q) ==
  LET nodes == answer[1]
      links == answer[2]
  IN  /\ Cardinality(nodes) <= q.nodes /\ nodes \subseteq g.nodes
      /\ links \subseteq g.rows /\ \A r \in links : {r.from, r.to} \subseteq nodes
      /\ ~ q.semantic => nodes \subseteq Within(g.rows, g.similar, q.depth)
      /\ ~ q.semantic /\ ~ c.truncated =>
           /\ nodes = Within(g.rows, g.similar, q.depth)
           /\ q.depth > 0 => \A r \in g.rows :
                {r.from, r.to} \cap Within(g.rows, g.similar, q.depth - 1) # {} => r \in links

\* A packet with nothing left to expand may be answered.
LEMMA PacketAnswers ==
  ASSUME NEW c, NEW g, GraphFine(g), NEW q, q.depth \in Nat, c.queue = <<>>,
         PacketFine(c, g, g.similar, q.nodes, q.depth, ~ q.semantic)
  PROVE  AnswerHonest(<<c.nodes, Links(c)>>, c, g, q)
<1> DEFINE nodes == c.nodes
           links == Links(c)
           rows == g.rows
           S == g.similar
           hops == q.depth
           answer == <<nodes, links>>
<1>1. /\ PacketBounded(c, g, q.nodes) /\ (~ q.semantic => PacketNear(c, rows, S, hops))
      /\ ~ q.semantic /\ ~ c.truncated => PacketWhole(c, rows, S, {}, hops)
  BY DEF PacketFine
<1>2. /\ nodes \subseteq g.nodes /\ Cardinality(nodes) <= q.nodes /\ c.edges \subseteq rows
      /\ ~ q.semantic => nodes \subseteq Within(rows, S, hops)
  BY <1>1 DEF PacketBounded, PacketNear
<1>3. links \subseteq rows /\ \A r \in links : {r.from, r.to} \subseteq nodes
  BY <1>2 DEF Links
<1>4. \A r \in c.edges : r.from \in nodes /\ r.to \in nodes => r \in links
  BY DEF Links
<1>5. answer[1] = nodes /\ answer[2] = links
  OBVIOUS
<1>6. ASSUME ~ q.semantic, ~ c.truncated
      PROVE  /\ nodes = Within(rows, S, hops)
             /\ hops > 0 => \A r \in rows : {r.from, r.to} \cap Within(rows, S, hops - 1) # {} => r \in links
  <2>1. Frontier(rows, S, nodes, <<>>, {}, hops) /\ EdgesFine(nodes, <<>>, c.edges, rows, S, {}, hops)
    BY <1>1, <1>6 DEF PacketWhole
  <2> HIDE DEF nodes, links, rows, S, hops, answer
  <2>0. hops \in Nat
    BY DEF hops
  <2>2. nodes = Within(rows, S, hops)
    BY <1>2, <1>6, <2>0, <2>1, FrontierEnds
  <2>3. ASSUME hops > 0, NEW r \in rows, NEW w \in {r.from, r.to}, w \in Within(rows, S, hops - 1) PROVE r \in links
    <3>1. hops - 1 \in Nat /\ (hops - 1) + 1 = hops /\ hops - 1 <= hops
      BY <2>0, <2>3
    <3>2. PICK d \in Nat : d <= hops - 1 /\ AtDist(rows, S, w, d)
      BY <2>3, <3>1, HasDistance
    <3>3. Within(rows, S, hops - 1) \subseteq nodes
      BY <2>0, <2>2, <3>1, WithinGrows
    <3>4. d < hops
      BY <2>0, <3>1, <3>2
    <3>5. r \in c.edges
      <4>1. \/ \E i \in DOMAIN <<>> : <<>>[i][1] = w
            \/ \E o \in {} : o[1] = w
            \/ \A k \in Nat : AtDist(rows, S, w, k) /\ k < hops => \A x \in rows : w \in {x.from, x.to} => x \in c.edges
        BY <2>1, <2>3, <3>3 DEF EdgesFine
      <4> QED BY <2>3, <3>2, <3>4, <4>1
    <3>6. \A u \in {r.from, r.to} : u \in nodes
      <4> SUFFICES ASSUME NEW u \in {r.from, r.to} PROVE u \in nodes
        OBVIOUS
      <4>1. CASE u = w
        BY <2>3, <3>3, <4>1
      <4>2. CASE u # w
        <5>1. u \in Beside(rows, w)
          BY <2>3, <4>2, BesideRows
        <5>2. u \in Within(rows, S, (hops - 1) + 1)
          BY <2>3, <3>1, <5>1, OneFurther
        <5> QED BY <2>2, <3>1, <5>2
      <4> QED BY <4>1, <4>2
    <3> QED BY <1>4, <3>5, <3>6
  <2> QED BY <2>2, <2>3
<1> HIDE DEF answer
<1> QED BY <1>2, <1>3, <1>5, <1>6 DEF AnswerHonest, answer, nodes, links, rows, S, hops

\* A context query, whenever it is looked at.
ContextFine(q) ==
  /\ read.pc = "expand" =>
       PacketFine(read.context, PinnedGraph, PinnedGraph.similar, q.nodes, q.depth, ~ q.semantic)
  /\ read.pc = "done" => AnswerHonest(read.answer, read.context, PinnedGraph, q)
ContextInv ==
  /\ read.context \in JoinStates /\ read.context.reads \in 0 .. EdgeCap
  /\ \A q \in read.query : q.kind = "context" => ContextFine(q)

\* A query of contexts, as it is asked.
LEMMA ContextQueries ==
  ASSUME NEW q \in Query, q.kind = "context"
  PROVE  q.nodes \in Nat /\ q.depth \in Nat /\ q.semantic \in BOOLEAN
<1>1. q \in QueryType
  BY ReadingAssumption
<1> QED BY <1>1 DEF QueryType

\* What a packet and its answer depend on.
LEMMA SameContext ==
  ASSUME ContextInv, read'.pc = read.pc \/ read'.pc \notin {"expand", "done"}, read'.query = read.query,
         read'.build = read.build, read'.context = read.context, read'.answer = read.answer, content' = content
  PROVE  ContextInv'
<1>1. PinnedGraph' = PinnedGraph
  BY DEF PinnedGraph
<1> QED BY <1>1 DEF ContextInv, ContextFine

\* The steps of other queries.
LEMMA ContextOthers ==
  ASSUME Readable, ContextInv, Pages \/ Paths \/ Export \/ Diff
  PROVE  ContextInv'
<1>1. DOMAIN read = {"pc", "query", "build", "pages", "search", "context", "answer"}
  BY DEF Readable
<1>2. \A pc, kind : At(pc, kind) /\ kind # "context" => \A q \in read.query : q.kind # "context"
  BY DEF At, Readable
<1>a. read'.query = read.query /\ read'.context = read.context /\ (\A q \in read.query : q.kind # "context") => ContextInv'
  BY DEF ContextInv
<1>3. CASE DirectionalPage("outgoing", "incoming") \/ DirectionalPage("incoming", "returned")
  BY <1>1, <1>2, <1>a, <1>3 DEF DirectionalPage
<1>4. CASE ReturnPage \/ (\E q \in Query : Continue(q))
  BY <1>1, <1>2, <1>a, <1>4 DEF ReturnPage, Continue
<1>5. CASE FindEndpoint("from", From, "to") \/ FindEndpoint("to", {Asked.to}, "search")
  BY <1>1, <1>2, <1>a, <1>5 DEF FindEndpoint, Exhausts, ReturnsPath
<1>6. CASE NextVertex
  BY <1>1, <1>2, <1>a, <1>6 DEF NextVertex, ReturnsPath
<1>7. CASE ReadPathPage
  <2>1. At("search", "path")
    BY <1>7 DEF ReadPathPage
  <2>2. PICK at \in read.search.at : ReadsPage(at, PathPage(at), VisitAll(PathStart, at, PathPage(at)))
    BY <1>7, ReadPathPageIs
  <2> DEFINE page == PathPage(at)
             s == VisitAll(PathStart, at, page)
             next == PathNext(at, page)
  <2>3. Exhausts \/ ReturnsPath(PathTo(Asked.to, s.parents)) \/ GoesOnWith(s, next, Len(page))
    BY <2>2 DEF ReadsPage
  <2> HIDE DEF page, s, next
  <2>4. read'.query = read.query /\ read'.context = read.context
    BY <1>1, <2>3 DEF Exhausts, ReturnsPath, GoesOnWith
  <2> QED BY <1>2, <1>a, <2>1, <2>4
<1>8. CASE PathFails
  <2>1. /\ read'.pc = "exhausted" /\ read'.query = read.query /\ read'.context = read.context
    BY <1>1, <1>8 DEF PathFails, Exhausts
  <2> QED BY <2>1 DEF ContextInv, ContextFine
<1>9. CASE Export
  BY <1>1, <1>2, <1>a, <1>9 DEF Export
<1>10. CASE Diff
  BY <1>1, <1>2, <1>a, <1>10 DEF Diff
<1> QED BY <1>3, <1>4, <1>5, <1>6, <1>7, <1>8, <1>9, <1>10 DEF Pages, Paths

\* A query is asked, named, given its build or finished; a build is published.
LEMMA ContextBegins ==
  ASSUME Readable, ContextInv,
         (\E q \in Query : Ask(q)) \/ Finish \/ (\E b \in Build : MovePointer(b)) \/ ResolveName \/ PinBuild
  PROVE  ContextInv'
<1>1. DOMAIN read = {"pc", "query", "build", "pages", "search", "context", "answer"}
  BY DEF Readable
<1>2. CASE \E q \in Query : Ask(q)
  <2>1. read'.context = NoContext /\ read'.pc \in {"name", "pin"}
    BY <1>2 DEF Ask, NoRead
  <2> QED BY <2>1, NoPacket DEF ContextInv, ContextFine
<1>3. CASE Finish
  <2>1. read'.context = NoContext /\ read'.query = {}
    BY <1>3 DEF Finish, NoRead
  <2> QED BY <2>1, NoPacket DEF ContextInv
<1>4. CASE \E b \in Build : MovePointer(b)
  <2>1. read' = read /\ content' = content
    BY <1>4 DEF MovePointer
  <2> QED BY <2>1, SameContext
<1>5. CASE ResolveName
  <2>1. read'.pc \in {"pin", "refused"} /\ read'.query = read.query /\ read'.context = read.context
    BY <1>1, <1>5 DEF ResolveName
  <2> QED BY <2>1 DEF ContextInv, ContextFine
<1>6. CASE PinBuild
  <2>1. PICK q \in read.query :
          LET b == PinOf(q) IN
          IF b = {} THEN read' = [read EXCEPT !.pc = "refused"]
          ELSE read' = [read EXCEPT !.pc = Starts(q), !.build = b,
                       !.pages.first = IF @ = {} THEN b ELSE @,
                       !.pages.at = IF q.kind = "page" /\ read.build = {} THEN Opening(q) ELSE @,
                       !.search.queries = IF q.kind = "path" THEN @ - 2 ELSE @]
    BY <1>6 DEF PinBuild
  <2>2. read'.query = read.query /\ read'.context = read.context /\ read'.pc \in {"refused", Starts(q)}
    BY <1>1, <2>1
  <2>3. \A p \in read.query : p = q
    BY DEF Readable
  <2>4. q.kind = "context" => Starts(q) = "seed"
    BY DEF Starts
  <2> QED BY <2>2, <2>3, <2>4 DEF ContextInv, ContextFine
<1> QED BY <1>2, <1>3, <1>4, <1>5, <1>6

\* A packet begins.
LEMMA ContextSeeds ==
  ASSUME Readable, SearchInv, Seed
  PROVE  ContextInv'
<1> DEFINE g == PinnedGraph
           q == Asked
           n == q.nodes
           near == ~ q.semantic
<1>1. At("seed", "context") /\ UNCHANGED <<content, published, pointer>>
  BY DEF Seed
<1>2. /\ read.pc = "seed" /\ q \in Query /\ q.kind = "context" /\ \A p \in read.query : p = q
  BY <1>1, OneQuery
<1>3. n \in Nat /\ q.depth \in Nat /\ near \in BOOLEAN /\ q.semantic \in BOOLEAN
  BY <1>2, ContextQueries
<1>4. GraphFine(g)
  BY <1>2, PinnedIsFine DEF SearchInv
<1>5. PICK hits \in Best(g.similar, n + 1),
           others \in IF q.semantic THEN Best(g.nodes, n) ELSE {{}} :
        \E seeds \in IF q.semantic THEN Best(hits \cup others, n) ELSE Best(hits, n) :
          read' = [read EXCEPT !.pc = "expand", !.context = Seeded(seeds, Cardinality(hits) > n)]
  BY DEF Seed, Seeded
<1>6. PICK seeds \in IF q.semantic THEN Best(hits \cup others, n) ELSE Best(hits, n) :
        read' = [read EXCEPT !.pc = "expand", !.context = Seeded(seeds, Cardinality(hits) > n)]
  BY <1>5
<1> DEFINE truncated == Cardinality(hits) > n
           c == Seeded(seeds, truncated)
<1> HIDE DEF g
<1>7. /\ seeds \subseteq g.nodes /\ IsFiniteSet(seeds) /\ Cardinality(seeds) <= n
      /\ near => seeds \subseteq g.similar
      /\ near /\ ~ (Cardinality(hits) > n) => seeds = g.similar
  <2>1. /\ others \in IF near THEN {{}} ELSE Best(g.nodes, n)
        /\ seeds \in IF near THEN Best(hits, n) ELSE Best(hits \cup others, n)
    BY <1>3
  <2> HIDE DEF near, n
  <2> QED BY <1>3, <1>4, <2>1, SeedsAre
<1>8. truncated \in BOOLEAN
  OBVIOUS
<1>9. c \in JoinStates /\ PacketFine(c, g, g.similar, n, q.depth, near)
  <2>1. near /\ ~ truncated => seeds = g.similar
    BY <1>7
  <2> HIDE DEF near, n, q, truncated
  <2> QED BY <1>3, <1>4, <1>7, <1>8, <2>1, SeededIsFine
<1> HIDE DEF c
<1>10. /\ read'.context = c /\ read'.pc = "expand" /\ read'.query = read.query /\ read'.build = read.build
  <2>1. read' = [read EXCEPT !.pc = "expand", !.context = c]
    BY <1>6 DEF c
  <2> QED BY <2>1 DEF Readable
<1>11. PinnedGraph' = g
  BY <1>1, <1>10 DEF PinnedGraph, g
<1>12. c.reads \in 0 .. EdgeCap
  BY <1>9 DEF PacketFine
<1> QED BY <1>2, <1>9, <1>10, <1>11, <1>12 DEF ContextInv, ContextFine

\* The packet without its last entity.
Shortened(c) ==
  [c EXCEPT !.nodes = c.nodes \ {Last(c.priority)}, !.priority = Front(c.priority), !.truncated = TRUE]

\* Shortening a packet drops the last entity from it.
LEMMA ShortenIs ==
  ASSUME Shorten
  PROVE  /\ read' = [read EXCEPT !.context = Shortened(read.context)]
         /\ read.context.queue = <<>> /\ read.context.priority # <<>>
BY DEF Shorten, Shortened

\* A packet grows, loses its last entity, or is answered.
LEMMA ContextGoesOn ==
  ASSUME Readable, SearchInv, ContextInv, Expand \/ Shorten \/ ReturnContext
  PROVE  ContextInv'
<1> DEFINE g == PinnedGraph
           q == Asked
           n == q.nodes
           near == ~ q.semantic
           c == read.context
<1>0. DOMAIN read = {"pc", "query", "build", "pages", "search", "context", "answer"}
  BY DEF Readable
<1>1. At("expand", "context") /\ UNCHANGED <<content, published, pointer>>
  BY DEF Expand, Shorten, ReturnContext
<1>2. /\ read.pc = "expand" /\ q \in Query /\ q.kind = "context" /\ q \in read.query /\ \A p \in read.query : p = q
  BY <1>1, OneQuery
<1>3. n \in Nat /\ q.depth \in Nat /\ near \in BOOLEAN
  BY <1>2, ContextQueries
<1>4. GraphFine(g)
  BY <1>2, PinnedIsFine DEF SearchInv
<1>5. c \in JoinStates /\ PacketFine(c, g, g.similar, n, q.depth, near)
  BY <1>2 DEF ContextInv, ContextFine
<1>6. ASSUME NEW d \in JoinStates, PacketFine(d, g, g.similar, n, q.depth, near),
             read' = [read EXCEPT !.context = d]
      PROVE  ContextInv'
  <2>1. read'.context = d /\ read'.pc = "expand" /\ read'.query = read.query /\ read'.build = read.build
    BY <1>0, <1>2, <1>6
  <2>2. PinnedGraph' = g
    BY <1>1, <2>1 DEF PinnedGraph
  <2>3. d.reads \in 0 .. EdgeCap
    BY <1>6 DEF PacketFine
  <2> HIDE DEF g, n, near
  <2> QED BY <1>2, <1>6, <2>1, <2>2, <2>3 DEF ContextInv, ContextFine, n, near
<1>7. CASE Expand
  <2>1. read' = [read EXCEPT !.context = Expanded(c)] /\ c.queue # <<>>
    BY <1>7, ExpandIs
  <2>2. Expanded(c) \in JoinStates /\ PacketFine(Expanded(c), g, g.similar, n, q.depth, near)
    BY <1>3, <1>4, <1>5, <2>1, PacketExpands
  <2> HIDE DEF c, g, n, near
  <2> QED BY <1>6, <2>1, <2>2
<1>8. CASE Shorten
  <2> DEFINE v == Last(c.priority)
             front == Front(c.priority)
             nodes == c.nodes \ {v}
             d == [c EXCEPT !.nodes = nodes, !.priority = front, !.truncated = TRUE]
  <2>0. d = Shortened(c)
    BY DEF Shortened
  <2>1. read' = [read EXCEPT !.context = d] /\ c.queue = <<>> /\ c.priority # <<>>
    BY <1>5, <1>8, <2>0, ShortenIs
  <2>2. front \in Seq(Vertex)
    <3> DEFINE s == c.priority
    <3>1. s \in Seq(Vertex) /\ s # <<>>
      BY <1>5, <2>1 DEF JoinStates
    <3> HIDE DEF s
    <3>2. Len(s) \in Nat \ {0} /\ \A i \in 1 .. Len(s) : s[i] \in Vertex
      BY <3>1
    <3>3. Len(s) - 1 \in Nat /\ \A i \in 1 .. Len(s) - 1 : s[i] \in Vertex
      BY <3>2
    <3>4. SubSeq(s, 1, Len(s) - 1) \in Seq(Vertex)
      BY <3>1, <3>2, <3>3, SubSeqProperties
    <3> QED BY <3>4 DEF s, Front
  <2> HIDE DEF front, v
  <2>3. nodes \subseteq c.nodes
    OBVIOUS
  <2> HIDE DEF nodes, c
  <2>4. /\ d \in JoinStates /\ d.nodes = nodes /\ d.queue = c.queue /\ d.truncated = TRUE
        /\ d.edges = c.edges /\ d.reads = c.reads
    BY <1>5, <2>2, <2>3 DEF JoinStates
  <2> HIDE DEF d
  <2>5. PacketFine(d, g, g.similar, n, q.depth, near)
    <3>1. /\ PacketBounded(c, g, n) /\ (near => PacketNear(c, g.rows, g.similar, q.depth)) /\ c.reads \in 0 .. EdgeCap
      BY <1>5 DEF PacketFine
    <3>2. PacketBounded(d, g, n)
      <4>1. c.nodes \subseteq g.nodes /\ IsFiniteSet(c.nodes)
        BY <1>4, <3>1, FS_Subset DEF PacketBounded, GraphFine
      <4> DEFINE a == Cardinality(nodes)
                 b == Cardinality(c.nodes)
      <4>2. a <= b /\ a \in Nat /\ b \in Nat /\ b <= n
        BY <2>3, <3>1, <4>1, FS_Subset, FS_CardinalityType DEF PacketBounded
      <4> HIDE DEF a, b
      <4>3. a <= n
        BY <1>3, <4>2
      <4> QED BY <2>3, <2>4, <3>1, <4>3 DEF PacketBounded, a
    <3>3. near => PacketNear(d, g.rows, g.similar, q.depth)
      BY <2>3, <2>4, <3>1 DEF PacketNear
    <3> QED BY <2>4, <3>1, <3>2, <3>3 DEF PacketFine
  <2> HIDE DEF g, n, near
  <2> QED BY <1>6, <2>1, <2>4, <2>5 DEF c
<1>9. CASE ReturnContext
  <2>1. /\ c.queue = <<>> /\ read'.pc = "done" /\ read'.answer = <<c.nodes, Links(c)>>
        /\ read'.context = c /\ read'.query = read.query /\ read'.build = read.build
    BY <1>0, <1>9 DEF ReturnContext
  <2>2. PinnedGraph' = g
    BY <1>1, <2>1 DEF PinnedGraph
  <2>3. AnswerHonest(<<c.nodes, Links(c)>>, c, g, q)
    BY <1>3, <1>4, <1>5, <2>1, PacketAnswers
  <2>4. c.reads \in 0 .. EdgeCap
    BY <1>5 DEF PacketFine
  <2> DEFINE answer == <<c.nodes, Links(c)>>
  <2> HIDE DEF c, g, answer
  <2> QED BY <1>2, <1>5, <2>1, <2>2, <2>3, <2>4 DEF ContextInv, ContextFine, answer
<1> QED BY <1>7, <1>8, <1>9

\* Every step of the reader keeps what is known of packets.
LEMMA ContextSteps ==
  ReaderInv /\ SearchInv /\ ContextInv /\ [ReadingNext]_readingVars => ContextInv'
<1> SUFFICES ASSUME ReaderInv, SearchInv, ContextInv, [ReadingNext]_readingVars PROVE ContextInv'
  OBVIOUS
<1>1. Readable
  BY DEF ReaderInv
<1>2. CASE UNCHANGED readingVars
  <2>1. read' = read /\ content' = content
    BY <1>2 DEF readingVars
  <2> QED BY <2>1, SameContext
<1>3. CASE ReadingNext
  BY <1>1, <1>3, ContextOthers, ContextBegins, ContextSeeds, ContextGoesOn DEF ReadingNext, Contexts
<1> QED BY <1>2, <1>3

\* A context from lexical seeds that does not say it is truncated has everything
\* within reach of every lexical match and every link met on the way; one that
\* does has nothing out of reach; and however the seeds were found, no link
\* dangles and there is no more than was asked for (ContextGraph).
THEOREM ContextsAreHonest == ReadingSpec => []ContextIsHonest
<1>1. ReaderInv /\ SearchInv /\ PathInv /\ ContextInv /\ [ReadingNext]_readingVars
        => (ReaderInv /\ SearchInv /\ PathInv /\ ContextInv)'
  BY ReaderSteps, PathSteps, ContextSteps
<1>2. ReadingInit => ReaderInv /\ SearchInv /\ PathInv /\ ContextInv
  <2> SUFFICES ASSUME ReadingInit PROVE ContextInv
    BY ReaderBegins, PathBegins
  <2>1. read.context = NoContext /\ read.query = {}
    BY DEF ReadingInit, NoRead
  <2> QED BY <2>1, NoPacket DEF ContextInv
<1>3. ContextInv => ContextIsHonest
  BY DEF ContextInv, ContextFine, AnswerHonest, ContextIsHonest
<1> QED BY <1>1, <1>2, <1>3, PTL DEF ReadingSpec

-----------------------------------------------------------------------------
(* Federated packets.                                                      *)

\* The sums of the beginnings of w.
Sums(h, w, m) == h \in [0 .. m -> Nat] /\ h[0] = 0 /\ \A k \in 1 .. m : h[k] = h[k - 1] + w[k]

\* The sum of w, as a fold computes it.
AddsUp(f, w, m) == f = [s \in SUBSET (1 .. m) |-> IF s = {} THEN 0 ELSE f[s \ {Max(s)}] + w[Max(s)]]
Total(w, m) == (CHOOSE f : AddsUp(f, w, m))[1 .. m]

\* It is the last of the sums.
LEMMA TotalIs ==
  ASSUME NEW m \in Nat, NEW w \in [1 .. m -> Nat]
  PROVE  \E h : Sums(h, w, m) /\ Total(w, m) = h[m]
<1> DEFINE G == [x \in Nat \X (1 .. m) |-> x[1] + w[x[2]]]
           f == CHOOSE f : AddsUp(f, w, m)
<1>1. G \in FoldSteps(Nat, m)
  BY DEF FoldSteps
<1>2. \A t \in Nat, i \in 1 .. m : G[<<t, i>>] = t + w[i]
  OBVIOUS
<1> HIDE DEF G
<1>3. \E g : AddsUp(g, w, m)
  <2>0. PICK g : IsFold(g, G, 0, m, Nat)
    BY <1>1, FoldExists
  <2>1. g \in [SUBSET (1 .. m) -> Nat] /\ \A s \in SUBSET (1 .. m) : g[s] = Round(g, G, 0, s)
    BY <2>0 DEF IsFold
  <2>2. ASSUME NEW s \in SUBSET (1 .. m), s # {}
        PROVE  G[<<g[s \ {Max(s)}], Max(s)>>] = g[s \ {Max(s)}] + w[Max(s)]
    <3>1. Max(s) \in s
      BY <2>2, GreatestIndex
    <3>2. g[s \ {Max(s)}] \in Nat /\ Max(s) \in 1 .. m
      BY <3>1, <2>1
    <3> QED BY <3>2, <1>2
  <2>3. \A s \in SUBSET (1 .. m) : g[s] = IF s = {} THEN 0 ELSE g[s \ {Max(s)}] + w[Max(s)]
    BY <2>1, <2>2 DEF Round
  <2>4. g = [s \in SUBSET (1 .. m) |-> g[s]]
    BY <2>1
  <2> QED BY <2>3, <2>4 DEF AddsUp
<1>4. AddsUp(f, w, m)
  BY <1>3
<1>a. Total(w, m) = f[1 .. m]
  BY DEF Total
<1> HIDE DEF f
<1>5. \A s \in SUBSET (1 .. m) : f[s] = IF s = {} THEN 0 ELSE f[s \ {Max(s)}] + w[Max(s)]
  BY <1>4 DEF AddsUp
<1>6. ASSUME NEW s \in SUBSET (1 .. m), s # {}, f[s \ {Max(s)}] \in Nat
      PROVE  f[s] = G[<<f[s \ {Max(s)}], Max(s)>>]
  <2>1. Max(s) \in 1 .. m
    BY <1>6, GreatestIndex
  <2> QED BY <1>2, <1>5, <1>6, <2>1
<1>7. f[{}] = 0
  BY <1>5
<1>8. FoldFollows(f, G, 0, m, Nat)
  BY <1>6, <1>7 DEF FoldFollows
<1>9. PICK h : Chain(h, G, 0, m, Nat) /\ h[m] = f[1 .. m]
  <2> DEFINE N == Nat
             z == 0
  <2>1. z \in N /\ G \in FoldSteps(N, m) /\ FoldFollows(f, G, z, m, N)
    BY <1>1, <1>8
  <2> HIDE DEF N, z
  <2>2. \E h : Chain(h, G, z, m, N) /\ h[m] = f[1 .. m]
    BY <2>1, FoldChain
  <2> QED BY <2>2 DEF N, z
<1>10. Sums(h, w, m)
  <2>1. ASSUME NEW k \in 1 .. m PROVE h[k] = h[k - 1] + w[k]
    <3>1. h[k - 1] \in Nat /\ h[k] = G[<<h[k - 1], k>>]
      BY <1>9 DEF Chain
    <3> QED BY <1>2, <3>1
  <2> QED BY <1>9, <2>1 DEF Chain, Sums
<1> QED BY <1>a, <1>9, <1>10

\* Sequences whose elements count for the same add up to the same.
LEMMA SameTotal ==
  ASSUME NEW m \in Nat, NEW w, NEW v, \A i \in 1 .. m : w[i] = v[i]
  PROVE  Total(w, m) = Total(v, m)
<1>1. ASSUME NEW f PROVE AddsUp(f, w, m) <=> AddsUp(f, v, m)
  <2> DEFINE F(s) == IF s = {} THEN 0 ELSE f[s \ {Max(s)}] + w[Max(s)]
             H(s) == IF s = {} THEN 0 ELSE f[s \ {Max(s)}] + v[Max(s)]
  <2>1. ASSUME NEW s \in SUBSET (1 .. m) PROVE F(s) = H(s)
    <3>1. s # {} => Max(s) \in 1 .. m
      BY GreatestIndex
    <3> QED BY <3>1
  <2> HIDE DEF F, H
  <2>2. [s \in SUBSET (1 .. m) |-> F(s)] = [s \in SUBSET (1 .. m) |-> H(s)]
    BY <2>1
  <2> QED BY <2>2 DEF AddsUp, F, H
<1>2. (CHOOSE f : AddsUp(f, w, m)) = (CHOOSE f : AddsUp(f, v, m))
  BY <1>1
<1> QED BY <1>2 DEF Total

\* The records of several packets.
LengthsOf(groups) == FoldLeft(LAMBDA n, g : n + Len(g), 0, groups)

\* Their number is the sum of the lengths.
LEMMA LengthsAdd ==
  ASSUME NEW m \in Nat, NEW groups, DOMAIN groups = 1 .. m
  PROVE  LengthsOf(groups) = Total([i \in 1 .. m |-> Len(groups[i])], m)
<1> DEFINE w == [i \in 1 .. m |-> Len(groups[i])]
           Rec(f) == f = [s \in SUBSET DOMAIN groups |-> IF s = {} THEN 0 ELSE f[s \ {Max(s)}] + Len(groups[Max(s)])]
<1>1. LengthsOf(groups) = (CHOOSE f : Rec(f))[DOMAIN groups]
  BY DEF LengthsOf, FoldLeft, MapThenFoldSet
<1>2. ASSUME NEW f PROVE Rec(f) <=> AddsUp(f, w, m)
  <2> DEFINE F(s) == IF s = {} THEN 0 ELSE f[s \ {Max(s)}] + Len(groups[Max(s)])
             H(s) == IF s = {} THEN 0 ELSE f[s \ {Max(s)}] + w[Max(s)]
  <2>1. ASSUME NEW s \in SUBSET (1 .. m) PROVE F(s) = H(s)
    <3>1. s # {} => Max(s) \in 1 .. m
      BY GreatestIndex
    <3> QED BY <3>1
  <2> HIDE DEF F, H
  <2>2. [s \in SUBSET (1 .. m) |-> F(s)] = [s \in SUBSET (1 .. m) |-> H(s)]
    BY <2>1
  <2>3. Rec(f) <=> f = [s \in SUBSET (1 .. m) |-> F(s)]
    BY DEF F
  <2>4. AddsUp(f, w, m) <=> f = [s \in SUBSET (1 .. m) |-> H(s)]
    BY DEF H, AddsUp
  <2> QED BY <2>2, <2>3, <2>4
<1> HIDE DEF w, Rec
<1>3. (CHOOSE f : Rec(f)) = (CHOOSE f : AddsUp(f, w, m))
  BY <1>2
<1> QED BY <1>1, <1>3 DEF Total, w

\* The matches that providers said they left out.
OmittedOf(sources) == FoldLeft(LAMBDA n, s : n + s.omitted, 0, sources)

\* Their number is the sum of what each said.
LEMMA OmittedAdd ==
  ASSUME NEW m \in Nat, NEW sources, DOMAIN sources = 1 .. m
  PROVE  OmittedOf(sources) = Total([i \in 1 .. m |-> sources[i].omitted], m)
<1> DEFINE w == [i \in 1 .. m |-> sources[i].omitted]
           Rec(f) == f = [s \in SUBSET DOMAIN sources |-> IF s = {} THEN 0 ELSE f[s \ {Max(s)}] + sources[Max(s)].omitted]
<1>1. OmittedOf(sources) = (CHOOSE f : Rec(f))[DOMAIN sources]
  BY DEF OmittedOf, FoldLeft, MapThenFoldSet
<1>2. ASSUME NEW f PROVE Rec(f) <=> AddsUp(f, w, m)
  <2> DEFINE F(s) == IF s = {} THEN 0 ELSE f[s \ {Max(s)}] + sources[Max(s)].omitted
             H(s) == IF s = {} THEN 0 ELSE f[s \ {Max(s)}] + w[Max(s)]
  <2>1. ASSUME NEW s \in SUBSET (1 .. m) PROVE F(s) = H(s)
    <3>1. s # {} => Max(s) \in 1 .. m
      BY GreatestIndex
    <3> QED BY <3>1
  <2> HIDE DEF F, H
  <2>2. [s \in SUBSET (1 .. m) |-> F(s)] = [s \in SUBSET (1 .. m) |-> H(s)]
    BY <2>1
  <2>3. Rec(f) <=> f = [s \in SUBSET (1 .. m) |-> F(s)]
    BY DEF F
  <2>4. AddsUp(f, w, m) <=> f = [s \in SUBSET (1 .. m) |-> H(s)]
    BY DEF H, AddsUp
  <2> QED BY <2>2, <2>3, <2>4
<1> HIDE DEF w, Rec
<1>3. (CHOOSE f : Rec(f)) = (CHOOSE f : AddsUp(f, w, m))
  BY <1>2
<1> QED BY <1>1, <1>3 DEF Total, w

\* What an answer says of the providers, and what they had to say.
WhoAnswered(a) == {p \in Provider : a.sources[p].error = ""}
MatchingIds(a, js, p) ==
  {r.id : r \in {r \in Knowledge[p][CHOOSE n \in a.sources[p].snapshot : TRUE] :
                   Eligible(p, js[p].grant, r) /\ r.score > 0}}
MatchCount(a, js, p) == IF p \in WhoAnswered(a) THEN Cardinality(MatchingIds(a, js, p)) ELSE 0
AllMatches(a, js) ==
  FoldLeft(LAMBDA n, p : n + (IF p \in WhoAnswered(a) THEN Cardinality(MatchingIds(a, js, p)) ELSE 0),
           0, [p \in Provider |-> p])

\* Their matches are the sum of the matches of each.
LEMMA MatchesAdd ==
  ASSUME NEW a, NEW js
  PROVE  AllMatches(a, js) = Total([p \in Provider |-> MatchCount(a, js, p)], Providers)
<1> DEFINE m == Providers
           w == [p \in Provider |-> MatchCount(a, js, p)]
           seq == [p \in Provider |-> p]
           Rec(f) == f = [s \in SUBSET DOMAIN seq |-> IF s = {} THEN 0 ELSE f[s \ {Max(s)}] + MatchCount(a, js, seq[Max(s)])]
<1>1. AllMatches(a, js) = (CHOOSE f : Rec(f))[DOMAIN seq]
  BY DEF AllMatches, FoldLeft, MapThenFoldSet, MatchCount
<1>0. DOMAIN seq = 1 .. m /\ m \in Nat /\ \A i \in 1 .. m : seq[i] = i /\ w[i] = MatchCount(a, js, i)
  BY FederationAssumption DEF Provider
<1> HIDE DEF seq, w
<1>2. ASSUME NEW f PROVE Rec(f) <=> AddsUp(f, w, m)
  <2> DEFINE F(s) == IF s = {} THEN 0 ELSE f[s \ {Max(s)}] + MatchCount(a, js, seq[Max(s)])
             H(s) == IF s = {} THEN 0 ELSE f[s \ {Max(s)}] + w[Max(s)]
  <2>1. ASSUME NEW s \in SUBSET (1 .. m) PROVE F(s) = H(s)
    <3>1. s # {} => Max(s) \in 1 .. m
      BY <1>0, GreatestIndex
    <3> QED BY <1>0, <3>1
  <2> HIDE DEF F, H
  <2>2. [s \in SUBSET (1 .. m) |-> F(s)] = [s \in SUBSET (1 .. m) |-> H(s)]
    BY <2>1
  <2>3. Rec(f) <=> f = [s \in SUBSET (1 .. m) |-> F(s)]
    BY <1>0 DEF F
  <2>4. AddsUp(f, w, m) <=> f = [s \in SUBSET (1 .. m) |-> H(s)]
    BY DEF H, AddsUp
  <2> QED BY <2>2, <2>3, <2>4
<1> HIDE DEF Rec
<1>3. (CHOOSE f : Rec(f)) = (CHOOSE f : AddsUp(f, w, m))
  BY <1>2
<1> QED BY <1>0, <1>1, <1>3 DEF Total, w

\* Nothing takes no characters.
LEMMA NoChars == Chars(<<>>) = 0
<1> DEFINE D == DOMAIN <<>>
           Rec(f) == f = [s \in SUBSET D |-> IF s = {} THEN 0
                            ELSE f[s \ {Max(s)}] + <<>>[Max(s)].size + Cardinality(<<>>[Max(s)].sameOrigin)]
           f == CHOOSE f : Rec(f)
<1>1. Chars(<<>>) = f[D]
  BY DEF Chars, FoldLeft, MapThenFoldSet
<1>2. D = {}
  OBVIOUS
<1> HIDE DEF D
<1>3. Rec([s \in SUBSET D |-> 0])
  <2>1. SUBSET D = {{}}
    BY <1>2
  <2> QED BY <2>1
<1>4. Rec(f)
  BY <1>3
<1> HIDE DEF f
<1>5. f[{}] = 0
  BY <1>2, <1>4
<1> QED BY <1>1, <1>2, <1>5

\* S in order: the n numbers that good lists.
Lists(good, n, S) ==
  /\ good \in [1 .. n -> S]
  /\ \A x \in S : \E i \in 1 .. n : good[i] = x
  /\ \A i, j \in 1 .. n : i < j <=> good[i] < good[j]

\* The first j that are listed are those up to k.
UpTo(good, n, k, j) == \A i \in 1 .. n : i <= j <=> good[i] <= k

\* What is listed next.
LEMMA NextListed ==
  ASSUME NEW n \in Nat, NEW S \in SUBSET Nat, NEW good, Lists(good, n, S), NEW k \in Nat, NEW j \in 0 .. n,
         UpTo(good, n, k, j)
  PROVE  /\ k + 1 \notin S => UpTo(good, n, k + 1, j)
         /\ k + 1 \in S => j + 1 \in 1 .. n /\ good[j + 1] = k + 1 /\ UpTo(good, n, k + 1, j + 1)
<1>1. \A i \in 1 .. n : good[i] \in S /\ good[i] \in Nat
  BY DEF Lists
<1>2. k + 1 \notin S => UpTo(good, n, k + 1, j)
  <2> SUFFICES ASSUME k + 1 \notin S, NEW i \in 1 .. n PROVE i <= j <=> good[i] <= k + 1
    BY DEF UpTo
  <2>1. good[i] # k + 1
    BY <1>1
  <2> QED BY <1>1, <2>1 DEF UpTo
<1>3. ASSUME k + 1 \in S PROVE j + 1 \in 1 .. n /\ good[j + 1] = k + 1 /\ UpTo(good, n, k + 1, j + 1)
  <2>1. PICK i \in 1 .. n : good[i] = k + 1
    BY <1>3 DEF Lists
  <2>2. ~ (i <= j)
    BY <1>1, <2>1 DEF UpTo
  <2>3. j + 1 \in 1 .. n /\ j + 1 <= i
    BY <2>2
  <2>4. good[j + 1] > k
    BY <1>1, <2>3 DEF UpTo
  <2>5. ~ (j + 1 < i)
    <3>1. j + 1 < i => good[j + 1] < good[i]
      BY <2>3 DEF Lists
    <3> QED BY <1>1, <2>1, <2>3, <2>4, <3>1
  <2>6. j + 1 = i
    BY <2>3, <2>5
  <2>7. ASSUME NEW x \in 1 .. n PROVE x <= j + 1 <=> good[x] <= k + 1
    <3>1. i < x <=> good[i] < good[x]
      BY DEF Lists
    <3> QED BY <1>1, <2>1, <2>6, <3>1
  <2> QED BY <2>1, <2>3, <2>6, <2>7 DEF UpTo
<1> QED BY <1>2, <1>3

\* Each of P has c: o, and l if it is listed.
Tally(P, n, S, good, l, o, c) ==
  /\ P \in Nat /\ n \in Nat /\ S \in SUBSET (1 .. P) /\ Lists(good, n, S)
  /\ l \in [1 .. n -> Nat] /\ o \in [1 .. P -> Nat] /\ c \in [1 .. P -> Nat]
  /\ \A i \in 1 .. n : c[good[i]] = l[i] + o[good[i]]
  /\ \A p \in (1 .. P) \ S : c[p] = o[p]

\* What is listed adds up to what all have, when those that are not listed have nothing.
LEMMA TallyAdds ==
  ASSUME NEW P, NEW n, NEW S, NEW good, NEW l, NEW o, NEW c, Tally(P, n, S, good, l, o, c),
         NEW h1, NEW h2, NEW h3, Sums(h1, l, n), Sums(h2, o, P), Sums(h3, c, P)
  PROVE  h3[P] = h1[n] + h2[P]
<1> USE DEF Tally
<1> DEFINE A == {k \in Nat : k <= P => \E j \in 0 .. n : UpTo(good, n, k, j) /\ h3[k] = h1[j] + h2[k]}
<1>0. S \in SUBSET Nat /\ \A i \in 1 .. n : good[i] \in 1 .. P
  <2>1. \A i \in 1 .. n : good[i] \in S
    BY DEF Lists
  <2>2. \A x \in S : x \in 1 .. P
    OBVIOUS
  <2>3. \A x \in S : x \in Nat
    BY <2>2
  <2>4. S \in SUBSET Nat
    BY <2>3
  <2>5. \A i \in 1 .. n : good[i] \in 1 .. P
    BY <2>1, <2>2
  <2> QED BY <2>4, <2>5
<1>1. 0 \in A
  <2>1. UpTo(good, n, 0, 0)
    BY <1>0 DEF UpTo
  <2>2. h3[0] = 0 /\ h1[0] = 0 /\ h2[0] = 0
    BY DEF Sums
  <2> QED BY <2>1, <2>2
<1>2. ASSUME NEW k \in A PROVE k + 1 \in A
  <2> SUFFICES ASSUME k + 1 <= P PROVE \E j \in 0 .. n : UpTo(good, n, k + 1, j) /\ h3[k + 1] = h1[j] + h2[k + 1]
    OBVIOUS
  <2>1. k \in Nat /\ k + 1 \in 1 .. P /\ (k + 1) - 1 = k
    OBVIOUS
  <2>2. PICK j \in 0 .. n : UpTo(good, n, k, j) /\ h3[k] = h1[j] + h2[k]
    BY <2>1
  <2>3. h3[k + 1] = h3[k] + c[k + 1] /\ h2[k + 1] = h2[k] + o[k + 1] /\ h2[k] \in Nat /\ h3[k] \in Nat
    BY <2>1 DEF Sums
  <2>4. c[k + 1] \in Nat /\ o[k + 1] \in Nat /\ h1[j] \in Nat
    BY <2>1 DEF Sums
  <2>5. CASE k + 1 \notin S
    <3>1. UpTo(good, n, k + 1, j)
      BY <1>0, <2>1, <2>2, <2>5, NextListed
    <3>2. c[k + 1] = o[k + 1]
      BY <2>1, <2>5
    <3> QED BY <2>2, <2>3, <2>4, <3>1, <3>2
  <2>6. CASE k + 1 \in S
    <3>1. j + 1 \in 1 .. n /\ good[j + 1] = k + 1 /\ UpTo(good, n, k + 1, j + 1)
      BY <1>0, <2>1, <2>2, <2>6, NextListed
    <3>2. c[k + 1] = l[j + 1] + o[k + 1] /\ l[j + 1] \in Nat
      BY <3>1
    <3>3. h1[j + 1] = h1[j] + l[j + 1] /\ j + 1 \in 0 .. n
      <4>1. (j + 1) - 1 = j
        OBVIOUS
      <4> QED BY <3>1, <4>1 DEF Sums
    <3>4. h3[k + 1] = h1[j + 1] + h2[k + 1]
      <4> DEFINE a1 == h1[j]
                 a2 == h2[k]
                 b1 == h1[j + 1]
                 b2 == h2[k + 1]
                 ll == l[j + 1]
                 oo == o[k + 1]
      <4>1. h3[k + 1] = (a1 + a2) + (ll + oo) /\ b1 = a1 + ll /\ b2 = a2 + oo
        BY <2>2, <2>3, <3>2, <3>3
      <4>2. a1 \in Nat /\ a2 \in Nat /\ ll \in Nat /\ oo \in Nat
        BY <2>3, <2>4, <3>2
      <4> HIDE DEF a1, a2, b1, b2, ll, oo
      <4>3. (a1 + a2) + (ll + oo) = b1 + b2
        BY <4>1, <4>2
      <4> QED BY <4>1, <4>3 DEF b1, b2
    <3> QED BY <3>1, <3>3, <3>4
  <2> QED BY <2>5, <2>6
<1>3. A = Nat
  <2>1. A \in SUBSET Nat
    OBVIOUS
  <2> HIDE DEF A
  <2> QED BY <1>1, <1>2, <2>1, AllNumbers
<1>4. PICK j \in 0 .. n : UpTo(good, n, P, j) /\ h3[P] = h1[j] + h2[P]
  <2>1. P \in A
    <3> HIDE DEF A
    <3> QED BY <1>3
  <2>2. P <= P
    OBVIOUS
  <2> QED BY <2>1, <2>2
<1>5. j = n
  <2> SUFFICES ASSUME j # n PROVE FALSE
    OBVIOUS
  <2>1. n \in 1 .. n /\ ~ (n <= j)
    OBVIOUS
  <2> QED BY <1>0, <1>4, <2>1 DEF UpTo
<1> QED BY <1>4, <1>5

\* A packet never has more records than there are matches, and says how many it left out.
LEMMA PacketCounts ==
  ASSUME NEW p \in Provider, NEW n \in DOMAIN Knowledge[p], NEW grant
  PROVE  LET packet == ContextPacket(p, grant, n)
             all == Cardinality(Eligibles(p, grant, n))
         IN  /\ packet.identity = p /\ packet.snapshot = n
             /\ packet.records \in Seq(Projected(p, grant, n))
             /\ Len(packet.records) \in Nat /\ packet.omitted \in Nat /\ all \in Nat
             /\ Len(packet.records) + packet.omitted = all
<1> DEFINE R == Eligibles(p, grant, n)
           U == Projected(p, grant, n)
           T == Seq(U)
           seq == Matching(p, grant, n)
           m == Len(seq)
           G == [x \in T \X (1 .. m) |-> Fill(p, grant, n, x[1], seq[x[2]])]
           records == ContextPacket(p, grant, n).records
           omitted == ContextPacket(p, grant, n).omitted
           all == Cardinality(R)
<1>1. seq \in Seq(R) /\ m = all /\ all \in Nat
  BY MatchingFacts
<1>a. m \in Nat /\ \A i \in 1 .. m : seq[i] \in R
  BY <1>1
<1>2. <<>> \in T
  OBVIOUS
<1>3. \A got \in T, r \in R : /\ Fill(p, grant, n, got, r) \in T
                              /\ Len(Fill(p, grant, n, got, r)) <= Len(got) + 1
  <2> SUFFICES ASSUME NEW got \in T, NEW r \in R
               PROVE  /\ Fill(p, grant, n, got, r) \in T
                      /\ Len(Fill(p, grant, n, got, r)) <= Len(got) + 1
    OBVIOUS
  <2> DEFINE x == Project(p, n, r, Allowed(p, grant, n))
             more == Append(got, x)
  <2>1. x \in U
    BY DEF Projected
  <2> HIDE DEF x, U
  <2>2. more \in T /\ Len(more) = Len(got) + 1 /\ Len(got) \in Nat
    BY <2>1
  <2>3. Fill(p, grant, n, got, r) \in {more, got}
    BY DEF Fill, More, x
  <2> HIDE DEF more, T
  <2> QED BY <2>2, <2>3
<1>4. /\ ContextPacket(p, grant, n).identity = p /\ ContextPacket(p, grant, n).snapshot = n
      /\ omitted = m - Len(records)
  BY DEF ContextPacket
<1>5. records \in Seq(U)
  BY PacketRecords
<1> HIDE DEF R, U, T, omitted
<1>6. PICK h : Chain(h, G, <<>>, m, T) /\ records = h[m]
  <2>1. \A got \in T, r \in R : Fill(p, grant, n, got, r) \in T
    BY <1>3
  <2> HIDE DEF records
  <2> QED BY <1>1, <1>2, <2>1, Filling DEF records
<1> HIDE DEF records
<1>7. ASSUME NEW k \in 1 .. m PROVE Len(h[k]) <= Len(h[k - 1]) + 1
  <2>1. h[k - 1] \in T /\ h[k] = G[<<h[k - 1], k>>]
    <3>1. k - 1 \in 0 .. m
      BY <1>a
    <3> HIDE DEF G, m
    <3> QED BY <1>6, <3>1 DEF Chain
  <2>2. h[k] = Fill(p, grant, n, h[k - 1], seq[k])
    BY <2>1
  <2> QED BY <1>3, <1>a, <2>1, <2>2
<1> HIDE DEF G, m
<1>8. h \in [0 .. m -> T] /\ h[0] = <<>>
  BY <1>6 DEF Chain
<1> DEFINE A == {k \in Nat : k <= m => Len(h[k]) \in Nat /\ Len(h[k]) <= k}
<1>9. A = Nat
  <2>1. A \in SUBSET Nat /\ 0 \in A
    BY <1>8
  <2>2. ASSUME NEW k \in A PROVE k + 1 \in A
    <3> SUFFICES ASSUME k + 1 <= m PROVE Len(h[k + 1]) \in Nat /\ Len(h[k + 1]) <= k + 1
      OBVIOUS
    <3>1. k \in Nat /\ k + 1 \in 1 .. m /\ (k + 1) - 1 = k /\ k <= m
      BY <1>a
    <3>2. Len(h[k]) \in Nat /\ Len(h[k]) <= k /\ Len(h[k + 1]) <= Len(h[k]) + 1
      BY <1>7, <3>1
    <3>3. h[k + 1] \in Seq(U)
      BY <1>8, <3>1 DEF T
    <3>4. Len(h[k + 1]) \in Nat
      BY <3>3
    <3> QED BY <3>1, <3>2, <3>4
  <2> HIDE DEF A
  <2> QED BY <2>1, <2>2, AllNumbers
<1>10. Len(records) \in Nat /\ Len(records) <= m
  BY <1>6, <1>9, <1>a
<1>11. omitted \in Nat /\ Len(records) + omitted = all
  BY <1>1, <1>4, <1>10, <1>a DEF m
<1> QED BY <1>1, <1>4, <1>5, <1>10, <1>11 DEF records, omitted, R, U

\* The quotient and the rest are those of one number.
LEMMA OneQuotient ==
  ASSUME NEW t \in Nat, NEW k \in Nat, NEW n \in Nat \ {0}, t % n = k % n, t \div n = k \div n
  PROVE  t = k
OBVIOUS

ToldApart(records) == \A i, j \in DOMAIN records : Qualified(records[i]) = Qualified(records[j]) => i = j
Marked(records) ==
  \A i, j \in DOMAIN records : i # j =>
    (SourceKey(records[i]) = SourceKey(records[j]) <=> Qualified(records[i]) \in records[j].sameOrigin)

\* Grouping distinct records marks exactly those that share their key.
LEMMA GroupingMarks ==
  ASSUME NEW U, Unmarked(U), NEW records \in Seq(U), ToldApart(records)
  PROVE  LET x == GroupOrigins(records)
         IN  /\ x \in Seq(U) /\ Len(x) = Len(records) /\ ToldApart(x) /\ Marked(x)
             /\ \A i \in 1 .. Len(records) : Qualified(x[i]) = Qualified(records[i])
<1> DEFINE x == GroupOrigins(records)
           D == DOMAIN records
           Same(i) == {Qualified(records[j]) : j \in {j \in D : SourceKey(records[j]) = SourceKey(records[i])}}
                        \ {Qualified(records[i])}
<1>1. D = 1 .. Len(records) /\ Len(records) \in Nat /\ \A i \in D : records[i] \in RecordType
  <2>1. \A i \in 1 .. Len(records) : records[i] \in U
    OBVIOUS
  <2> QED BY <2>1 DEF Unmarked
<1>2. x \in Seq(U)
  BY OriginsGrouped
<1>3. x = [i \in D |-> [records[i] EXCEPT !.sameOrigin = Same(i)]]
  BY DEF GroupOrigins
<1> HIDE DEF Same, D
<1>4. ASSUME NEW i \in D
      PROVE  /\ x[i].provider = records[i].provider /\ x[i].id = records[i].id /\ SourceKey(x[i]) = SourceKey(records[i])
             /\ x[i].sameOrigin = Same(i)
  <2>1. x[i] = [records[i] EXCEPT !.sameOrigin = Same(i)]
    BY <1>3
  <2> HIDE DEF x
  <2> QED BY <1>1, <2>1 DEF RecordType, SourceKey
<1>5. DOMAIN x = D
  BY <1>3
<1> HIDE DEF x
<1>6. Len(x) = Len(records)
  <2>1. DOMAIN x = 1 .. Len(x) /\ Len(x) \in Nat
    BY <1>2
  <2> QED BY <1>1, <1>5, <2>1
<1>7. \A i \in D : Qualified(x[i]) = Qualified(records[i])
  BY <1>4 DEF Qualified
<1>8. ToldApart(x)
  BY <1>5, <1>7 DEF ToldApart, D
<1>9. Marked(x)
  <2> SUFFICES ASSUME NEW i \in D, NEW j \in D, i # j
               PROVE  SourceKey(x[i]) = SourceKey(x[j]) <=> Qualified(x[i]) \in x[j].sameOrigin
    BY <1>5 DEF Marked
  <2>1. Qualified(records[i]) # Qualified(records[j])
    BY DEF ToldApart, D
  <2>2. ASSUME NEW k \in D, Qualified(records[k]) = Qualified(records[i]) PROVE k = i
    BY <2>2 DEF ToldApart, D
  <2>3. Qualified(records[i]) \in Same(j) <=> SourceKey(records[i]) = SourceKey(records[j])
    <3>1. ASSUME SourceKey(records[i]) = SourceKey(records[j]) PROVE Qualified(records[i]) \in Same(j)
      BY <2>1, <3>1 DEF Same
    <3>2. ASSUME Qualified(records[i]) \in Same(j) PROVE SourceKey(records[i]) = SourceKey(records[j])
      <4>1. PICK k \in D : SourceKey(records[k]) = SourceKey(records[j]) /\ Qualified(records[k]) = Qualified(records[i])
        BY <3>2 DEF Same
      <4> QED BY <2>2, <4>1
    <3> QED BY <3>1, <3>2
  <2> QED BY <1>4, <1>7, <2>3
<1> QED BY <1>1, <1>2, <1>6, <1>7, <1>8, <1>9 DEF x

\* No record is in two places.
NoneTwice(groups) ==
  \A a, b \in 1 .. Len(groups) : \A i \in 1 .. Len(groups[a]), j \in 1 .. Len(groups[b]) :
    Qualified(groups[a][i]) = Qualified(groups[b][j]) => a = b /\ i = j

\* The record whose turn is t.
Came(groups, t, r) ==
  LET a == (t % Len(groups)) + 1
      j == (t \div Len(groups)) + 1
  IN  j <= Len(groups[a]) /\ Qualified(r) = Qualified(groups[a][j])

\* What is chosen after k turns.
Picked(groups, got, k) ==
  /\ Len(got) <= Limit /\ Chars(got) <= MaxChars
  /\ \A i \in 1 .. Len(got) : \E t \in 0 .. k - 1 : Came(groups, t, got[i])
  /\ ToldApart(got) /\ Marked(got)

\* One more turn.
LEMMA TurnTakes ==
  ASSUME NEW U, Unmarked(U), NEW groups \in Seq(Seq(U)), groups # <<>>, NoneTwice(groups),
         NEW k \in Nat, NEW got \in Seq(U), Picked(groups, got, k)
  PROVE  Turn(groups, got, k) \in Seq(U) /\ Picked(groups, Turn(groups, got, k), k + 1)
<1> DEFINE n == Len(groups)
           a == (k % n) + 1
           j == (k \div n) + 1
           g == groups[a]
           e == g[j]
           more == Append(got, e)
           x == GroupOrigins(more)
<1>1. n \in Nat \ {0} /\ \A i \in 1 .. n : groups[i] \in Seq(U)
  OBVIOUS
<1>2. a \in 1 .. n /\ j \in Nat \ {0}
  <2> HIDE DEF n
  <2>1. k \div n \in Nat /\ k % n \in 0 .. n - 1
    BY <1>1, Quotient
  <2> QED BY <1>1, <2>1
<1>3. Turn(groups, got, k) = IF Len(got) < Limit /\ j <= Len(g) /\ Chars(x) <= MaxChars THEN x ELSE got
  BY DEF Turn
<1>4. g \in Seq(U)
  BY <1>1, <1>2
<1>5. Picked(groups, got, k + 1)
  <2>1. \A t \in 0 .. k - 1 : t \in 0 .. (k + 1) - 1
    OBVIOUS
  <2> QED BY <2>1 DEF Picked
<1> HIDE DEF a, j, g, n
<1>6. ASSUME Len(got) < Limit, j <= Len(g), Chars(x) <= MaxChars PROVE x \in Seq(U) /\ Picked(groups, x, k + 1)
  <2>1. j \in 1 .. Len(g) /\ e \in U
    BY <1>2, <1>4, <1>6
  <2> HIDE DEF e
  <2>2. /\ more \in Seq(U) /\ Len(more) = Len(got) + 1 /\ Len(got) \in Nat
        /\ DOMAIN more = 1 .. Len(got) + 1
        /\ (\A i \in 1 .. Len(got) : more[i] = got[i]) /\ more[Len(got) + 1] = e
    BY <2>1
  <2> HIDE DEF more
  <2>3. \A i \in 1 .. Len(got) : Qualified(got[i]) # Qualified(e)
    <3> SUFFICES ASSUME NEW i \in 1 .. Len(got), Qualified(got[i]) = Qualified(e) PROVE FALSE
      OBVIOUS
    <3>1. PICK t \in 0 .. k - 1 : Came(groups, t, got[i])
      BY DEF Picked
    <3> DEFINE b == (t % n) + 1
               l == (t \div n) + 1
    <3>2. l <= Len(groups[b]) /\ Qualified(got[i]) = Qualified(groups[b][l])
      BY <3>1 DEF Came, n
    <3>3. t \in Nat /\ b \in 1 .. n /\ l \in Nat \ {0}
      <4>1. t \in Nat
        OBVIOUS
      <4>2. t \div n \in Nat /\ t % n \in 0 .. n - 1
        BY <1>1, <4>1, Quotient
      <4> QED BY <1>1, <4>1, <4>2
    <3> HIDE DEF b, l
    <3>4. groups[b] \in Seq(U)
      BY <1>1, <3>3
    <3>5. l \in 1 .. Len(groups[b])
      BY <3>2, <3>3, <3>4
    <3>6. b = a /\ l = j
      <4>1. \A y, z \in 1 .. n : \A i1 \in 1 .. Len(groups[y]), i2 \in 1 .. Len(groups[z]) :
              Qualified(groups[y][i1]) = Qualified(groups[z][i2]) => y = z /\ i1 = i2
        BY DEF NoneTwice, n
      <4>2. e = groups[a][j] /\ j \in 1 .. Len(groups[a])
        BY <2>1 DEF e, g
      <4>3. Qualified(groups[b][l]) = Qualified(groups[a][j])
        BY <3>2, <4>2
      <4> QED BY <1>2, <3>3, <3>5, <4>1, <4>2, <4>3
    <3>7. t % n = k % n /\ t \div n = k \div n
      <4>1. t \div n \in Nat /\ t % n \in 0 .. n - 1 /\ k \div n \in Nat /\ k % n \in 0 .. n - 1
        BY <1>1, <3>3, Quotient
      <4> QED BY <3>6, <4>1 DEF a, b, j, l
    <3>8. t = k
      BY <1>1, <3>3, <3>7, OneQuotient
    <3> QED BY <3>8
  <2>4. ToldApart(more)
    <3> SUFFICES ASSUME NEW i \in 1 .. Len(got) + 1, NEW m \in 1 .. Len(got) + 1,
                        Qualified(more[i]) = Qualified(more[m]) PROVE i = m
      BY <2>2 DEF ToldApart
    <3>1. i = Len(got) + 1 \/ i \in 1 .. Len(got)
      BY <2>2
    <3>2. m = Len(got) + 1 \/ m \in 1 .. Len(got)
      BY <2>2
    <3>3. i \in 1 .. Len(got) /\ m \in 1 .. Len(got) => i = m
      <4>1. DOMAIN got = 1 .. Len(got)
        OBVIOUS
      <4> QED BY <2>2, <4>1 DEF Picked, ToldApart
    <3> QED BY <2>2, <2>3, <3>1, <3>2, <3>3
  <2>5. /\ x \in Seq(U) /\ Len(x) = Len(more) /\ ToldApart(x) /\ Marked(x)
        /\ \A i \in 1 .. Len(more) : Qualified(x[i]) = Qualified(more[i])
    BY <2>2, <2>4, GroupingMarks
  <2> HIDE DEF x
  <2>6. ASSUME NEW i \in 1 .. Len(x) PROVE \E t \in 0 .. (k + 1) - 1 : Came(groups, t, x[i])
    <3>1. CASE i \in 1 .. Len(got)
      <4>1. PICK t \in 0 .. k - 1 : Came(groups, t, got[i])
        BY <3>1 DEF Picked
      <4>2. Qualified(x[i]) = Qualified(got[i])
        BY <2>2, <2>5, <3>1
      <4>3. Came(groups, t, x[i])
        BY <4>1, <4>2 DEF Came
      <4>4. t \in 0 .. (k + 1) - 1
        OBVIOUS
      <4> QED BY <4>3, <4>4
    <3>2. CASE i = Len(got) + 1
      <4>1. Qualified(x[i]) = Qualified(e)
        BY <2>2, <2>5, <3>2
      <4>2. Came(groups, k, x[i])
        BY <1>6, <4>1 DEF Came, a, j, e, g, n
      <4>3. k \in 0 .. (k + 1) - 1
        OBVIOUS
      <4> QED BY <4>2, <4>3
    <3> QED BY <2>2, <2>5, <3>1, <3>2
  <2>7. Len(x) <= Limit
    BY <1>6, <2>2, <2>5, FederationAssumption
  <2> QED BY <1>6, <2>5, <2>6, <2>7 DEF Picked
<1> HIDE DEF x
<1> QED BY <1>3, <1>5, <1>6

\* Records have different identifiers, so there are as many of these.
LEMMA IdsCount ==
  ASSUME NEW S, IsFiniteSet(S), \A r, s \in S : r.id = s.id => r = s
  PROVE  Cardinality({r.id : r \in S}) = Cardinality(S)
<1> DEFINE T == {r.id : r \in S}
           f == [r \in S |-> r.id]
<1>1. f \in [S -> T] /\ (\A t \in T : \E s \in S : f[s] = t) /\ \A r, s \in S : f[r] = f[s] => r = s
  OBVIOUS
<1> HIDE DEF f, T
<1>2. f \in Bijection(S, T)
  BY <1>1 DEF Bijection, Injection, Surjection, IsInjective
<1>3. ExistsBijection(S, T)
  BY <1>2 DEF ExistsBijection
<1>4. Cardinality(T) = Cardinality(S)
  BY <1>3, FS_Bijection
<1> QED BY <1>4 DEF T

\* Nothing is chosen before the first turn.
LEMMA NothingPicked ==
  ASSUME NEW groups
  PROVE  Picked(groups, <<>>, 0)
<1>1. Len(<<>>) = 0 /\ DOMAIN <<>> = {} /\ 1 .. 0 = {}
  OBVIOUS
<1>2. Limit \in Nat /\ MaxChars \in Nat
  BY FederationAssumption
<1>3. ToldApart(<<>>) /\ Marked(<<>>)
  BY <1>1 DEF ToldApart, Marked
<1>4. Len(<<>>) <= Limit /\ Chars(<<>>) <= MaxChars
  BY <1>1, <1>2, NoChars
<1>5. \A i \in 1 .. Len(<<>>) : \E t \in 0 .. 0 - 1 : Came(groups, t, <<>>[i])
  BY <1>1
<1> QED BY <1>3, <1>4, <1>5 DEF Picked

\* All turns.
LEMMA TurnsPicked ==
  ASSUME NEW U, Unmarked(U), NEW groups \in Seq(Seq(U)), groups # <<>>, NoneTwice(groups)
  PROVE  TakeTurns(groups) \in Seq(U) /\ \E k \in Nat : Picked(groups, TakeTurns(groups), k)
<1> DEFINE T == Seq(U)
           n == Len(groups)
           m == Limit * n
           G == [x \in T \X (1 .. m) |-> Turn(groups, x[1], x[2] - 1)]
<1>1. n \in Nat \ {0}
  OBVIOUS
<1>2. \A got \in T, k \in Nat : Turn(groups, got, k) \in T
  BY TurnRecords
<1>3. <<>> \in T
  OBVIOUS
<1> HIDE DEF T
<1>4. PICK h : Chain(h, G, <<>>, m, T) /\ TakeTurns(groups) = h[m]
  BY <1>1, <1>2, <1>3, TakingTurns
<1>5. m \in Nat
  BY <1>1, FederationAssumption
<1>6. \A t \in T, k \in 1 .. m : G[<<t, k>>] = Turn(groups, t, k - 1)
  OBVIOUS
<1> HIDE DEF G, m
<1>7. h \in [0 .. m -> T] /\ h[0] = <<>> /\ \A k \in 1 .. m : h[k] = G[<<h[k - 1], k>>]
  BY <1>4 DEF Chain
<1> DEFINE A == {k \in Nat : k <= m => Picked(groups, h[k], k)}
<1>8. A = Nat
  <2>1. A \in SUBSET Nat /\ 0 \in A
    BY <1>7, NothingPicked
  <2>2. ASSUME NEW k \in A PROVE k + 1 \in A
    <3> SUFFICES ASSUME k + 1 <= m PROVE Picked(groups, h[k + 1], k + 1)
      OBVIOUS
    <3>1. k \in Nat /\ k + 1 \in 1 .. m /\ (k + 1) - 1 = k /\ k <= m /\ k \in 0 .. m
      BY <1>5
    <3>2. h[k] \in T /\ Picked(groups, h[k], k)
      BY <1>7, <3>1
    <3>3. h[k + 1] = Turn(groups, h[k], k)
      BY <1>6, <1>7, <3>1, <3>2
    <3> QED BY <3>1, <3>2, <3>3, TurnTakes DEF T
  <2> HIDE DEF A
  <2> QED BY <2>1, <2>2, AllNumbers
<1>9. Picked(groups, h[m], m) /\ h[m] \in T
  <2>1. m \in A
    <3> HIDE DEF A
    <3> QED BY <1>5, <1>8
  <2>2. m <= m /\ m \in 0 .. m
    BY <1>5
  <2> QED BY <1>7, <2>1, <2>2
<1> QED BY <1>4, <1>5, <1>9 DEF T

\* What was chosen is of a group.
LEMMA PickedIsOfGroup ==
  ASSUME NEW groups, Len(groups) \in Nat \ {0}, NEW got, NEW k \in Nat, Picked(groups, got, k), NEW i \in 1 .. Len(got)
  PROVE  \E a \in 1 .. Len(groups), j \in Nat \ {0} :
           j <= Len(groups[a]) /\ Qualified(got[i]) = Qualified(groups[a][j])
<1>1. PICK t \in 0 .. k - 1 : Came(groups, t, got[i])
  BY DEF Picked
<1> DEFINE n == Len(groups)
           a == (t % n) + 1
           j == (t \div n) + 1
<1>2. j <= Len(groups[a]) /\ Qualified(got[i]) = Qualified(groups[a][j])
  BY <1>1 DEF Came
<1>3. a \in 1 .. n /\ j \in Nat \ {0}
  <2>1. t \in Nat /\ n \in Nat \ {0}
    OBVIOUS
  <2> HIDE DEF n
  <2>2. t \div n \in Nat /\ t % n \in 0 .. n - 1
    BY <2>1, Quotient
  <2> QED BY <2>1, <2>2
<1> HIDE DEF a, j
<1> QED BY <1>2, <1>3

\* As many are returned as there are records.
LEMMA ReturnedCount ==
  ASSUME NEW records, NEW m \in Nat, DOMAIN records = 1 .. m, ToldApart(records)
  PROVE  Cardinality({Qualified(records[i]) : i \in DOMAIN records}) = m
<1> DEFINE T == {Qualified(records[i]) : i \in 1 .. m}
           f == [i \in 1 .. m |-> Qualified(records[i])]
<1>1. f \in [1 .. m -> T] /\ (\A t \in T : \E s \in 1 .. m : f[s] = t) /\ \A r, s \in 1 .. m : f[r] = f[s] => r = s
  BY DEF ToldApart
<1>a. T = {Qualified(records[i]) : i \in DOMAIN records}
  OBVIOUS
<1> HIDE DEF f, T
<1>2. f \in Bijection(1 .. m, T)
  BY <1>1 DEF Bijection, Injection, Surjection, IsInjective
<1>3. ExistsBijection(1 .. m, T)
  BY <1>2 DEF ExistsBijection
<1>4. IsFiniteSet(1 .. m) /\ Cardinality(1 .. m) = m
  <2>1. 1 \in Int /\ m \in Int /\ Cardinality(1 .. m) = IF 1 > m THEN 0 ELSE m - 1 + 1
    BY FS_Interval
  <2> QED BY <2>1, FS_Interval
<1>5. Cardinality(T) = m
  BY <1>3, <1>4, FS_Bijection
<1> QED BY <1>a, <1>5

\* Marking a record leaves it a record.
LEMMA RecordsUnmarked == Unmarked(RecordType)
<1> SUFFICES ASSUME NEW r \in RecordType, NEW x \in SUBSET (Provider \X Nat)
             PROVE  [r EXCEPT !.sameOrigin = x] \in RecordType
  BY DEF Unmarked
<1> QED BY DEF RecordType

\* The packets that were accepted: all of S, in order.
Accepting(groups, good, n, S, packets) ==
  /\ n \in Nat /\ Lists(good, n, S)
  /\ groups = [i \in 1 .. n |-> packets[good[i]].records]
  /\ \A p \in S : ValidPacket(packets[p], p) /\ packets[p].records \in Seq(RecordType)

\* No record is in two of them, or twice in one.
LEMMA PacketsApart ==
  ASSUME NEW groups, NEW good, NEW n, NEW S, NEW packets, S \subseteq Provider, Accepting(groups, good, n, S, packets)
  PROVE  groups \in Seq(Seq(RecordType)) /\ Len(groups) = n /\ NoneTwice(groups)
<1>1. /\ n \in Nat /\ \A i \in 1 .. n : good[i] \in S /\ good[i] \in Nat
      /\ \A i, j \in 1 .. n : i < j <=> good[i] < good[j]
      /\ DOMAIN groups = 1 .. n /\ \A i \in 1 .. n : groups[i] = packets[good[i]].records
  <2>1. n \in Nat /\ groups = [i \in 1 .. n |-> packets[good[i]].records]
    BY DEF Accepting
  <2>2. (\A i \in 1 .. n : good[i] \in S) /\ \A i, j \in 1 .. n : i < j <=> good[i] < good[j]
    BY DEF Accepting, Lists
  <2>3. \A p \in S : p \in Nat
    BY LocalFacts
  <2>4. DOMAIN groups = 1 .. n /\ \A i \in 1 .. n : groups[i] = packets[good[i]].records
    BY <2>1
  <2> QED BY <2>1, <2>2, <2>3, <2>4
<1>2. \A p \in S : packets[p].records \in Seq(RecordType)
  BY DEF Accepting
<1>3. \A i \in 1 .. n : groups[i] \in Seq(RecordType)
  BY <1>1, <1>2
<1>4. groups = [i \in 1 .. n |-> groups[i]]
  BY DEF Accepting
<1>5. groups \in [1 .. n -> Seq(RecordType)]
  BY <1>3, <1>4
<1>6. groups \in Seq(Seq(RecordType)) /\ Len(groups) = n
  <2> DEFINE A == Seq(RecordType)
  <2>1. groups \in [1 .. n -> A]
    BY <1>5
  <2> HIDE DEF A
  <2>2. groups \in Seq(A)
    BY <1>1, <2>1, IsASeq
  <2>3. Len(groups) = n
    BY <1>1, <2>2
  <2> QED BY <2>2, <2>3 DEF A
<1>7. NoneTwice(groups)
  <2> SUFFICES ASSUME NEW a \in 1 .. n, NEW b \in 1 .. n, NEW i \in 1 .. Len(groups[a]), NEW j \in 1 .. Len(groups[b]),
                      Qualified(groups[a][i]) = Qualified(groups[b][j])
               PROVE  a = b /\ i = j
    BY <1>6 DEF NoneTwice
  <2> DEFINE x == groups[a][i]
             y == groups[b][j]
  <2>1. /\ DOMAIN groups[a] = 1 .. Len(groups[a]) /\ DOMAIN groups[b] = 1 .. Len(groups[b])
    BY <1>3
  <2>2. ASSUME NEW c \in 1 .. n, NEW k \in 1 .. Len(groups[c]) PROVE groups[c][k].provider = good[c]
    <3>1. ValidPacket(packets[good[c]], good[c]) /\ groups[c] = packets[good[c]].records
      BY <1>1 DEF Accepting
    <3>2. k \in DOMAIN groups[c]
      BY <1>3
    <3> QED BY <3>1, <3>2 DEF ValidPacket
  <2>3. x.provider = y.provider /\ x.id = y.id
    BY DEF Qualified
  <2>4. good[a] = good[b]
    BY <2>2, <2>3
  <2>5. a = b
    <3>1. ~ (a < b) /\ ~ (b < a)
      BY <1>1, <2>4
    <3> QED BY <1>1, <3>1
  <2>6. i = j
    <3>1. ValidPacket(packets[good[a]], good[a]) /\ groups[a] = packets[good[a]].records
      BY <1>1 DEF Accepting
    <3>2. i \in DOMAIN groups[a] /\ j \in DOMAIN groups[a]
      BY <2>1, <2>5
    <3>3. groups[a][j].id = groups[a][i].id
      BY <2>3, <2>5
    <3> QED BY <3>1, <3>2, <3>3 DEF ValidPacket
  <2> QED BY <2>5, <2>6
<1> QED BY <1>6, <1>7

\* What the providers' packets say.
PacketsFine(packets, S, js, a) ==
  \A p \in S : \E n \in DOMAIN Knowledge[p] :
    /\ packets[p] = ContextPacket(p, js[p].grant, n)
    /\ a.sources[p].snapshot = {n} /\ a.sources[p].omitted = packets[p].omitted

\* The matches of a provider that answered are what its packet has and what it left out.
LEMMA PacketMatches ==
  ASSUME NEW packets, NEW S, NEW js, NEW a, S \subseteq Provider, PacketsFine(packets, S, js, a), NEW p \in S
  PROVE  /\ Len(packets[p].records) \in Nat /\ a.sources[p].omitted \in Nat
         /\ Cardinality(MatchingIds(a, js, p)) = Len(packets[p].records) + a.sources[p].omitted
         /\ \A i \in 1 .. Len(packets[p].records) : packets[p].records[i].id \in MatchingIds(a, js, p)
<1>1. PICK n \in DOMAIN Knowledge[p] :
    /\ packets[p] = ContextPacket(p, js[p].grant, n)
    /\ a.sources[p].snapshot = {n} /\ a.sources[p].omitted = packets[p].omitted
  BY DEF PacketsFine
<1> DEFINE S0 == Eligibles(p, js[p].grant, n)
           packet == packets[p]
<1>2. /\ packet.records \in Seq(Projected(p, js[p].grant, n))
      /\ Len(packet.records) \in Nat /\ packet.omitted \in Nat
      /\ Len(packet.records) + packet.omitted = Cardinality(S0)
  BY <1>1, PacketCounts
<1>3. MatchingIds(a, js, p) = {r.id : r \in S0}
  <2>1. (CHOOSE k \in a.sources[p].snapshot : TRUE) = n
    BY <1>1
  <2> QED BY <2>1 DEF MatchingIds, Eligibles
<1>4. IsFiniteSet(S0) /\ \A r, s \in S0 : r.id = s.id => r = s
  BY GenerationFacts, FS_Subset DEF Eligibles
<1>5. Cardinality(MatchingIds(a, js, p)) = Cardinality(S0)
  <2> HIDE DEF S0
  <2> QED BY <1>3, <1>4, IdsCount
<1>6. ASSUME NEW i \in 1 .. Len(packet.records) PROVE packet.records[i].id \in MatchingIds(a, js, p)
  <2>1. packet.records[i] \in Projected(p, js[p].grant, n)
    <3> DEFINE A == Projected(p, js[p].grant, n)
               s == packet.records
    <3>1. s \in Seq(A) /\ i \in 1 .. Len(s)
      BY <1>2
    <3> HIDE DEF A, s
    <3>2. s[i] \in A
      BY <3>1
    <3> QED BY <3>2 DEF A, s
  <2>2. PICK r \in S0 : packet.records[i] = Project(p, n, r, Allowed(p, js[p].grant, n))
    BY <2>1 DEF Projected
  <2>3. packet.records[i].id = r.id
    BY <2>2 DEF Project
  <2> QED BY <1>3, <2>3
<1> QED BY <1>1, <1>2, <1>5, <1>6

\* What an honest answer is, for the jobs js.
Returned(a) == {Qualified(a.records[i]) : i \in DOMAIN a.records}
HonestAnswer(a, js) ==
  /\ DOMAIN a.sources = Provider /\ (a.degraded <=> WhoAnswered(a) # Provider)
  /\ Len(a.records) <= Limit /\ Chars(a.records) <= MaxChars
  /\ Cardinality(Returned(a)) = Len(a.records)
  /\ Returned(a) \subseteq UNION {{<<p, id>> : id \in MatchingIds(a, js, p)} : p \in WhoAnswered(a)}
  /\ Len(a.records) + a.omitted + OmittedOf(a.sources) = AllMatches(a, js)
  /\ Marked(a.records)

\* Whatever was put together of the packets that were accepted.
PutTogether(records, groups) == records = IF groups = <<>> THEN <<>> ELSE TakeTurns(groups)

\* It fits, holds nothing twice, and marks what shares a key.
LEMMA PutTogetherPicks ==
  ASSUME NEW groups \in Seq(Seq(RecordType)), NoneTwice(groups), NEW records, PutTogether(records, groups)
  PROVE  /\ records \in Seq(RecordType) /\ Len(records) \in Nat /\ DOMAIN records = 1 .. Len(records)
         /\ \E k \in Nat : Picked(groups, records, k)
         /\ Len(records) > 0 => groups # <<>>
<1>1. CASE groups = <<>>
  <2>1. records = <<>>
    BY <1>1 DEF PutTogether
  <2>2. Picked(groups, records, 0) /\ 0 \in Nat
    BY <2>1, NothingPicked
  <2> QED BY <2>1, <2>2
<1>2. CASE groups # <<>>
  <2>1. records = TakeTurns(groups)
    BY <1>2 DEF PutTogether
  <2>2. records \in Seq(RecordType) /\ \E k \in Nat : Picked(groups, records, k)
    BY <1>2, <2>1, RecordsUnmarked, TurnsPicked
  <2> QED BY <1>2, <2>2
<1> QED BY <1>1, <1>2

\* What is returned is among the matches of those that answered.
LEMMA ReturnedMatches ==
  ASSUME NEW groups, NEW good, NEW n, NEW S, NEW packets, S \subseteq Provider, Accepting(groups, good, n, S, packets),
         NEW a, NEW js, PacketsFine(packets, S, js, a), NEW k \in Nat, Picked(groups, a.records, k),
         NEW m \in Nat, Len(a.records) = m, m > 0 => n # 0, NEW i \in 1 .. m
  PROVE  \E p \in S : Qualified(a.records[i]) \in {<<p, id>> : id \in MatchingIds(a, js, p)}
<1>1. groups \in Seq(Seq(RecordType)) /\ Len(groups) = n /\ n \in Nat \ {0}
  <2>1. groups \in Seq(Seq(RecordType)) /\ Len(groups) = n
    BY PacketsApart
  <2>2. n \in Nat
    BY DEF Accepting
  <2> QED BY <2>1, <2>2
<1> DEFINE r == a.records[i]
           records == a.records
<1>2. PICK b \in 1 .. n, j \in Nat \ {0} : j <= Len(groups[b]) /\ Qualified(r) = Qualified(groups[b][j])
  <2>1. i \in 1 .. Len(records) /\ Picked(groups, records, k) /\ Len(groups) \in Nat \ {0} /\ k \in Nat
    BY <1>1
  <2> HIDE DEF records, r
  <2>2. \E b \in 1 .. Len(groups), j \in Nat \ {0} :
           j <= Len(groups[b]) /\ Qualified(records[i]) = Qualified(groups[b][j])
    BY <2>1, PickedIsOfGroup
  <2> QED BY <1>1, <2>2 DEF records, r
<1> DEFINE p == good[b]
           x == packets[p].records[j]
<1>3. p \in S /\ groups[b] = packets[p].records
  BY DEF Accepting, Lists
<1>4. ValidPacket(packets[p], p) /\ packets[p].records \in Seq(RecordType)
  BY <1>3 DEF Accepting
<1>5. Len(packets[p].records) \in Nat /\ \A y \in 1 .. Len(packets[p].records) : packets[p].records[y].id \in MatchingIds(a, js, p)
  BY <1>3, PacketMatches
<1>6. j \in 1 .. Len(packets[p].records) /\ DOMAIN packets[p].records = 1 .. Len(packets[p].records)
  BY <1>2, <1>3, <1>4, <1>5
<1>7. x.provider = p
  BY <1>4, <1>6 DEF ValidPacket
<1>8. x.id \in MatchingIds(a, js, p)
  BY <1>5, <1>6
<1>9. Qualified(r) = <<p, x.id>>
  BY <1>2, <1>3, <1>7 DEF Qualified
<1> HIDE DEF p, x, r
<1>10. Qualified(r) \in {<<p, id>> : id \in MatchingIds(a, js, p)}
  BY <1>8, <1>9
<1> QED BY <1>3, <1>10 DEF r

\* What is returned and what was left out add up to the matches.
LEMMA CountsAdd ==
  ASSUME NEW groups, NEW good, NEW n, NEW S, NEW packets, S \subseteq Provider, Accepting(groups, good, n, S, packets),
         NEW a, NEW js, PacketsFine(packets, S, js, a), WhoAnswered(a) = S, DOMAIN a.sources = Provider,
         \A p \in Provider \ S : a.sources[p].omitted = 0
  PROVE  /\ LengthsOf(groups) + OmittedOf(a.sources) = AllMatches(a, js)
         /\ LengthsOf(groups) \in Nat /\ OmittedOf(a.sources) \in Nat
<1>0. \A p \in S : /\ Len(packets[p].records) \in Nat /\ a.sources[p].omitted \in Nat
                    /\ Cardinality(MatchingIds(a, js, p)) = Len(packets[p].records) + a.sources[p].omitted
  BY PacketMatches
<1> DEFINE P == Providers
           l == [i \in 1 .. n |-> Len(groups[i])]
           o == [p \in 1 .. P |-> a.sources[p].omitted]
           c == [p \in 1 .. P |-> MatchCount(a, js, p)]
<1>1. P \in Nat /\ Provider = 1 .. P
  BY FederationAssumption DEF Provider
<1>2. n \in Nat /\ Lists(good, n, S) /\ groups = [i \in 1 .. n |-> packets[good[i]].records]
  BY DEF Accepting
<1>3. \A i \in 1 .. n : good[i] \in S
  BY <1>2 DEF Lists
<1>4. ASSUME NEW i \in 1 .. n
      PROVE  l[i] \in Nat /\ c[good[i]] = l[i] + o[good[i]]
  <2>1. good[i] \in S /\ good[i] \in 1 .. P /\ groups[i] = packets[good[i]].records
    BY <1>1, <1>2, <1>3
  <2>2. PICK p : p = good[i]
    OBVIOUS
  <2>3. p \in S /\ p \in 1 .. P /\ groups[i] = packets[p].records
    BY <2>1, <2>2
  <2>4. /\ Len(packets[p].records) \in Nat
        /\ Cardinality(MatchingIds(a, js, p)) = Len(packets[p].records) + a.sources[p].omitted
    BY <1>0, <2>3
  <2>5. c[p] = Cardinality(MatchingIds(a, js, p)) /\ o[p] = a.sources[p].omitted /\ l[i] = Len(groups[i])
    BY <2>3 DEF MatchCount
  <2> HIDE DEF c, o, l
  <2>6. l[i] = Len(packets[p].records)
    BY <2>3, <2>5
  <2>7. l[i] \in Nat /\ c[p] = l[i] + o[p]
    BY <2>4, <2>5, <2>6
  <2> QED BY <2>2, <2>7
<1>5. \A p \in (1 .. P) \ S : c[p] = 0 /\ o[p] = 0
  BY <1>1 DEF MatchCount
<1>6. \A p \in 1 .. P : c[p] \in Nat /\ o[p] \in Nat
  <2> SUFFICES ASSUME NEW p \in 1 .. P, p \in S PROVE c[p] \in Nat /\ o[p] \in Nat
    BY <1>5
  <2>1. /\ Len(packets[p].records) \in Nat /\ a.sources[p].omitted \in Nat
        /\ Cardinality(MatchingIds(a, js, p)) = Len(packets[p].records) + a.sources[p].omitted
    BY <1>0
  <2>2. c[p] = Cardinality(MatchingIds(a, js, p)) /\ o[p] = a.sources[p].omitted
    BY DEF MatchCount
  <2> HIDE DEF c, o
  <2> QED BY <2>1, <2>2
<1>7. l = [i \in 1 .. n |-> l[i]] /\ o = [p \in 1 .. P |-> o[p]] /\ c = [p \in 1 .. P |-> c[p]]
  OBVIOUS
<1>8. LengthsOf(groups) = Total(l, n)
  BY <1>2, LengthsAdd
<1>9. OmittedOf(a.sources) = Total(o, P)
  BY <1>1, OmittedAdd
<1>10. AllMatches(a, js) = Total(c, P)
  BY <1>1, MatchesAdd
<1> HIDE DEF l, o, c
<1>11. l \in [1 .. n -> Nat] /\ o \in [1 .. P -> Nat] /\ c \in [1 .. P -> Nat]
  BY <1>4, <1>6, <1>7
<1>12. PICK h1 : Sums(h1, l, n) /\ Total(l, n) = h1[n]
  BY <1>2, <1>11, TotalIs
<1>13. PICK h2 : Sums(h2, o, P) /\ Total(o, P) = h2[P]
  BY <1>1, <1>11, TotalIs
<1>14. PICK h3 : Sums(h3, c, P) /\ Total(c, P) = h3[P]
  BY <1>1, <1>11, TotalIs
<1>15. S \in SUBSET (1 .. P)
  BY <1>1
<1>16. h3[P] = h1[n] + h2[P]
  <2>1. \A i \in 1 .. n : c[good[i]] = l[i] + o[good[i]]
    BY <1>4
  <2>2. \A p \in (1 .. P) \ S : c[p] = o[p]
    BY <1>5
  <2>3. Tally(P, n, S, good, l, o, c)
    BY <1>1, <1>2, <1>11, <1>15, <2>1, <2>2 DEF Tally
  <2>4. Sums(h1, l, n) /\ Sums(h2, o, P) /\ Sums(h3, c, P)
    BY <1>12, <1>13, <1>14
  <2> HIDE DEF P
  <2> QED BY <2>3, <2>4, TallyAdds
<1>17. h1[n] \in Nat /\ h2[P] \in Nat
  BY <1>1, <1>2, <1>12, <1>13 DEF Sums
<1> QED BY <1>8, <1>9, <1>10, <1>12, <1>13, <1>14, <1>16, <1>17

\* The answer is honest.
LEMMA AnswerIsHonest ==
  ASSUME NEW groups, NEW good, NEW n, NEW S, NEW packets, S \subseteq Provider, Accepting(groups, good, n, S, packets),
         NEW a, NEW js, PacketsFine(packets, S, js, a), WhoAnswered(a) = S, DOMAIN a.sources = Provider,
         \A p \in Provider \ S : a.sources[p].omitted = 0, a.degraded <=> S # Provider,
         PutTogether(a.records, groups), a.omitted = LengthsOf(groups) - Len(a.records)
  PROVE  HonestAnswer(a, js)
<1> DEFINE records == a.records
           m == Len(records)
<1>1. groups \in Seq(Seq(RecordType)) /\ Len(groups) = n /\ NoneTwice(groups)
  BY PacketsApart
<1>2. /\ records \in Seq(RecordType) /\ m \in Nat /\ DOMAIN records = 1 .. m
      /\ \E k \in Nat : Picked(groups, records, k)
      /\ m > 0 => groups # <<>>
  <2>1. PutTogether(records, groups)
    OBVIOUS
  <2> HIDE DEF records
  <2> QED BY <1>1, <2>1, PutTogetherPicks
<1>3. PICK k \in Nat : Picked(groups, records, k)
  BY <1>2
<1>4. /\ m <= Limit /\ Chars(records) <= MaxChars /\ ToldApart(records) /\ Marked(records)
  BY <1>3 DEF Picked
<1>5. Cardinality(Returned(a)) = m
  <2>1. Returned(a) = {Qualified(records[i]) : i \in DOMAIN records}
    BY DEF Returned
  <2> HIDE DEF records
  <2>2. m \in Nat /\ DOMAIN records = 1 .. m /\ ToldApart(records)
    BY <1>2, <1>4
  <2> HIDE DEF m
  <2> QED BY <2>1, <2>2, ReturnedCount
<1>6. m > 0 => n # 0
  <2>1. n = 0 => groups = <<>>
    BY <1>1
  <2> QED BY <1>2, <2>1
<1>7. \A i \in 1 .. m : \E p \in S : Qualified(a.records[i]) \in {<<p, id>> : id \in MatchingIds(a, js, p)}
  <2>1. Picked(groups, a.records, k) /\ Len(a.records) = m /\ m \in Nat
    BY <1>2, <1>3
  <2> HIDE DEF m
  <2> QED BY <1>6, <2>1, ReturnedMatches
<1>8. Returned(a) \subseteq UNION {{<<p, id>> : id \in MatchingIds(a, js, p)} : p \in WhoAnswered(a)}
  <2> SUFFICES ASSUME NEW q \in Returned(a)
               PROVE  \E p \in S : q \in {<<p, id>> : id \in MatchingIds(a, js, p)}
    OBVIOUS
  <2>1. PICK i \in 1 .. m : q = Qualified(a.records[i])
    BY <1>2 DEF Returned
  <2> QED BY <1>7, <2>1
<1>9. m + a.omitted + OmittedOf(a.sources) = AllMatches(a, js)
  <2>1. /\ LengthsOf(groups) + OmittedOf(a.sources) = AllMatches(a, js)
        /\ LengthsOf(groups) \in Nat /\ OmittedOf(a.sources) \in Nat
    BY CountsAdd
  <2>2. a.omitted = LengthsOf(groups) - m
    OBVIOUS
  <2> DEFINE x == LengthsOf(groups)
             y == OmittedOf(a.sources)
  <2>3. x + y = AllMatches(a, js) /\ x \in Nat /\ y \in Nat /\ a.omitted = x - m /\ m \in Nat
    BY <1>2, <2>1, <2>2
  <2> HIDE DEF x, y, m
  <2>4. m + a.omitted + y = x + y
    BY <2>3
  <2> QED BY <2>3, <2>4 DEF y
<1> QED BY <1>4, <1>5, <1>8, <1>9 DEF HonestAnswer

Fine(x) == x.error = ""

\* The status of a provider says what it replied.
LEMMA StatusFacts ==
  ASSUME NEW reply
  PROVE  /\ Fine(Status(reply)) <=> Fine(reply)
         /\ Fine(reply) => /\ Status(reply).snapshot = {reply.body[1].snapshot}
                           /\ Status(reply).omitted = reply.body[1].omitted
         /\ ~ Fine(reply) => Status(reply).omitted = 0
<1> DEFINE s == [error |-> "", snapshot |-> {reply.body[1].snapshot}, omitted |-> reply.body[1].omitted]
           f == [error |-> reply.error, snapshot |-> {}, omitted |-> 0]
<1>1. CASE Fine(reply)
  <2>1. Status(reply) = s
    BY <1>1 DEF Status, Fine
  <2>2. s.error = "" /\ s.snapshot = {reply.body[1].snapshot} /\ s.omitted = reply.body[1].omitted
    OBVIOUS
  <2> HIDE DEF s
  <2> QED BY <1>1, <2>1, <2>2 DEF Fine
<1>2. CASE ~ Fine(reply)
  <2>1. Status(reply) = f
    BY <1>2 DEF Status, Fine
  <2>2. f.error = reply.error /\ f.omitted = 0
    OBVIOUS
  <2> HIDE DEF f
  <2> QED BY <1>2, <2>1, <2>2 DEF Fine
<1> QED BY <1>1, <1>2

\* The providers that replied, and what.
RepliesOf(js) == [p \in Provider |-> Accepted(CHOOSE r \in js[p].reply : TRUE, p)]
FineOnes(replies) == {p \in Provider : Fine(replies[p])}
PacketsOf(replies) == [p \in Provider |-> replies[p].body[1]]
GroupsOf(replies) ==
  LET good == Ranked(FineOnes(replies), <)
  IN  [i \in DOMAIN good |-> replies[good[i]].body[1].records]
ChosenOf(groups) == IF groups = <<>> THEN <<>> ELSE TakeTurns(groups)

\* What assembling does, in these terms.
LEMMA AssembleIs ==
  ASSUME Assemble
  PROVE  LET replies == RepliesOf(jobs)
             groups == GroupsOf(replies)
         IN  /\ query.pc = "peers" /\ \A p \in Provider : jobs[p].pc = "answered"
             /\ UNCHANGED <<generation, grants, jobs, inForce>>
             /\ \E degraded :
                  /\ degraded <=> \E p \in Provider : ~ Fine(replies[p])
                  /\ query' = [query EXCEPT !.pc = "done", !.answer =
                       [records |-> ChosenOf(groups), sources |-> [p \in Provider |-> Status(replies[p])],
                        degraded |-> degraded, omitted |-> LengthsOf(groups) - Len(ChosenOf(groups))]]
BY DEF Assemble, RepliesOf, GroupsOf, FineOnes, Fine, ChosenOf, LengthsOf

\* The packets that were accepted are their providers' own, and are valid.
LEMMA FinePackets ==
  ASSUME FederationInv, Asks("context"), NEW replies, replies = RepliesOf(jobs), NEW p \in Provider,
         jobs[p].pc = "answered", Fine(replies[p])
  PROVE  \E n \in DOMAIN Knowledge[p] :
           /\ replies[p].body[1] = ContextPacket(p, jobs[p].grant, n)
           /\ ValidPacket(replies[p].body[1], p) /\ replies[p].body[1].records \in Seq(RecordType)
           /\ replies[p].body[1].snapshot = n
<1>1. PICK r : r = replies[p]
  OBVIOUS
<1>2. r = Accepted(CHOOSE x \in jobs[p].reply : TRUE, p) /\ r.error = ""
  BY <1>1 DEF RepliesOf, Fine
<1>3. PICK n : /\ Current(p, n) /\ Granted(p, jobs[p].grant) /\ r.body = <<ContextPacket(p, jobs[p].grant, n)>>
               /\ ValidPacket(ContextPacket(p, jobs[p].grant, n), p)
  BY <1>2, AcceptedFacts
<1>4. PICK k : k = ContextPacket(p, jobs[p].grant, n)
  OBVIOUS
<1>5. r.body[1] = k
  <2>1. r.body = <<k>>
    BY <1>3, <1>4
  <2> QED BY <2>1
<1>6. n \in DOMAIN Knowledge[p]
  BY <1>3 DEF Current
<1>7. k.snapshot = n /\ k.records \in Seq(Projected(p, jobs[p].grant, n))
  BY <1>4, <1>6, PacketCounts
<1>8. Projected(p, jobs[p].grant, n) \subseteq RecordType
  BY <1>3, PacketAuthorized
<1>9. k.records \in Seq(RecordType)
  <2>1. PICK V, s : V = Projected(p, jobs[p].grant, n) /\ s = k.records
    OBVIOUS
  <2>2. V \subseteq RecordType /\ s \in Seq(V)
    BY <1>7, <1>8, <2>1
  <2>3. s \in Seq(RecordType)
    BY <2>2, LargerSeq
  <2> QED BY <2>1, <2>3
<1> QED BY <1>1, <1>3, <1>4, <1>5, <1>6, <1>7, <1>9

\* The answer that is assembled is honest.
LEMMA AssembledIsHonest ==
  ASSUME FederationInv, Assemble
  PROVE  query'.pc = "done" /\ query'.kind = "context" /\ HonestAnswer(query'.answer, jobs)
<1> DEFINE replies == RepliesOf(jobs)
           S == FineOnes(replies)
           good == Ranked(S, <)
           groups == GroupsOf(replies)
           packets == PacketsOf(replies)
           sources == [p \in Provider |-> Status(replies[p])]
           n == Len(good)
<1>1. /\ query.pc = "peers" /\ \A p \in Provider : jobs[p].pc = "answered"
      /\ UNCHANGED <<generation, grants, jobs, inForce>>
  BY AssembleIs
<1>2. PICK degraded :
        /\ degraded <=> \E p \in Provider : ~ Fine(replies[p])
        /\ query' = [query EXCEPT !.pc = "done", !.answer =
             [records |-> ChosenOf(groups), sources |-> sources,
              degraded |-> degraded, omitted |-> LengthsOf(groups) - Len(ChosenOf(groups))]]
  BY AssembleIs
<1>3. Asks("context") /\ DOMAIN query = {"pc", "kind", "handle", "answer"}
  <2>1. NoQuery.pc = "idle"
    BY DEF NoQuery
  <2>2. QueryFine
    BY DEF FederationInv
  <2>3. query # NoQuery
    BY <1>1, <2>1
  <2>4. query.kind = "context"
    BY <1>1, <2>2, <2>3 DEF QueryFine
  <2>5. DOMAIN query = {"pc", "kind", "handle", "answer"}
    BY <2>2 DEF QueryFine
  <2> QED BY <2>4, <2>5 DEF Asks
<1>4. ASSUME NEW p \in S
      PROVE  \E k \in DOMAIN Knowledge[p] :
               /\ packets[p] = ContextPacket(p, jobs[p].grant, k)
               /\ ValidPacket(packets[p], p) /\ packets[p].records \in Seq(RecordType)
               /\ packets[p].snapshot = k
  <2>1. p \in Provider /\ Fine(replies[p])
    BY DEF FineOnes
  <2>2. packets[p] = replies[p].body[1]
    BY <2>1 DEF PacketsOf
  <2> HIDE DEF packets, S
  <2>3. PICK rs : rs = replies
    OBVIOUS
  <2>4. rs = RepliesOf(jobs) /\ Fine(rs[p])
    BY <2>1, <2>3
  <2> HIDE DEF replies
  <2>5. \E k \in DOMAIN Knowledge[p] :
           /\ rs[p].body[1] = ContextPacket(p, jobs[p].grant, k)
           /\ ValidPacket(rs[p].body[1], p) /\ rs[p].body[1].records \in Seq(RecordType)
           /\ rs[p].body[1].snapshot = k
    BY <1>1, <1>3, <2>1, <2>4, FinePackets
  <2> QED BY <2>2, <2>3, <2>5
<1>5. S \subseteq Provider /\ S \in SUBSET Nat /\ IsFiniteSet(S)
  <2>1. S \subseteq Provider
    BY DEF FineOnes
  <2>2. IsFiniteSet(Provider)
    BY FederationAssumption, FS_Interval DEF Provider
  <2> HIDE DEF S
  <2> QED BY <2>1, <2>2, LocalFacts, FS_Subset
<1>6. n \in Nat /\ DOMAIN good = 1 .. n /\ Lists(good, n, S)
  <2> HIDE DEF S
  <2>1. /\ good \in Seq(S)
        /\ \A x \in S : \E i \in 1 .. Len(good) : good[i] = x
        /\ \A i, j \in 1 .. Len(good) : i < j <=> good[i] < good[j]
    BY <1>5, RankedNumbers
  <2> HIDE DEF good
  <2>2. good \in [1 .. n -> S] /\ n \in Nat
    BY <2>1
  <2> QED BY <2>1, <2>2 DEF Lists
<1>7. groups = [i \in 1 .. n |-> packets[good[i]].records]
  <2>1. groups = [i \in DOMAIN good |-> replies[good[i]].body[1].records]
    BY DEF GroupsOf
  <2>2. \A i \in 1 .. n : packets[good[i]] = replies[good[i]].body[1]
    <3>1. \A i \in 1 .. n : good[i] \in Provider
      BY <1>5, <1>6 DEF Lists
    <3> HIDE DEF good, replies, n
    <3> QED BY <3>1 DEF PacketsOf
  <2> HIDE DEF good, replies, groups, packets, n
  <2>3. groups = [i \in 1 .. n |-> replies[good[i]].body[1].records]
    BY <1>6, <2>1
  <2> QED BY <2>2, <2>3
<1> DEFINE a == [records |-> ChosenOf(groups), sources |-> sources,
                 degraded |-> degraded, omitted |-> LengthsOf(groups) - Len(ChosenOf(groups))]
<1>8. /\ a.records = ChosenOf(groups) /\ a.sources = sources /\ a.degraded = degraded
      /\ a.omitted = LengthsOf(groups) - Len(a.records)
  <2> HIDE DEF groups, sources
  <2> QED OBVIOUS
<1>9. /\ DOMAIN sources = Provider
      /\ \A p \in Provider : Fine(sources[p]) <=> p \in S
      /\ \A p \in S : sources[p].snapshot = {packets[p].snapshot} /\ sources[p].omitted = packets[p].omitted
      /\ \A p \in Provider \ S : sources[p].omitted = 0
  <2>1. ASSUME NEW p \in Provider
        PROVE  sources[p] = Status(replies[p]) /\ packets[p] = replies[p].body[1] /\ (p \in S <=> Fine(replies[p]))
    BY DEF PacketsOf, FineOnes
  <2>2. DOMAIN sources = Provider
    OBVIOUS
  <2> HIDE DEF sources, packets, S, replies
  <2>3. \A p \in S : p \in Provider
    BY <1>5
  <2> QED BY <2>1, <2>2, <2>3, StatusFacts
<1>10. degraded <=> S # Provider
  BY <1>2 DEF FineOnes
<1>11. query'.pc = "done" /\ query'.kind = "context" /\ query'.answer = a
  <2>1. query' = [query EXCEPT !.pc = "done", !.answer = a]
    BY <1>2
  <2> HIDE DEF a
  <2> QED BY <1>3, <2>1 DEF Asks
<1> HIDE DEF a, groups, packets, sources, good, S, n, replies
<1>12. Accepting(groups, good, n, S, packets)
  BY <1>4, <1>6, <1>7 DEF Accepting
<1>13. PacketsFine(packets, S, jobs, a)
  <2> SUFFICES ASSUME NEW p \in S
               PROVE  \E k \in DOMAIN Knowledge[p] :
                        /\ packets[p] = ContextPacket(p, jobs[p].grant, k)
                        /\ a.sources[p].snapshot = {k} /\ a.sources[p].omitted = packets[p].omitted
    BY DEF PacketsFine
  <2>1. PICK k \in DOMAIN Knowledge[p] : packets[p] = ContextPacket(p, jobs[p].grant, k) /\ packets[p].snapshot = k
    BY <1>4
  <2>2. a.sources[p].snapshot = {packets[p].snapshot} /\ a.sources[p].omitted = packets[p].omitted
    BY <1>8, <1>9
  <2> QED BY <2>1, <2>2
<1>14. WhoAnswered(a) = S
  <2>1. WhoAnswered(a) = {p \in Provider : Fine(a.sources[p])}
    BY DEF WhoAnswered, Fine
  <2> QED BY <1>5, <1>8, <1>9, <2>1
<1>15. PutTogether(a.records, groups)
  BY <1>8 DEF PutTogether, ChosenOf
<1>16. HonestAnswer(a, jobs)
  <2>1. /\ DOMAIN a.sources = Provider /\ (\A p \in Provider \ S : a.sources[p].omitted = 0)
        /\ (a.degraded <=> S # Provider) /\ a.omitted = LengthsOf(groups) - Len(a.records)
    BY <1>8, <1>9, <1>10
  <2> QED BY <1>5, <1>12, <1>13, <1>14, <1>15, <2>1, AnswerIsHonest
<1> QED BY <1>11, <1>16

\* An answer that is there was assembled from what is still known of the replies.
AccountInv ==
  query.pc = "done" /\ Asks("context") =>
    (\A p \in Provider : jobs[p].pc = "answered") /\ HonestAnswer(query.answer, jobs)

\* What nobody touches stays.
LEMMA CountStays ==
  ASSUME AccountInv, UNCHANGED <<query, jobs>>
  PROVE  AccountInv'
BY DEF AccountInv, Asks

\* No provider is at work once the answer is there.
LEMMA CountProviders ==
  ASSUME AccountInv, NEW p \in Provider,
         LoadGrants(p) \/ AnswerContext(p) \/ ReadCurrent(p) \/ ReadHistory(p) \/ Unavailable(p) \/ Misanswers(p)
  PROVE  AccountInv'
<1>1. query' = query /\ jobs[p].pc \in {"load", "read", "history"}
  BY DEF LoadGrants, AnswerContext, ReadCurrent, ReadHistory, Unavailable, Misanswers
<1>2. ~ (query.pc = "done" /\ Asks("context"))
  BY <1>1 DEF AccountInv
<1> QED BY <1>1, <1>2 DEF AccountInv, Asks

\* Asking, consulting and forgetting answer nothing.
LEMMA CountAsks ==
  ASSUME FederationInv, AskContext \/ ConsultPeers \/ (\E h \in Addresses : AskEvidence(h)) \/ Forget
  PROVE  AccountInv'
<1>1. DOMAIN query = {"pc", "kind", "handle", "answer"} /\ DOMAIN NoQuery = {"pc", "kind", "handle", "answer"}
  BY DEF FederationInv, QueryFine, NoQuery
<1>2. CASE AskContext
  <2>1. query'.pc = "local"
    BY <1>1, <1>2 DEF AskContext
  <2> QED BY <2>1 DEF AccountInv
<1>3. CASE ConsultPeers
  <2>1. query'.pc = "peers"
    BY <1>1, <1>3 DEF ConsultPeers
  <2> QED BY <2>1 DEF AccountInv
<1>4. CASE \E h \in Addresses : AskEvidence(h)
  <2>1. query'.pc = "evidence"
    BY <1>1, <1>4 DEF AskEvidence
  <2> QED BY <2>1 DEF AccountInv
<1>5. CASE Forget
  <2>1. query'.pc = "idle"
    BY <1>5 DEF Forget, NoQuery
  <2> QED BY <2>1 DEF AccountInv
<1> QED BY <1>2, <1>3, <1>4, <1>5

\* The answer to a handle is no packet.
LEMMA CountEvidence ==
  ASSUME FederationInv, ReturnEvidence
  PROVE  AccountInv'
<1>1. query.pc = "evidence"
  BY DEF ReturnEvidence
<1>2. NoQuery.pc = "idle" /\ QueryFine
  BY DEF NoQuery, FederationInv
<1>3. query.kind = "evidence"
  <2>1. query # NoQuery
    BY <1>1, <1>2
  <2> QED BY <1>1, <1>2, <2>1 DEF QueryFine
<1>4. query'.kind = query.kind
  <2>1. PICK reply \in jobs[Address.provider].reply :
       LET named == reply.error = "" /\ reply.body[1].provider = Address.provider
                      /\ reply.body[1].snapshot = Address.snapshot /\ reply.body[1].id = Address.id
       IN  query' = [query EXCEPT !.pc = "done",
             !.answer.records = IF named THEN reply.body ELSE <<>>,
             !.answer.degraded = ~ named]
    BY DEF ReturnEvidence
  <2> DEFINE named == reply.error = "" /\ reply.body[1].provider = Address.provider
                        /\ reply.body[1].snapshot = Address.snapshot /\ reply.body[1].id = Address.id
             body  == IF named THEN reply.body ELSE <<>>
  <2>2. query' = [query EXCEPT !.pc = "done", !.answer.records = body, !.answer.degraded = ~ named]
    BY <2>1
  <2>3. DOMAIN query = {"pc", "kind", "handle", "answer"}
    BY <1>2 DEF QueryFine
  <2> HIDE DEF named, body
  <2> QED BY <2>2, <2>3
<1> QED BY <1>3, <1>4 DEF AccountInv, Asks

\* Every step of federation.
LEMMA CountSteps == FederationInv /\ AccountInv /\ [FederationNext]_federationVars => AccountInv'
<1> SUFFICES ASSUME FederationInv, AccountInv, [FederationNext]_federationVars PROVE AccountInv'
  OBVIOUS
<1>1. CASE UNCHANGED federationVars
  BY <1>1, CountStays DEF federationVars
<1>2. CASE \E p \in Provider : PublishKnowledge(p) \/ LoadGrants(p) \/ AnswerContext(p) \/ ReadCurrent(p)
         \/ ReadHistory(p) \/ Unavailable(p) \/ Misanswers(p)
  <2>1. ASSUME NEW p \in Provider, PublishKnowledge(p) PROVE AccountInv'
    BY <2>1, CountStays DEF PublishKnowledge
  <2> QED BY <1>2, <2>1, CountProviders
<1>3. CASE \E p \in Peers, g \in Grants : ChangeGrants(p, g)
  <2>1. UNCHANGED <<query, jobs>>
    BY <1>3 DEF ChangeGrants
  <2> QED BY <2>1, CountStays
<1>4. CASE Assemble
  <2>1. query'.pc = "done" /\ query'.kind = "context" /\ HonestAnswer(query'.answer, jobs)
    BY <1>4, AssembledIsHonest
  <2>2. jobs' = jobs /\ \A p \in Provider : jobs[p].pc = "answered"
    BY <1>4 DEF Assemble
  <2> QED BY <2>1, <2>2 DEF AccountInv
<1> QED BY <1>1, <1>2, <1>3, <1>4, CountAsks, CountEvidence DEF FederationNext

\* What the invariant is for.
LEMMA AccountInvShows == AccountInv => PacketIsHonest
BY DEF AccountInv, HonestAnswer, Marked, Returned, WhoAnswered, MatchingIds, OmittedOf, AllMatches, PacketIsHonest

\* A combined answer accounts for every provider and every match, whichever
\* peers fail, answer for somebody else or repeat themselves, and whatever is
\* published or withdrawn meanwhile (assemble, group_origins).
THEOREM PacketsAreHonest == FederationSpec => []PacketIsHonest
<1>1. FederationInv /\ AccountInv /\ [FederationNext]_federationVars => (FederationInv /\ AccountInv)'
  BY FederationSteps, CountSteps
<1>2. FederationInit => FederationInv /\ AccountInv
  <2> SUFFICES ASSUME FederationInit PROVE AccountInv
    BY FederationBegins
  <2>1. query.pc = "idle"
    BY DEF FederationInit, NoQuery
  <2> QED BY <2>1 DEF AccountInv
<1> QED BY <1>1, <1>2, AccountInvShows, PTL DEF FederationSpec
=============================================================================
