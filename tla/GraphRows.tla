------------------------------ MODULE GraphRows ------------------------------
(* Rows of a graph, as its readers order, bound and follow them.            *)
EXTENDS Naturals, FiniteSets, Sequences, SequencesExt

\* S in the order of `before`: the n-th has n - 1 before it.
Ranked(S, before(_, _)) ==
  [n \in 1 .. Cardinality(S) |-> CHOOSE x \in S : Cardinality({y \in S : before(y, x)}) = n - 1]

InOrder(rows) == Ranked(rows, LAMBDA r, s : r.id < s.id)
FirstRows(rows, limit) ==
  LET ordered == InOrder(rows)
  IN  SubSeq(ordered, 1, IF Len(ordered) < limit THEN Len(ordered) ELSE limit)

\* From the beginning of a search to v, back along the parents.
PathTo(v, parents) ==
  LET back[n \in 1 .. Cardinality(parents) + 1] ==
        IF n = 1 THEN <<v>>
        ELSE LET p == {e[2] : e \in {e \in parents : e[1] = Head(back[n - 1])}}
             IN  IF p = {} THEN back[n - 1] ELSE <<CHOOSE u \in p : TRUE>> \o back[n - 1]
  IN  back[Cardinality(parents) + 1]

\* The entities at most n edges away from S, directions ignored.
Within(rows, S, n) ==
  LET ball[k \in 0 .. n] ==
        IF k = 0 THEN S
        ELSE ball[k - 1] \cup UNION {{r.from, r.to} : r \in
               {r \in rows : {r.from, r.to} \cap ball[k - 1] # {}}}
  IN  ball[n]

\* A path of at most that many edges, and none is shorter.
IsShortest(rows, path, from, to, hops) ==
  /\ Head(path) = from /\ Last(path) = to /\ Len(path) <= hops + 1
  /\ \A i \in 1 .. Len(path) - 1 : path[i + 1] \in Within(rows, {path[i]}, 1) \ {path[i]}
  /\ Len(path) > 1 => to \notin Within(rows, {from}, Len(path) - 2)
=============================================================================
