------------------------------ MODULE MCReading ------------------------------
(* Small graphs for the readers and the read views, two providers for         *)
(* federation.                                                                *)
EXTENDS McpSession, GraphReading, FederatedReading, ScopedReading

-----------------------------------------------------------------------------
(* Readers: every combination of three rows on one build, self-loops, double  *)
(* edges and unreachable entities among them, and two more for paging.         *)

Edge(id, v, w) == [id |-> id, from |-> v, to |-> w, type |-> "calls"]
GraphOf(nodes, rows, exact, similar) ==
  [nodes |-> nodes, rows |-> rows, exact |-> exact, similar |-> similar]
Small ==
  {GraphOf(Vertex, {a, b, c}, {}, {1}) :
     a \in {Edge(1, 1, 2), Edge(1, 1, 1), Edge(1, 3, 1)},
     b \in {Edge(2, 1, 2), Edge(2, 2, 3), Edge(2, 4, 2)},
     c \in {Edge(3, 2, 3), Edge(3, 3, 4), Edge(3, 2, 1), Edge(3, 4, 3)}}
Rich == GraphOf(Vertex, {Edge(1, 1, 1), Edge(2, 1, 2), Edge(3, 2, 1), Edge(5, 1, 2),
                         [Edge(4, 1, 3) EXCEPT !.type = "owns"]}, {1}, {1, 2})
Poor == GraphOf({1, 2}, {Edge(2, 1, 2), Edge(6, 1, 1)}, {1, 2}, {1, 2})
GraphContents == {[b \in Build |-> IF b = 1 THEN g ELSE h] : g \in Small \cup {Rich}, h \in {Rich, Poor}}

PageQuery(types, mode, limit, at) ==
  [kind |-> "page", anchor |-> 1, types |-> types, mode |-> mode, limit |-> limit, build |-> at]
PathQuery(named, to, hops) ==
  [kind |-> "path", from |-> 1, named |-> named, to |-> to, hops |-> hops, build |-> {}]
ContextQuery(depth, nodes, semantic) ==
  [kind |-> "context", depth |-> depth, nodes |-> nodes, semantic |-> semantic, build |-> {}]
Queries ==
  {PageQuery(RelType, {"outgoing", "incoming"}, n, {}) : n \in {1, 2}}
    \cup {PageQuery(RelType, {"outgoing", "incoming"}, 1, {1})}
    \cup {PageQuery({"calls"}, {"incoming"}, 1, {1}), PageQuery({}, {"outgoing"}, 1, {2})}
    \cup {PathQuery(FALSE, v, n) : v \in {3, 4}, n \in {1, 2}}
    \cup {PathQuery(TRUE, 2, 1), PathQuery(FALSE, 1, 0)}
    \cup {ContextQuery(1, 3, FALSE), ContextQuery(2, 3, FALSE), ContextQuery(1, 2, TRUE)}
    \cup {[kind |-> "export", build |-> {2}], [kind |-> "diff", old |-> 1, new |-> 2, build |-> {}]}

-----------------------------------------------------------------------------
(* Federation: records that share an origin, and see it alike or not, one that *)
(* is withdrawn, one whose evidence changes, contradictions across the border  *)
(* of a grant.                                                                 *)

Note(id, shared, score, origin, contradicts) ==
  [id |-> id, shared |-> shared, score |-> score, size |-> 1, evidence |-> 1, origin |-> origin,
   standing |-> 1, contradicts |-> contradicts]
KnowledgeOf ==
  << << {Note(1, TRUE, 1, 7, {}), Note(2, TRUE, 2, 8, {1})},
        {Note(1, TRUE, 1, 7, {}), Note(2, FALSE, 2, 8, {1})} >>,
     << {Note(1, TRUE, 1, 7, {3}), Note(3, TRUE, 1, 9, {})},
        {[Note(1, TRUE, 1, 7, {}) EXCEPT !.standing = 2], Note(3, FALSE, 1, 9, {1})},
        {[Note(1, TRUE, 1, 7, {}) EXCEPT !.evidence = 2]} >> >>
SomeGrants == {[mode |-> "none", records |-> {}], [mode |-> "selected", records |-> {1}],
               [mode |-> "all", records |-> {}]}

-----------------------------------------------------------------------------
(* Read views: three visible entities and a hidden one, rows that cross, a    *)
(* row whose evidence is hidden, a way through the hidden entity, and three    *)
(* builds that cannot be admitted.                                             *)

Row(id, v, w, evidence) == [id |-> id, from |-> v, to |-> w, evidence |-> evidence]
Admitted(rows) == [sealed |-> TRUE, nodes |-> 1 .. 4, inside |-> {1, 2, 3}, foreign |-> FALSE, rows |-> rows]
Inside(id, v, w) == Row(id, v, w, "inside")
ViewedBuilds ==
  {Admitted({Inside(1, 1, 2), Inside(2, 2, 3), Row(3, 3, 1, x), Row(4, 4, 2, "outside")}) :
     x \in {"inside", "outside"}}
    \cup {Admitted({Inside(1, 1, 4), Inside(2, 4, 3), Inside(3, 2, 3), Inside(5, 1, 2)})}
    \cup {[Admitted({}) EXCEPT !.sealed = FALSE], [Admitted({}) EXCEPT !.foreign = TRUE],
          [Admitted({}) EXCEPT !.nodes = 1 .. 7]}

PageCall(kind, about, limit, cursor, same) ==
  [kind |-> kind, granted |-> TRUE, about |-> about, limit |-> limit, cursor |-> cursor, same |-> same]
ViewCalls ==
  {PageCall("nodes", {}, 2, 2, TRUE), PageCall("rows", {}, 2, 0, TRUE), PageCall("rows", {2}, 1, 1, TRUE),
   PageCall("rows", {}, 2, 1, FALSE)}
    \cup {[kind |-> "lookup", granted |-> b, id |-> 4] : b \in BOOLEAN}
    \cup {[kind |-> "path", granted |-> TRUE, from |-> 1, to |-> 3, hops |-> n] : n \in {1, 2}}
=============================================================================
