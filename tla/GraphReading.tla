---------------------------- MODULE GraphReading ----------------------------
(***************************************************************************)
(* Reads of published graphs (chaosbox/src/reader*.rs over the PostgreSQL  *)
(* and the in-memory backend).  A published build never changes, but the   *)
(* active pointer moves while a client pages through a neighborhood, a     *)
(* path search is under way or a name is looked up first, and every read   *)
(* of a backend is bounded.                                                *)
(*                                                                         *)
(* Readers share nothing they write, so one of them is modelled.  Entities *)
(* and relationships are numbered in the order of their identifiers.       *)
(***************************************************************************)
EXTENDS GraphRows

CONSTANTS
  Vertex,        \* entities
  RelType,       \* relation types
  Build,         \* builds of the repository
  Contents,      \* what they may hold: functions from Build to GraphType
  Query,         \* what clients ask, see QueryType
  PageSize,      \* rows of one page of a path search
  MaxVisits, MaxRows, MaxQueries,   \* PathBudget; bytes and time are choices
  EdgeCap,       \* CONTEXT_EDGE_CAP
  SearchCap,     \* rows of the search behind a name
  ExportCap      \* EXPORT_NODE_CAP and EXPORT_EDGE_CAP

VARIABLES
  content,       \* content[b]: the graph of build b
  published,     \* builds published so far
  pointer,       \* the active build, {} before the first
  read           \* the reader

readingVars == <<content, published, pointer, read>>

RowType == [id : Nat \ {0}, from : Vertex, to : Vertex, type : RelType]

\* The endpoints of a row are entities of its build.  A name has the entities
\* that have it and, with them, those that have it as a part of theirs.
GraphType == [nodes : SUBSET Vertex, rows : SUBSET RowType,
              exact : SUBSET Vertex, similar : SUBSET Vertex]

QueryType ==
  [kind : {"page"}, anchor : Vertex, types : SUBSET RelType,
   mode : SUBSET {"outgoing", "incoming"}, limit : Nat \ {0}, build : SUBSET Build]
  \cup [kind : {"path"}, from : Vertex, named : BOOLEAN, to : Vertex, hops : Nat, build : SUBSET Build]
  \cup [kind : {"context"}, depth : Nat, nodes : Nat \ {0}, semantic : BOOLEAN, build : SUBSET Build]
  \cup [kind : {"export"}, build : SUBSET Build]
  \cup [kind : {"diff"}, old : Build, new : Build, build : SUBSET Build]

ASSUME ReadingAssumption ==
  /\ Vertex \subseteq Nat
  /\ Contents \subseteq [Build -> GraphType] /\ Query \subseteq QueryType
  /\ \A c \in Contents, b \in Build : LET g == c[b] IN
       /\ \A r \in g.rows : r.from \in g.nodes /\ r.to \in g.nodes
       /\ \A r, s \in g.rows : r.id = s.id => r = s
       /\ IsFiniteSet(g.nodes) /\ IsFiniteSet(g.rows)
       /\ g.exact \subseteq g.similar /\ g.similar \subseteq g.nodes
  /\ {PageSize, SearchCap - 1, MaxVisits} \subseteq Nat \ {0}
  /\ {MaxRows, MaxQueries, EdgeCap, ExportCap} \subseteq Nat

NoPosition == [outgoing |-> {}, incoming |-> {}]
NoPages == [at |-> NoPosition, got |-> [outgoing |-> <<>>, incoming |-> <<>>], first |-> {}]
NoSearch == [queue |-> <<>>, seen |-> {}, parents |-> {}, at |-> {},
             rows |-> MaxRows, queries |-> MaxQueries, from |-> {}, found |-> FALSE]
NoContext == [nodes |-> {}, edges |-> {}, priority |-> <<>>, queue |-> <<>>, reads |-> 0,
              truncated |-> FALSE]
NoRead == [pc |-> "idle", query |-> {}, build |-> {}, pages |-> NoPages, search |-> NoSearch,
           context |-> NoContext, answer |-> <<>>]

Asked == CHOOSE q \in read.query : TRUE
PinnedGraph == content[CHOOSE b \in read.build : TRUE]
At(pc, kind) == read.pc = pc /\ \E q \in read.query : q.kind = kind

-----------------------------------------------------------------------------
(* The backend's bounded queries.                                            *)

\* Rows of one direction; a self-loop belongs to both.
Anchor(r, direction) == IF direction = "outgoing" THEN r.from ELSE r.to
Other(r, direction) == IF direction = "outgoing" THEN r.to ELSE r.from
Neighbors(g, v, direction, types) == {r \in g.rows : Anchor(r, direction) = v /\ r.type \in types}

NeighborPage(g, v, direction, types, after, limit) ==
  FirstRows({r \in Neighbors(g, v, direction, types) : r.id > after}, limit)

\* By neighbour, then by row; a self-loop appears once.
Adjacent(g, v, limit) ==
  LET beside(r) == IF r.from = v THEN r.to ELSE r.from
      ordered == Ranked({r \in g.rows : v \in {r.from, r.to}},
                   LAMBDA r, s : beside(r) < beside(s) \/ (beside(r) = beside(s) /\ r.id < s.id))
  IN  SubSeq(ordered, 1, IF Len(ordered) < limit THEN Len(ordered) ELSE limit)

-----------------------------------------------------------------------------
(* Publication, and the beginning of a read.                                 *)

\* A build is published and becomes the active one.
MovePointer(b) ==
  /\ b \notin published
  /\ published' = published \cup {b}
  /\ pointer' = {b}
  /\ UNCHANGED <<content, read>>

Ask(q) ==
  /\ read.pc = "idle"
  /\ read' = [NoRead EXCEPT !.query = {q},
                            !.pc = IF q.kind = "path" /\ q.named THEN "name" ELSE "pin"]
  /\ UNCHANGED <<content, published, pointer>>

\* GraphReader::selected: the build that is named and never another one, or
\* the active one.
Selected(build) == IF build # {} THEN build \cap published ELSE pointer

\* resolve_names: a name stands for the one entity that has it.  Matches come
\* first in a page of the search, so two of them are seen; a page full of
\* others does not show that there is none.
ResolveName ==
  /\ At("name", "path")
  /\ \/ /\ Selected(Asked.build) = {}
        /\ read' = [read EXCEPT !.pc = "refused"]
     \/ \E b \in Selected(Asked.build) :
          LET g == content[b] IN
          read' = CASE Cardinality(g.exact) = 1 ->
                         [read EXCEPT !.pc = "pin", !.search.from = g.exact]
                    [] g.exact = {} /\ Cardinality(g.similar) < SearchCap ->
                         [read EXCEPT !.pc = "pin", !.search.from = {}]
                    [] OTHER -> [read EXCEPT !.pc = "refused"]
  /\ UNCHANGED <<content, published, pointer>>

\* The pages a continuation asks for, or those of the first one.
Opening(q) == [outgoing |-> IF "outgoing" \in q.mode THEN {0} ELSE {},
               incoming |-> IF "incoming" \in q.mode THEN {0} ELSE {}]

\* Mutant: a continuation reads the active build.
PinsActive(q) == pointer

\* What a read is about: for a continuation the build of its cursor.
PinOf(q) == IF read.build # {} THEN Selected(read.build) ELSE Selected(q.build)

Starts(q) == CASE q.kind = "page" -> "outgoing" [] q.kind = "path" -> "from"
               [] q.kind = "context" -> "seed" [] OTHER -> q.kind

PinBuild ==
  /\ read.pc = "pin"
  /\ \E q \in read.query :
       LET b == PinOf(q) IN
       IF b = {} THEN read' = [read EXCEPT !.pc = "refused"]
       ELSE read' = [read EXCEPT !.pc = Starts(q), !.build = b,
                       !.pages.first = IF @ = {} THEN b ELSE @,
                       !.pages.at = IF q.kind = "page" /\ read.build = {} THEN Opening(q) ELSE @,
                       \* acquisition and pinning each spend one operation
                       !.search.queries = IF q.kind = "path" THEN @ - 2 ELSE @]
  /\ UNCHANGED <<content, published, pointer>>

Finish ==
  /\ read.pc \in {"refused", "exhausted", "done"}
  /\ read' = NoRead
  /\ UNCHANGED <<content, published, pointer>>

-----------------------------------------------------------------------------
(* Neighborhood pages.                                                       *)

\* Where the next page begins.  One row more than asked for is read.
PageEnd(rows, limit) == IF Len(rows) > limit THEN {rows[limit].id} ELSE {}

DirectionalPage(direction, next) ==
  /\ At(direction, "page")
  /\ LET q == Asked
         position == read.pages.at[direction]
         rows == NeighborPage(PinnedGraph, q.anchor, direction, q.types,
                              CHOOSE k \in position : TRUE, q.limit + 1)
     IN  IF position = {} \/ q.types = {}
           THEN read' = [read EXCEPT !.pc = next, !.pages.at[direction] = {}]
           ELSE read' = [read EXCEPT !.pc = next,
                  !.pages.at[direction] = PageEnd(rows, q.limit),
                  !.pages.got[direction] = @ \o SubSeq(rows, 1,
                     IF Len(rows) < q.limit THEN Len(rows) ELSE q.limit)]
  /\ UNCHANGED <<content, published, pointer>>

\* The page is complete, or has a cursor with which the client comes back.
ReturnPage ==
  /\ At("returned", "page")
  /\ read' = [read EXCEPT !.pc = IF read.pages.at = NoPosition THEN "done" ELSE "cursor"]
  /\ UNCHANGED <<content, published, pointer>>

\* NeighborhoodQuery::prepare: a cursor is good for the request it was given to.
\* The build is no part of that; a request that names one names the cursor's.
Agrees(q) ==
  /\ [q EXCEPT !.build = Asked.build] = Asked
  /\ q.build \in {{}, read.build}

Continue(q) ==
  /\ At("cursor", "page") /\ q.kind = "page"
  /\ read' = [read EXCEPT !.pc = IF Agrees(q) THEN "pin" ELSE "refused"]
  /\ UNCHANGED <<content, published, pointer>>

-----------------------------------------------------------------------------
(* Paths.                                                                    *)

From == IF Asked.named THEN read.search.from ELSE {Asked.from}
Spend == read.search.queries > 0
Exhausts == read' = [read EXCEPT !.pc = "exhausted"]
ReturnsPath(path) == read' = [read EXCEPT !.pc = "done", !.answer = path,
                            !.search.found = path # <<>>]

\* Both endpoints are entities of the pinned build; from the first lookup on,
\* equal endpoints are a path.
FindEndpoint(pc, ids, next) ==
  /\ At(pc, "path")
  /\ IF ~ Spend THEN Exhausts
     ELSE IF ids \cap PinnedGraph.nodes = {} THEN ReturnsPath(<<>>)
     ELSE IF From = {Asked.to} THEN ReturnsPath(<<Asked.to>>)
     ELSE read' = [read EXCEPT !.pc = next, !.search.queries = @ - 1,
                               !.search.seen = From,
                               !.search.queue = [i \in 1 .. Cardinality(From) |->
                                                   <<CHOOSE v \in From : TRUE, 0>>]]
  /\ UNCHANGED <<content, published, pointer>>

\* The next entity of the queue; those at the hop bound are not expanded.
NextVertex ==
  /\ At("search", "path") /\ read.search.at = {}
  /\ IF read.search.queue = <<>> THEN ReturnsPath(<<>>)
     ELSE LET next == Head(read.search.queue) IN
          read' = [read EXCEPT !.search.queue = Tail(@),
                     !.search.at = IF next[2] >= Asked.hops THEN {}
                       ELSE {[vertex |-> next[1], depth |-> next[2],
                              direction |-> "outgoing", after |-> 0]}]
  /\ UNCHANGED <<content, published, pointer>>

\* Mutant: an entity beyond the visit bound is left out.
LeavesOut(s, v, at) ==
  IF s.verdict # "open" \/ v \in s.seen \/ Cardinality(s.seen) >= MaxVisits THEN s
  ELSE [s EXCEPT !.seen = @ \cup {v}, !.parents = @ \cup {<<v, at.vertex>>},
                 !.queue = Append(@, <<v, at.depth + 1>>),
                 !.verdict = IF v = Asked.to THEN "found" ELSE "open"]

\* One row of a page.
Visit(s, v, at) ==
  IF s.verdict # "open" \/ v \in s.seen THEN s
  ELSE IF Cardinality(s.seen) >= MaxVisits THEN [s EXCEPT !.verdict = "exhausted"]
  ELSE [s EXCEPT !.seen = @ \cup {v}, !.parents = @ \cup {<<v, at.vertex>>},
                 !.queue = Append(@, <<v, at.depth + 1>>),
                 !.verdict = IF v = Asked.to THEN "found" ELSE "open"]

\* One page.  A row beyond the budget is read, so that using it up is told from
\* having used exactly that much.
ReadPathPage ==
  /\ At("search", "path")
  /\ \E at \in read.search.at :
       LET limit == IF PageSize < read.search.rows + 1 THEN PageSize ELSE read.search.rows + 1
           rows == NeighborPage(PinnedGraph, at.vertex, at.direction, RelType, at.after, limit)
           s == FoldLeft(LAMBDA t, r : Visit(t, Other(r, at.direction), at),
                         [seen |-> read.search.seen, parents |-> read.search.parents,
                          queue |-> read.search.queue, verdict |-> "open"], rows)
           next == IF Len(rows) = limit THEN {[at EXCEPT !.after = Last(rows).id]}
                   ELSE IF at.direction = "outgoing"
                     THEN {[at EXCEPT !.direction = "incoming", !.after = 0]} ELSE {}
       IN  IF ~ Spend \/ Len(rows) > read.search.rows \/ s.verdict = "exhausted" THEN Exhausts
           ELSE IF s.verdict = "found" THEN ReturnsPath(PathTo(Asked.to, s.parents))
           ELSE read' = [read EXCEPT !.search.seen = s.seen, !.search.parents = s.parents,
                           !.search.queue = s.queue, !.search.at = next,
                           !.search.rows = @ - Len(rows), !.search.queries = @ - 1]
  /\ UNCHANGED <<content, published, pointer>>

\* The byte budget, the deadline or the backend.
PathFails ==
  /\ read.pc \in {"from", "to", "search"}
  /\ Exhausts
  /\ UNCHANGED <<content, published, pointer>>

-----------------------------------------------------------------------------
(* Context packets.                                                          *)

\* At most n of S; which ones is a ranking, a choice here.
Best(S, n) == {C \in SUBSET S : Cardinality(C) = IF Cardinality(S) < n THEN Cardinality(S) ELSE n}

\* The seeds: entities a term of the question matches, fused with what is
\* nearest to it when an embedder answers.
Seed ==
  /\ At("seed", "context")
  /\ LET max == Asked.nodes
         matches == PinnedGraph.similar
     IN  \E hits \in Best(matches, max + 1) :
         \E near \in IF Asked.semantic THEN Best(PinnedGraph.nodes, max) ELSE {{}} :
         \E seeds \in IF Asked.semantic THEN Best(hits \cup near, max) ELSE Best(hits, max) :
           LET order == SetToSeq(seeds) IN
           read' = [read EXCEPT !.pc = "expand", !.context =
                      [NoContext EXCEPT !.nodes = seeds, !.priority = order,
                         !.queue = [i \in DOMAIN order |-> <<order[i], 0>>],
                         !.truncated = Cardinality(hits) > max]]
  /\ UNCHANGED <<content, published, pointer>>

\* One row of an expansion: the entity behind it joins, or did not fit.
Joins(c, r, v, level) ==
  LET next == IF r.from = v THEN r.to ELSE r.from
      reached == [c EXCEPT !.edges = @ \cup {r}]
  IN  IF next \in c.nodes THEN reached
      ELSE IF Cardinality(c.nodes) < Asked.nodes
        THEN [reached EXCEPT !.nodes = @ \cup {next}, !.priority = Append(@, next),
                             !.queue = Append(@, <<next, level + 1>>)]
        ELSE [reached EXCEPT !.truncated = TRUE]

\* Mutant: rows beyond the cap are dropped silently.
DropsSilently(c, rows, remaining) == c.truncated

\* Whether an expansion left something out.
Saturated(c, rows, remaining) == c.truncated \/ Len(rows) > remaining

Expand ==
  /\ At("expand", "context") /\ read.context.queue # <<>>
  /\ LET c == read.context
         v == Head(c.queue)[1]
         level == Head(c.queue)[2]
         remaining == EdgeCap - c.reads
         rows == Adjacent(PinnedGraph, v, remaining + 1)
         kept == SubSeq(rows, 1, IF Len(rows) < remaining THEN Len(rows) ELSE remaining)
         popped == [c EXCEPT !.queue = Tail(@)]
     IN  read' = [read EXCEPT !.context =
           IF level >= Asked.depth THEN popped
           ELSE IF remaining = 0 THEN [popped EXCEPT !.queue = <<>>, !.truncated = TRUE]
           ELSE FoldLeft(LAMBDA d, r : Joins(d, r, v, level),
                         [popped EXCEPT !.truncated = Saturated(c, rows, remaining),
                                        !.reads = @ + Len(kept)], kept)]
  /\ UNCHANGED <<content, published, pointer>>

\* A packet that is too long loses its last entity, and the links it had.
Shorten ==
  LET c == read.context
      d == [c EXCEPT !.nodes = @ \ {Last(c.priority)}, !.priority = Front(@), !.truncated = TRUE]
  IN  /\ At("expand", "context") /\ c.queue = <<>> /\ c.priority # <<>>
      /\ read' = [read EXCEPT !.context = d]
      /\ UNCHANGED <<content, published, pointer>>

Links(c) == {r \in c.edges : {r.from, r.to} \subseteq c.nodes}

ReturnContext ==
  /\ At("expand", "context") /\ read.context.queue = <<>>
  /\ read' = [read EXCEPT !.pc = "done",
                !.answer = <<read.context.nodes, Links(read.context)>>]
  /\ UNCHANGED <<content, published, pointer>>

-----------------------------------------------------------------------------
(* Export and diff: the whole build or an error.                             *)

Fits(g) == Cardinality(g.nodes) <= ExportCap /\ Cardinality(g.rows) <= ExportCap
RowIds(g) == {r.id : r \in g.rows}

Export ==
  /\ At("export", "export")
  /\ read' = IF Fits(PinnedGraph)
               THEN [read EXCEPT !.pc = "done", !.answer = <<PinnedGraph.nodes, PinnedGraph.rows>>]
               ELSE [read EXCEPT !.pc = "exhausted"]
  /\ UNCHANGED <<content, published, pointer>>

\* Both headers are checked before a row of either is read.
Diff ==
  /\ At("diff", "diff")
  /\ LET old == content[Asked.old]
         new == content[Asked.new]
     IN read' =
       CASE ~ {Asked.old, Asked.new} \subseteq published -> [read EXCEPT !.pc = "refused"]
         [] {Asked.old, Asked.new} \subseteq published /\ ~ (Fits(old) /\ Fits(new)) ->
              [read EXCEPT !.pc = "exhausted"]
         [] OTHER -> [read EXCEPT !.pc = "done",
              !.answer = << <<new.nodes \ old.nodes, old.nodes \ new.nodes>>,
                            <<RowIds(new) \ RowIds(old), RowIds(old) \ RowIds(new)>> >>]
  /\ UNCHANGED <<content, published, pointer>>

-----------------------------------------------------------------------------
ReadingInit ==
  /\ content \in Contents
  /\ published = {} /\ pointer = {}
  /\ read = NoRead

Pages ==
  \/ DirectionalPage("outgoing", "incoming") \/ DirectionalPage("incoming", "returned")
  \/ ReturnPage \/ (\E q \in Query : Continue(q))
Paths ==
  \/ FindEndpoint("from", From, "to") \/ FindEndpoint("to", {Asked.to}, "search")
  \/ NextVertex \/ ReadPathPage \/ PathFails
Contexts == Seed \/ Expand \/ Shorten \/ ReturnContext

ReadingNext ==
  \/ \E b \in Build : MovePointer(b)
  \/ \E q \in Query : Ask(q)
  \/ ResolveName \/ PinBuild \/ Finish \/ Pages \/ Paths \/ Contexts \/ Export \/ Diff

ReadingSpec == ReadingInit /\ [][ReadingNext]_readingVars

-----------------------------------------------------------------------------
\* Types.
ReadingTypeOK ==
  /\ content \in Contents /\ published \subseteq Build /\ pointer \subseteq published
  /\ read.pc \in {"idle", "name", "pin", "outgoing", "incoming", "returned", "cursor", "from",
                  "to", "search", "seed", "expand", "export", "diff", "refused", "exhausted", "done"}
  /\ read.query \subseteq Query /\ read.build \subseteq Build
  /\ read.search.seen \subseteq Vertex /\ read.search.rows \in 0 .. MaxRows
  /\ read.search.queries <= MaxQueries
  /\ read.context.reads \in 0 .. EdgeCap

\* Paging through a neighborhood delivers, in each direction, exactly the rows
\* of the build the first page was pinned to, in order and each one once,
\* however the pages divide them and whatever is published between two pages
\* (directional_page, PreparedNeighborhood::read).
PagesAreTheNeighborhood ==
  \A q \in read.query : q.kind = "page" /\ read.build # {} =>
    /\ read.build = read.pages.first
    /\ \A d \in q.mode :
         LET whole == InOrder(Neighbors(PinnedGraph, q.anchor, d, q.types)) IN
         /\ IsPrefix(read.pages.got[d], whole)
         /\ read.pc = "done" => read.pages.got[d] = whole

\* A path is a shortest one of the pinned build, and none is an answer only when
\* there is none within the hop bound: a search that ran out of visits, rows,
\* queries, bytes or time says so and never that there is no path (path_inner).
PathIsShortest ==
  \A q \in read.query : q.kind = "path" /\ read.pc = "done" =>
    LET path == read.answer IN
    IF path # <<>>
      THEN From = {Head(path)} /\ IsShortest(PinnedGraph.rows, path, Head(path), q.to, q.hops)
      ELSE q.to \notin Within(PinnedGraph.rows, From \cap PinnedGraph.nodes, q.hops)

\* A packet whose seeds are the lexical matches, and that does not say it is
\* truncated, has every entity within reach of every one of them and every link
\* met on the way; one that is truncated still has nothing out of reach.  However
\* the seeds were found, no link dangles and there is no more than was asked for
\* (ContextGraph).
ContextIsHonest ==
  \A q \in read.query : q.kind = "context" /\ read.pc = "done" =>
    LET g == PinnedGraph
        nodes == read.answer[1]
        links == read.answer[2]
    IN  /\ Cardinality(nodes) <= q.nodes /\ nodes \subseteq g.nodes
        /\ links \subseteq g.rows /\ \A r \in links : {r.from, r.to} \subseteq nodes
        /\ ~ q.semantic => nodes \subseteq Within(g.rows, g.similar, q.depth)
        /\ ~ q.semantic /\ ~ read.context.truncated =>
             /\ nodes = Within(g.rows, g.similar, q.depth)
             /\ q.depth > 0 => \A r \in g.rows :
                  {r.from, r.to} \cap Within(g.rows, g.similar, q.depth - 1) # {} => r \in links
=============================================================================
