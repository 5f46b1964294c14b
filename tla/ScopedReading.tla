---------------------------- MODULE ScopedReading ----------------------------
(***************************************************************************)
(* Read views (chaosbox/src/read_view): a connector admits one run to one  *)
(* build, and to the files it may see of it.  Admission freezes the part   *)
(* of the graph that is visible; the connection then answers one call at a  *)
(* time, from memory, until the view expires, the connector revokes it or  *)
(* the client leaves.  A call runs in a task of its own: frames are read   *)
(* while it runs, but not while a response is written.  Other threads       *)
(* revoke the view at any time.                                            *)
(*                                                                         *)
(* Sizes and deadlines of calls are choices.                               *)
(***************************************************************************)
EXTENDS GraphRows

CONSTANTS
  Builds,        \* what may be asked to be admitted, see BuildType
  ScopedCall,        \* calls the client may make, see CallType
  LoadCap,       \* Budgets: max_nodes and max_edges
  CallCap,       \* max_calls
  PageCap,       \* max_page_size
  HopCap,        \* max_hops
  VisitCap,      \* max_visits
  MaxScopedFrames   \* bound: requests of one connection

VARIABLES
  build,         \* the build of the admission
  lease,         \* "valid", "expired" or "revoked"
  scope,         \* the frozen nodes and rows, {} before admission
  conn,          \* the connection
  delivered,     \* history: the responses written, in order
  tried          \* history: the frames whose call was attempted

scopedVars == <<build, lease, scope, conn, delivered, tried>>

\* inside: nodes of files the view allows; foreign: some node is of another
\* repository or snapshot.  Of a row, what its evidence cites.
ScopedRow == [id : Nat, from : Nat, to : Nat, evidence : {"inside", "outside", "none"}]
BuildType == [sealed : BOOLEAN, nodes : SUBSET Nat, inside : SUBSET Nat, foreign : BOOLEAN,
              rows : SUBSET ScopedRow]

\* granted: the operation and the repository are those of the view.
CallType ==
  [kind : {"nodes", "rows"}, granted : BOOLEAN, about : SUBSET Nat, limit : Nat, cursor : Nat, same : BOOLEAN]
  \cup [kind : {"lookup"}, granted : BOOLEAN, id : Nat]
  \cup [kind : {"path"}, granted : BOOLEAN, from : Nat, to : Nat, hops : Nat]

ASSUME ScopedAssumption ==
  /\ Builds \subseteq BuildType /\ ScopedCall \subseteq CallType
  /\ \A b \in Builds : /\ IsFiniteSet(b.nodes) /\ IsFiniteSet(b.rows)
                       /\ b.inside \subseteq b.nodes
                       /\ \A r, s \in b.rows : r.id = s.id => r = s
  /\ {LoadCap, CallCap, PageCap, HopCap, VisitCap, MaxScopedFrames} \subseteq Nat \ {0}

-----------------------------------------------------------------------------
(* ScopedReader::admit.                                                      *)

NoConn == [pc |-> "admitting", initialized |-> FALSE, running |-> {}, sending |-> {},
           frames |-> 0, calls |-> 0]

\* Mutant: a row is kept when one of its ends is visible.
KeepsCrossing(b, nodes) == {r \in b.rows : r.from \in nodes \/ r.to \in nodes}

\* A row is visible when both its ends are.
VisibleRows(b, nodes) == {r \in b.rows : r.from \in nodes /\ r.to \in nodes}

\* Everything is bounded before it is filtered, and the evidence of every
\* visible row is read: one row with a citation outside the view, and there is
\* no view at all.
Admissible(b) ==
  /\ b.sealed
  /\ Cardinality(b.nodes) <= LoadCap /\ Cardinality(b.rows) <= LoadCap
  /\ ~ b.foreign
  /\ \A r \in b.rows : r.from \in b.nodes /\ r.to \in b.nodes
  /\ \A r \in VisibleRows(b, b.inside) : r.evidence = "inside"

Ended == [conn EXCEPT !.pc = "ended", !.running = {}, !.sending = {}]

Admit ==
  /\ conn.pc = "admitting"
  /\ IF lease = "valid" /\ Admissible(build)
       THEN /\ scope' = {[nodes |-> build.inside, rows |-> VisibleRows(build, build.inside)]}
            /\ conn' = [conn EXCEPT !.pc = "serving"]
       ELSE conn' = Ended /\ UNCHANGED scope
  /\ UNCHANGED <<build, lease, delivered, tried>>

\* A backend that fails, or the deadline of the admission.
AdmissionFails ==
  /\ conn.pc = "admitting"
  /\ conn' = Ended
  /\ UNCHANGED <<build, lease, scope, delivered, tried>>

\* The connector's handle exists once the view is admitted; time passes anyway.
Revoke ==
  /\ lease = "valid" /\ conn.pc = "serving"
  /\ lease' = "revoked"
  /\ UNCHANGED <<build, scope, conn, delivered, tried>>

Expire ==
  /\ lease = "valid" /\ conn.pc # "ended"
  /\ lease' = "expired"
  /\ UNCHANGED <<build, scope, conn, delivered, tried>>

-----------------------------------------------------------------------------
(* Answers from the frozen graph (query.rs).                                 *)

Frozen == CHOOSE g \in scope : TRUE
Blocked(reason) == [body |-> "blocked", about |-> reason, data |-> <<>>]
Data(call, data) == [body |-> "data", about |-> call, data |-> data]

\* A cursor is an offset, and good for the call it was given to.
Page(call, items) ==
  LET end == IF call.cursor + call.limit < Len(items) THEN call.cursor + call.limit ELSE Len(items)
  IN  IF call.limit = 0 \/ call.limit > PageCap \/ ~ call.same \/ call.cursor > Len(items)
        THEN Blocked("arguments")
        ELSE Data(call, <<SubSeq(items, call.cursor + 1, end), IF end < Len(items) THEN {end} ELSE {}>>)

ById(S) == Ranked(S, <)

\* Breadth first, in the order of the identifiers.
Meet(s, v, u, to, depth) ==
  IF s.verdict # "open" \/ u \in s.seen THEN s
  ELSE IF Cardinality(s.seen) >= VisitCap THEN [s EXCEPT !.verdict = "budget"]
  ELSE [s EXCEPT !.seen = @ \cup {u}, !.parents = @ \cup {<<u, v>>},
                 !.queue = Append(@, <<u, depth + 1>>), !.verdict = IF u = to THEN "found" ELSE "open"]

Pop(s, g, call) ==
  IF s.queue = <<>> \/ s.verdict # "open" THEN s
  ELSE LET v == Head(s.queue)[1]
           depth == Head(s.queue)[2]
           rest == [s EXCEPT !.queue = Tail(@)]
       IN  IF depth >= call.hops THEN rest
           ELSE FoldLeft(LAMBDA t, u : Meet(t, v, u, call.to, depth), rest,
                         ById(Within(g.rows, {v}, 1) \ {v}))

PathAnswer(g, call) ==
  LET start == [queue |-> << <<call.from, 0>> >>, seen |-> {call.from}, parents |-> {}, verdict |-> "open"]
      s == FoldLeft(LAMBDA t, k : Pop(t, g, call), start, [k \in 1 .. Cardinality(g.nodes) |-> k])
  IN  IF call.hops = 0 \/ call.hops > HopCap THEN Blocked("arguments")
      ELSE IF ~ {call.from, call.to} \subseteq g.nodes THEN Data(call, <<>>)
      ELSE IF call.from = call.to THEN Data(call, <<call.from>>)
      ELSE CASE s.verdict = "found" -> Data(call, PathTo(call.to, s.parents))
             [] s.verdict = "budget" -> Blocked("budget")
             [] OTHER -> Data(call, <<>>)

\* about: {} for an export, the entity for its neighbours.
AnswerOf(g, call) ==
  CASE call.kind = "nodes" -> Page(call, ById(g.nodes))
    [] call.kind = "rows" ->
         Page(call, InOrder({r \in g.rows : call.about = {} \/ call.about \cap {r.from, r.to} # {}}))
    [] call.kind = "lookup" -> Data(call, IF call.id \in g.nodes THEN <<call.id>> ELSE <<>>)
    [] call.kind = "path" -> PathAnswer(g, call)

-----------------------------------------------------------------------------
(* serve: the loop reads a frame, or takes the answer of the task.           *)

Listening == conn.pc = "serving" /\ conn.sending = {} /\ lease = "valid"
Requested == Listening /\ conn.frames < MaxScopedFrames
FrameNumber == conn.frames + 1
\* seen: the lease as its write saw it last; "new" before it looks, and
\* "waiting" while the client does not read.
Response(n, answer) == [number |-> n, answer |-> answer, seen |-> "new"]
Sends(c, n, answer) == [c EXCEPT !.sending = {Response(n, answer)}]
Plain(body) == [body |-> body, about |-> "none", data |-> <<>>]
Frame == [conn EXCEPT !.frames = FrameNumber]

InitializeScoped ==
  /\ Requested
  /\ conn' = Sends([Frame EXCEPT !.initialized = TRUE], FrameNumber,
                   Plain(IF conn.initialized THEN "error" ELSE "result"))
  /\ UNCHANGED <<build, lease, scope, delivered, tried>>

\* A ping, a page of the tools, a frame that is no request.
AnswerAtOnce ==
  /\ Requested
  /\ \E body \in {"result", "error"} : conn' = Sends(Frame, FrameNumber, Plain(body))
  /\ UNCHANGED <<build, lease, scope, delivered, tried>>

\* One call at a time, and none before initialize.
RequestCall(call) ==
  /\ Requested
  /\ conn' = IF conn.initialized /\ conn.running = {}
               THEN [Frame EXCEPT !.running = {[number |-> FrameNumber, call |-> call, stage |-> "spawned",
                                                answer |-> Plain("none")]}]
               ELSE Sends(Frame, FrameNumber, Plain("error"))
  /\ UNCHANGED <<build, lease, scope, delivered, tried>>

\* Mutant: what a cancelled call has used is given back.
RefundsCancelled ==
  /\ Listening
  /\ \E r \in conn.running :
       conn' = Sends([conn EXCEPT !.running = {}, !.calls = IF @ > 0 THEN @ - 1 ELSE 0],
                     r.number, Plain("cancelled"))
  /\ UNCHANGED <<build, lease, scope, delivered, tried>>

\* The task is aborted, whatever it has done, and the call is answered here.
CancelCall ==
  /\ Listening
  /\ \E r \in conn.running :
       conn' = Sends([conn EXCEPT !.running = {}], r.number, Plain("cancelled"))
  /\ UNCHANGED <<build, lease, scope, delivered, tried>>

TakeAnswer ==
  /\ Listening
  /\ \E r \in conn.running :
       /\ r.stage = "ready"
       /\ conn' = Sends([conn EXCEPT !.running = {}], r.number, r.answer)
  /\ UNCHANGED <<build, lease, scope, delivered, tried>>

-----------------------------------------------------------------------------
(* The task: call_until.                                                     *)

Ready(r, answer) == {[r EXCEPT !.stage = "ready", !.answer = answer]}

\* Mutant: a call that is refused costs nothing.
ChargesGranted(r) == IF r.call.granted THEN 1 ELSE 0

\* Every attempt counts, those that are refused afterwards too.
Charge(r) == 1

BeginCall ==
  /\ conn.pc = "serving"
  /\ \E r \in conn.running :
       /\ r.stage = "spawned"
       /\ tried' = IF lease = "valid" /\ conn.calls < CallCap THEN tried \cup {r.number} ELSE tried
       /\ conn' =
            CASE lease # "valid" -> [conn EXCEPT !.running = Ready(r, Blocked(lease))]
              [] lease = "valid" /\ conn.calls >= CallCap ->
                   [conn EXCEPT !.running = Ready(r, Blocked("budget"))]
              [] OTHER -> [conn EXCEPT !.calls = @ + Charge(r), !.running =
                   IF r.call.granted THEN {[r EXCEPT !.stage = "working"]}
                                     ELSE Ready(r, Blocked("denied"))]
  /\ UNCHANGED <<build, lease, scope, delivered>>

\* The lease is looked at again when the answer is there.
CompleteCall ==
  /\ conn.pc = "serving"
  /\ \E r \in conn.running :
       /\ r.stage = "working"
       /\ conn' = [conn EXCEPT !.running =
            Ready(r, IF lease = "valid" THEN AnswerOf(Frozen, r.call) ELSE Blocked(lease))]
  /\ UNCHANGED <<build, lease, scope, delivered, tried>>

\* The deadline of the call; once it is charged, also its arguments and the
\* size of its result.
CallFails ==
  /\ conn.pc = "serving"
  /\ \E r \in conn.running :
       \E reason \in IF r.stage = "spawned" THEN {"deadline"} ELSE {"deadline", "arguments", "budget"} :
         /\ r.stage \in {"spawned", "working"}
         /\ conn' = [conn EXCEPT !.running = Ready(r, Blocked(reason))]
  /\ UNCHANGED <<build, lease, scope, delivered, tried>>

-----------------------------------------------------------------------------
(* write, and the end of the connection.                                     *)

\* Mutant: once it has begun, a write goes on whatever becomes of the lease.
WritesOn ==
  /\ conn.pc = "serving"
  /\ \E response \in conn.sending :
       /\ response.seen \in {"new", "waiting"}
       /\ lease = "valid" \/ response.seen = "waiting"
       /\ conn' = [conn EXCEPT !.sending = {[response EXCEPT !.seen = lease]}]
  /\ UNCHANGED <<build, lease, scope, delivered, tried>>

\* write looks at the lease when it begins, and whenever it is polled again, and
\* fails unless it is valid; a response too large is replaced before that.
PollWrite ==
  /\ conn.pc = "serving" /\ lease = "valid"
  /\ \E response \in conn.sending :
       /\ response.seen \in {"new", "waiting"}
       /\ \E answer \in {response.answer} \cup (IF response.seen = "new" THEN {Blocked("budget")} ELSE {}) :
            conn' = [conn EXCEPT !.sending = {[response EXCEPT !.answer = answer, !.seen = lease]}]
  /\ UNCHANGED <<build, lease, scope, delivered, tried>>

\* The client does not read: the write waits until it does.
WriteStalls ==
  /\ conn.pc = "serving"
  /\ \E response \in conn.sending :
       /\ response.seen \notin {"new", "waiting"}
       /\ conn' = [conn EXCEPT !.sending = {[response EXCEPT !.seen = "waiting"]}]
  /\ UNCHANGED <<build, lease, scope, delivered, tried>>

\* The rest goes out in the poll that looked: the lease may end in between.
WriteResponse ==
  /\ conn.pc = "serving"
  /\ \E response \in conn.sending :
       /\ response.seen \notin {"new", "waiting"}
       /\ delivered' = Append(delivered, [number |-> response.number, answer |-> response.answer,
                                         seen |-> response.seen, lease |-> lease])
  /\ conn' = [conn EXCEPT !.sending = {}]
  /\ UNCHANGED <<build, lease, scope, tried>>

\* Revocation, expiry, a deadline, a client that is gone: whatever the reason,
\* the running task is aborted and the view is revoked.
EndConnection ==
  /\ conn.pc = "serving"
  /\ conn' = Ended
  /\ lease' = "revoked"
  /\ UNCHANGED <<build, scope, delivered, tried>>

-----------------------------------------------------------------------------
ScopedInit ==
  /\ build \in Builds
  /\ lease = "valid" /\ scope = {} /\ conn = NoConn /\ delivered = <<>> /\ tried = {}

ScopedNext ==
  \/ Admit \/ AdmissionFails \/ Revoke \/ Expire
  \/ InitializeScoped \/ AnswerAtOnce \/ (\E call \in ScopedCall : RequestCall(call)) \/ CancelCall
  \/ BeginCall \/ CompleteCall \/ CallFails \/ TakeAnswer
  \/ PollWrite \/ WriteStalls \/ WriteResponse \/ EndConnection

ScopedSpec == ScopedInit /\ [][ScopedNext]_scopedVars

-----------------------------------------------------------------------------
\* Types.
ScopedTypeOK ==
  /\ build \in Builds /\ lease \in {"valid", "expired", "revoked"}
  /\ Cardinality(scope) <= 1
  /\ conn.pc \in {"admitting", "serving", "ended"} /\ conn.initialized \in BOOLEAN
  /\ conn.frames \in 0 .. MaxScopedFrames /\ conn.calls \in 0 .. CallCap
  /\ Cardinality(conn.running) <= 1 /\ Cardinality(conn.sending) <= 1
  /\ tried \subseteq 1 .. MaxScopedFrames

VisibleNodes == build.inside
SeenRows == {r \in build.rows : {r.from, r.to} \subseteq VisibleNodes}

\* What one answer says is what the visible part of the build says, and nothing
\* of the rest: a page is its part of all visible rows and names the next one
\* exactly when there are more; a path is a shortest one through visible
\* entities; and no path means that there is none within the hops.
Discloses(answer) ==
  LET call == answer.about
      data == answer.data
      whole == IF call.kind = "nodes" THEN ById(VisibleNodes)
               ELSE InOrder({r \in SeenRows : call.about = {} \/ call.about \cap {r.from, r.to} # {}})
  IN  CASE call.kind \in {"nodes", "rows"} ->
             /\ data[1] = SubSeq(whole, call.cursor + 1, call.cursor + Len(data[1]))
             /\ Len(data[1]) <= call.limit
             /\ data[2] = (IF call.cursor + Len(data[1]) < Len(whole) THEN {call.cursor + Len(data[1])} ELSE {})
        [] call.kind = "lookup" -> data = IF call.id \in VisibleNodes THEN <<call.id>> ELSE <<>>
        [] call.kind = "path" ->
             IF data # <<>>
               THEN /\ \A i \in DOMAIN data : data[i] \in VisibleNodes
                    /\ IsShortest(SeenRows, data, call.from, call.to, call.hops)
               ELSE \/ ~ {call.from, call.to} \subseteq VisibleNodes
                    \/ call.to \notin Within(SeenRows, {call.from}, call.hops)

\* Nothing outside the view is ever written, not by way of a row that crosses
\* its border, a path through a hidden entity or a page; every visible row
\* rests on visible evidence only.  Attempts never exceed the budget, those that
\* are denied, cancelled or run into a deadline included, and nothing is answered
\* or denied that was no attempt.  Every response is written by a poll that saw
\* the lease valid: when it ends, at most the response of that poll still gets
\* out, and nothing after it.  And a request has one response, though it be
\* cancelled when its answer is ready (ScopedReader, call_until, serve, write).
AnswersStayInView ==
  /\ Cardinality(tried) <= CallCap
  /\ \A i \in DOMAIN delivered :
       LET response == delivered[i] IN
       /\ response.answer.body = "data" =>
            Discloses(response.answer) /\ \A r \in SeenRows : r.evidence = "inside"
       /\ response.answer.body = "data" \/ response.answer.about = "denied" => response.number \in tried
       /\ response.seen = "valid"
       /\ response.lease # "valid" => i = Len(delivered)
  /\ \A i, j \in DOMAIN delivered : delivered[i].number = delivered[j].number => i = j
  /\ \A r \in conn.running \cup conn.sending : \A i \in DOMAIN delivered :
       delivered[i].number # r.number
=============================================================================
