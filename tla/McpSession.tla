----------------------------- MODULE McpSession -----------------------------
(***************************************************************************)
(* The MCP server (chaosbox/src/mcp_server.rs): one client, JSON-RPC frames *)
(* over stdio.  One request is dispatched at a time; while it runs the     *)
(* server keeps reading, answers pings, queues up to MaxPending requests,  *)
(* takes cancellations and writes responses.  Timers are modelled by       *)
(* actions that may happen whenever their timer may run out.               *)
(*                                                                         *)
(* A frame that calls for a response gets a number when it is read; the    *)
(* number travels with the request and its response and is history.        *)
(***************************************************************************)
EXTENDS Naturals, FiniteSets, Sequences

CONSTANTS
  RequestId,     \* request ids the client uses, and uses again
  Method,        \* methods it calls: {"initialize", "list", "graph", "knowledge"}
  MaxPending,    \* queued requests, and also responses waiting behind others
  MaxFrames      \* bound: frames of one session

ASSUME McpAssumption == {MaxPending, MaxFrames} \subseteq Nat

VARIABLES
  phase,         \* "idle", "exchange" or "closed"
  frames,        \* frames read
  queued,        \* admitted requests, in order
  active,        \* the dispatched request, {} or a singleton
  calling,       \* its future has not completed
  ready,         \* its response, waiting behind the controls
  controls,      \* responses to everything else, in order
  writing,       \* the response being written, {} or a singleton
  finished,      \* the final response of this exchange was written
  initialized,
  graph,         \* "none", "cached" or "lent": the idle database driver
  answers        \* history: the responses written, in order

mcpVars == <<phase, frames, queued, active, calling, ready, controls, writing, finished,
             initialized, graph, answers>>
exchanged == <<active, calling, ready, finished>>

NoId == 0
McpRequest == [number : 1 .. MaxFrames, id : RequestId, method : Method]
Answer(number, id, body) == [number |-> number, id |-> id, body |-> body]
Bodies == {"result", "error", "expired", "cancelled", "duplicate", "full", "invalid", "pong"}

Numbers(s) == {s[i].number : i \in DOMAIN s}
Number == frames + 1

-----------------------------------------------------------------------------
(* serve_mcp: the next request, from the queue or from the input.           *)

Dispatch(r, running, response) ==
  /\ phase' = "exchange"
  /\ active' = {r} /\ calling' = running /\ ready' = response
  /\ finished' = FALSE

DispatchQueued ==
  /\ phase = "idle" /\ queued # <<>>
  /\ queued' = Tail(queued)
  /\ LET r == Head(queued) IN
     \/ Dispatch(r, TRUE, {})
     \/ Dispatch(r, FALSE, {Answer(r.number, r.id, "expired")})
  /\ UNCHANGED <<frames, controls, writing, initialized, graph, answers>>

\* A request that finds the server idle; a ping is dispatched like any other.
DispatchNext(id, m) ==
  /\ phase = "idle" /\ queued = <<>> /\ frames < MaxFrames
  /\ frames' = Number
  /\ Dispatch([number |-> Number, id |-> id, method |-> m], TRUE, {})
  /\ UNCHANGED <<queued, controls, writing, initialized, graph, answers>>

\* decode_frame refuses it, without an id to answer to.
RefuseNext ==
  /\ phase = "idle" /\ queued = <<>> /\ frames < MaxFrames
  /\ frames' = Number
  /\ Dispatch([number |-> Number, id |-> NoId, method |-> "invalid"], FALSE,
              {Answer(Number, NoId, "invalid")})
  /\ UNCHANGED <<queued, controls, writing, initialized, graph, answers>>

\* The idle driver is dropped after 30 seconds.
DriverExpires ==
  /\ phase = "idle" /\ graph = "cached"
  /\ graph' = "none"
  /\ UNCHANGED <<phase, frames, queued, exchanged, controls, writing, initialized, answers>>

-----------------------------------------------------------------------------
(* The dispatched request.                                                   *)

Completes(body) ==
  \E r \in active : calling' = FALSE /\ ready' = {Answer(r.number, r.id, body)}

Called(m) == phase = "exchange" /\ calling /\ \E r \in active : r.method = m

Initialize ==
  /\ Called("initialize")
  /\ initialized' = TRUE
  /\ Completes("result")
  /\ UNCHANGED <<phase, frames, queued, active, finished, controls, writing, graph, answers>>

ListTools ==
  /\ Called("list")
  /\ Completes(IF initialized THEN "result" ELSE "error")
  /\ UNCHANGED <<phase, frames, queued, active, finished, controls, writing, initialized, graph, answers>>

NotInitialized ==
  /\ Called("graph") \/ Called("knowledge")
  /\ ~ initialized
  /\ Completes("error")
  /\ UNCHANGED <<phase, frames, queued, active, finished, controls, writing, initialized, graph, answers>>

\* mcp_call_tool_connected takes the driver along, and awaits the database.
TakeDriver ==
  /\ Called("graph") /\ initialized /\ graph # "lent"
  /\ graph' = "lent"
  /\ UNCHANGED <<phase, frames, queued, exchanged, controls, writing, initialized, answers>>

\* A call that fails, a refused argument among them, leaves no driver behind.
GraphAnswers ==
  /\ Called("graph") /\ graph = "lent"
  /\ \E ok \in BOOLEAN :
       /\ Completes(IF ok THEN "result" ELSE "error")
       /\ graph' = IF ok THEN "cached" ELSE "none"
  /\ UNCHANGED <<phase, frames, queued, active, finished, controls, writing, initialized, answers>>

\* workspace_impact and the intelligence tools.
KnowledgeAnswers ==
  /\ Called("knowledge") /\ initialized
  /\ graph' = "none"
  /\ \E body \in {"result", "error"} : Completes(body)
  /\ UNCHANGED <<phase, frames, queued, active, finished, controls, writing, initialized, answers>>

-----------------------------------------------------------------------------
(* exchange: writing.                                                        *)

NextToWrite == IF controls # <<>> THEN {Head(controls)} ELSE ready

StartWriting ==
  /\ phase = "exchange" /\ writing = {} /\ NextToWrite # {}
  /\ writing' = NextToWrite
  /\ controls' = IF controls # <<>> THEN Tail(controls) ELSE controls
  /\ ready' = IF controls # <<>> THEN ready ELSE {}
  /\ UNCHANGED <<phase, frames, queued, active, calling, finished, initialized, graph, answers>>

\* The last byte is flushed.
FinishWriting ==
  /\ phase = "exchange"
  /\ \E a \in writing, r \in active :
       /\ answers' = Append(answers, a)
       /\ finished' = (finished \/ a.number = r.number)
  /\ writing' = {}
  /\ UNCHANGED <<phase, frames, queued, active, calling, ready, controls, initialized, graph>>

\* Mutant: the exchange ends with its own response, whatever waits behind it.
ReturnsAtOnce ==
  /\ phase = "exchange" /\ finished /\ writing = {}
  /\ phase' = "idle"
  /\ active' = {} /\ finished' = FALSE /\ controls' = <<>>
  /\ UNCHANGED <<frames, queued, calling, ready, writing, initialized, graph, answers>>

\* The exchange is over when its response and all controls are written.
ReturnToIdle ==
  /\ phase = "exchange" /\ finished /\ writing = {} /\ NextToWrite = {}
  /\ phase' = "idle"
  /\ active' = {} /\ finished' = FALSE
  /\ UNCHANGED <<frames, queued, calling, ready, controls, writing, initialized, graph, answers>>

-----------------------------------------------------------------------------
(* exchange: reading.                                                        *)

SessionEnds ==
  /\ phase' = "closed"
  /\ graph' = "none"
  /\ UNCHANGED <<frames, queued, exchanged, controls, writing, initialized, answers>>

\* A response joins the controls; a full queue ends the session.
Reads == phase = "exchange" /\ frames < MaxFrames
Controls(a) ==
  IF Len(controls) = MaxPending
    THEN /\ phase' = "closed" /\ graph' = "none"
         /\ UNCHANGED controls
    ELSE /\ controls' = Append(controls, a)
         /\ UNCHANGED <<phase, graph>>

ReadInvalid ==
  /\ Reads
  /\ frames' = Number
  /\ Controls(Answer(Number, NoId, "invalid"))
  /\ UNCHANGED <<queued, exchanged, writing, initialized, answers>>

\* Mutant: the response being written is not looked at.
TakenUnlessWriting(id) ==
  \/ ~ finished /\ \E r \in active : r.id = id
  \/ \E i \in DOMAIN queued : queued[i].id = id
  \/ \E i \in DOMAIN controls : controls[i].id = id

\* An id that has not been answered yet cannot be used again.
Taken(id) ==
  \/ ~ finished /\ \E r \in active : r.id = id
  \/ \E i \in DOMAIN queued : queued[i].id = id
  \/ \E a \in writing : a.id = id
  \/ \E i \in DOMAIN controls : controls[i].id = id

ReadDuplicate(id) ==
  /\ Reads /\ Taken(id)
  /\ frames' = Number
  /\ Controls(Answer(Number, NoId, "duplicate"))
  /\ UNCHANGED <<queued, exchanged, writing, initialized, answers>>

ReadPing(id) ==
  /\ Reads /\ ~ Taken(id)
  /\ frames' = Number
  /\ Controls(Answer(Number, id, "pong"))
  /\ UNCHANGED <<queued, exchanged, writing, initialized, answers>>

\* Mutant: off by one.
AdmitsOneMore == Len(queued) <= MaxPending

Admits == Len(queued) < MaxPending

\* Requests are bounded in number and in bytes; the byte bound is a choice.
ReadRequest(id, m) ==
  /\ Reads /\ ~ Taken(id)
  /\ frames' = Number
  /\ \/ /\ Admits
        /\ queued' = Append(queued, [number |-> Number, id |-> id, method |-> m])
        /\ UNCHANGED <<phase, graph, controls>>
     \/ /\ queued # <<>>
        /\ Controls(Answer(Number, id, "full"))
        /\ UNCHANGED queued
  /\ UNCHANGED <<exchanged, writing, initialized, answers>>

\* Mutant: the future is dropped and nobody is told.
CancelsSilently ==
  /\ phase = "exchange" /\ calling
  /\ calling' = FALSE
  /\ graph' = IF graph = "lent" THEN "none" ELSE graph
  /\ UNCHANGED <<phase, frames, queued, active, ready, finished, controls, writing, initialized, answers>>

\* notifications/cancelled, of the running call: its future is dropped with
\* everything it holds, the database driver too.
CancelActive ==
  /\ phase = "exchange" /\ calling
  /\ Completes("cancelled")
  /\ graph' = IF graph = "lent" THEN "none" ELSE graph
  /\ UNCHANGED <<phase, frames, queued, active, finished, controls, writing, initialized, answers>>

CancelQueued(i) ==
  /\ phase = "exchange" /\ i \in DOMAIN queued
  /\ queued' = SubSeq(queued, 1, i - 1) \o SubSeq(queued, i + 1, Len(queued))
  /\ Controls(Answer(queued[i].number, queued[i].id, "cancelled"))
  /\ UNCHANGED <<frames, exchanged, writing, initialized, answers>>

\* Ten seconds in the queue.
AdmissionExpires ==
  /\ phase = "exchange" /\ queued # <<>>
  /\ IF Len(controls) = MaxPending
       THEN phase' = "closed" /\ graph' = "none" /\ UNCHANGED <<queued, controls>>
       ELSE /\ queued' = Tail(queued)
            /\ controls' = Append(controls, Answer(Head(queued).number, Head(queued).id, "expired"))
            /\ UNCHANGED <<phase, graph>>
  /\ UNCHANGED <<frames, exchanged, writing, initialized, answers>>

\* The client closes its end, sends a frame that is too long, or does not read.
InputEnds == phase # "closed" /\ SessionEnds
OutputTimesOut == phase = "exchange" /\ writing \cup ready # {} /\ SessionEnds

-----------------------------------------------------------------------------
McpInit ==
  /\ phase = "idle" /\ frames = 0 /\ queued = <<>>
  /\ active = {} /\ calling = FALSE /\ ready = {} /\ controls = <<>> /\ writing = {}
  /\ finished = FALSE /\ initialized = FALSE /\ graph = "none" /\ answers = <<>>

Calls == Initialize \/ ListTools \/ NotInitialized \/ TakeDriver \/ GraphAnswers \/ KnowledgeAnswers
Writes == StartWriting \/ FinishWriting \/ ReturnToIdle
Client ==
  \/ RefuseNext \/ ReadInvalid
  \/ \E id \in RequestId : ReadDuplicate(id) \/ ReadPing(id)
  \/ \E id \in RequestId, m \in Method : DispatchNext(id, m) \/ ReadRequest(id, m)
  \/ CancelActive \/ (\E i \in 1 .. MaxPending : CancelQueued(i))
  \/ InputEnds
Timers == DriverExpires \/ AdmissionExpires \/ OutputTimesOut

McpNext == DispatchQueued \/ Calls \/ Writes \/ Client \/ Timers

\* The loop always takes a step it can take; a client that neither reads nor
\* goes away meets the output deadline, so writing is fair too.
McpFairness == WF_mcpVars(DispatchQueued) /\ WF_mcpVars(Calls) /\ WF_mcpVars(Writes)
McpSpec == McpInit /\ [][McpNext]_mcpVars /\ McpFairness

-----------------------------------------------------------------------------
\* Types.
McpTypeOK ==
  /\ phase \in {"idle", "exchange", "closed"} /\ frames \in 0 .. MaxFrames
  /\ Len(queued) <= MaxPending /\ Len(controls) <= MaxPending
  /\ Cardinality(active) <= 1 /\ Cardinality(writing) <= 1 /\ Cardinality(ready) <= 1
  /\ calling \in BOOLEAN /\ finished \in BOOLEAN /\ initialized \in BOOLEAN
  /\ graph \in {"none", "cached", "lent"}
  /\ \A i \in DOMAIN answers : answers[i].body \in Bodies

Unanswered(k) ==
  \/ k \in Numbers(queued) \cup Numbers(controls)
  \/ \E a \in writing \cup ready : a.number = k
  \/ calling /\ \E r \in active : r.number = k
Answered(k) == k \in Numbers(answers)

\* Responses that are still to come, as pairs of a number and an id.
Waiters ==
  {<<queued[i].number, queued[i].id>> : i \in DOMAIN queued}
    \cup {<<controls[i].number, controls[i].id>> : i \in DOMAIN controls}
    \cup {<<a.number, a.id>> : a \in writing \cup ready}
    \cup {<<r.number, r.id>> : r \in {x \in active : calling}}

\* Every frame that calls for a response has exactly one response, written or
\* still to come, whatever is cancelled, expires or is refused in between: no
\* request is dropped by the select loop and none is answered twice; two
\* requests that both wait never carry the same id; and a database driver is
\* with a call that runs, not with one that was cancelled or has failed.
AnsweredExactlyOnce ==
  /\ \A i, j \in DOMAIN answers : answers[i].number = answers[j].number => i = j
  /\ phase # "closed" =>
       /\ \A k \in 1 .. frames :
            /\ Answered(k) # Unanswered(k)
            /\ Cardinality({i \in DOMAIN queued : queued[i].number = k})
                 + Cardinality({i \in DOMAIN controls : controls[i].number = k})
                 + Cardinality({a \in writing \cup ready : a.number = k})
                 + Cardinality({r \in active : r.number = k /\ calling}) <= 1
       /\ \A x, y \in Waiters : x[2] = y[2] /\ x[2] # NoId => x = y
  /\ graph = "lent" => phase = "exchange" /\ calling

\* Every frame is answered, or the session ends (serve_mcp, exchange).
SessionsSettle == <>[](phase = "closed" \/ \A k \in 1 .. frames : Answered(k))
=============================================================================
