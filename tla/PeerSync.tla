------------------------------ MODULE PeerSync ------------------------------
(***************************************************************************)
(* Replication of one user's private scope between devices                 *)
(* (crates/chaosbox/src/sync): every device keeps a ledger of immutable    *)
(* signed events and a pointer to the last view projected from them.       *)
(*                                                                         *)
(* On a device run, concurrently: at most one worker, which holds the      *)
(* device lease and publishes or reconciles; the client side of exchanges  *)
(* it starts; the server side of exchanges its peers start.  They share    *)
(* only the device's database, where every call is one step.  A load reads *)
(* pages without a snapshot: it returns all that was there when it began   *)
(* and any part of what was added since.  So where a load is followed by   *)
(* a write of the same process, its end and the write are one step.        *)
(*                                                                         *)
(* An event's identity is the hash of what it says.  Here events are       *)
(* numbered in the order they were signed, anywhere.  A view is identified *)
(* by the set of events it was projected from.                             *)
(*                                                                         *)
(* Left out: signatures and grants (no event is ever refused for them),    *)
(* byte sizes, the merge of assessment chains inside one record, and the   *)
(* token half of the budget, which may stop a worker at any reservation.   *)
(***************************************************************************)
EXTENDS Integers, FiniteSets, Sequences

CONSTANTS
  Device,
  Session,        \* exchanges between devices, each used again and again
  Client, Server, \* [Session -> Device]: which device starts it, and with whom
  Content,        \* publications: a bundle of records and their evidence
  Mentions,       \* [Content -> SUBSET Pair]
  Pair,           \* pairs of records that share a repository and a word
  Clashes,        \* sets of contents whose records cannot be merged
  Action,         \* what an answer classifies to
  Commands,       \* [Device -> SUBSET {"publish", "reconcile"}]: what workers do
  Torn,           \* whether a load may miss events added after it began
  Epoch,          \* budget epochs
  Retry,          \* values of --retry
  Requests,       \* --max-requests
  MaxJobs,        \* --max-jobs
  PageSize,       \* events in a page (200)
  Capacity,       \* MAX_EVENTS
  Attempts,       \* attempts of publish_current (3)
  MaxSigned,      \* bound on the events ever signed
  MaxFaults       \* bound on failures injected in one behaviour

ASSUME SyncAssumption ==
  /\ Client \in [Session -> Device] /\ Server \in [Session -> Device]
  /\ Pair \subseteq Nat
  /\ Mentions \in [Content -> SUBSET Pair]
  /\ Clashes \subseteq SUBSET Content
  /\ Commands \in [Device -> SUBSET {"publish", "reconcile"}]
  /\ Retry \subseteq BOOLEAN /\ Torn \in BOOLEAN
  /\ Requests \in Nat /\ MaxJobs \in Nat \ {0} /\ PageSize \in Nat \ {0}
  /\ Capacity \in Nat /\ Attempts \in Nat \ {0} /\ MaxSigned \in Nat /\ MaxFaults \in Nat

VARIABLES
  signed,  \* every event signed so far, anywhere
  store,   \* each device's replica_events
  view,    \* each device's replica_pointer: the view it names, if there is one
  proc,    \* each process's control state and what it has in hand
  task,    \* what each device's worker was asked to do
  known,   \* what each exchange's client knows its server has
  wire,    \* each exchange's connection and the page last sent on it
  spent,   \* requests each device has sent in each epoch
  faults   \* failures injected so far

vars == <<signed, store, view, proc, task, known, wire, spent, faults>>

Worker(d) == <<"worker", d>>
ClientOf(s) == <<"client", s>>
ServerOf(s) == <<"server", s>>
Process == ({"worker"} \X Device) \cup ({"client", "server"} \X Session)

\* The device whose database a process uses.
Home(p) == CASE p[1] = "worker" -> p[2]
             [] p[1] = "client" -> Client[p[2]]
             [] p[1] = "server" -> Server[p[2]]

Events == 1 .. Len(signed)
Kind(e) == signed[e].kind

-----------------------------------------------------------------------------
(* A replica is a set of events.                                           *)

\* Replica::heads.
Heads(S) == {e \in S : \A f \in S : e \notin signed[f].parents}

\* All that an event with these parents can have known.
Past(parents) == parents \cup UNION {signed[e].past : e \in parents}

Complete(S) == \A e \in S : signed[e].parents \subseteq S

Contents(S) == {signed[e].content : e \in {f \in S : Kind(f) = "publication"}}

\* baseline() can merge the published records.
Mergeable(S) == \A k \in Clashes : ~ k \subseteq Contents(S)

\* The versions of a pair's records, decided by what was published about them.
Version(pair, S) == {c \in Contents(S) : pair \in Mentions[c]}

Receipts(S, pair, version) ==
  {e \in S : /\ Kind(e) = "resolution"
             /\ signed[e].job.pair = pair /\ signed[e].job.version = version}

\* The receipts no other one has taken into account.
ReceiptHeads(S, pair, version) ==
  LET R == Receipts(S, pair, version)
  IN {e \in R : \A f \in R : e \notin signed[f].job.prior}

PairJob(pair, S) ==
  LET version == Version(pair, S)
  IN [pair |-> pair, version |-> version, prior |-> ReceiptHeads(S, pair, version)]

\* The replay of a receipt against its own past in project().
Replays(e) ==
  LET job == signed[e].job
      past == signed[e].past
  IN /\ job.version # {} /\ job.version = Version(job.pair, past)
     /\ job.prior \subseteq {f \in past : Kind(f) = "resolution"}
     /\ job.prior # {} => job.prior = ReceiptHeads(past, job.pair, job.version)

\* Mutant: gaps in the history are not noticed.
IgnoresGaps(S) ==
  /\ Mergeable(S)
  /\ \A e \in S : Kind(e) = "resolution" => Replays(e)

\* project() succeeds.
Projects(S) ==
  /\ Complete(S)
  /\ Mergeable(S)
  /\ \A e \in S : Kind(e) = "resolution" => Replays(e)

Fits(S) == Cardinality(S) <= Capacity

\* Pairs whose maximal receipts do not agree on one action, first pairs first.
EligibleJobs(S, excluded) ==
  LET Open(pair) == /\ Version(pair, S) # {}
                    /\ LET heads == ReceiptHeads(S, pair, Version(pair, S))
                       IN Cardinality({signed[e].action : e \in heads}) # 1
      jobs == {PairJob(pair, S) : pair \in {q \in Pair : Open(q)}} \ excluded
  IN {j \in jobs : Cardinality({k \in jobs : k.pair < j.pair}) < MaxJobs}

\* Mutants: a reservation counts once it has been answered.
AnsweredJobs(S) == {signed[e].job : e \in {f \in S : Kind(f) = "resolution"}}
AnsweredReservations(S, d, epoch) ==
  {e \in S : /\ Kind(e) = "reservation"
             /\ signed[e].device = d /\ signed[e].epoch = epoch
             /\ \E f \in S : Kind(f) = "resolution" /\ e \in signed[f].parents}

Reserved(S) == {signed[e].job : e \in {f \in S : Kind(f) = "reservation"}}
DeferredAttempts(S, retry) == IF retry THEN {} ELSE Reserved(S)

\* A device's reservations in an epoch.
Reservations(S, d, epoch) ==
  {e \in S : /\ Kind(e) = "reservation"
             /\ signed[e].device = d /\ signed[e].epoch = epoch}

NextJob(queue) == CHOOSE j \in queue : \A k \in queue : j.pair <= k.pair

Pages(S, have) ==
  {E \in SUBSET (S \ have) :
     Cardinality(E) = IF Cardinality(S \ have) <= PageSize THEN Cardinality(S \ have)
                                                          ELSE PageSize}

-----------------------------------------------------------------------------
Idle == [pc |-> "idle", base |-> {}, held |-> {}, todo |-> {},
         seen |-> {}, tries |-> 0]
NoTask == [kind |-> "none"]
Closed == [state |-> "closed", inventory |-> {}, events |-> {}, done |-> FALSE]

Init ==
  /\ signed = <<>>
  /\ store = [d \in Device |-> {}]
  /\ view = [d \in Device |-> {}]
  /\ proc = [p \in Process |-> Idle]
  /\ task = [d \in Device |-> NoTask]
  /\ known = [s \in Session |-> {}]
  /\ wire = [s \in Session |-> Closed]
  /\ spent = [d \in Device |-> [k \in Epoch |-> 0]]
  /\ faults = 0

\* What load_replica may return to p, whose load began with base in the store.
Loads(p) ==
  IF Torn THEN {proc[p].base \cup extra : extra \in SUBSET (store[Home(p)] \ proc[p].base)}
          ELSE {store[Home(p)]}
Base(d) == IF Torn THEN store[d] ELSE {}

Current == [Idle EXCEPT !.pc = "current"]
Loading(pc, d) == [Idle EXCEPT !.pc = pc, !.base = Base(d)]

\* p returns an error, or dies.
Ends(p) ==
  /\ proc' = [proc EXCEPT ![p] = Idle]
  /\ IF p[1] = "worker"
       THEN task' = [task EXCEPT ![p[2]] = NoTask] /\ UNCHANGED <<known, wire>>
       ELSE /\ wire' = [wire EXCEPT ![p[2]] = Closed]
            /\ known' = IF p[1] = "client" THEN [known EXCEPT ![p[2]] = {}] ELSE known
            /\ UNCHANGED task

Fails(p) == Ends(p) /\ UNCHANGED <<signed, store, view, spent, faults>>

\* d signs an event and puts it into its own ledger.
Sign(d, event) ==
  /\ signed' = Append(signed, event)
  /\ store' = [store EXCEPT ![d] = @ \cup {Len(signed) + 1}]

-----------------------------------------------------------------------------
(* The worker: cli::publish.                                               *)

StartPublish(d, c) ==
  /\ proc[Worker(d)].pc = "idle" /\ "publish" \in Commands[d]
  /\ proc' = [proc EXCEPT ![Worker(d)] = Loading("publish", d)]
  /\ task' = [task EXCEPT ![d] = [kind |-> "publish", content |-> c]]
  /\ UNCHANGED <<signed, store, view, known, wire, spent, faults>>

\* A content already published is not published again; the view still is.
Publish(d) ==
  LET p == Worker(d)
      c == task[d].content
  IN
  /\ proc[p].pc = "publish"
  /\ \E S \in Loads(p) :
       \/ /\ Fits(S) /\ c \in Contents(S)
          /\ proc' = [proc EXCEPT ![p] = Current]
          /\ UNCHANGED <<signed, store, view, task, known, wire, spent, faults>>
       \/ /\ Cardinality(S) < Capacity /\ c \notin Contents(S)
          /\ Projects(S) /\ \A k \in Clashes : ~ k \subseteq Contents(S) \cup {c}
          /\ Len(signed) < MaxSigned
          /\ Sign(d, [kind |-> "publication", device |-> d, parents |-> Heads(S),
                      past |-> Past(Heads(S)), content |-> c])
          /\ proc' = [proc EXCEPT ![p] = Current]
          /\ UNCHANGED <<view, task, known, wire, spent, faults>>
       \/ /\ \/ ~ Fits(S)
             \/ /\ c \notin Contents(S)
                /\ \/ Cardinality(S) = Capacity
                   \/ ~ Projects(S)
                   \/ \E k \in Clashes : k \subseteq Contents(S) \cup {c}
          /\ Fails(p)

-----------------------------------------------------------------------------
(* The worker: worker::reconcile.                                          *)

StartReconcile(d, epoch, retry) ==
  /\ proc[Worker(d)].pc = "idle" /\ "reconcile" \in Commands[d]
  /\ proc' = [proc EXCEPT ![Worker(d)] = Loading("queue", d)]
  /\ task' = [task EXCEPT ![d] = [kind |-> "reconcile", epoch |-> epoch, retry |-> retry,
                                  excluded |-> {}, queue |-> {}, reservation |-> 0]]
  /\ UNCHANGED <<signed, store, view, known, wire, spent, faults>>

\* d's worker goes on with these jobs, or has finished.
Continues(d, queue) ==
  IF queue = {}
    THEN /\ proc' = [proc EXCEPT ![Worker(d)] = Idle]
         /\ task' = [task EXCEPT ![d] = NoTask]
    ELSE /\ proc' = [proc EXCEPT ![Worker(d)] = Loading("reload", d)]
         /\ task' = [task EXCEPT ![d].queue = queue, ![d].reservation = 0]

QueueJobs(d) ==
  LET p == Worker(d) IN
  /\ proc[p].pc = "queue"
  /\ \E S \in Loads(p) :
       LET excluded == DeferredAttempts(S, task[d].retry)
           queue == EligibleJobs(S, excluded)
       IN IF ~ Fits(S) \/ ~ Projects(S) THEN Fails(p)
          ELSE /\ IF queue = {}
                    THEN /\ proc' = [proc EXCEPT ![p] = Idle]
                         /\ task' = [task EXCEPT ![d] = NoTask]
                    ELSE /\ proc' = [proc EXCEPT ![p] = Loading("reload", d)]
                         /\ task' = [task EXCEPT ![d].queue = queue, ![d].excluded = excluded]
               /\ UNCHANGED <<signed, store, view, known, wire, spent, faults>>

\* Before a job, the ledger is read again: the job must still be eligible,
\* nobody may have reserved it, and the budget must allow it.  Then the attempt
\* is reserved, and the request sent.
Reserve(d) ==
  LET p == Worker(d)
      job == NextJob(task[d].queue)
      Stale(S) == \/ job \notin EligibleJobs(S, task[d].excluded)
                  \/ ~ task[d].retry /\ job \in Reserved(S)
  IN
  /\ proc[p].pc = "reload"
  /\ \E S \in Loads(p) :
       \/ /\ Fits(S) /\ Projects(S) /\ Stale(S)
          /\ Continues(d, task[d].queue \ {job})
          /\ UNCHANGED <<signed, store, view, known, wire, spent, faults>>
       \/ /\ Fits(S) /\ Projects(S) /\ ~ Stale(S)
          /\ Cardinality(Reservations(S, d, task[d].epoch)) < Requests
          /\ Len(signed) < MaxSigned
          /\ Sign(d, [kind |-> "reservation", device |-> d, parents |-> Heads(S),
                      past |-> Past(Heads(S)), job |-> job,
                      epoch |-> task[d].epoch, retry |-> task[d].retry])
          /\ task' = [task EXCEPT ![d].reservation = Len(signed) + 1]
          /\ spent' = [spent EXCEPT ![d][task[d].epoch] = @ + 1]
          /\ proc' = [proc EXCEPT ![p] = [Idle EXCEPT !.pc = "resolve", !.held = S]]
          /\ UNCHANGED <<view, known, wire, faults>>
       \* Too many events, gaps, clashes, or the budget is exhausted (its token
       \* half at any time).
       \/ /\ ~ (Fits(S) /\ Projects(S) /\ Stale(S))
          /\ Fails(p)

\* Mutant: it is signed over the frontier at the time of the answer.
FreshParents(d) == Heads(store[d]) \cup {task[d].reservation}

\* The answer is signed over the frontier it was asked from, and its reservation.
ResolutionParents(d) == Heads(proc[Worker(d)].held) \cup {task[d].reservation}

Resolve(d, action) ==
  LET p == Worker(d)
      parents == ResolutionParents(d)
  IN
  /\ proc[p].pc = "resolve"
  /\ Len(signed) < MaxSigned
  /\ Sign(d, [kind |-> "resolution", device |-> d, parents |-> parents,
              past |-> Past(parents), job |-> NextJob(task[d].queue), action |-> action])
  /\ proc' = [proc EXCEPT ![p] = Current]
  /\ UNCHANGED <<view, task, known, wire, spent, faults>>

\* No answer, or one that does not validate: the reservation stays.
RequestFails(d) ==
  /\ proc[Worker(d)].pc = "resolve"
  /\ Fails(Worker(d))

-----------------------------------------------------------------------------
(* publish_current, by any process.                                        *)

\* A task's worker goes on with the jobs that are left.
WorkerReturns(d) ==
  /\ Continues(d, IF task[d].kind = "reconcile"
                    THEN task[d].queue \ {NextJob(task[d].queue)} ELSE {})
  /\ UNCHANGED <<known, wire>>

\* The server answers the request.
ServerReturns(s) ==
  LET p == ServerOf(s) IN
  /\ proc' = [proc EXCEPT ![p] = [Idle EXCEPT !.pc = "reply", !.held = proc[p].held]]
  /\ UNCHANGED <<task, known, wire>>

\* The client ends the session, or loads its ledger for the next request.
CallerReturns(s) ==
  LET p == ClientOf(s) IN
  /\ UNCHANGED task
  /\ IF wire[s].done
       THEN /\ proc' = [proc EXCEPT ![p] = Idle]
            /\ known' = [known EXCEPT ![s] = {}]
            /\ wire' = [wire EXCEPT ![s] = Closed]
       ELSE /\ proc' = [proc EXCEPT ![p] = Loading("send", Client[s])]
            /\ known' = [known EXCEPT ![s] = wire[s].inventory]
            /\ UNCHANGED wire

\* What p does after publish_current, or after accept() without it.
Returns(p) ==
  \/ \E d \in Device : p = Worker(d) /\ WorkerReturns(d)
  \/ \E s \in Session : p = ServerOf(s) /\ ServerReturns(s)
  \/ \E s \in Session : p = ClientOf(s) /\ CallerReturns(s)

\* A process whose page is in its ledger publishes the view, unless the page
\* left gaps.
Accepted(p) ==
  proc[p].pc = "persist" /\ proc[p].todo = {} /\ Projects(proc[p].held)

ReadCurrent(p) ==
  /\ proc[p].pc = "current" \/ Accepted(p)
  /\ proc' = [proc EXCEPT ![p].pc = "project", ![p].seen = view[Home(p)],
                          ![p].base = Base(Home(p))]
  /\ UNCHANGED <<signed, store, view, task, known, wire, spent, faults>>

\* Mutant: one attempt too many.
RetriesOnceMore(p) ==
  IF proc[p].tries < Attempts
    THEN /\ proc' = [proc EXCEPT ![p].pc = "current", ![p].tries = @ + 1,
                                 ![p].seen = {}, ![p].base = {}]
         /\ UNCHANGED <<task, known, wire>>
    ELSE Ends(p)

\* The publication lost to another one: again, or give up.
Retries(p) ==
  IF proc[p].tries + 1 < Attempts
    THEN /\ proc' = [proc EXCEPT ![p].pc = "current", ![p].tries = @ + 1,
                                 ![p].seen = {}, ![p].base = {}]
         /\ UNCHANGED <<task, known, wire>>
    ELSE Ends(p)

\* Mutant: the pointer is moved whatever it names.
MovesPointer(p) ==
  /\ proc[p].pc = "project"
  /\ \E S \in Loads(p) :
       /\ Fits(S) /\ Projects(S)
       /\ view' = [view EXCEPT ![Home(p)] = {S}]
  /\ Returns(p)
  /\ UNCHANGED <<signed, store, spent, faults>>

\* replica_publish, after the ledger was loaded and projected.
PublishView(p) ==
  LET d == Home(p) IN
  /\ proc[p].pc = "project"
  /\ \E S \in Loads(p) :
       \/ /\ ~ (Fits(S) /\ Projects(S))
          /\ Fails(p)
       \/ /\ Fits(S) /\ Projects(S)
          /\ view[d] \in {{S}, proc[p].seen}
          /\ view' = [view EXCEPT ![d] = {S}]
          /\ Returns(p)
          /\ UNCHANGED <<signed, store, spent, faults>>
       \/ /\ Fits(S) /\ Projects(S)
          /\ view[d] \notin {{S}, proc[p].seen}
          /\ Retries(p)
          /\ UNCHANGED <<signed, store, view, spent, faults>>

\* The advisory lock is tried, not waited for, and another process holds it.
LockBusy(p) ==
  /\ faults < MaxFaults /\ proc[p].pc = "project"
  /\ \E q \in Process \ {p} : Home(q) = Home(p) /\ proc[q].pc = "project"
  /\ Retries(p)
  /\ faults' = faults + 1
  /\ UNCHANGED <<signed, store, view, spent>>

-----------------------------------------------------------------------------
(* transport::exchange and transport::serve.                               *)

Message(state, S, E, done) ==
  [state |-> state, inventory |-> S, events |-> E, done |-> done]

\* SSH starts the peer's process; the handshake binds both to this connection.
Connect(s) ==
  /\ proc[ClientOf(s)].pc = "idle" /\ proc[ServerOf(s)].pc = "idle"
  /\ proc' = [proc EXCEPT ![ClientOf(s)] = Loading("send", Client[s]),
                          ![ServerOf(s)] = [Idle EXCEPT !.pc = "listen"]]
  /\ wire' = [wire EXCEPT ![s].state = "open"]
  /\ UNCHANGED <<signed, store, view, task, known, spent, faults>>

SendPage(s) ==
  LET p == ClientOf(s) IN
  /\ proc[p].pc = "send"
  /\ wire[s].state # "closed"
  /\ \E S \in Loads(p) :
       IF Fits(S)
         THEN \E E \in Pages(S, known[s]) :
                /\ wire' = [wire EXCEPT ![s] = Message("request", S, E, E = {})]
                /\ proc' = [proc EXCEPT ![p] = [Idle EXCEPT !.pc = "wait", !.held = S]]
                /\ UNCHANGED <<signed, store, view, task, known, spent, faults>>
         ELSE Fails(p)

ReceiveRequest(s) ==
  /\ proc[ServerOf(s)].pc = "listen"
  /\ wire[s].state = "request"
  /\ proc' = [proc EXCEPT ![ServerOf(s)] = [Loading("load", Server[s]) EXCEPT
                                              !.todo = wire[s].events]]
  /\ UNCHANGED <<signed, store, view, task, known, wire, spent, faults>>

\* Mutant: a page that leaves gaps is refused.
RefusesGaps(next) == Fits(next) /\ Projects(next)

\* The whole page is checked against the ledger as it was loaded; a page that
\* leaves gaps is not projected.
Acceptable(next) == Fits(next) /\ (Complete(next) => Projects(next))

LoadForRequest(s) ==
  LET p == ServerOf(s) IN
  /\ proc[p].pc = "load"
  /\ \E S \in Loads(p) :
       IF Fits(S) /\ Acceptable(S \cup proc[p].todo)
         THEN /\ proc' = [proc EXCEPT ![p].pc = "persist", ![p].base = {},
                                      ![p].held = S \cup proc[p].todo]
              /\ UNCHANGED <<signed, store, view, task, known, wire, spent, faults>>
         ELSE Fails(p)

ReceiveReply(s) ==
  LET p == ClientOf(s)
      next == proc[p].held \cup wire[s].events
  IN
  /\ proc[p].pc = "wait"
  /\ wire[s].state = "reply"
  /\ IF Acceptable(next)
       THEN /\ proc' = [proc EXCEPT ![p].pc = "persist", ![p].held = next,
                                    ![p].todo = wire[s].events]
            /\ UNCHANGED <<signed, store, view, task, known, wire, spent, faults>>
       ELSE Fails(p)

PersistEvent(p) ==
  /\ proc[p].pc = "persist"
  /\ \E e \in proc[p].todo :
       /\ store' = [store EXCEPT ![Home(p)] = @ \cup {e}]
       /\ proc' = [proc EXCEPT ![p].todo = @ \ {e}]
  /\ UNCHANGED <<signed, view, task, known, wire, spent, faults>>

\* A page that left gaps is kept; nothing is published.
Staged(p) ==
  /\ proc[p].pc = "persist" /\ proc[p].todo = {}
  /\ ~ Projects(proc[p].held)
  /\ Returns(p)
  /\ UNCHANGED <<signed, store, view, spent, faults>>

\* Mutant: the server is done when it has nothing to send.
NothingToSend(E, request) == E = {}

ReplyDone(E, request) == E = {} /\ request.done

SendReply(s) ==
  LET p == ServerOf(s) IN
  /\ proc[p].pc = "reply"
  /\ wire[s].state = "request"
  /\ \E E \in Pages(proc[p].held, wire[s].inventory) :
       LET done == ReplyDone(E, wire[s]) IN
       /\ wire' = [wire EXCEPT ![s] = Message("reply", proc[p].held, E, done)]
       /\ proc' = [proc EXCEPT ![p] = IF done THEN Idle ELSE [Idle EXCEPT !.pc = "listen"]]
  /\ UNCHANGED <<signed, store, view, task, known, spent, faults>>

\* The connection is gone when a process reads or writes.
HangUp(p) ==
  /\ p[1] # "worker"
  /\ proc[p].pc \in {"send", "wait", "listen", "reply"}
  /\ wire[p[2]].state = "closed"
  /\ Fails(p)

-----------------------------------------------------------------------------
\* The connection breaks, or a deadline passes.
Cut(s) ==
  /\ faults < MaxFaults /\ wire[s].state # "closed"
  /\ faults' = faults + 1
  /\ wire' = [wire EXCEPT ![s] = Closed]
  /\ UNCHANGED <<signed, store, view, proc, task, known, spent>>

\* A process is killed, or a call to its database fails.
Interrupt(p) ==
  /\ faults < MaxFaults /\ proc[p].pc # "idle"
  /\ faults' = faults + 1
  /\ Ends(p)
  /\ UNCHANGED <<signed, store, view, spent>>

WorkerStep(d) ==
  \/ Publish(d) \/ QueueJobs(d) \/ Reserve(d) \/ RequestFails(d)
  \/ \E a \in Action : Resolve(d, a)

SessionStep(s) ==
  \/ SendPage(s) \/ ReceiveRequest(s) \/ LoadForRequest(s) \/ ReceiveReply(s) \/ SendReply(s)

SharedStep(p) ==
  ReadCurrent(p) \/ PublishView(p) \/ PersistEvent(p) \/ Staged(p) \/ HangUp(p)

Next ==
  \/ \E d \in Device, c \in Content : StartPublish(d, c)
  \/ \E d \in Device, k \in Epoch, r \in Retry : StartReconcile(d, k, r)
  \/ \E d \in Device : WorkerStep(d)
  \/ \E s \in Session : Connect(s) \/ SessionStep(s) \/ Cut(s)
  \/ \E p \in Process : SharedStep(p) \/ LockBusy(p) \/ Interrupt(p)

Spec == Init /\ [][Next]_vars
\* Processes run, the worker's cycle comes round again, and exchanges are tried
\* again and again (cli.rs, serve); nobody is obliged to publish or to ask.
Fairness ==
  /\ \A d \in Device : WF_vars(WorkerStep(d))
  /\ \A s \in Session : WF_vars(Connect(s)) /\ WF_vars(SessionStep(s))
  /\ \A p \in Process : WF_vars(SharedStep(p))

FairSpec == Spec /\ Fairness

-----------------------------------------------------------------------------
ProcessState == {"idle", "publish", "queue", "reload", "resolve", "current", "project",
                 "send", "wait", "listen", "load", "persist", "reply"}

Job == [pair : Pair, version : SUBSET Content, prior : SUBSET Nat]

Event ==
  [kind : {"publication"}, device : Device, parents : SUBSET Nat, past : SUBSET Nat,
   content : Content]
  \cup [kind : {"reservation"}, device : Device, parents : SUBSET Nat, past : SUBSET Nat,
        job : Job, epoch : Epoch, retry : BOOLEAN]
  \cup [kind : {"resolution"}, device : Device, parents : SUBSET Nat, past : SUBSET Nat,
        job : Job, action : Action]

Local == [pc : ProcessState, base : SUBSET Events, held : SUBSET Events,
          todo : SUBSET Events, seen : SUBSET SUBSET Events, tries : 0 .. (Attempts - 1)]

Task ==
  {NoTask} \cup [kind : {"publish"}, content : Content]
  \cup [kind : {"reconcile"}, epoch : Epoch, retry : BOOLEAN, excluded : SUBSET Job,
        queue : SUBSET Job, reservation : {0} \cup Events]

Page == [state : {"closed", "open", "request", "reply"}, inventory : SUBSET Events,
         events : SUBSET Events, done : BOOLEAN]

TypeOK ==
  /\ signed \in Seq(Event)
  /\ \A e \in Events : signed[e].parents \subseteq 1 .. (e - 1)
  /\ store \in [Device -> SUBSET Events]
  /\ view \in [Device -> SUBSET SUBSET Events]
  /\ proc \in [Process -> Local]
  /\ task \in [Device -> Task]
  /\ known \in [Session -> SUBSET Events]
  /\ wire \in [Session -> Page]
  /\ spent \in [Device -> [Epoch -> Nat]]
  /\ faults \in Nat

\* Every receipt replays against the events it was signed over, and has taken
\* every maximal receipt among them into account: whatever arrives while its
\* question is being answered, no ledger is made unprojectable by it, and no
\* dispute is left out of it (worker.rs 46-53: "Never sign stale inputs against
\* a new frontier"; projection.rs, project).
ReceiptsReplay ==
  \A e \in Events : Kind(e) = "resolution" =>
    /\ Replays(e)
    /\ signed[e].job.prior =
         ReceiptHeads(signed[e].past, signed[e].job.pair, signed[e].job.version)

\* What a device shows its readers is a complete history that its ledger holds,
\* though pages are persisted event by event and may leave gaps for good
\* (PEER_SYNC.md: "Missing parents remain staged and retain the last good
\* snapshot").
PublishedIsComplete ==
  \A d \in Device : \A V \in view[d] :
    V \subseteq store[d] /\ \A e \in V : signed[e].past \subseteq V

\* A worker, the client and the server of an exchange publish views of one
\* device's ledger side by side, each projected from its own load; none ever
\* takes back an event that readers have been shown (persistence.rs,
\* publish_current).
ViewsGrow ==
  [][\A d \in Device : \A V \in view[d] : \E W \in view'[d] : V \subseteq W]_vars

\* Kills, lost answers, retries and restarts included, a device never sends
\* more requests in an epoch than the budget allows (worker.rs 78-104).
SpendWithinBudget == \A d \in Device, k \in Epoch : spent[d][k] <= Requests

\* Without --retry a question is never paid for by a device that can know that
\* it, or a peer, has reserved it before (worker.rs 70-77, deferred_attempts).
AskedOnceUnlessConcurrent ==
  \A e, f \in Events :
    /\ Kind(e) = "reservation" /\ Kind(f) = "reservation"
    /\ signed[e].job = signed[f].job
    /\ ~ signed[f].retry
    => e \notin signed[f].past

\* When an exchange ends well, each side holds all the other one held when it
\* wrote its last page, whatever else was written meanwhile.
EndsEven ==
  \A s \in Session :
    wire[s].state = "reply" /\ wire[s].done =>
      LET p == ClientOf(s) IN
      /\ wire[s].inventory = proc[p].held
      /\ wire[s].inventory \subseteq store[Client[s]] \cap store[Server[s]]

\* A ledger never holds more events than can be loaded (PEER_SYNC.md:180:
\* "Exceeding a limit refuses the operation").  It does not hold: a reservation
\* and its receipt are appended unchecked.
WithinCapacity == \A d \in Device : Fits(store[d])

\* Devices that keep in contact end up with the same ledger, and show it.
Even == /\ \A d, e \in Device : store[d] = store[e]
        /\ \A d \in Device : store[d] # {} => view[d] = {store[d]}
Converges == <>[]Even
=============================================================================
