--------------------------- MODULE PeerSyncProofs ---------------------------
(***************************************************************************)
(* Theorems about PeerSync, for any devices, exchanges, limits and faults. *)
(*                                                                         *)
(* The types need Control: what a worker does agrees with what it was      *)
(* asked.  Views only grow since a view that is replaced was seen before   *)
(* the load that replaces it began (ShownInv).  The log is append-only and *)
(* a frontier knows all that a complete set holds (LogInv): so a published *)
(* set holds every past, a reservation knows exactly what its device had   *)
(* loaded, and an answer over that frontier replays (HandInv).  The budget *)
(* rests on a device never losing sight of its own reservations, even in a *)
(* torn load (BudgetInv).  An exchange ends even since the server's load    *)
(* holds all that the client knew of it when it asked (ExchangeInv).       *)
(***************************************************************************)
EXTENDS PeerSync, FiniteSetTheorems, WellFoundedInduction, TLAPS

-----------------------------------------------------------------------------
(* Sets *)

\* Naturals are well founded: the first job of a queue exists.
LEMMA NextJobInQueue ==
  ASSUME NEW queue \in SUBSET Job, queue # {}
  PROVE  NextJob(queue) \in queue
<1> DEFINE R == {ss \in Nat \X Nat : ss[1] < ss[2]}
           T == {j.pair : j \in queue}
<1>1. IsWellFoundedOn(R, Nat)
  BY NatLessThanWellFounded DEF OpToRel
<1>2. T \subseteq Nat /\ T # {}
  <2>1. \A j \in queue : j.pair \in Nat
    BY SyncAssumption DEF Job
  <2> QED BY <2>1
<1>3. \E x \in T : \A y \in T : ~ (<<y, x>> \in R)
  <2> HIDE DEF R, T
  <2> QED BY <1>1, <1>2, WFMin
<1>4. PICK x \in T : \A y \in T : ~ (y < x)
  <2>1. PICK x \in T : \A y \in T : ~ (<<y, x>> \in R)
    BY <1>3
  <2>2. \A y \in T : <<y, x>> \in Nat \X Nat
    BY <1>2
  <2>3. \A y \in T : y < x => <<y, x>> \in R
    BY <2>2
  <2> QED BY <2>1, <2>3
<1>5. \E j \in queue : \A k \in queue : j.pair <= k.pair
  <2>1. \A j \in queue : j.pair \in Nat /\ j.pair \in T
    BY <1>2
  <2>2. PICK j \in queue : x = j.pair
    BY <1>4
  <2>3. \A k \in queue : ~ (k.pair < j.pair)
    BY <1>4, <2>1, <2>2
  <2>4. \A k \in queue : j.pair <= k.pair
    BY <2>1, <2>3
  <2> QED BY <2>4
<1> QED BY <1>5 DEF NextJob
-----------------------------------------------------------------------------
(* Types.                                                                  *)

WorkerState == {"idle", "publish", "queue", "reload", "resolve", "current", "project"}
ClientState == {"idle", "send", "wait", "persist", "current", "project"}
ServerState == {"idle", "listen", "load", "persist", "reply", "current", "project"}

\* What a worker is doing agrees with what it was asked to do; while it works on
\* a job, there is one.
WorkerControl(d) ==
  LET pc == proc[Worker(d)].pc IN
  /\ pc \in WorkerState
  /\ pc = "publish" => task[d].kind = "publish"
  /\ pc \in {"queue", "reload", "resolve"} => task[d].kind = "reconcile"
  /\ pc \in {"current", "project"} => task[d].kind \in {"publish", "reconcile"}
  /\ pc \notin {"idle", "queue"} /\ task[d].kind = "reconcile" => task[d].queue # {}
  /\ pc = "resolve" => task[d].reservation # 0

Control ==
  /\ \A d \in Device : WorkerControl(d)
  /\ \A s \in Session : /\ proc[ClientOf(s)].pc \in ClientState
                        /\ proc[ServerOf(s)].pc \in ServerState

TypeInv == TypeOK /\ Control

LEMMA Processes ==
  /\ \A d \in Device : Worker(d) \in Process /\ Home(Worker(d)) = d
  /\ \A s \in Session : /\ ClientOf(s) \in Process /\ Home(ClientOf(s)) = Client[s]
                        /\ ServerOf(s) \in Process /\ Home(ServerOf(s)) = Server[s]
  /\ \A p \in Process : \/ \E d \in Device : p = Worker(d)
                        \/ \E s \in Session : p = ClientOf(s) \/ p = ServerOf(s)
  /\ \A p \in Process : Home(p) \in Device
<1> USE DEF Worker, ClientOf, ServerOf, Process, Home
<1>1. \A d \in Device : Worker(d) \in Process /\ Home(Worker(d)) = d
  OBVIOUS
<1>2. \A s \in Session : /\ ClientOf(s) \in Process /\ Home(ClientOf(s)) = Client[s]
                         /\ ServerOf(s) \in Process /\ Home(ServerOf(s)) = Server[s]
  OBVIOUS
<1>3. \A p \in Process : \/ \E d \in Device : p = Worker(d)
                         \/ \E s \in Session : p = ClientOf(s) \/ p = ServerOf(s)
  OBVIOUS
<1>4. \A s \in Session : Client[s] \in Device /\ Server[s] \in Device
  BY SyncAssumption
<1> HIDE DEF Worker, ClientOf, ServerOf, Process, Home
<1> QED BY <1>1, <1>2, <1>3, <1>4

LEMMA Distinct ==
  /\ \A d, e \in Device : Worker(d) = Worker(e) => d = e
  /\ \A s, r \in Session : (ClientOf(s) = ClientOf(r) \/ ServerOf(s) = ServerOf(r)) => s = r
  /\ \A d \in Device, s \in Session : Worker(d) # ClientOf(s) /\ Worker(d) # ServerOf(s)
  /\ \A s, r \in Session : ClientOf(s) # ServerOf(r)
BY DEF Worker, ClientOf, ServerOf

LEMMA Roles ==
  /\ \A d : Worker(d)[1] = "worker" /\ Worker(d)[2] = d
  /\ \A s : ClientOf(s)[1] = "client" /\ ClientOf(s)[2] = s
  /\ \A s : ServerOf(s)[1] = "server" /\ ServerOf(s)[2] = s
BY DEF Worker, ClientOf, ServerOf

LEMMA LoadsType ==
  ASSUME TypeOK, NEW p \in Process, NEW S \in Loads(p)
  PROVE  /\ S \in SUBSET Events
         /\ S \subseteq store[Home(p)] \cup proc[p].base
         /\ proc[p].base \subseteq S \/ ~ Torn
         /\ store[Home(p)] = S \/ Torn
<1>1. Home(p) \in Device /\ proc[p] \in Local
  BY Processes DEF TypeOK
<1>2. store[Home(p)] \in SUBSET Events /\ proc[p].base \in SUBSET Events
  BY <1>1 DEF TypeOK, Local
<1> QED BY <1>2 DEF Loads

\* Records with the types of a process's locals.
LEMMA LocalTypes ==
  ASSUME TypeOK
  PROVE  /\ Idle \in Local
         /\ \A d \in Device, pc \in ProcessState : Loading(pc, d) \in Local
         /\ \A pc \in ProcessState : [Idle EXCEPT !.pc = pc] \in Local
         /\ \A pc \in ProcessState, S \in SUBSET Events :
              [Idle EXCEPT !.pc = pc, !.held = S] \in Local
         /\ Current \in Local
<1>1. Idle \in Local
  BY SyncAssumption DEF Idle, Local, ProcessState
<1>2. \A d \in Device : Base(d) \in SUBSET Events
  BY DEF TypeOK, Base
<1> HIDE DEF Idle
<1>3. "current" \in ProcessState
  BY DEF ProcessState
<1> QED BY <1>1, <1>2, <1>3 DEF Local, Loading, Current

LEMMA Same ==
  ASSUME UNCHANGED signed
  PROVE  Events' = Events /\ Local' = Local /\ Task' = Task /\ Page' = Page
BY DEF Events, Local, Task, Page

\* The types of a step that signs nothing.
LEMMA Quiet ==
  ASSUME TypeOK, UNCHANGED signed,
         store' \in [Device -> SUBSET Events], view' \in [Device -> SUBSET SUBSET Events],
         proc' \in [Process -> Local], task' \in [Device -> Task],
         known' \in [Session -> SUBSET Events], wire' \in [Session -> Page],
         spent' \in [Device -> [Epoch -> Nat]], faults' \in Nat
  PROVE  TypeOK'
<1>1. Events' = Events /\ Local' = Local /\ Task' = Task /\ Page' = Page
  BY Same
<1> QED BY <1>1 DEF TypeOK

LEMMA Longer ==
  ASSUME TypeOK, NEW x, signed' = Append(signed, x)
  PROVE  /\ Len(signed) \in Nat
         /\ Events' = Events \cup {Len(signed) + 1}
         /\ Len(signed) + 1 \notin Events
         /\ \A e \in Events : signed'[e] = signed[e]
         /\ signed'[Len(signed) + 1] = x
         /\ \A e \in Events : e \in Nat /\ e <= Len(signed)
<1>1. signed \in Seq(Event)
  BY DEF TypeOK
<1>2. Len(signed) \in Nat /\ Len(signed') = Len(signed) + 1
  BY <1>1
<1>3. \A e \in Events : signed'[e] = signed[e]
  BY <1>1 DEF Events
<1>4. signed'[Len(signed) + 1] = x
  BY <1>1
<1> QED BY <1>2, <1>3, <1>4 DEF Events

LEMMA Wider ==
  ASSUME TypeOK, NEW x, signed' = Append(signed, x)
  PROVE  Local \subseteq Local' /\ Task \subseteq Task' /\ Page \subseteq Page'
<1>1. Events \subseteq Events'
  BY Longer
<1> QED BY <1>1 DEF Local, Task, Page

\* The types of a step that signs an event.
LEMMA Signing ==
  ASSUME TypeOK, NEW d \in Device, NEW x \in Event, x.parents \subseteq Events, Sign(d, x),
         proc' \in [Process -> Local'], task' \in [Device -> Task'],
         spent' \in [Device -> [Epoch -> Nat]], UNCHANGED <<view, known, wire, faults>>
  PROVE  TypeOK'
<1>1. signed' = Append(signed, x)
  BY DEF Sign
<1>2. /\ Len(signed) \in Nat
      /\ Events' = Events \cup {Len(signed) + 1}
      /\ \A e \in Events : signed'[e] = signed[e]
      /\ signed'[Len(signed) + 1] = x
  BY <1>1, Longer
<1>3. signed' \in Seq(Event)
  BY <1>1 DEF TypeOK
<1>4. \A e \in Events' : signed'[e].parents \subseteq 1 .. (e - 1)
  <2>1. \A e \in Events : signed'[e].parents \subseteq 1 .. (e - 1)
    BY <1>2 DEF TypeOK
  <2>2. x.parents \subseteq 1 .. ((Len(signed) + 1) - 1)
    BY <1>2 DEF Events
  <2> QED BY <2>1, <2>2, <1>2
<1>5. store' \in [Device -> SUBSET Events']
  BY <1>2 DEF Sign, TypeOK
<1>6. view' \in [Device -> SUBSET SUBSET Events'] /\ known' \in [Session -> SUBSET Events']
  BY <1>2 DEF TypeOK
<1>7. wire' \in [Session -> Page']
  BY <1>1, Wider DEF TypeOK
<1>8. faults' \in Nat
  BY DEF TypeOK
<1> QED BY <1>3, <1>4, <1>5, <1>6, <1>7, <1>8 DEF TypeOK

\* What the events of each kind carry.
LEMMA EventTypes ==
  ASSUME TypeOK, NEW e \in Events
  PROVE  /\ signed[e] \in Event /\ Kind(e) \in {"publication", "reservation", "resolution"}
         /\ signed[e].parents \in SUBSET Events /\ signed[e].past \in SUBSET Nat
         /\ signed[e].device \in Device
         /\ Kind(e) = "publication" => signed[e].content \in Content
         /\ Kind(e) = "reservation" => /\ signed[e].job \in Job /\ signed[e].epoch \in Epoch
                                       /\ signed[e].retry \in BOOLEAN
         /\ Kind(e) = "resolution" => signed[e].job \in Job
<1>1. signed[e] \in Event
  BY DEF TypeOK, Events
<1>2. signed[e].parents \in SUBSET Events
  <2>1. signed[e].parents \subseteq 1 .. (e - 1)
    BY DEF TypeOK
  <2>2. Len(signed) \in Nat
    BY DEF TypeOK
  <2> QED BY <2>1, <2>2 DEF Events
<1>3. CASE signed[e] \in [kind : {"publication"}, device : Device, parents : SUBSET Nat,
                          past : SUBSET Nat, content : Content]
  BY <1>1, <1>2, <1>3 DEF Kind
<1>4. CASE signed[e] \in [kind : {"reservation"}, device : Device, parents : SUBSET Nat,
                          past : SUBSET Nat, job : Job, epoch : Epoch, retry : BOOLEAN]
  BY <1>1, <1>2, <1>4 DEF Kind
<1>5. CASE signed[e] \in [kind : {"resolution"}, device : Device, parents : SUBSET Nat,
                          past : SUBSET Nat, job : Job, action : Action]
  BY <1>1, <1>2, <1>5 DEF Kind
<1> QED BY <1>1, <1>3, <1>4, <1>5 DEF Event

LEMMA SetTypes ==
  ASSUME TypeOK, NEW S \in SUBSET Events
  PROVE  /\ Heads(S) \in SUBSET S /\ Past(S) \in SUBSET Nat
         /\ Contents(S) \in SUBSET Content
         /\ \A pair \in Pair : PairJob(pair, S) \in Job
         /\ Reserved(S) \in SUBSET Job
         /\ \A excluded : EligibleJobs(S, excluded) \in SUBSET Job
<1>1. Heads(S) \in SUBSET S
  BY DEF Heads
<1>2. Past(S) \in SUBSET Nat
  <2>1. Events \subseteq Nat
    BY DEF Events
  <2> QED BY <2>1, EventTypes DEF Past
<1>3. Contents(S) \in SUBSET Content
  BY EventTypes DEF Contents
<1>4. \A pair \in Pair : PairJob(pair, S) \in Job
  <2> TAKE pair \in Pair
  <2>1. Version(pair, S) \in SUBSET Content
    BY <1>3 DEF Version
  <2>2. ReceiptHeads(S, pair, Version(pair, S)) \in SUBSET Nat
    BY DEF ReceiptHeads, Receipts, Events
  <2> QED BY <2>1, <2>2 DEF PairJob, Job
<1>5. Reserved(S) \in SUBSET Job
  BY EventTypes DEF Reserved
<1>6. ASSUME NEW excluded PROVE EligibleJobs(S, excluded) \in SUBSET Job
  <2>1. EligibleJobs(S, excluded) \subseteq {PairJob(pair, S) : pair \in Pair}
    BY DEF EligibleJobs
  <2> QED BY <2>1, <1>4
<1> QED BY <1>1, <1>2, <1>3, <1>4, <1>5, <1>6

-----------------------------------------------------------------------------
(* Types and control, one process's turn at a time.                        *)

\* What d's worker may have in hand after a turn.
WorkerMay(pc, t) ==
  /\ pc \in WorkerState
  /\ pc = "publish" => t.kind = "publish"
  /\ pc \in {"queue", "reload", "resolve"} => t.kind = "reconcile"
  /\ pc \in {"current", "project"} => t.kind \in {"publish", "reconcile"}
  /\ pc \notin {"idle", "queue"} /\ t.kind = "reconcile" => t.queue # {}
  /\ pc = "resolve" => t.reservation # 0

LEMMA WorkerTurn ==
  ASSUME TypeInv, NEW d \in Device, NEW x \in Local', NEW t \in Task',
         Local \subseteq Local', Task \subseteq Task',
         proc' = [proc EXCEPT ![Worker(d)] = x], task' = [task EXCEPT ![d] = t],
         WorkerMay(x.pc, t)
  PROVE  proc' \in [Process -> Local'] /\ task' \in [Device -> Task'] /\ Control'
<1>1. proc \in [Process -> Local] /\ task \in [Device -> Task] /\ Control
  BY DEF TypeInv, TypeOK
<1>2. Worker(d) \in Process
  BY Processes
<1>3. proc' \in [Process -> Local'] /\ task' \in [Device -> Task']
  BY <1>1, <1>2
<1>4. \A e \in Device : WorkerControl(e)'
  <2> TAKE e \in Device
  <2>1. CASE e = d
    BY <2>1, <1>1, <1>2 DEF WorkerMay, WorkerControl
  <2>2. CASE e # d
    BY <2>2, <1>1, Processes, Distinct DEF WorkerControl, Control
  <2> QED BY <2>1, <2>2
<1>5. \A s \in Session : /\ proc'[ClientOf(s)] = proc[ClientOf(s)]
                         /\ proc'[ServerOf(s)] = proc[ServerOf(s)]
  BY <1>1, <1>2, Processes, Distinct
<1> QED BY <1>1, <1>3, <1>4, <1>5 DEF Control

LEMMA SessionTurn ==
  ASSUME TypeInv, NEW s \in Session, NEW p \in {ClientOf(s), ServerOf(s)}, NEW x \in Local,
         proc' = [proc EXCEPT ![p] = x], UNCHANGED task,
         x.pc \in (IF p = ClientOf(s) THEN ClientState ELSE ServerState)
  PROVE  proc' \in [Process -> Local] /\ Control'
<1>1. proc \in [Process -> Local] /\ Control
  BY DEF TypeInv, TypeOK
<1>2. p \in Process
  BY Processes
<1>3. proc' \in [Process -> Local]
  BY <1>1, <1>2
<1>4. \A d \in Device : WorkerControl(d)'
  BY <1>1, Processes, Distinct DEF WorkerControl, Control
<1>5. \A r \in Session : /\ proc'[ClientOf(r)].pc \in ClientState
                         /\ proc'[ServerOf(r)].pc \in ServerState
  BY <1>1, <1>2, Processes, Distinct DEF Control
<1> QED BY <1>3, <1>4, <1>5 DEF Control

\* The types of the pages and of what is known of a peer.
LEMMA WireTypes ==
  ASSUME TypeOK
  PROVE  /\ Closed \in Page
         /\ \A s \in Session : wire[s] \in Page /\ wire[s].inventory \in SUBSET Events
                                                /\ wire[s].events \in SUBSET Events
         /\ \A s \in Session, w \in Page : [wire EXCEPT ![s] = w] \in [Session -> Page]
         /\ \A s \in Session, S \in SUBSET Events :
              [known EXCEPT ![s] = S] \in [Session -> SUBSET Events]
BY DEF TypeOK, Page, Closed

LEMMA EndsTypes ==
  ASSUME TypeInv, NEW p \in Process, Ends(p), UNCHANGED signed
  PROVE  /\ proc' \in [Process -> Local] /\ task' \in [Device -> Task]
         /\ known' \in [Session -> SUBSET Events] /\ wire' \in [Session -> Page]
         /\ Control'
<1>0. TypeOK
  BY DEF TypeInv
<1>1. Idle \in Local /\ Idle.pc = "idle" /\ Local' = Local /\ Task' = Task
  BY <1>0, LocalTypes, Same DEF Idle
<1>2. NoTask \in Task
  BY DEF Task
<1>3. CASE \E d \in Device : p = Worker(d)
  <2> PICK d \in Device : p = Worker(d)
    BY <1>3
  <2>1. /\ proc' = [proc EXCEPT ![Worker(d)] = Idle] /\ task' = [task EXCEPT ![d] = NoTask]
        /\ UNCHANGED <<known, wire>>
    BY Roles DEF Ends
  <2>2. WorkerMay(Idle.pc, NoTask)
    BY <1>1 DEF WorkerMay, NoTask, WorkerState
  <2>3. proc' \in [Process -> Local'] /\ task' \in [Device -> Task'] /\ Control'
    BY <1>1, <1>2, <2>1, <2>2, WorkerTurn
  <2> QED BY <1>0, <1>1, <2>1, <2>3 DEF TypeOK
<1>4. CASE \E s \in Session : p = ClientOf(s) \/ p = ServerOf(s)
  <2> PICK s \in Session : p = ClientOf(s) \/ p = ServerOf(s)
    BY <1>4
  <2>1. /\ proc' = [proc EXCEPT ![p] = Idle] /\ UNCHANGED task
        /\ wire' = [wire EXCEPT ![s] = Closed]
        /\ known' = [known EXCEPT ![s] = {}] \/ known' = known
    BY Roles DEF Ends
  <2>2. "idle" \in ClientState /\ "idle" \in ServerState
    BY DEF ClientState, ServerState
  <2>3. proc' \in [Process -> Local] /\ Control'
    BY <1>1, <2>1, <2>2, SessionTurn
  <2> QED BY <1>0, <2>1, <2>3, WireTypes DEF TypeOK
<1> QED BY <1>3, <1>4, Processes

LEMMA FailsTypes ==
  ASSUME TypeInv, NEW p \in Process, Fails(p)
  PROVE  TypeInv'
<1>1. Ends(p) /\ UNCHANGED <<signed, store, view, spent, faults>>
  BY DEF Fails
<1> QED BY <1>1, EndsTypes, Quiet DEF TypeInv, TypeOK

ReconcileTask ==
  [kind : {"reconcile"}, epoch : Epoch, retry : BOOLEAN, excluded : SUBSET Job,
   queue : SUBSET Job, reservation : {0} \cup Events]

LEMMA TaskTypes ==
  /\ \A t \in Task : t.kind = "reconcile" => t \in ReconcileTask
  /\ \A t \in Task : t.kind = "publish" => t.content \in Content
  /\ \A t \in ReconcileTask : t \in Task /\ t.kind = "reconcile"
  /\ NoTask \in Task
BY DEF Task, NoTask, ReconcileTask

\* d's worker goes on with a queue, or has finished.
LEMMA ContinuesTypes ==
  ASSUME TypeInv, UNCHANGED signed, NEW d \in Device, NEW queue \in SUBSET Job,
         Continues(d, queue), queue # {} => task[d].kind = "reconcile"
  PROVE  proc' \in [Process -> Local] /\ task' \in [Device -> Task] /\ Control'
<1>0. TypeOK
  BY DEF TypeInv
<1>1. Local' = Local /\ Task' = Task /\ task[d] \in Task
  BY <1>0, Same DEF TypeOK
<1>2. CASE queue = {}
  <2>1. Idle \in Local /\ NoTask \in Task /\ WorkerMay(Idle.pc, NoTask)
    BY <1>0, LocalTypes DEF Task, WorkerMay, NoTask, Idle, WorkerState
  <2> QED BY <1>1, <1>2, <2>1, WorkerTurn DEF Continues
<1>3. CASE queue # {}
  <2> DEFINE t == [task[d] EXCEPT !.queue = queue, !.reservation = 0]
  <2>1. t \in Task /\ t.kind = "reconcile" /\ t.queue = queue
    <3>1. task[d].kind = "reconcile"
      BY <1>3
    <3>2. task[d] \in ReconcileTask
      BY <1>1, <3>1, TaskTypes
    <3>3. t \in ReconcileTask /\ t.queue = queue
      BY <3>2 DEF ReconcileTask
    <3> QED BY <3>3, TaskTypes
  <2>2. Loading("reload", d) \in Local /\ Loading("reload", d).pc = "reload"
    <3>1. "reload" \in ProcessState
      BY DEF ProcessState
    <3> QED BY <1>0, <3>1, LocalTypes DEF Loading, Idle
  <2>3. WorkerMay(Loading("reload", d).pc, t)
    <3> HIDE DEF t
    <3> QED BY <2>1, <2>2, <1>3 DEF WorkerMay, WorkerState
  <2>4. /\ proc' = [proc EXCEPT ![Worker(d)] = Loading("reload", d)]
        /\ task' = [task EXCEPT ![d] = t]
    BY <1>3 DEF Continues
  <2> HIDE DEF t
  <2> QED BY <1>1, <2>1, <2>2, <2>3, <2>4, WorkerTurn
<1> QED BY <1>2, <1>3

\* Returns(p), by the role p is in: the other two disjuncts are about other
\* processes.
LEMMA ReturnsRoles ==
  /\ \A d \in Device : Returns(Worker(d)) => WorkerReturns(d)
  /\ \A s \in Session : Returns(ServerOf(s)) => ServerReturns(s)
  /\ \A s \in Session : Returns(ClientOf(s)) => CallerReturns(s)
<1>1. ASSUME NEW d \in Device, Returns(Worker(d))
      PROVE  WorkerReturns(d)
  <2>1. PICK e \in Device : Worker(d) = Worker(e) /\ WorkerReturns(e)
    BY <1>1, Distinct, Zenon DEF Returns
  <2> QED BY <2>1, Distinct, Zenon
<1>2. ASSUME NEW s \in Session, Returns(ServerOf(s))
      PROVE  ServerReturns(s)
  <2>1. PICK r \in Session : ServerOf(s) = ServerOf(r) /\ ServerReturns(r)
    BY <1>2, Distinct, Zenon DEF Returns
  <2> QED BY <2>1, Distinct, Zenon
<1>3. ASSUME NEW s \in Session, Returns(ClientOf(s))
      PROVE  CallerReturns(s)
  <2>1. PICK r \in Session : ClientOf(s) = ClientOf(r) /\ CallerReturns(r)
    BY <1>3, Distinct, Zenon DEF Returns
  <2> QED BY <2>1, Distinct, Zenon
<1> QED BY <1>1, <1>2, <1>3, Zenon

LEMMA ClientReturns ==
  ASSUME NEW s \in Session, Returns(ClientOf(s))
  PROVE  /\ UNCHANGED task
         /\ IF wire[s].done
              THEN /\ proc' = [proc EXCEPT ![ClientOf(s)] = Idle]
                   /\ known' = [known EXCEPT ![s] = {}]
                   /\ wire' = [wire EXCEPT ![s] = Closed]
              ELSE /\ proc' = [proc EXCEPT ![ClientOf(s)] = Loading("send", Client[s])]
                   /\ known' = [known EXCEPT ![s] = wire[s].inventory]
                   /\ UNCHANGED wire
BY ReturnsRoles DEF CallerReturns

LEMMA ReturnsTypes ==
  ASSUME TypeInv, NEW p \in Process, Returns(p), UNCHANGED signed,
         proc[p].pc \in {"current", "project", "persist"}
  PROVE  /\ proc' \in [Process -> Local] /\ task' \in [Device -> Task]
         /\ known' \in [Session -> SUBSET Events] /\ wire' \in [Session -> Page]
         /\ Control'
<1>0. TypeOK /\ Control
  BY DEF TypeInv
<1>1. proc[p] \in Local /\ proc[p].held \in SUBSET Events
  BY <1>0 DEF TypeOK, Local
<1>2. CASE \E d \in Device : p = Worker(d)
  <2> PICK d \in Device : p = Worker(d)
    BY <1>2
  <2> DEFINE rest == IF task[d].kind = "reconcile"
                       THEN task[d].queue \ {NextJob(task[d].queue)} ELSE {}
  <2>1. Continues(d, rest) /\ UNCHANGED <<known, wire>>
    BY ReturnsRoles DEF WorkerReturns
  <2>2. rest \in SUBSET Job /\ (rest # {} => task[d].kind = "reconcile")
    <3>1. task[d] \in Task
      BY <1>0 DEF TypeOK
    <3>2. task[d].kind = "reconcile" => task[d].queue \in SUBSET Job
      BY <3>1, TaskTypes DEF ReconcileTask
    <3> QED BY <3>2
  <2> HIDE DEF rest
  <2>3. proc' \in [Process -> Local] /\ task' \in [Device -> Task] /\ Control'
    BY <2>1, <2>2, ContinuesTypes
  <2> QED BY <1>0, <2>1, <2>3 DEF TypeOK
<1>3. CASE \E s \in Session : p = ServerOf(s)
  <2> PICK s \in Session : p = ServerOf(s)
    BY <1>3
  <2> DEFINE x == [Idle EXCEPT !.pc = "reply", !.held = proc[p].held]
  <2>1. proc' = [proc EXCEPT ![p] = x] /\ UNCHANGED <<task, known, wire>>
    BY ReturnsRoles DEF ServerReturns
  <2>2. "reply" \in ProcessState /\ "reply" \in ServerState
    BY DEF ProcessState, ServerState
  <2>3. x \in Local
    BY <1>0, <1>1, <2>2, LocalTypes
  <2>4. x.pc = "reply"
    BY DEF Idle
  <2> HIDE DEF x
  <2>5. proc' \in [Process -> Local] /\ Control'
    BY <2>1, <2>2, <2>3, <2>4, SessionTurn, Distinct
  <2> QED BY <1>0, <2>1, <2>5 DEF TypeOK
<1>4. CASE \E s \in Session : p = ClientOf(s)
  <2> PICK s \in Session : p = ClientOf(s)
    BY <1>4
  <2>1. UNCHANGED task
    BY ClientReturns
  <2>2. PICK x \in Local : proc' = [proc EXCEPT ![p] = x] /\ x.pc \in ClientState
    <3>1. {"send", "idle"} \subseteq ProcessState \cap ClientState
      BY DEF ProcessState, ClientState
    <3>2. Client[s] \in Device
      BY SyncAssumption
    <3>3. CASE wire[s].done
      <4>1. proc' = [proc EXCEPT ![p] = Idle]
        BY <3>3, ClientReturns
      <4>2. Idle \in Local /\ Idle.pc = "idle"
        BY <1>0, LocalTypes DEF Idle
      <4> QED BY <3>1, <4>1, <4>2
    <3>4. CASE ~ wire[s].done
      <4>1. proc' = [proc EXCEPT ![p] = Loading("send", Client[s])]
        BY <3>4, ClientReturns
      <4>2. Loading("send", Client[s]) \in Local /\ Loading("send", Client[s]).pc = "send"
        BY <1>0, <3>1, <3>2, LocalTypes DEF Loading, Idle
      <4> QED BY <3>1, <4>1, <4>2
    <3> QED BY <3>3, <3>4
  <2>3. proc' \in [Process -> Local] /\ Control'
    BY <2>1, <2>2, SessionTurn
  <2>4. known' \in [Session -> SUBSET Events] /\ wire' \in [Session -> Page]
    <3>1. CASE wire[s].done
      <4>1. known' = [known EXCEPT ![s] = {}]
        BY <3>1, ClientReturns
      <4>2. wire' = [wire EXCEPT ![s] = Closed]
        BY <3>1, ClientReturns
      <4> QED BY <1>0, <4>1, <4>2, WireTypes
    <3>2. CASE ~ wire[s].done
      <4>1. known' = [known EXCEPT ![s] = wire[s].inventory] /\ wire' = wire
        BY <3>2, ClientReturns
      <4> QED BY <1>0, <4>1, WireTypes DEF TypeOK
    <3> QED BY <3>1, <3>2
  <2> QED BY <1>0, <2>1, <2>3, <2>4 DEF TypeOK
<1> QED BY <1>2, <1>3, <1>4, Processes

LEMMA RetriesTypes ==
  ASSUME TypeInv, NEW p \in Process, Retries(p), UNCHANGED signed, proc[p].pc = "project"
  PROVE  /\ proc' \in [Process -> Local] /\ task' \in [Device -> Task]
         /\ known' \in [Session -> SUBSET Events] /\ wire' \in [Session -> Page]
         /\ Control'
<1>0. TypeOK /\ Control
  BY DEF TypeInv
<1>1. CASE proc[p].tries + 1 < Attempts
  <2> DEFINE x == [proc[p] EXCEPT !.pc = "current", !.tries = @ + 1, !.seen = {}, !.base = {}]
  <2>1. proc \in [Process -> Local] /\ proc[p] \in Local
    BY <1>0 DEF TypeOK
  <2>2. proc' = [proc EXCEPT ![p] = x] /\ UNCHANGED <<task, known, wire>>
    BY <1>1, <2>1 DEF Retries
  <2>3. x \in Local /\ x.pc = "current"
    <3>1. proc[p].tries \in Nat /\ proc[p].tries + 1 \in 0 .. (Attempts - 1)
      BY <1>1, <2>1, SyncAssumption DEF Local
    <3>2. "current" \in ProcessState
      BY DEF ProcessState
    <3> QED BY <2>1, <3>1, <3>2 DEF Local
  <2> HIDE DEF x
  <2>4. proc' \in [Process -> Local] /\ Control'
    <3>1. CASE \E d \in Device : p = Worker(d)
      <4> PICK d \in Device : p = Worker(d)
        BY <3>1
      <4>1. task' = [task EXCEPT ![d] = task[d]] /\ task[d] \in Task
        BY <1>0, <2>2 DEF TypeOK
      <4>2. WorkerControl(d)
        BY <1>0 DEF Control
      <4>3. WorkerMay(x.pc, task[d])
        BY <2>3, <4>2 DEF WorkerMay, WorkerControl, WorkerState
      <4>4. Local' = Local /\ Task' = Task
        BY Same
      <4> QED BY <2>2, <2>3, <4>1, <4>3, <4>4, WorkerTurn
    <3>2. CASE \E s \in Session : p = ClientOf(s) \/ p = ServerOf(s)
      BY <2>2, <2>3, <3>2, SessionTurn DEF ClientState, ServerState
    <3> QED BY <3>1, <3>2, Processes
  <2> QED BY <1>0, <2>2, <2>4 DEF TypeOK
<1>2. CASE ~ (proc[p].tries + 1 < Attempts)
  <2>1. Ends(p)
    BY <1>2 DEF Retries
  <2> QED BY <2>1, EndsTypes
<1> QED BY <1>1, <1>2

LEMMA WorkerQuiet ==
  ASSUME TypeInv, NEW d \in Device, NEW x \in Local, NEW t \in Task,
         proc' = [proc EXCEPT ![Worker(d)] = x], task' = [task EXCEPT ![d] = t],
         WorkerMay(x.pc, t), UNCHANGED <<signed, store, view, known, wire, spent, faults>>
  PROVE  TypeInv'
<1>1. Local' = Local /\ Task' = Task
  BY Same
<1>2. proc' \in [Process -> Local'] /\ task' \in [Device -> Task'] /\ Control'
  BY <1>1, WorkerTurn
<1> QED BY <1>1, <1>2, Quiet DEF TypeInv, TypeOK

LEMMA WorkerSigns ==
  ASSUME TypeInv, NEW d \in Device, NEW event \in Event, event.parents \subseteq Events,
         Sign(d, event), NEW x \in Local', NEW t \in Task',
         proc' = [proc EXCEPT ![Worker(d)] = x], task' = [task EXCEPT ![d] = t],
         WorkerMay(x.pc, t), spent' \in [Device -> [Epoch -> Nat]],
         UNCHANGED <<view, known, wire, faults>>
  PROVE  TypeInv'
<1>1. Local \subseteq Local' /\ Task \subseteq Task'
  BY Wider DEF TypeInv, Sign
<1>2. proc' \in [Process -> Local'] /\ task' \in [Device -> Task'] /\ Control'
  BY <1>1, WorkerTurn
<1> QED BY <1>2, Signing DEF TypeInv

LEMMA SessionQuiet ==
  ASSUME TypeInv, NEW s \in Session, NEW p \in {ClientOf(s), ServerOf(s)}, NEW x \in Local,
         proc' = [proc EXCEPT ![p] = x],
         x.pc \in (IF p = ClientOf(s) THEN ClientState ELSE ServerState),
         wire' = wire \/ \E w \in Page : wire' = [wire EXCEPT ![s] = w],
         UNCHANGED <<signed, store, view, task, known, spent, faults>>
  PROVE  TypeInv'
<1>1. proc' \in [Process -> Local] /\ Control'
  BY SessionTurn
<1>2. wire' \in [Session -> Page]
  BY WireTypes DEF TypeInv, TypeOK
<1> QED BY <1>1, <1>2, Quiet DEF TypeInv, TypeOK

LEMMA StartPublishTypes ==
  ASSUME TypeInv, NEW d \in Device, NEW c \in Content, StartPublish(d, c)
  PROVE  TypeInv'
<1> DEFINE t == [kind |-> "publish", content |-> c]
<1>1. t \in Task /\ t.kind = "publish"
  BY DEF Task
<1>2. Loading("publish", d) \in Local /\ Loading("publish", d).pc = "publish"
  <2>1. "publish" \in ProcessState
    BY DEF ProcessState
  <2> QED BY <2>1, LocalTypes DEF TypeInv, Loading, Idle
<1>3. WorkerMay(Loading("publish", d).pc, t)
  BY <1>1, <1>2 DEF WorkerMay, WorkerState
<1> QED BY <1>1, <1>2, <1>3, WorkerQuiet DEF StartPublish

LEMMA StartReconcileTypes ==
  ASSUME TypeInv, NEW d \in Device, NEW k \in Epoch, NEW r \in Retry, StartReconcile(d, k, r)
  PROVE  TypeInv'
<1> DEFINE t == [kind |-> "reconcile", epoch |-> k, retry |-> r,
                 excluded |-> {}, queue |-> {}, reservation |-> 0]
<1>1. t \in Task /\ t.kind = "reconcile"
  BY SyncAssumption, TaskTypes DEF ReconcileTask
<1>2. Loading("queue", d) \in Local /\ Loading("queue", d).pc = "queue"
  <2>1. "queue" \in ProcessState
    BY DEF ProcessState
  <2> QED BY <2>1, LocalTypes DEF TypeInv, Loading, Idle
<1>3. WorkerMay(Loading("queue", d).pc, t)
  BY <1>1, <1>2 DEF WorkerMay, WorkerState
<1> QED BY <1>1, <1>2, <1>3, WorkerQuiet DEF StartReconcile

LEMMA CurrentTypes ==
  ASSUME TypeInv
  PROVE  Current \in Local /\ Current.pc = "current"
BY LocalTypes DEF TypeInv, Current, Idle

LEMMA PublishTypes ==
  ASSUME TypeInv, NEW d \in Device, Publish(d)
  PROVE  TypeInv'
<1> DEFINE c == task[d].content
<1>0. TypeOK /\ task[d] \in Task /\ task[d].kind = "publish" /\ c \in Content
  BY Processes, TaskTypes DEF TypeInv, TypeOK, Control, WorkerControl, Publish
<1>1. PICK S \in Loads(Worker(d)) :
       \/ /\ proc' = [proc EXCEPT ![Worker(d)] = Current]
          /\ UNCHANGED <<signed, store, view, task, known, wire, spent, faults>>
       \/ /\ Sign(d, [kind |-> "publication", device |-> d, parents |-> Heads(S),
                      past |-> Past(Heads(S)), content |-> c])
          /\ proc' = [proc EXCEPT ![Worker(d)] = Current]
          /\ UNCHANGED <<view, task, known, wire, spent, faults>>
       \/ Fails(Worker(d))
  BY DEF Publish
<1>2. S \in SUBSET Events /\ Heads(S) \in SUBSET Events /\ Heads(S) \in SUBSET Nat
      /\ Past(Heads(S)) \in SUBSET Nat
  BY <1>0, LoadsType, Processes, SetTypes DEF Events
<1>3. Current \in Local /\ WorkerMay(Current.pc, task[d])
  BY <1>0, CurrentTypes DEF WorkerMay, WorkerState
<1>4. UNCHANGED task => task' = [task EXCEPT ![d] = task[d]]
  BY <1>0 DEF TypeOK
<1>5. CASE /\ proc' = [proc EXCEPT ![Worker(d)] = Current]
           /\ UNCHANGED <<signed, store, view, task, known, wire, spent, faults>>
  BY <1>0, <1>3, <1>4, <1>5, WorkerQuiet
<1>6. CASE /\ Sign(d, [kind |-> "publication", device |-> d, parents |-> Heads(S),
                       past |-> Past(Heads(S)), content |-> c])
           /\ proc' = [proc EXCEPT ![Worker(d)] = Current]
           /\ UNCHANGED <<view, task, known, wire, spent, faults>>
  <2> DEFINE event == [kind |-> "publication", device |-> d, parents |-> Heads(S),
                       past |-> Past(Heads(S)), content |-> c]
  <2>1. event \in Event /\ event.parents \subseteq Events
    BY <1>0, <1>2 DEF Event
  <2>2. Local \subseteq Local' /\ Task \subseteq Task'
    BY <1>0, <1>6, Wider DEF Sign
  <2>3. spent' \in [Device -> [Epoch -> Nat]]
    BY <1>0, <1>6 DEF TypeOK
  <2>4. Sign(d, event)
    BY <1>6
  <2> HIDE DEF event, c
  <2> QED BY <1>0, <1>3, <1>4, <1>6, <2>1, <2>2, <2>3, <2>4, WorkerSigns
<1>7. CASE Fails(Worker(d))
  BY <1>7, FailsTypes, Processes
<1> QED BY <1>1, <1>5, <1>6, <1>7

LEMMA QueueJobsTypes ==
  ASSUME TypeInv, NEW d \in Device, QueueJobs(d)
  PROVE  TypeInv'
<1>0. TypeOK /\ task[d] \in ReconcileTask /\ Worker(d) \in Process
  BY Processes, TaskTypes DEF TypeInv, TypeOK, Control, WorkerControl, QueueJobs
<1>1. PICK S \in Loads(Worker(d)) :
        LET excluded == DeferredAttempts(S, task[d].retry)
            queue == EligibleJobs(S, excluded)
        IN IF ~ Fits(S) \/ ~ Projects(S) THEN Fails(Worker(d))
           ELSE /\ IF queue = {}
                     THEN /\ proc' = [proc EXCEPT ![Worker(d)] = Idle]
                          /\ task' = [task EXCEPT ![d] = NoTask]
                     ELSE /\ proc' = [proc EXCEPT ![Worker(d)] = Loading("reload", d)]
                          /\ task' = [task EXCEPT ![d].queue = queue, ![d].excluded = excluded]
                /\ UNCHANGED <<signed, store, view, known, wire, spent, faults>>
  BY DEF QueueJobs
<1> DEFINE excluded == DeferredAttempts(S, task[d].retry)
           queue == EligibleJobs(S, excluded)
<1>2. S \in SUBSET Events
  BY <1>0, LoadsType
<1>3. excluded \in SUBSET Job /\ queue \in SUBSET Job
  BY <1>0, <1>2, SetTypes DEF DeferredAttempts
<1>4. CASE Fails(Worker(d))
  BY <1>0, <1>4, FailsTypes
<1>5. CASE /\ proc' = [proc EXCEPT ![Worker(d)] = Idle]
           /\ task' = [task EXCEPT ![d] = NoTask]
           /\ UNCHANGED <<signed, store, view, known, wire, spent, faults>>
  <2>1. Idle \in Local /\ NoTask \in Task /\ WorkerMay(Idle.pc, NoTask)
    BY <1>0, LocalTypes, TaskTypes DEF WorkerMay, NoTask, Idle, WorkerState
  <2> QED BY <1>5, <2>1, WorkerQuiet
<1>6. CASE /\ queue # {}
           /\ proc' = [proc EXCEPT ![Worker(d)] = Loading("reload", d)]
           /\ task' = [task EXCEPT ![d].queue = queue, ![d].excluded = excluded]
           /\ UNCHANGED <<signed, store, view, known, wire, spent, faults>>
  <2> DEFINE t == [task[d] EXCEPT !.queue = queue, !.excluded = excluded]
  <2> HIDE DEF excluded, queue
  <2>1. t \in ReconcileTask /\ t.queue = queue
    BY <1>0, <1>3 DEF ReconcileTask
  <2>2. Loading("reload", d) \in Local /\ Loading("reload", d).pc = "reload"
    <3>1. "reload" \in ProcessState
      BY DEF ProcessState
    <3> QED BY <1>0, <3>1, LocalTypes DEF Loading, Idle
  <2>3. task' = [task EXCEPT ![d] = t]
    BY <1>6
  <2> HIDE DEF t
  <2>4. WorkerMay(Loading("reload", d).pc, t) /\ t \in Task
    BY <1>6, <2>1, <2>2, TaskTypes DEF WorkerMay, WorkerState
  <2> QED BY <1>6, <2>2, <2>3, <2>4, WorkerQuiet
<1> HIDE DEF excluded, queue
<1> QED BY <1>1, <1>4, <1>5, <1>6 DEF excluded, queue

LEMMA ReserveTypes ==
  ASSUME TypeInv, NEW d \in Device, Reserve(d)
  PROVE  TypeInv'
<1> DEFINE p == Worker(d)
           job == NextJob(task[d].queue)
           Event1(S) == [kind |-> "reservation", device |-> d, parents |-> Heads(S),
                         past |-> Past(Heads(S)), job |-> job,
                         epoch |-> task[d].epoch, retry |-> task[d].retry]
<1>0. /\ TypeOK /\ task[d] \in ReconcileTask /\ p \in Process
      /\ task[d].queue # {} /\ task[d].queue \in SUBSET Job
  <2>1. task[d].kind = "reconcile" /\ task[d].queue # {} /\ task[d] \in Task
    BY Processes DEF TypeInv, TypeOK, Control, WorkerControl, Reserve
  <2>2. task[d] \in ReconcileTask
    BY <2>1, TaskTypes
  <2> QED BY <2>1, <2>2, Processes DEF TypeInv, ReconcileTask
<1>1. job \in task[d].queue
  BY <1>0, NextJobInQueue
<1>2. PICK S \in Loads(p) :
       \/ /\ Continues(d, task[d].queue \ {job})
          /\ UNCHANGED <<signed, store, view, known, wire, spent, faults>>
       \/ /\ Sign(d, Event1(S))
          /\ task' = [task EXCEPT ![d].reservation = Len(signed) + 1]
          /\ spent' = [spent EXCEPT ![d][task[d].epoch] = @ + 1]
          /\ proc' = [proc EXCEPT ![p] = [Idle EXCEPT !.pc = "resolve", !.held = S]]
          /\ UNCHANGED <<view, known, wire, faults>>
       \/ Fails(p)
  BY DEF Reserve
<1>3. CASE /\ Continues(d, task[d].queue \ {job})
           /\ UNCHANGED <<signed, store, view, known, wire, spent, faults>>
  <2>1. task[d].queue \ {job} \in SUBSET Job /\ task[d].kind = "reconcile"
    BY <1>0, TaskTypes
  <2>2. proc' \in [Process -> Local] /\ task' \in [Device -> Task] /\ Control'
    BY <1>3, <2>1, ContinuesTypes
  <2> QED BY <1>0, <1>3, <2>2, Quiet DEF TypeInv, TypeOK
<1>4. CASE Fails(p)
  BY <1>0, <1>4, FailsTypes
<1>5. CASE /\ Sign(d, Event1(S))
           /\ task' = [task EXCEPT ![d].reservation = Len(signed) + 1]
           /\ spent' = [spent EXCEPT ![d][task[d].epoch] = @ + 1]
           /\ proc' = [proc EXCEPT ![p] = [Idle EXCEPT !.pc = "resolve", !.held = S]]
           /\ UNCHANGED <<view, known, wire, faults>>
  <2> DEFINE x == [Idle EXCEPT !.pc = "resolve", !.held = S]
             t == [task[d] EXCEPT !.reservation = Len(signed) + 1]
  <2>1. S \in SUBSET Events /\ Heads(S) \in SUBSET Events /\ Heads(S) \in SUBSET Nat
        /\ Past(Heads(S)) \in SUBSET Nat
    BY <1>0, LoadsType, SetTypes DEF Events
  <2>2. job \in Job /\ task[d].epoch \in Epoch /\ task[d].retry \in BOOLEAN
    BY <1>0, <1>1 DEF ReconcileTask
  <2>3. Event1(S) \in Event /\ Event1(S).parents \subseteq Events
    <3> HIDE DEF job
    <3> QED BY <2>1, <2>2 DEF Event
  <2>4. Local \subseteq Local' /\ Task \subseteq Task' /\ Events \subseteq Events'
        /\ Len(signed) + 1 \in Events'
    BY <1>0, <1>5, Wider, Longer DEF Sign
  <2>5. x \in Local /\ x.pc = "resolve"
    <3>1. "resolve" \in ProcessState
      BY DEF ProcessState
    <3> QED BY <1>0, <2>1, <3>1, LocalTypes DEF Idle
  <2>6. t \in ReconcileTask' /\ t.queue # {} /\ t.reservation # 0
    <3>1. ReconcileTask \subseteq ReconcileTask'
      BY <2>4 DEF ReconcileTask
    <3>2. Len(signed) + 1 # 0
      BY <1>0 DEF TypeOK
    <3> QED BY <1>0, <2>4, <3>1, <3>2 DEF ReconcileTask
  <2>7. t \in Task' /\ t.kind = "reconcile"
    BY <2>6 DEF Task, ReconcileTask
  <2>8. task' = [task EXCEPT ![d] = t]
    BY <1>5
  <2>9. spent' \in [Device -> [Epoch -> Nat]]
    BY <1>0, <1>5, <2>2 DEF TypeOK
  <2> HIDE DEF x, t, Event1, job
  <2>10. WorkerMay(x.pc, t)
    BY <2>5, <2>6, <2>7 DEF WorkerMay, WorkerState
  <2>11. proc' = [proc EXCEPT ![Worker(d)] = x]
    BY <1>5 DEF x
  <2> QED BY <1>5, <2>3, <2>4, <2>5, <2>7, <2>8, <2>9, <2>10, <2>11, WorkerSigns
<1> HIDE DEF Event1, job
<1> QED BY <1>2, <1>3, <1>4, <1>5

LEMMA ResolveTypes ==
  ASSUME TypeInv, NEW d \in Device, NEW a \in Action, Resolve(d, a)
  PROVE  TypeInv'
<1> DEFINE p == Worker(d)
           job == NextJob(task[d].queue)
           parents == ResolutionParents(d)
           event == [kind |-> "resolution", device |-> d, parents |-> parents,
                     past |-> Past(parents), job |-> job, action |-> a]
<1>0. /\ TypeOK /\ task[d] \in ReconcileTask /\ p \in Process
      /\ task[d].queue # {} /\ task[d].queue \in SUBSET Job /\ task[d].reservation \in Events
  <2>1. /\ task[d].kind = "reconcile" /\ task[d].queue # {} /\ task[d] \in Task
        /\ task[d].reservation # 0
    BY Processes DEF TypeInv, TypeOK, Control, WorkerControl, Resolve
  <2>2. task[d] \in ReconcileTask
    BY <2>1, TaskTypes
  <2> QED BY <2>1, <2>2, Processes DEF TypeInv, ReconcileTask
<1>1. job \in Job
  BY <1>0, NextJobInQueue
<1>2. parents \in SUBSET Events /\ parents \in SUBSET Nat /\ Past(parents) \in SUBSET Nat
  <2>1. proc[p].held \in SUBSET Events
    BY <1>0 DEF TypeOK, Local
  <2>2. parents \in SUBSET Events
    BY <1>0, <2>1, SetTypes DEF ResolutionParents
  <2> QED BY <1>0, <2>2, SetTypes DEF Events
<1>3. event \in Event /\ event.parents \subseteq Events
  <2> HIDE DEF job, parents
  <2> QED BY <1>1, <1>2 DEF Event
<1>4. Sign(d, event) /\ proc' = [proc EXCEPT ![Worker(d)] = Current]
      /\ UNCHANGED <<view, task, known, wire, spent, faults>>
  BY DEF Resolve
<1>5. Current \in Local /\ WorkerMay(Current.pc, task[d])
  <2>1. task[d].kind = "reconcile"
    BY <1>0, TaskTypes
  <2> QED BY <1>0, <2>1, CurrentTypes DEF WorkerMay, WorkerState
<1>6. task' = [task EXCEPT ![d] = task[d]] /\ task[d] \in Task
  BY <1>0, <1>4 DEF TypeOK
<1>7. Local \subseteq Local' /\ Task \subseteq Task'
  BY <1>0, <1>4, Wider DEF Sign
<1>8. spent' \in [Device -> [Epoch -> Nat]]
  BY <1>0, <1>4 DEF TypeOK
<1> HIDE DEF event
<1> QED BY <1>3, <1>4, <1>5, <1>6, <1>7, <1>8, WorkerSigns

LEMMA WorkerStepTypes ==
  ASSUME TypeInv, NEW d \in Device, WorkerStep(d)
  PROVE  TypeInv'
<1>1. CASE RequestFails(d)
  BY <1>1, FailsTypes, Processes DEF RequestFails
<1> QED BY <1>1, PublishTypes, QueueJobsTypes, ReserveTypes, ResolveTypes DEF WorkerStep

LEMMA ConnectTypes ==
  ASSUME TypeInv, NEW s \in Session, Connect(s)
  PROVE  TypeInv'
<1> DEFINE c == ClientOf(s)
           v == ServerOf(s)
           x == Loading("send", Client[s])
           y == [Idle EXCEPT !.pc = "listen"]
<1>0. TypeOK /\ Control /\ c \in Process /\ v \in Process /\ c # v /\ Client[s] \in Device
  BY Processes, Distinct, SyncAssumption DEF TypeInv
<1>1. x \in Local /\ x.pc = "send" /\ y \in Local /\ y.pc = "listen"
  <2>1. "send" \in ProcessState /\ "listen" \in ProcessState
    BY DEF ProcessState
  <2> QED BY <1>0, <2>1, LocalTypes DEF Loading, Idle
<1>2. /\ proc' = [proc EXCEPT ![c] = x, ![v] = y]
      /\ wire' = [wire EXCEPT ![s] = [wire[s] EXCEPT !.state = "open"]]
      /\ UNCHANGED <<signed, store, view, task, known, spent, faults>>
  BY DEF Connect
<1> HIDE DEF x, y, c, v
<1>3. proc' \in [Process -> Local]
  BY <1>0, <1>1, <1>2 DEF TypeOK
<1>4. \A q \in Process \ {c, v} : proc'[q] = proc[q]
  BY <1>0, <1>2 DEF TypeOK
<1>5. proc'[c].pc = "send" /\ proc'[v].pc = "listen"
  BY <1>0, <1>1, <1>2 DEF TypeOK
<1>6. Control'
  <2>1. \A d \in Device : WorkerControl(d)'
    <3> TAKE d \in Device
    <3>1. proc'[Worker(d)] = proc[Worker(d)]
      BY <1>4, Processes, Distinct DEF c, v
    <3> QED BY <1>0, <1>2, <3>1 DEF Control, WorkerControl
  <2>2. \A r \in Session : /\ proc'[ClientOf(r)].pc \in ClientState
                           /\ proc'[ServerOf(r)].pc \in ServerState
    <3> TAKE r \in Session
    <3>1. ClientOf(r) = c \/ proc'[ClientOf(r)] = proc[ClientOf(r)]
      BY <1>4, Processes, Distinct DEF c, v
    <3>2. ServerOf(r) = v \/ proc'[ServerOf(r)] = proc[ServerOf(r)]
      BY <1>4, Processes, Distinct DEF c, v
    <3> QED BY <1>0, <1>5, <3>1, <3>2 DEF Control, ClientState, ServerState
  <2> QED BY <2>1, <2>2 DEF Control
<1>7. wire' \in [Session -> Page]
  <2>1. [wire[s] EXCEPT !.state = "open"] \in Page
    BY <1>0, WireTypes DEF Page
  <2> QED BY <1>0, <1>2, <2>1, WireTypes
<1> QED BY <1>0, <1>2, <1>3, <1>6, <1>7, Quiet DEF TypeInv, TypeOK

LEMMA SessionStepTypes ==
  ASSUME TypeInv, NEW s \in Session, SessionStep(s)
  PROVE  TypeInv'
<1> DEFINE c == ClientOf(s)
           v == ServerOf(s)
<1>0. /\ TypeOK /\ Control /\ c \in Process /\ v \in Process /\ c # v
      /\ Client[s] \in Device /\ Server[s] \in Device
      /\ proc[c] \in Local /\ proc[v] \in Local /\ wire[s] \in Page
  BY Processes, Distinct, SyncAssumption DEF TypeInv, TypeOK
<1>p. /\ ClientState \cup ServerState \subseteq ProcessState
      /\ {"wait", "persist"} \subseteq ClientState
      /\ {"idle", "listen", "load", "persist"} \subseteq ServerState
  BY DEF ClientState, ServerState, ProcessState
<1>1. CASE SendPage(s)
  <2>1. CASE Fails(c)
    BY <1>0, <2>1, FailsTypes
  <2>2. CASE \E S \in Loads(c) : \E E \in Pages(S, known[s]) :
          /\ wire' = [wire EXCEPT ![s] = Message("request", S, E, E = {})]
          /\ proc' = [proc EXCEPT ![c] = [Idle EXCEPT !.pc = "wait", !.held = S]]
          /\ UNCHANGED <<signed, store, view, task, known, spent, faults>>
    <3>0. PICK S \in Loads(c) : \E E \in Pages(S, known[s]) :
          /\ wire' = [wire EXCEPT ![s] = Message("request", S, E, E = {})]
          /\ proc' = [proc EXCEPT ![c] = [Idle EXCEPT !.pc = "wait", !.held = S]]
          /\ UNCHANGED <<signed, store, view, task, known, spent, faults>>
      BY <2>2
    <3> PICK E \in Pages(S, known[s]) :
          /\ wire' = [wire EXCEPT ![s] = Message("request", S, E, E = {})]
          /\ proc' = [proc EXCEPT ![c] = [Idle EXCEPT !.pc = "wait", !.held = S]]
          /\ UNCHANGED <<signed, store, view, task, known, spent, faults>>
      BY <3>0
    <3>1. S \in SUBSET Events /\ E \in SUBSET Events
      BY <1>0, LoadsType DEF Pages
    <3>2. [Idle EXCEPT !.pc = "wait", !.held = S] \in Local
      BY <1>0, <1>p, <3>1, LocalTypes
    <3>3. [Idle EXCEPT !.pc = "wait", !.held = S].pc = "wait"
      BY DEF Idle
    <3>4. Message("request", S, E, E = {}) \in Page
      BY <3>1 DEF Message, Page
    <3>5. PICK x \in Local : x.pc = "wait" /\ proc' = [proc EXCEPT ![c] = x]
      BY <3>2, <3>3
    <3>6. \E w \in Page : wire' = [wire EXCEPT ![s] = w]
      BY <3>4
    <3>7. UNCHANGED <<signed, store, view, task, known, spent, faults>>
      OBVIOUS
    <3> HIDE DEF c
    <3>8. c \in {ClientOf(s), ServerOf(s)}
      BY DEF c
    <3>9. x.pc \in (IF c = ClientOf(s) THEN ClientState ELSE ServerState)
      BY <1>p, <3>5 DEF c
    <3> QED BY ONLY TypeInv, s \in Session, <3>5, <3>6, <3>7, <3>8, <3>9, SessionQuiet
  <2> QED BY <1>1, <2>1, <2>2 DEF SendPage
<1>2. CASE ReceiveRequest(s)
  <2> DEFINE x == [Loading("load", Server[s]) EXCEPT !.todo = wire[s].events]
  <2>1. Loading("load", Server[s]) \in Local
    BY <1>0, <1>p, LocalTypes
  <2>2. x \in Local /\ x.pc = "load"
    <3>1. wire[s].events \in SUBSET Events
      BY <1>0, WireTypes
    <3> QED BY <2>1, <3>1 DEF Local, Loading, Idle
  <2>3. proc' = [proc EXCEPT ![v] = x]
        /\ UNCHANGED <<signed, store, view, task, known, wire, spent, faults>>
    BY <1>2 DEF ReceiveRequest
  <2> HIDE DEF x
  <2> QED BY <1>0, <1>p, <2>2, <2>3, SessionQuiet
<1>3. CASE LoadForRequest(s)
  <2>1. CASE Fails(v)
    BY <1>0, <2>1, FailsTypes
  <2>2. ASSUME NEW S \in Loads(v),
               proc' = [proc EXCEPT ![v].pc = "persist", ![v].base = {},
                                    ![v].held = S \cup proc[v].todo],
               UNCHANGED <<signed, store, view, task, known, wire, spent, faults>>
        PROVE  TypeInv'
    <3> DEFINE x == [proc[v] EXCEPT !.pc = "persist", !.base = {}, !.held = S \cup proc[v].todo]
    <3>1. S \in SUBSET Events
      BY <1>0, LoadsType
    <3>2. x \in Local /\ x.pc = "persist"
      BY <1>0, <1>p, <3>1 DEF Local
    <3>3. proc' = [proc EXCEPT ![v] = x]
      BY <2>2
    <3> HIDE DEF x
    <3> QED BY <1>0, <1>p, <2>2, <3>2, <3>3, SessionQuiet
  <2> QED BY <1>3, <2>1, <2>2 DEF LoadForRequest
<1>4. CASE ReceiveReply(s)
  <2>1. CASE Fails(c)
    BY <1>0, <2>1, FailsTypes
  <2>2. CASE /\ proc' = [proc EXCEPT ![c].pc = "persist",
                                     ![c].held = proc[c].held \cup wire[s].events,
                                     ![c].todo = wire[s].events]
             /\ UNCHANGED <<signed, store, view, task, known, wire, spent, faults>>
    <3> DEFINE x == [proc[c] EXCEPT !.pc = "persist", !.held = proc[c].held \cup wire[s].events,
                                    !.todo = wire[s].events]
    <3>1. wire[s].events \in SUBSET Events
      BY <1>0, WireTypes
    <3>2. x \in Local /\ x.pc = "persist"
      BY <1>0, <1>p, <3>1 DEF Local
    <3>3. proc' = [proc EXCEPT ![c] = x]
      BY <2>2
    <3> HIDE DEF x
    <3> QED BY ZenonT(60), <1>p, <2>2, <3>2, <3>3, SessionQuiet
  <2> QED BY <1>4, <2>1, <2>2 DEF ReceiveReply
<1>5. CASE SendReply(s)
  <2> PICK E \in Pages(proc[v].held, wire[s].inventory) :
        LET done == ReplyDone(E, wire[s]) IN
        /\ wire' = [wire EXCEPT ![s] = Message("reply", proc[v].held, E, done)]
        /\ proc' = [proc EXCEPT ![v] = IF done THEN Idle ELSE [Idle EXCEPT !.pc = "listen"]]
    BY <1>5 DEF SendReply
  <2>1. proc[v].held \in SUBSET Events /\ E \in SUBSET Events
    BY <1>0 DEF Local, Pages
  <2>2. Message("reply", proc[v].held, E, ReplyDone(E, wire[s])) \in Page
    BY <1>0, <2>1 DEF Message, Page, ReplyDone
  <2> DEFINE x == IF ReplyDone(E, wire[s]) THEN Idle ELSE [Idle EXCEPT !.pc = "listen"]
  <2>3. x \in Local /\ x.pc \in ServerState
    BY <1>0, <1>p, LocalTypes DEF Idle
  <2>4. proc' = [proc EXCEPT ![v] = x]
        /\ wire' = [wire EXCEPT ![s] = Message("reply", proc[v].held, E, ReplyDone(E, wire[s]))]
        /\ UNCHANGED <<signed, store, view, task, known, spent, faults>>
    BY <1>5 DEF SendReply
  <2> HIDE DEF x
  <2> QED BY <1>0, <2>2, <2>3, <2>4, SessionQuiet
<1> QED BY <1>1, <1>2, <1>3, <1>4, <1>5 DEF SessionStep

LEMMA SharedStepTypes ==
  ASSUME TypeInv, NEW p \in Process, SharedStep(p)
  PROVE  TypeInv'
<1>0. /\ TypeOK /\ Control /\ proc \in [Process -> Local] /\ proc[p] \in Local
      /\ Home(p) \in Device
  BY Processes DEF TypeInv, TypeOK
<1>s. (Local' = Local /\ Task' = Task) \/ signed' # signed
  BY Same
<1>1. CASE ReadCurrent(p)
  <2> DEFINE x == [proc[p] EXCEPT !.pc = "project", !.seen = view[Home(p)], !.base = Base(Home(p))]
  <2>1. view[Home(p)] \in SUBSET SUBSET Events /\ Base(Home(p)) \in SUBSET Events
    BY <1>0 DEF TypeOK, Base
  <2>2. x \in Local /\ x.pc = "project"
    <3>1. "project" \in ProcessState
      BY DEF ProcessState
    <3> QED BY <1>0, <2>1, <3>1 DEF Local
  <2>3. proc' = [proc EXCEPT ![p] = x]
        /\ UNCHANGED <<signed, store, view, task, known, wire, spent, faults>>
    BY <1>1 DEF ReadCurrent
  <2> HIDE DEF x
  <2>4. CASE \E d \in Device : p = Worker(d)
    <3> PICK d \in Device : p = Worker(d)
      BY <2>4
    <3>1. task' = [task EXCEPT ![d] = task[d]] /\ task[d] \in Task
      BY <1>0, <2>3 DEF TypeOK
    <3>2. WorkerControl(d)
      BY <1>0 DEF Control
    <3>3. proc[p].pc = "current"
      BY <1>1, <3>2 DEF ReadCurrent, Accepted, WorkerControl, WorkerState
    <3>4. WorkerMay(x.pc, task[d])
      BY <2>2, <3>2, <3>3 DEF WorkerMay, WorkerControl, WorkerState
    <3> QED BY <2>2, <2>3, <3>1, <3>4, WorkerQuiet
  <2>5. CASE \E s \in Session : p = ClientOf(s) \/ p = ServerOf(s)
    BY <2>2, <2>3, <2>5, SessionQuiet DEF ClientState, ServerState
  <2> QED BY <2>4, <2>5, Processes
<1>2. CASE PublishView(p)
  <2>1. CASE Fails(p)
    BY <2>1, FailsTypes
  <2>2. ASSUME NEW S \in Loads(p), view' = [view EXCEPT ![Home(p)] = {S}], Returns(p),
               UNCHANGED <<signed, store, spent, faults>>
        PROVE  TypeInv'
    <3>1. S \in SUBSET Events
      BY <1>0, LoadsType
    <3>2. view' \in [Device -> SUBSET SUBSET Events]
      BY <1>0, <2>2, <3>1 DEF TypeOK
    <3>3. proc[p].pc = "project"
      BY <1>2 DEF PublishView
    <3> QED BY <1>0, <2>2, <3>2, <3>3, ReturnsTypes, Quiet DEF TypeInv, TypeOK
  <2>3. CASE Retries(p) /\ UNCHANGED <<signed, store, view, spent, faults>>
    <3>1. proc[p].pc = "project"
      BY <1>2 DEF PublishView
    <3> QED BY <1>0, <2>3, <3>1, RetriesTypes, Quiet DEF TypeInv, TypeOK
  <2> QED BY <1>2, <2>1, <2>2, <2>3 DEF PublishView
<1>3. CASE PersistEvent(p)
  <2> PICK e \in proc[p].todo : /\ store' = [store EXCEPT ![Home(p)] = @ \cup {e}]
                                /\ proc' = [proc EXCEPT ![p].todo = @ \ {e}]
    BY <1>3 DEF PersistEvent
  <2> DEFINE x == [proc[p] EXCEPT !.todo = @ \ {e}]
  <2>0. UNCHANGED <<signed, view, task, known, wire, spent, faults>> /\ proc[p].pc = "persist"
    BY <1>3 DEF PersistEvent
  <2>1. x \in Local /\ x.pc = "persist" /\ e \in Events
    BY <1>0, <2>0 DEF Local
  <2>2. proc' = [proc EXCEPT ![p] = x] /\ proc' \in [Process -> Local]
    BY <1>0, <2>1
  <2>3. store' \in [Device -> SUBSET Events]
    BY <1>0, <2>1 DEF TypeOK
  <2> HIDE DEF x
  <2>4. Control'
    <3>1. \E s \in Session : p = ClientOf(s) \/ p = ServerOf(s)
      BY <1>0, <2>0, Processes DEF Control, WorkerControl, WorkerState
    <3> QED BY <2>0, <2>1, <2>2, <3>1, SessionTurn DEF ClientState, ServerState
  <2> QED BY <1>0, <2>0, <2>2, <2>3, <2>4, Quiet DEF TypeInv, TypeOK
<1>4. CASE Staged(p)
  <2>1. Returns(p) /\ UNCHANGED <<signed, store, view, spent, faults>> /\ proc[p].pc = "persist"
    BY <1>4 DEF Staged
  <2> QED BY <1>0, <2>1, ReturnsTypes, Quiet DEF TypeInv, TypeOK
<1>5. CASE HangUp(p)
  BY <1>5, FailsTypes DEF HangUp
<1> QED BY <1>1, <1>2, <1>3, <1>4, <1>5 DEF SharedStep

LEMMA FaultTypes ==
  ASSUME TypeInv,
         \/ \E s \in Session : Cut(s)
         \/ \E p \in Process : LockBusy(p) \/ Interrupt(p)
  PROVE  TypeInv'
<1>0. TypeOK /\ Control /\ faults + 1 \in Nat
  BY DEF TypeInv, TypeOK
<1>1. ASSUME NEW s \in Session, Cut(s) PROVE TypeInv'
  <2>1. UNCHANGED <<signed, store, view, proc, task, known, spent>> /\ faults' = faults + 1
        /\ wire' = [wire EXCEPT ![s] = Closed]
    BY <1>1 DEF Cut
  <2>2. wire' \in [Session -> Page]
    BY <1>0, <2>1, WireTypes
  <2>3. Control'
    BY <1>0, <2>1 DEF Control, WorkerControl
  <2> QED BY <1>0, <2>1, <2>2, <2>3, Quiet DEF TypeInv, TypeOK
<1>2. ASSUME NEW p \in Process, LockBusy(p) PROVE TypeInv'
  BY <1>0, <1>2, RetriesTypes, Quiet DEF LockBusy, TypeInv, TypeOK
<1>3. ASSUME NEW p \in Process, Interrupt(p) PROVE TypeInv'
  BY <1>0, <1>3, EndsTypes, Quiet DEF Interrupt, TypeInv, TypeOK
<1> QED BY <1>1, <1>2, <1>3

LEMMA NextTypes == TypeInv /\ [Next]_vars => TypeInv'
<1> SUFFICES ASSUME TypeInv, [Next]_vars PROVE TypeInv'
  OBVIOUS
<1>1. CASE UNCHANGED vars
  BY <1>1 DEF vars, TypeInv, TypeOK, Control, WorkerControl, Events, Local, Task, Page, Event, Kind
<1>2. CASE Next
  BY <1>2, StartPublishTypes, StartReconcileTypes, WorkerStepTypes, ConnectTypes,
     SessionStepTypes, SharedStepTypes, FaultTypes DEF Next
<1> QED BY <1>1, <1>2

LEMMA TypeInvariant == Spec => []TypeInv
<1>1. Init => TypeInv
  <2> SUFFICES ASSUME Init PROVE TypeInv
    OBVIOUS
  <2>1. Events = {} /\ signed \in Seq(Event)
    BY DEF Init, Events
  <2>2. Idle \in Local /\ NoTask \in Task /\ Closed \in Page
    BY SyncAssumption DEF Idle, Local, ProcessState, Task, Closed, Page
  <2>3. TypeOK
    BY <2>1, <2>2 DEF Init, TypeOK
  <2>4. Control
    BY Processes DEF Init, Control, WorkerControl, WorkerState, ClientState, ServerState, Idle, NoTask
  <2> QED BY <2>3, <2>4 DEF TypeInv
<1> QED BY <1>1, NextTypes, PTL DEF Spec

\* PeerSync keeps its types, whatever the devices, exchanges, publications,
\* limits and faults.
THEOREM TypeCorrect == Spec => []TypeOK
<1>1. TypeInv => TypeOK
  BY DEF TypeInv
<1> QED BY <1>1, TypeInvariant, PTL

-----------------------------------------------------------------------------
(* Views only grow.                                                        *)

\* What a load began with is in the store; what a process saw published when it
\* began to project is in every load it may now finish; what is published is in
\* the store.
ShownInv ==
  /\ \A p \in Process :
       /\ proc[p].base \subseteq store[Home(p)]
       /\ proc[p].pc = "project" =>
            \A V \in proc[p].seen : V \subseteq (IF Torn THEN proc[p].base ELSE store[Home(p)])
  /\ \A d \in Device : \A V \in view[d] : V \subseteq store[d]

\* How a step changes what a process loads and has seen.
Becomes(p, x) ==
  \/ x = proc[p]
  \/ x.pc # "project" /\ x.base \in {{}, proc[p].base, Base(Home(p))}
  \/ x.pc = "project" /\ x.base = Base(Home(p)) /\ x.seen = view[Home(p)]

LEMMA OneBecomes ==
  ASSUME TypeInv, NEW p \in Process, NEW x, Becomes(p, x), proc' = [proc EXCEPT ![p] = x]
  PROVE  \A q \in Process : Becomes(q, proc'[q])
BY DEF TypeInv, TypeOK, Becomes

LEMMA EndsBecomes ==
  ASSUME TypeInv, NEW p \in Process, Ends(p)
  PROVE  \A q \in Process : Becomes(q, proc'[q])
<1>1. proc' = [proc EXCEPT ![p] = Idle]
  BY DEF Ends
<1>2. Becomes(p, Idle)
  BY DEF Becomes, Idle
<1> QED BY <1>1, <1>2, OneBecomes

LEMMA FreshBecomes ==
  /\ \A p \in Process : Becomes(p, Idle) /\ Becomes(p, Current)
  /\ \A p \in Process, pc \in ProcessState \ {"project"} : Becomes(p, Loading(pc, Home(p)))
  /\ \A p \in Process, pc \in ProcessState \ {"project"} : Becomes(p, [Idle EXCEPT !.pc = pc])
  /\ \A p \in Process, pc \in ProcessState \ {"project"} : \A S :
       Becomes(p, [Idle EXCEPT !.pc = pc, !.held = S])
BY DEF Becomes, Idle, Current, Loading, ProcessState

LEMMA ContinuesBecomes ==
  ASSUME TypeInv, NEW d \in Device, NEW queue, Continues(d, queue)
  PROVE  \A q \in Process : Becomes(q, proc'[q])
<1>1. Worker(d) \in Process /\ Home(Worker(d)) = d
  BY Processes
<1>2. "reload" \in ProcessState \ {"project"}
  BY DEF ProcessState
<1>3. Becomes(Worker(d), Idle) /\ Becomes(Worker(d), Loading("reload", d))
  BY <1>1, <1>2, FreshBecomes
<1>4. \/ proc' = [proc EXCEPT ![Worker(d)] = Idle]
      \/ proc' = [proc EXCEPT ![Worker(d)] = Loading("reload", d)]
  BY DEF Continues
<1> QED BY <1>1, <1>3, <1>4, OneBecomes

LEMMA ReturnsBecomes ==
  ASSUME TypeInv, NEW p \in Process, Returns(p)
  PROVE  \A q \in Process : Becomes(q, proc'[q])
<1>1. {"reply", "send"} \subseteq ProcessState \ {"project"}
  BY DEF ProcessState
<1>2. CASE \E d \in Device : p = Worker(d)
  <2> PICK d \in Device : p = Worker(d)
    BY <1>2
  <2>1. WorkerReturns(d)
    BY ReturnsRoles
  <2>2. \E queue : Continues(d, queue)
    BY <2>1, Zenon DEF WorkerReturns
  <2> QED BY <2>2, ContinuesBecomes
<1>3. CASE \E s \in Session : p = ServerOf(s)
  <2>1. proc' = [proc EXCEPT ![p] = [Idle EXCEPT !.pc = "reply", !.held = proc[p].held]]
    BY <1>3, ReturnsRoles DEF ServerReturns
  <2> QED BY <1>1, <2>1, FreshBecomes, OneBecomes
<1>4. CASE \E s \in Session : p = ClientOf(s)
  <2> PICK s \in Session : p = ClientOf(s)
    BY <1>4
  <2>1. \/ proc' = [proc EXCEPT ![p] = Idle]
        \/ proc' = [proc EXCEPT ![p] = Loading("send", Home(p))]
    BY ClientReturns, Processes
  <2>2. Becomes(p, Idle) /\ Becomes(p, Loading("send", Home(p)))
    BY <1>1, FreshBecomes
  <2> QED BY <2>1, <2>2, OneBecomes
<1> QED BY <1>2, <1>3, <1>4, Processes

LEMMA RetriesBecomes ==
  ASSUME TypeInv, NEW p \in Process, Retries(p)
  PROVE  \A q \in Process : Becomes(q, proc'[q])
<1>1. CASE Ends(p)
  BY <1>1, EndsBecomes
<1>2. CASE proc' = [proc EXCEPT ![p].pc = "current", ![p].tries = @ + 1,
                                ![p].seen = {}, ![p].base = {}]
  <2> DEFINE x == [proc[p] EXCEPT !.pc = "current", !.tries = @ + 1, !.seen = {}, !.base = {}]
  <2>1. proc[p] \in Local
    BY DEF TypeInv, TypeOK
  <2>2. proc' = [proc EXCEPT ![p] = x] /\ x.pc = "current" /\ x.base = {}
    BY <1>2, <2>1 DEF Local
  <2> HIDE DEF x
  <2>3. Becomes(p, x)
    BY <2>2 DEF Becomes
  <2> QED BY <2>2, <2>3, OneBecomes
<1> QED BY <1>1, <1>2 DEF Retries

LEMMA StepBecomes ==
  ASSUME TypeInv, Next
  PROVE  \A q \in Process : Becomes(q, proc'[q])
<1>0. TypeOK /\ proc \in [Process -> Local] /\ \A p \in Process : proc[p] \in Local
  BY DEF TypeInv, TypeOK
<1>p. {"publish", "queue", "reload", "resolve", "send", "listen", "wait", "load", "persist",
       "reply"} \subseteq ProcessState \ {"project"}
  BY DEF ProcessState
<1>u. UNCHANGED proc => \A q \in Process : Becomes(q, proc'[q])
  BY DEF Becomes
<1>1. ASSUME NEW d \in Device, NEW c \in Content, StartPublish(d, c)
      PROVE  \A q \in Process : Becomes(q, proc'[q])
  <2>1. proc' = [proc EXCEPT ![Worker(d)] = Loading("publish", Home(Worker(d)))]
    BY <1>1, Processes DEF StartPublish
  <2>2. Worker(d) \in Process
    BY Processes
  <2>3. Becomes(Worker(d), Loading("publish", Home(Worker(d))))
    BY <1>p, <2>2, FreshBecomes
  <2> QED BY <2>1, <2>2, <2>3, OneBecomes
<1>2. ASSUME NEW d \in Device, NEW k \in Epoch, NEW r \in Retry, StartReconcile(d, k, r)
      PROVE  \A q \in Process : Becomes(q, proc'[q])
  <2>1. proc' = [proc EXCEPT ![Worker(d)] = Loading("queue", Home(Worker(d)))]
    BY <1>2, Processes DEF StartReconcile
  <2>2. Worker(d) \in Process
    BY Processes
  <2>3. Becomes(Worker(d), Loading("queue", Home(Worker(d))))
    BY <1>p, <2>2, FreshBecomes
  <2> QED BY <2>1, <2>2, <2>3, OneBecomes
<1>3. ASSUME NEW d \in Device, WorkerStep(d)
      PROVE  \A q \in Process : Becomes(q, proc'[q])
  <2> DEFINE p == Worker(d)
  <2>0. p \in Process /\ Home(p) = d
    BY Processes
  <2>1. CASE Publish(d)
    <3>1. proc' = [proc EXCEPT ![p] = Current] \/ Ends(p)
      BY <2>1 DEF Publish, Fails
    <3> QED BY <2>0, <3>1, EndsBecomes, FreshBecomes, OneBecomes
  <2>2. CASE QueueJobs(d)
    <3>1. \/ Ends(p)
          \/ proc' = [proc EXCEPT ![p] = Idle]
          \/ proc' = [proc EXCEPT ![p] = Loading("reload", Home(p))]
      BY <2>0, <2>2 DEF QueueJobs, Fails
    <3>2. Becomes(p, Idle) /\ Becomes(p, Loading("reload", Home(p)))
      BY <1>p, <2>0, FreshBecomes
    <3> HIDE DEF p
    <3> QED BY <2>0, <3>1, <3>2, EndsBecomes, OneBecomes
  <2>3. CASE Reserve(d)
    <3>1. \/ Ends(p)
          \/ \E queue : Continues(d, queue)
          \/ \E S : proc' = [proc EXCEPT ![p] = [Idle EXCEPT !.pc = "resolve", !.held = S]]
      BY <2>3 DEF Reserve, Fails
    <3> QED BY ZenonT(60), <1>p, <2>0, <3>1, EndsBecomes, ContinuesBecomes, FreshBecomes, OneBecomes
  <2>4. CASE RequestFails(d)
    BY <2>0, <2>4, EndsBecomes DEF RequestFails, Fails
  <2>5. CASE \E a \in Action : Resolve(d, a)
    <3>1. proc' = [proc EXCEPT ![p] = Current]
      BY <2>5 DEF Resolve
    <3> QED BY <2>0, <3>1, FreshBecomes, OneBecomes
  <2> QED BY <1>3, <2>1, <2>2, <2>3, <2>4, <2>5 DEF WorkerStep
<1>4. ASSUME NEW s \in Session, Connect(s) \/ SessionStep(s) \/ Cut(s)
      PROVE  \A q \in Process : Becomes(q, proc'[q])
  <2> DEFINE c == ClientOf(s)
             v == ServerOf(s)
  <2>0. c \in Process /\ v \in Process /\ c # v /\ Home(c) = Client[s] /\ Home(v) = Server[s]
    BY Processes, Distinct
  <2>1. CASE Connect(s)
    <3>1. proc' = [proc EXCEPT ![c] = Loading("send", Home(c)), ![v] = [Idle EXCEPT !.pc = "listen"]]
      BY <2>0, <2>1 DEF Connect
    <3>2. Becomes(c, Loading("send", Home(c))) /\ Becomes(v, [Idle EXCEPT !.pc = "listen"])
      BY <1>p, <2>0, FreshBecomes
    <3> HIDE DEF c, v
    <3>3. /\ proc'[c] = Loading("send", Home(c)) /\ proc'[v] = [Idle EXCEPT !.pc = "listen"]
          /\ \A q \in Process \ {c, v} : proc'[q] = proc[q]
      BY <1>0, <2>0, <3>1
    <3> QED BY <3>2, <3>3 DEF Becomes
  <2>2. CASE SendPage(s)
    <3>1. \/ Ends(c)
          \/ \E S : proc' = [proc EXCEPT ![c] = [Idle EXCEPT !.pc = "wait", !.held = S]]
      BY <2>2 DEF SendPage, Fails
    <3> QED BY ZenonT(60), <1>p, <2>0, <3>1, EndsBecomes, FreshBecomes, OneBecomes
  <2>3. CASE ReceiveRequest(s)
    <3> DEFINE x == [Loading("load", Server[s]) EXCEPT !.todo = wire[s].events]
    <3>1. proc' = [proc EXCEPT ![v] = x]
      BY <2>3 DEF ReceiveRequest
    <3>2. x.pc = "load" /\ x.base = Base(Home(v))
      BY <2>0 DEF Loading, Idle
    <3> HIDE DEF x
    <3> QED BY <2>0, <3>1, <3>2, OneBecomes DEF Becomes
  <2>4. CASE LoadForRequest(s)
    <3>1. CASE Ends(v)
      BY <2>0, <3>1, EndsBecomes
    <3>2. ASSUME NEW S, proc' = [proc EXCEPT ![v].pc = "persist", ![v].base = {},
                                             ![v].held = S \cup proc[v].todo]
          PROVE  \A q \in Process : Becomes(q, proc'[q])
      <4> DEFINE x == [proc[v] EXCEPT !.pc = "persist", !.base = {}, !.held = S \cup proc[v].todo]
      <4>1. proc' = [proc EXCEPT ![v] = x] /\ x.pc = "persist" /\ x.base = {}
        BY <1>0, <2>0, <3>2 DEF Local
      <4> HIDE DEF x
      <4> QED BY <2>0, <4>1, OneBecomes DEF Becomes
    <3> QED BY <2>4, <3>1, <3>2 DEF LoadForRequest, Fails
  <2>5. CASE ReceiveReply(s)
    <3>1. CASE Ends(c)
      BY <2>0, <3>1, EndsBecomes
    <3>2. ASSUME NEW S, proc' = [proc EXCEPT ![c].pc = "persist", ![c].held = S,
                                             ![c].todo = wire[s].events]
          PROVE  \A q \in Process : Becomes(q, proc'[q])
      <4> DEFINE x == [proc[c] EXCEPT !.pc = "persist", !.held = S, !.todo = wire[s].events]
      <4>1. proc' = [proc EXCEPT ![c] = x] /\ x.pc = "persist" /\ x.base = proc[c].base
        BY <1>0, <2>0, <3>2 DEF Local
      <4> HIDE DEF x
      <4> QED BY <2>0, <4>1, OneBecomes DEF Becomes
    <3> QED BY <2>5, <3>1, <3>2 DEF ReceiveReply, Fails
  <2>6. CASE SendReply(s)
    <3>1. \/ proc' = [proc EXCEPT ![v] = Idle]
          \/ proc' = [proc EXCEPT ![v] = [Idle EXCEPT !.pc = "listen"]]
      BY <2>6 DEF SendReply
    <3> QED BY <1>p, <2>0, <3>1, FreshBecomes, OneBecomes
  <2>7. CASE Cut(s)
    BY <1>u, <2>7 DEF Cut
  <2> QED BY <1>4, <2>1, <2>2, <2>3, <2>4, <2>5, <2>6, <2>7 DEF SessionStep
<1>5. ASSUME NEW p \in Process, SharedStep(p) \/ LockBusy(p) \/ Interrupt(p)
      PROVE  \A q \in Process : Becomes(q, proc'[q])
  <2>1. CASE ReadCurrent(p)
    <3> DEFINE x == [proc[p] EXCEPT !.pc = "project", !.seen = view[Home(p)], !.base = Base(Home(p))]
    <3>1. proc' = [proc EXCEPT ![p] = x]
      BY <2>1 DEF ReadCurrent
    <3>2. x.pc = "project" /\ x.seen = view[Home(p)] /\ x.base = Base(Home(p))
      BY <1>0 DEF Local
    <3> HIDE DEF x
    <3> QED BY <3>1, <3>2, OneBecomes DEF Becomes
  <2>2. CASE PublishView(p)
    BY <2>2, EndsBecomes, ReturnsBecomes, RetriesBecomes DEF PublishView, Fails
  <2>3. CASE PersistEvent(p)
    <3> PICK e : proc' = [proc EXCEPT ![p].todo = @ \ {e}]
      BY <2>3 DEF PersistEvent
    <3> DEFINE x == [proc[p] EXCEPT !.todo = @ \ {e}]
    <3>1. proc' = [proc EXCEPT ![p] = x] /\ x.pc = "persist" /\ x.base = proc[p].base
      BY <1>0, <2>3 DEF Local, PersistEvent
    <3> HIDE DEF x
    <3> QED BY <3>1, OneBecomes DEF Becomes
  <2>4. CASE Staged(p)
    BY <2>4, ReturnsBecomes DEF Staged
  <2>5. CASE HangUp(p)
    BY <2>5, EndsBecomes DEF HangUp, Fails
  <2>6. CASE LockBusy(p)
    BY <2>6, RetriesBecomes DEF LockBusy
  <2>7. CASE Interrupt(p)
    BY <2>7, EndsBecomes DEF Interrupt
  <2> QED BY <1>5, <2>1, <2>2, <2>3, <2>4, <2>5, <2>6, <2>7 DEF SharedStep
<1> QED BY <1>1, <1>2, <1>3, <1>4, <1>5 DEF Next

\* How a step changes ledgers and views.
LEMMA StepShows ==
  ASSUME TypeInv, Next
  PROVE  /\ \A d \in Device : store[d] \subseteq store'[d]
         /\ \/ view' = view
            \/ \E p \in Process : \E S \in Loads(p) :
                 /\ proc[p].pc = "project" /\ Projects(S)
                 /\ view[Home(p)] \in {{S}, proc[p].seen}
                 /\ view' = [view EXCEPT ![Home(p)] = {S}]
<1>0. TypeOK
  BY DEF TypeInv
<1> DEFINE Quietly == UNCHANGED <<store, view>>
           Puts == \E d \in Device : \E e : store' = [store EXCEPT ![d] = @ \cup {e}] /\ UNCHANGED view
           Shows == \E p \in Process : \E S \in Loads(p) :
                      /\ proc[p].pc = "project" /\ Projects(S)
                      /\ view[Home(p)] \in {{S}, proc[p].seen}
                      /\ view' = [view EXCEPT ![Home(p)] = {S}] /\ UNCHANGED store
<1>1. Quietly \/ Puts \/ Shows
  <2> HIDE DEF Quietly, Puts, Shows
  <2>f. ASSUME NEW p, Fails(p) PROVE Quietly
    BY <2>f DEF Fails, Quietly
  <2>s. ASSUME NEW d \in Device, NEW x, Sign(d, x), UNCHANGED view PROVE Puts
    BY <2>s DEF Sign, Puts
  <2>1. ASSUME NEW d \in Device, NEW c \in Content, StartPublish(d, c) PROVE Quietly
    BY <2>1 DEF StartPublish, Quietly
  <2>2. ASSUME NEW d \in Device, NEW k \in Epoch, NEW r \in Retry, StartReconcile(d, k, r) PROVE Quietly
    BY <2>2 DEF StartReconcile, Quietly
  <2>3. ASSUME NEW d \in Device, WorkerStep(d) PROVE Quietly \/ Puts
    <3>1. CASE Publish(d)
      <4>1. \/ Fails(Worker(d)) \/ UNCHANGED <<store, view>>
            \/ \E x : Sign(d, x) /\ UNCHANGED view
        BY <3>1 DEF Publish
      <4> QED BY <4>1, <2>f, <2>s DEF Quietly
    <3>2. CASE QueueJobs(d)
      <4>1. Fails(Worker(d)) \/ UNCHANGED <<store, view>>
        BY <3>2 DEF QueueJobs
      <4> QED BY <4>1, <2>f DEF Quietly
    <3>3. CASE Reserve(d)
      <4>1. \/ Fails(Worker(d)) \/ UNCHANGED <<store, view>>
            \/ \E x : Sign(d, x) /\ UNCHANGED view
        BY <3>3 DEF Reserve
      <4> QED BY <4>1, <2>f, <2>s DEF Quietly
    <3>4. CASE RequestFails(d)
      BY <3>4, <2>f DEF RequestFails
    <3>5. CASE \E a \in Action : Resolve(d, a)
      <4>1. \E x : Sign(d, x) /\ UNCHANGED view
        BY <3>5 DEF Resolve
      <4> QED BY <4>1, <2>s
    <3> QED BY <2>3, <3>1, <3>2, <3>3, <3>4, <3>5 DEF WorkerStep
  <2>4. ASSUME NEW s \in Session, Connect(s) \/ SessionStep(s) \/ Cut(s) PROVE Quietly
    <3>1. CASE Connect(s)
      BY <3>1 DEF Connect, Quietly
    <3>2. CASE SendPage(s)
      BY <3>2 DEF SendPage, Fails, Quietly
    <3>3. CASE ReceiveRequest(s)
      BY <3>3 DEF ReceiveRequest, Quietly
    <3>4. CASE LoadForRequest(s)
      BY <3>4 DEF LoadForRequest, Fails, Quietly
    <3>5. CASE ReceiveReply(s)
      BY <3>5 DEF ReceiveReply, Fails, Quietly
    <3>6. CASE SendReply(s)
      BY <3>6 DEF SendReply, Quietly
    <3>7. CASE Cut(s)
      BY <3>7 DEF Cut, Quietly
    <3> QED BY <2>4, <3>1, <3>2, <3>3, <3>4, <3>5, <3>6, <3>7 DEF SessionStep
  <2>5. ASSUME NEW p \in Process, SharedStep(p) \/ LockBusy(p) \/ Interrupt(p)
        PROVE  Quietly \/ Puts \/ Shows
    <3>1. CASE ReadCurrent(p)
      BY <3>1 DEF ReadCurrent, Quietly
    <3>2. CASE PublishView(p)
      <4>1. Fails(p) \/ UNCHANGED <<store, view>> \/
            \E S \in Loads(p) :
              /\ proc[p].pc = "project" /\ Projects(S)
              /\ view[Home(p)] \in {{S}, proc[p].seen}
              /\ view' = [view EXCEPT ![Home(p)] = {S}] /\ UNCHANGED store
        BY <3>2 DEF PublishView
      <4> QED BY <4>1, <2>f DEF Quietly, Shows
    <3>3. CASE PersistEvent(p)
      BY <3>3, Processes DEF PersistEvent, Puts
    <3>4. CASE Staged(p)
      BY <3>4 DEF Staged, Quietly
    <3>5. CASE HangUp(p)
      BY <3>5, <2>f DEF HangUp
    <3>6. CASE LockBusy(p)
      BY <3>6 DEF LockBusy, Quietly
    <3>7. CASE Interrupt(p)
      BY <3>7 DEF Interrupt, Quietly
    <3> QED BY <2>5, <3>1, <3>2, <3>3, <3>4, <3>5, <3>6, <3>7 DEF SharedStep
  <2> QED BY <2>1, <2>2, <2>3, <2>4, <2>5 DEF Next
<1>2. ASSUME Puts PROVE \A d \in Device : store[d] \subseteq store'[d]
  BY <1>0, <1>2 DEF TypeOK
<1>3. store \in [Device -> SUBSET Events]
  BY <1>0 DEF TypeOK
<1> HIDE DEF Puts
<1>4. CASE Quietly
  BY <1>4
<1>5. CASE Puts
  BY <1>2, <1>5 DEF Puts
<1>6. CASE Shows
  BY <1>6
<1> QED BY <1>1, <1>4, <1>5, <1>6

LEMMA NextShown == TypeInv /\ ShownInv /\ [Next]_vars => ShownInv'
<1> SUFFICES ASSUME TypeInv, ShownInv, [Next]_vars PROVE ShownInv'
  OBVIOUS
<1>1. CASE UNCHANGED vars
  BY <1>1 DEF vars, ShownInv
<1>2. CASE Next
  <2>0. /\ \A p \in Process : Home(p) \in Device
        /\ store \in [Device -> SUBSET Events]
        /\ view \in [Device -> SUBSET SUBSET Events]
        /\ \A p \in Process : proc[p] \in Local
    BY Processes DEF TypeInv, TypeOK
  <2>1. \A d \in Device : store[d] \subseteq store'[d]
    BY <1>2, StepShows
  <2>2. ASSUME NEW p \in Process
        PROVE  /\ proc'[p].base \subseteq store'[Home(p)]
               /\ proc'[p].pc = "project" =>
                    \A V \in proc'[p].seen :
                      V \subseteq (IF Torn THEN proc'[p].base ELSE store'[Home(p)])
    <3>1. Becomes(p, proc'[p])
      BY <1>2, StepBecomes
    <3>2. Base(Home(p)) \subseteq store[Home(p)] /\ (Torn => Base(Home(p)) = store[Home(p)])
      BY DEF Base
    <3>3. store[Home(p)] \subseteq store'[Home(p)] /\ proc[p].base \subseteq store[Home(p)]
      BY <2>0, <2>1 DEF ShownInv
    <3>4. \A V \in view[Home(p)] : V \subseteq store[Home(p)]
      BY <2>0 DEF ShownInv
    <3>5. proc[p].pc = "project" =>
            \A V \in proc[p].seen : V \subseteq (IF Torn THEN proc[p].base ELSE store[Home(p)])
      BY DEF ShownInv
    <3> QED BY <3>1, <3>2, <3>3, <3>4, <3>5 DEF Becomes
  <2>3. ASSUME NEW d \in Device, NEW V \in view'[d] PROVE V \subseteq store'[d]
    <3>1. CASE view' = view
      BY <2>1, <2>3, <3>1 DEF ShownInv
    <3>2. CASE \E p \in Process : \E S \in Loads(p) : view' = [view EXCEPT ![Home(p)] = {S}]
      <4>0. PICK p \in Process : \E S \in Loads(p) : view' = [view EXCEPT ![Home(p)] = {S}]
        BY <3>2
      <4> PICK S \in Loads(p) : view' = [view EXCEPT ![Home(p)] = {S}]
        BY <4>0
      <4>1. S \subseteq store[Home(p)]
        BY LoadsType DEF TypeInv, ShownInv
      <4> QED BY <2>0, <2>1, <2>3, <4>1 DEF ShownInv
    <3> QED BY <1>2, <3>1, <3>2, StepShows
  <2> QED BY <2>2, <2>3 DEF ShownInv
<1> QED BY <1>1, <1>2

LEMMA ShownInvariant == Spec => [](TypeInv /\ ShownInv)
<1>1. Init => ShownInv
  BY Processes DEF Init, ShownInv, Idle
<1>2. Init /\ [][Next]_vars /\ []TypeInv => []ShownInv
  BY <1>1, NextShown, PTL
<1> QED BY <1>2, TypeInvariant, PTL DEF Spec

\* However the worker and the exchanges of a device interleave, it never takes
\* back an event its readers have been shown (publish_current).
THEOREM ViewsOnlyGrow == Spec => ViewsGrow
<1> DEFINE Grows == \A d \in Device : \A V \in view[d] : \E W \in view'[d] : V \subseteq W
<1>1. ASSUME TypeInv, ShownInv, [Next]_vars PROVE Grows \/ UNCHANGED vars
  <2>1. CASE view' = view
    BY <2>1
  <2>2. ASSUME NEW p \in Process, NEW S \in Loads(p), proc[p].pc = "project",
               view[Home(p)] \in {{S}, proc[p].seen}, view' = [view EXCEPT ![Home(p)] = {S}]
        PROVE  Grows
    <3>1. Home(p) \in Device /\ view \in [Device -> SUBSET SUBSET Events]
      BY <1>1, Processes DEF TypeInv, TypeOK
    <3>2. \A V \in proc[p].seen : V \subseteq (IF Torn THEN proc[p].base ELSE store[Home(p)])
      BY <1>1, <2>2 DEF ShownInv
    <3>3. \A V \in proc[p].seen : V \subseteq S
      BY <1>1, <3>2, LoadsType DEF TypeInv
    <3>4. \A V \in view[Home(p)] : V \subseteq S
      BY <2>2, <3>3
    <3>5. view'[Home(p)] = {S} /\ \A d \in Device \ {Home(p)} : view'[d] = view[d]
      BY <2>2, <3>1
    <3> QED BY <3>4, <3>5
  <2> QED BY <1>1, <2>1, <2>2, StepShows
<1>2. TypeInv /\ ShownInv /\ [Next]_vars => [Grows]_vars
  BY <1>1
<1> HIDE DEF Grows
<1>3. Spec => [][Grows]_vars
  BY <1>2, ShownInvariant, PTL DEF Spec
<1> QED BY <1>3 DEF ViewsGrow, Grows

-----------------------------------------------------------------------------
(* The log: signing an event changes nothing that is said of older ones.    *)

LEMMA Frame ==
  ASSUME TypeOK, NEW x, signed' = Append(signed, x), NEW S \in SUBSET Events
  PROVE  /\ Heads(S)' = Heads(S) /\ Past(S)' = Past(S) /\ Complete(S)' = Complete(S)
         /\ Contents(S)' = Contents(S) /\ Mergeable(S)' = Mergeable(S)
         /\ Reserved(S)' = Reserved(S)
         /\ \A d, k : Reservations(S, d, k)' = Reservations(S, d, k)
         /\ \A pair : Version(pair, S)' = Version(pair, S)
         /\ \A pair, version : Receipts(S, pair, version)' = Receipts(S, pair, version)
         /\ \A pair, version : ReceiptHeads(S, pair, version)' = ReceiptHeads(S, pair, version)
         /\ \A pair : PairJob(pair, S)' = PairJob(pair, S)
<1>1. \A e \in S : signed'[e] = signed[e]
  BY Longer
<1>2. \A e \in S : Kind(e)' = Kind(e)
  BY <1>1 DEF Kind
<1>3. Heads(S)' = Heads(S) /\ Past(S)' = Past(S) /\ Complete(S)' = Complete(S)
  BY <1>1 DEF Heads, Past, Complete
<1>4. Contents(S)' = Contents(S) /\ Reserved(S)' = Reserved(S)
  BY <1>1, <1>2 DEF Contents, Reserved
<1>5. \A d, k : Reservations(S, d, k)' = Reservations(S, d, k)
  BY <1>1, <1>2 DEF Reservations
<1>6. \A pair : Version(pair, S)' = Version(pair, S)
  BY <1>4 DEF Version
<1>7. \A pair, version : Receipts(S, pair, version)' = Receipts(S, pair, version)
  BY <1>1, <1>2 DEF Receipts
<1>8. \A pair, version : ReceiptHeads(S, pair, version)' = ReceiptHeads(S, pair, version)
  <2> TAKE pair, version
  <2> DEFINE R == Receipts(S, pair, version)
  <2>1. \A e \in R : signed'[e] = signed[e]
    BY <1>1 DEF Receipts
  <2>2. R' = R
    BY <1>7
  <2>3. ReceiptHeads(S, pair, version) = {e \in R : \A f \in R : e \notin signed[f].job.prior}
    BY DEF ReceiptHeads
  <2>4. ReceiptHeads(S, pair, version)' = {e \in R' : \A f \in R' : e \notin signed'[f].job.prior}
    BY DEF ReceiptHeads
  <2> HIDE DEF R
  <2> QED BY <2>1, <2>2, <2>3, <2>4
<1>9. \A pair : PairJob(pair, S)' = PairJob(pair, S)
  BY <1>6, <1>8 DEF PairJob
<1>10. Mergeable(S)' = Mergeable(S)
  BY <1>4 DEF Mergeable
<1> QED BY <1>3, <1>4, <1>5, <1>6, <1>7, <1>8, <1>9, <1>10

\* An event's past is what its parents and theirs are; it was signed before.
PastInv ==
  \A e \in Events : /\ signed[e].past = Past(signed[e].parents)
                    /\ signed[e].past \subseteq 1 .. (e - 1)

\* A complete set holds the past of its events, and its frontier knows it all.
FrontierInv ==
  \A S \in SUBSET Events : Complete(S) =>
    /\ \A e \in S : signed[e].past \subseteq S
    /\ S \subseteq Past(Heads(S))

LogInv == PastInv /\ FrontierInv

LEMMA FrameReplays ==
  ASSUME TypeOK, PastInv, NEW x, signed' = Append(signed, x), NEW e \in Events
  PROVE  Replays(e)' = Replays(e)
<1>1. signed'[e] = signed[e]
  BY Longer
<1> PICK past : past = signed[e].past
  OBVIOUS
<1>2. past \in SUBSET Events
  BY DEF PastInv, Events, TypeOK
<1>3. \A f \in past : Kind(f)' = Kind(f)
  BY <1>2, Longer DEF Kind
<1>4. \A pair : Version(pair, past)' = Version(pair, past)
  BY <1>2, Frame
<1>5. \A pair, version : ReceiptHeads(past, pair, version)' = ReceiptHeads(past, pair, version)
  BY <1>2, Frame
<1> PICK job : job = signed[e].job
  OBVIOUS
<1>6. Replays(e) <=> /\ job.version # {} /\ job.version = Version(job.pair, past)
                     /\ job.prior \subseteq {f \in past : Kind(f) = "resolution"}
                     /\ job.prior # {} => job.prior = ReceiptHeads(past, job.pair, job.version)
  BY DEF Replays
<1>7. Replays(e)' <=> /\ job.version # {} /\ job.version = Version(job.pair, past)'
                      /\ job.prior \subseteq {f \in past : Kind(f)' = "resolution"}
                      /\ job.prior # {} => job.prior = ReceiptHeads(past, job.pair, job.version)'
  BY <1>1 DEF Replays
<1>8. {f \in past : Kind(f)' = "resolution"} = {f \in past : Kind(f) = "resolution"}
  BY <1>3
<1>9. Replays(e)' <=> Replays(e)
  BY <1>4, <1>5, <1>6, <1>7, <1>8
<1> QED BY <1>9 DEF Replays

LEMMA FrameProjects ==
  ASSUME TypeOK, PastInv, NEW x, signed' = Append(signed, x), NEW S \in SUBSET Events
  PROVE  Projects(S)' = Projects(S)
<1>1. \A e \in S : Replays(e)' = Replays(e) /\ Kind(e)' = Kind(e)
  BY FrameReplays, Longer DEF Kind
<1>2. Complete(S)' = Complete(S) /\ Mergeable(S)' = Mergeable(S)
  BY Frame
<1> QED BY <1>1, <1>2 DEF Projects

\* What a complete set's frontier knows is that set.
LEMMA FrontierKnows ==
  ASSUME FrontierInv, NEW S \in SUBSET Events, Complete(S)
  PROVE  Past(Heads(S)) = S
BY DEF FrontierInv, Past, Heads

LEMMA AppendLog ==
  ASSUME TypeOK, LogInv, NEW x \in Event, x.parents \in SUBSET Events,
         x.past = Past(x.parents), signed' = Append(signed, x)
  PROVE  LogInv'
<1> DEFINE m == Len(signed) + 1
<1>0. /\ Len(signed) \in Nat /\ Events' = Events \cup {m} /\ m \notin Events
      /\ \A e \in Events : signed'[e] = signed[e] /\ e \in Nat /\ e <= Len(signed)
      /\ signed'[m] = x
  BY Longer
<1>1. \A e \in Events : signed[e].past \in SUBSET Events /\ signed[e].parents \in SUBSET Events
  BY <1>0, EventTypes DEF PastInv, LogInv, Events
<1>2. x.past \in SUBSET Events
  BY <1>1 DEF Past
<1>3. PastInv'
  <2> SUFFICES ASSUME NEW e \in Events'
               PROVE  (/\ signed[e].past = Past(signed[e].parents)
                       /\ signed[e].past \subseteq 1 .. (e - 1))'
    BY DEF PastInv
  <2>1. CASE e \in Events
    <3> PICK parents : parents = signed[e].parents
      OBVIOUS
    <3>1. Past(parents)' = Past(parents)
      BY <1>1, <2>1, Frame
    <3>2. signed[e].past = Past(parents) /\ signed[e].past \subseteq 1 .. (e - 1)
      BY <2>1 DEF LogInv, PastInv
    <3>3. signed'[e] = signed[e] /\ parents = signed'[e].parents
      BY <1>0, <2>1
    <3> QED BY <3>1, <3>2, <3>3 DEF Past
  <2>2. CASE e = m
    <3> PICK parents : parents = x.parents
      OBVIOUS
    <3>1. Past(parents)' = Past(parents) /\ parents = signed'[e].parents
      BY <1>0, <2>2, Frame
    <3>2. x.past \subseteq 1 .. (m - 1)
      BY <1>0, <1>2 DEF Events
    <3> QED BY <1>0, <2>2, <3>1, <3>2 DEF Past
  <2> QED BY <1>0, <2>1, <2>2
<1>4. FrontierInv'
  <2> SUFFICES ASSUME NEW S \in SUBSET Events', Complete(S)'
               PROVE  /\ \A e \in S : signed'[e].past \subseteq S
                      /\ S \subseteq Past(Heads(S))'
    BY DEF FrontierInv
  <2> DEFINE T == S \ {m}
  <2>1. T \in SUBSET Events
    BY <1>0
  <2>2. Complete(T)
    <3> SUFFICES ASSUME NEW e \in T PROVE signed[e].parents \subseteq T
      BY DEF Complete
    <3>1. signed[e].parents \subseteq S
      BY <1>0, <2>1 DEF Complete
    <3> QED BY <1>0, <1>1, <2>1, <3>1
  <2>3. (\A e \in T : signed[e].past \subseteq T) /\ T \subseteq Past(Heads(T))
    <3> HIDE DEF T
    <3> QED BY <2>1, <2>2 DEF LogInv, FrontierInv
  <2>4. CASE m \notin S
    <3>1. S = T
      BY <2>4
    <3>2. Heads(S)' = Heads(S) /\ Heads(S) \in SUBSET Events
      BY <2>1, <3>1, Frame DEF Heads
    <3>3. Past(Heads(S))' = Past(Heads(S))
      BY <3>2, Frame
    <3> QED BY <1>0, <2>1, <2>3, <3>1, <3>2, <3>3
  <2>5. CASE m \in S
    <3>1. x.parents \subseteq T
      BY <1>0, <2>5 DEF Complete
    <3>2. x.past \subseteq T
      BY <2>3, <3>1 DEF Past
    <3>3. \A e \in S : signed'[e].past \subseteq S
      BY <1>0, <2>1, <2>3, <2>5, <3>2
    <3>4. m \in Heads(S)'
      BY <1>0, <1>1, <2>1, <2>5 DEF Heads
    <3>5. ASSUME NEW e \in T PROVE e \in Past(Heads(S))'
      <4>1. PICK h \in Heads(T) : e = h \/ e \in signed[h].past
        BY <2>3, <3>5 DEF Past
      <4>2. h \in T /\ signed'[h] = signed[h]
        BY <1>0, <2>1, <4>1 DEF Heads
      <4>3. CASE h \in x.parents
        <5>1. e \in x.past
          BY <4>1, <4>3 DEF Past
        <5> QED BY <1>0, <3>4, <5>1 DEF Past
      <4>4. CASE h \notin x.parents
        <5>1. h \in Heads(S)'
          BY <1>0, <2>1, <4>1, <4>2, <4>4 DEF Heads
        <5> QED BY <4>1, <4>2, <5>1 DEF Past
      <4> QED BY <4>3, <4>4
    <3>6. m \in Past(Heads(S))'
      BY <3>4 DEF Past
    <3> QED BY <3>3, <3>5, <3>6
  <2> QED BY <2>4, <2>5
<1> QED BY <1>3, <1>4 DEF LogInv

-----------------------------------------------------------------------------
(* Who signs what.                                                         *)

Publication(d, S, c) ==
  [kind |-> "publication", device |-> d, parents |-> Heads(S), past |-> Past(Heads(S)),
   content |-> c]

Reservation(d, S) ==
  [kind |-> "reservation", device |-> d, parents |-> Heads(S), past |-> Past(Heads(S)),
   job |-> NextJob(task[d].queue), epoch |-> task[d].epoch, retry |-> task[d].retry]

Resolution(d, a) ==
  [kind |-> "resolution", device |-> d, parents |-> ResolutionParents(d),
   past |-> Past(ResolutionParents(d)), job |-> NextJob(task[d].queue), action |-> a]

\* d reserves its next job, having loaded S.
Reserving(d, S) ==
  LET job == NextJob(task[d].queue) IN
  /\ proc[Worker(d)].pc = "reload" /\ S \in Loads(Worker(d))
  /\ Projects(S)
  /\ job \in EligibleJobs(S, task[d].excluded)
  /\ task[d].retry \/ job \notin Reserved(S)
  /\ Cardinality(Reservations(S, d, task[d].epoch)) < Requests
  /\ Sign(d, Reservation(d, S))
  /\ task' = [task EXCEPT ![d].reservation = Len(signed) + 1]
  /\ spent' = [spent EXCEPT ![d][task[d].epoch] = @ + 1]
  /\ proc' = [proc EXCEPT ![Worker(d)] = [Idle EXCEPT !.pc = "resolve", !.held = S]]

\* d publishes c, having loaded S.
Publishing(d, S, c) ==
  S \in Loads(Worker(d)) /\ Projects(S) /\ Sign(d, Publication(d, S, c)) /\ UNCHANGED spent

\* d signs an answer.
Resolving(d, a) ==
  proc[Worker(d)].pc = "resolve" /\ Sign(d, Resolution(d, a)) /\ UNCHANGED spent

LEMMA ReserveSigns ==
  ASSUME NEW d \in Device, Reserve(d)
  PROVE  \/ Continues(d, task[d].queue \ {NextJob(task[d].queue)}) /\ UNCHANGED <<signed, spent>>
         \/ Fails(Worker(d))
         \/ \E S \in Loads(Worker(d)) : Reserving(d, S)
BY DEF Reserve, Reserving, Reservation

LEMMA PublishSigns ==
  ASSUME TypeInv, NEW d \in Device, Publish(d)
  PROVE  \/ UNCHANGED <<signed, spent>>
         \/ \E S \in Loads(Worker(d)), c \in Content : Publishing(d, S, c)
<1>0. task[d].content \in Content
  BY Processes, TaskTypes DEF TypeInv, TypeOK, Control, WorkerControl, Publish
<1>1. PICK S \in Loads(Worker(d)) :
        \/ UNCHANGED <<signed, spent>>
        \/ Projects(S) /\ Sign(d, Publication(d, S, task[d].content)) /\ UNCHANGED spent
  BY DEF Publish, Publication, Fails
<1> QED BY <1>0, <1>1 DEF Publishing

LEMMA StepSigns ==
  ASSUME TypeInv, Next
  PROVE  \/ UNCHANGED <<signed, spent>>
         \/ \E d \in Device : \/ \E S \in Loads(Worker(d)), c \in Content : Publishing(d, S, c)
                              \/ \E S \in Loads(Worker(d)) : Reserving(d, S)
                              \/ \E a \in Action : Resolving(d, a)
<1> DEFINE Quietly == UNCHANGED <<signed, spent>>
           Signs(d) == \/ \E S \in Loads(Worker(d)), c \in Content : Publishing(d, S, c)
                       \/ \E S \in Loads(Worker(d)) : Reserving(d, S)
                       \/ \E a \in Action : Resolving(d, a)
<1>1. ASSUME NEW d \in Device, WorkerStep(d) PROVE Quietly \/ Signs(d)
  <2>1. CASE Publish(d)
    BY <2>1, PublishSigns
  <2>2. CASE QueueJobs(d)
    BY <2>2 DEF QueueJobs, Fails
  <2>3. CASE Reserve(d)
    BY <2>3, ReserveSigns DEF Fails
  <2>4. CASE RequestFails(d)
    BY <2>4 DEF RequestFails, Fails
  <2>5. CASE \E a \in Action : Resolve(d, a)
    <3>1. PICK a \in Action : Resolve(d, a)
      BY <2>5
    <3>2. Resolving(d, a)
      BY <3>1 DEF Resolve, Resolving, Resolution
    <3> QED BY <3>2
  <2> QED BY <1>1, <2>1, <2>2, <2>3, <2>4, <2>5 DEF WorkerStep
<1>2. ASSUME NEW d \in Device, NEW c \in Content, StartPublish(d, c) PROVE Quietly
  BY <1>2 DEF StartPublish
<1>3. ASSUME NEW d \in Device, NEW k \in Epoch, NEW r \in Retry, StartReconcile(d, k, r)
      PROVE  Quietly
  BY <1>3 DEF StartReconcile
<1>4. ASSUME NEW s \in Session, Connect(s) \/ SessionStep(s) \/ Cut(s) PROVE Quietly
  BY <1>4 DEF Connect, Cut, SessionStep, SendPage, ReceiveRequest, LoadForRequest, ReceiveReply,
              SendReply, Fails
<1>5. ASSUME NEW p \in Process, SharedStep(p) \/ LockBusy(p) \/ Interrupt(p) PROVE Quietly
  BY <1>5 DEF SharedStep, ReadCurrent, PublishView, PersistEvent, Staged, HangUp, LockBusy,
              Interrupt, Fails
<1> HIDE DEF Quietly, Signs
<1>6. Quietly \/ \E d \in Device : Signs(d)
  BY <1>1, <1>2, <1>3, <1>4, <1>5 DEF Next
<1> QED BY <1>6 DEF Quietly, Signs

\* What a signing step signs is well formed, and over what its signer holds.
LEMMA SignedEvent ==
  ASSUME TypeInv, NEW d \in Device
  PROVE  /\ \A S \in Loads(Worker(d)), c \in Content : Publishing(d, S, c) =>
              LET x == Publication(d, S, c) IN
              x \in Event /\ x.parents \in SUBSET Events /\ x.past = Past(x.parents)
         /\ \A S \in Loads(Worker(d)) : Reserving(d, S) =>
              LET x == Reservation(d, S) IN
              x \in Event /\ x.parents \in SUBSET Events /\ x.past = Past(x.parents)
         /\ \A a \in Action : Resolving(d, a) =>
              LET x == Resolution(d, a) IN
              x \in Event /\ x.parents \in SUBSET Events /\ x.past = Past(x.parents)
<1>0. TypeOK /\ Worker(d) \in Process
  BY Processes DEF TypeInv
<1>1. \A S \in Loads(Worker(d)) :
        S \in SUBSET Events /\ Heads(S) \in SUBSET Events /\ Heads(S) \in SUBSET Nat
        /\ Past(Heads(S)) \in SUBSET Nat
  BY <1>0, LoadsType, SetTypes DEF Events
<1>2. ASSUME NEW S \in Loads(Worker(d)), NEW c \in Content
      PROVE  LET x == Publication(d, S, c) IN
             x \in Event /\ x.parents \in SUBSET Events /\ x.past = Past(x.parents)
  BY <1>1 DEF Publication, Event
<1>3. ASSUME proc[Worker(d)].pc \in {"reload", "resolve"}
      PROVE  /\ task[d] \in ReconcileTask /\ NextJob(task[d].queue) \in Job
             /\ proc[Worker(d)].pc = "resolve" => task[d].reservation \in Events
  <2>1. /\ task[d].kind = "reconcile" /\ task[d].queue # {} /\ task[d] \in Task
        /\ proc[Worker(d)].pc = "resolve" => task[d].reservation # 0
    BY <1>3 DEF TypeInv, TypeOK, Control, WorkerControl
  <2>2. task[d] \in ReconcileTask
    BY <2>1, TaskTypes
  <2>3. NextJob(task[d].queue) \in task[d].queue /\ task[d].queue \in SUBSET Job
    BY <2>1, <2>2, NextJobInQueue DEF ReconcileTask
  <2> QED BY <2>1, <2>2, <2>3 DEF ReconcileTask
<1>4. ASSUME NEW S \in Loads(Worker(d)), Reserving(d, S)
      PROVE  LET x == Reservation(d, S) IN
             x \in Event /\ x.parents \in SUBSET Events /\ x.past = Past(x.parents)
  <2>1. proc[Worker(d)].pc = "reload"
    BY <1>4 DEF Reserving
  <2>2. task[d].epoch \in Epoch /\ task[d].retry \in BOOLEAN /\ NextJob(task[d].queue) \in Job
    BY <1>3, <2>1 DEF ReconcileTask
  <2> QED BY <1>1, <2>2 DEF Reservation, Event
<1>5. ASSUME NEW a \in Action, Resolving(d, a)
      PROVE  LET x == Resolution(d, a) IN
             x \in Event /\ x.parents \in SUBSET Events /\ x.past = Past(x.parents)
  <2> DEFINE parents == ResolutionParents(d)
  <2>1. proc[Worker(d)].pc = "resolve"
    BY <1>5 DEF Resolving
  <2>2. task[d].reservation \in Events /\ NextJob(task[d].queue) \in Job
    BY <1>3, <2>1
  <2>3. proc[Worker(d)].held \in SUBSET Events
    BY <1>0 DEF TypeOK, Local
  <2>4. parents \in SUBSET Events
    BY <1>0, <2>2, <2>3, SetTypes DEF ResolutionParents
  <2>5. parents \in SUBSET Nat /\ Past(parents) \in SUBSET Nat
    BY <1>0, <2>4, SetTypes DEF Events
  <2> HIDE DEF parents
  <2>6. Resolution(d, a) = [kind |-> "resolution", device |-> d, parents |-> parents,
                            past |-> Past(parents), job |-> NextJob(task[d].queue), action |-> a]
    BY DEF Resolution, parents
  <2>7. Resolution(d, a) \in Event
    BY <2>2, <2>5, <2>6 DEF Event
  <2> QED BY <2>4, <2>6, <2>7
<1> QED BY <1>2, <1>4, <1>5

LEMMA StepAppends ==
  ASSUME TypeInv, Next
  PROVE  \/ UNCHANGED signed
         \/ \E x \in Event : /\ x.parents \in SUBSET Events /\ x.past = Past(x.parents)
                             /\ signed' = Append(signed, x)
<1>1. ASSUME NEW d \in Device, NEW S \in Loads(Worker(d)), NEW c \in Content, Publishing(d, S, c)
      PROVE  \E x \in Event : /\ x.parents \in SUBSET Events /\ x.past = Past(x.parents)
                              /\ signed' = Append(signed, x)
  BY <1>1, SignedEvent DEF Publishing, Sign
<1>2. ASSUME NEW d \in Device, NEW S \in Loads(Worker(d)), Reserving(d, S)
      PROVE  \E x \in Event : /\ x.parents \in SUBSET Events /\ x.past = Past(x.parents)
                              /\ signed' = Append(signed, x)
  BY <1>2, SignedEvent DEF Reserving, Sign
<1>3. ASSUME NEW d \in Device, NEW a \in Action, Resolving(d, a)
      PROVE  \E x \in Event : /\ x.parents \in SUBSET Events /\ x.past = Past(x.parents)
                              /\ signed' = Append(signed, x)
  BY <1>3, SignedEvent DEF Resolving, Sign
<1> QED BY <1>1, <1>2, <1>3, StepSigns

LEMMA SameLog ==
  ASSUME UNCHANGED signed
  PROVE  LogInv' = LogInv
BY DEF LogInv, PastInv, FrontierInv, Events, Past, Complete, Heads

LEMMA LogInvariant == Spec => [](TypeInv /\ LogInv)
<1>1. Init => LogInv
  <2> SUFFICES ASSUME Init PROVE LogInv
    OBVIOUS
  <2>1. Events = {}
    BY DEF Init, Events
  <2> QED BY <2>1 DEF LogInv, PastInv, FrontierInv
<1>2. TypeInv /\ LogInv /\ [Next]_vars => LogInv'
  <2> SUFFICES ASSUME TypeInv, LogInv, [Next]_vars PROVE LogInv'
    OBVIOUS
  <2>1. CASE UNCHANGED signed
    BY <2>1, SameLog
  <2>2. CASE ~ UNCHANGED signed
    BY <2>2, StepAppends, AppendLog DEF vars, TypeInv
  <2> QED BY <2>1, <2>2
<1>3. Init /\ [][Next]_vars /\ []TypeInv => []LogInv
  BY <1>1, <1>2, PTL
<1> QED BY <1>3, TypeInvariant, PTL DEF Spec

-----------------------------------------------------------------------------
(* What is published.                                                      *)

PublishedInv == \A d \in Device : \A V \in view[d] : V \subseteq store[d] /\ Projects(V)

LEMMA NextPublished ==
  TypeInv /\ LogInv /\ ShownInv /\ PublishedInv /\ [Next]_vars => PublishedInv'
<1> SUFFICES ASSUME TypeInv, LogInv, ShownInv, PublishedInv, [Next]_vars PROVE PublishedInv'
  OBVIOUS
<1>0. /\ TypeOK /\ \A p \in Process : Home(p) \in Device
      /\ store \in [Device -> SUBSET Events]
      /\ view \in [Device -> SUBSET SUBSET Events]
  BY Processes DEF TypeInv, TypeOK
<1>1. ASSUME NEW V \in SUBSET Events, Projects(V) PROVE Projects(V)'
  <2>1. CASE UNCHANGED signed
    BY <1>1, <2>1 DEF Projects, Complete, Mergeable, Contents, Kind, Replays, Version,
                      ReceiptHeads, Receipts
  <2>2. CASE \E x : signed' = Append(signed, x)
    BY <1>0, <1>1, <2>2, FrameProjects DEF LogInv
  <2> QED BY <2>1, <2>2, StepAppends DEF vars
<1>2. ASSUME NEW d \in Device, NEW V \in view'[d]
      PROVE  V \in SUBSET Events /\ Projects(V) /\ V \subseteq store'[d]
  <2>1. CASE view' = view /\ store' = store
    BY <1>0, <1>2, <2>1 DEF PublishedInv
  <2>2. CASE Next
    <3>1. \A e \in Device : store[e] \subseteq store'[e]
      BY <2>2, StepShows
    <3>2. CASE view' = view
      BY <1>0, <1>2, <3>1, <3>2 DEF PublishedInv
    <3>3. ASSUME NEW p \in Process, NEW S \in Loads(p), Projects(S),
                 view' = [view EXCEPT ![Home(p)] = {S}]
          PROVE  V \in SUBSET Events /\ Projects(V) /\ V \subseteq store'[d]
      <4>1. S \in SUBSET Events /\ S \subseteq store[Home(p)]
        BY <1>0, LoadsType DEF ShownInv
      <4> QED BY <1>0, <1>2, <3>1, <3>3, <4>1 DEF PublishedInv
    <3> QED BY <2>2, <3>2, <3>3, StepShows
  <2> QED BY <2>1, <2>2 DEF vars
<1> QED BY <1>1, <1>2 DEF PublishedInv

\* What a device shows is a complete history in its ledger, whatever gaps the
\* exchanges leave there (publish_current, accept).
THEOREM PublishedComplete == Spec => []PublishedIsComplete
<1>1. Init => PublishedInv
  BY DEF Init, PublishedInv
<1>2. Init /\ [][Next]_vars /\ [](TypeInv /\ LogInv) /\ [](TypeInv /\ ShownInv) => []PublishedInv
  BY <1>1, NextPublished, PTL
<1>3. TypeInv /\ LogInv /\ PublishedInv => PublishedIsComplete
  <2> SUFFICES ASSUME TypeInv, LogInv, PublishedInv, NEW d \in Device, NEW V \in view[d]
               PROVE  V \subseteq store[d] /\ \A e \in V : signed[e].past \subseteq V
    BY DEF PublishedIsComplete
  <2>1. V \subseteq store[d] /\ Complete(V) /\ V \in SUBSET Events
    BY DEF PublishedInv, Projects, TypeInv, TypeOK
  <2> QED BY <2>1 DEF LogInv, FrontierInv
<1> QED BY <1>2, <1>3, LogInvariant, ShownInvariant, PTL DEF Spec

-----------------------------------------------------------------------------
(* Reservations.                                                           *)

\* The event of a reserving step knows exactly what its device had loaded.
LEMMA ReservationKnows ==
  ASSUME TypeInv, LogInv, NEW d \in Device, NEW S \in Loads(Worker(d)), Reserving(d, S)
  PROVE  S \in SUBSET Events /\ Complete(S) /\ Reservation(d, S).past = S
<1>1. S \in SUBSET Events
  BY LoadsType, Processes DEF TypeInv
<1>2. Complete(S)
  BY DEF Reserving, Projects
<1>3. Past(Heads(S)) = S
  BY <1>1, <1>2, FrontierKnows DEF LogInv
<1> QED BY <1>1, <1>2, <1>3 DEF Reservation

LEMMA NextAsked ==
  TypeInv /\ LogInv /\ AskedOnceUnlessConcurrent /\ [Next]_vars => AskedOnceUnlessConcurrent'
<1> SUFFICES ASSUME TypeInv, LogInv, AskedOnceUnlessConcurrent, [Next]_vars
             PROVE  AskedOnceUnlessConcurrent'
  OBVIOUS
<1>1. CASE UNCHANGED signed
  BY <1>1 DEF AskedOnceUnlessConcurrent, Events, Kind
<1>2. ASSUME NEW x, signed' = Append(signed, x),
             x.kind = "reservation" /\ ~ x.retry =>
               \A e \in Events : Kind(e) = "reservation" /\ signed[e].job = x.job => e \notin x.past,
             x.past \in SUBSET Events
      PROVE  AskedOnceUnlessConcurrent'
  <2> DEFINE m == Len(signed) + 1
  <2>0. /\ Len(signed) \in Nat /\ Events' = Events \cup {m} /\ m \notin Events
        /\ \A e \in Events : signed'[e] = signed[e]
        /\ signed'[m] = x
    BY <1>2, Longer DEF TypeInv
  <2>1. \A e \in Events : signed[e].past \in SUBSET Events
    BY <2>0 DEF LogInv, PastInv, Events
  <2> SUFFICES ASSUME NEW e \in Events', NEW f \in Events',
                      signed'[e].kind = "reservation", signed'[f].kind = "reservation",
                      signed'[e].job = signed'[f].job, ~ signed'[f].retry
               PROVE  e \notin signed'[f].past
    BY DEF AskedOnceUnlessConcurrent, Kind
  <2> HIDE DEF m
  <2>2. CASE f = m
    BY <1>2, <2>0, <2>2 DEF Kind
  <2>3. CASE f \in Events /\ e \in Events
    BY <2>0, <2>3 DEF AskedOnceUnlessConcurrent, Kind
  <2>4. CASE f \in Events /\ e = m
    BY <2>0, <2>1, <2>4
  <2> QED BY <2>0, <2>2, <2>3, <2>4
<1>3. \A e \in Events : signed[e].past \in SUBSET Events
  BY DEF LogInv, PastInv, Events, TypeInv, TypeOK
<1>4. ASSUME NEW d \in Device, NEW S \in Loads(Worker(d)), NEW c \in Content, Publishing(d, S, c)
      PROVE  AskedOnceUnlessConcurrent'
  <2>1. /\ signed' = Append(signed, Publication(d, S, c))
        /\ Publication(d, S, c).kind = "publication"
    BY <1>4 DEF Publishing, Sign, Publication
  <2>2. Publication(d, S, c).past \in SUBSET Events
    BY <1>3, <1>4, SignedEvent DEF Past
  <2> QED BY <1>2, <2>1, <2>2
<1>5. ASSUME NEW d \in Device, NEW S \in Loads(Worker(d)), Reserving(d, S)
      PROVE  AskedOnceUnlessConcurrent'
  <2> PICK x : x = Reservation(d, S)
    OBVIOUS
  <2>1. signed' = Append(signed, x)
    BY <1>5 DEF Reserving, Sign
  <2>2. x.past = S /\ S \in SUBSET Events
    BY <1>5, ReservationKnows
  <2>3. x.retry = task[d].retry /\ x.job = NextJob(task[d].queue)
    BY DEF Reservation
  <2>4. ~ x.retry => x.job \notin Reserved(S)
    BY <1>5, <2>3 DEF Reserving
  <2>5. ~ x.retry => \A e \in Events : Kind(e) = "reservation" /\ signed[e].job = x.job => e \notin x.past
    BY <2>2, <2>4 DEF Reserved
  <2> QED BY <1>2, <2>1, <2>2, <2>5
<1>6. ASSUME NEW d \in Device, NEW a \in Action, Resolving(d, a)
      PROVE  AskedOnceUnlessConcurrent'
  <2>1. signed' = Append(signed, Resolution(d, a)) /\ Resolution(d, a).kind = "resolution"
    BY <1>6 DEF Resolving, Sign, Resolution
  <2>2. Resolution(d, a).past \in SUBSET Events
    BY <1>3, <1>6, SignedEvent DEF Past
  <2> QED BY <1>2, <2>1, <2>2
<1> QED BY <1>1, <1>4, <1>5, <1>6, StepSigns DEF vars

\* Without --retry nobody pays for a question that it can know has been
\* reserved before (deferred_attempts, reconcile).
THEOREM AskedOnce == Spec => []AskedOnceUnlessConcurrent
<1>1. Init => AskedOnceUnlessConcurrent
  <2>1. Init => Events = {}
    BY DEF Init, Events
  <2> QED BY <2>1 DEF AskedOnceUnlessConcurrent
<1>2. Init /\ [][Next]_vars /\ [](TypeInv /\ LogInv) => []AskedOnceUnlessConcurrent
  BY <1>1, NextAsked, PTL
<1> QED BY <1>2, LogInvariant, PTL DEF Spec

-----------------------------------------------------------------------------
(* What a worker has in hand.                                              *)

\* How a step changes the worker of d: a load before a job begins, or ends with
\* a reservation, or the step is of no concern here.
WorkerGoes(d) ==
  \/ proc'[Worker(d)] = proc[Worker(d)] /\ task'[d] = task[d]
  \/ proc'[Worker(d)].pc \notin {"reload", "resolve"}
  \/ proc'[Worker(d)] = Loading("reload", d)
  \/ \E S \in Loads(Worker(d)) : Reserving(d, S)

\* One process's turn.
LEMMA TurnGoes ==
  ASSUME TypeInv, NEW p \in Process, \A q \in Process \ {p} : proc'[q] = proc[q],
         \A d \in Device : p # Worker(d) => task'[d] = task[d],
         \A d \in Device : p = Worker(d) => \/ proc'[p].pc \notin {"reload", "resolve"}
                                            \/ proc'[p] = Loading("reload", d)
  PROVE  \A d \in Device : WorkerGoes(d)
BY Processes DEF WorkerGoes

LEMMA EndsGoes ==
  ASSUME TypeInv, NEW p \in Process, Ends(p)
  PROVE  \A d \in Device : WorkerGoes(d)
<1>1. proc \in [Process -> Local] /\ task \in [Device -> Task]
  BY DEF TypeInv, TypeOK
<1>2. proc' = [proc EXCEPT ![p] = Idle]
  BY DEF Ends
<1>3. proc'[p].pc = "idle" /\ \A q \in Process \ {p} : proc'[q] = proc[q]
  BY <1>1, <1>2 DEF Idle
<1>4. \A d \in Device : p # Worker(d) => task'[d] = task[d]
  <2> SUFFICES ASSUME NEW d \in Device, p # Worker(d) PROVE task'[d] = task[d]
    OBVIOUS
  <2>1. CASE \E e \in Device : p = Worker(e)
    <3> PICK e \in Device : p = Worker(e)
      BY <2>1
    <3>1. task' = [task EXCEPT ![e] = NoTask]
      BY Roles DEF Ends
    <3> QED BY <1>1, <3>1
  <2>2. CASE \E s \in Session : p = ClientOf(s) \/ p = ServerOf(s)
    BY <2>2, Roles DEF Ends
  <2> QED BY <2>1, <2>2, Processes
<1> QED BY <1>3, <1>4, TurnGoes

LEMMA ContinuesGoes ==
  ASSUME TypeInv, NEW e \in Device, NEW queue, Continues(e, queue)
  PROVE  \A d \in Device : WorkerGoes(d)
<1>1. proc \in [Process -> Local] /\ task \in [Device -> Task] /\ Worker(e) \in Process
  BY Processes DEF TypeInv, TypeOK
<1>2. \/ /\ proc' = [proc EXCEPT ![Worker(e)] = Idle]
         /\ task' = [task EXCEPT ![e] = NoTask]
      \/ /\ proc' = [proc EXCEPT ![Worker(e)] = Loading("reload", e)]
         /\ task' = [task EXCEPT ![e].queue = queue, ![e].reservation = 0]
  BY DEF Continues
<1>3. proc'[Worker(e)].pc = "idle" \/ proc'[Worker(e)] = Loading("reload", e)
  BY <1>1, <1>2 DEF Idle
<1>4. \A q \in Process \ {Worker(e)} : proc'[q] = proc[q]
  BY <1>1, <1>2
<1>5. \A d \in Device \ {e} : task'[d] = task[d]
  BY <1>1, <1>2
<1>6. \A d \in Device : Worker(e) = Worker(d) => d = e
  BY Distinct
<1> QED BY <1>1, <1>3, <1>4, <1>5, <1>6, TurnGoes

LEMMA ReturnsGoes ==
  ASSUME TypeInv, NEW p \in Process, Returns(p)
  PROVE  \A d \in Device : WorkerGoes(d)
<1>1. proc \in [Process -> Local]
  BY DEF TypeInv, TypeOK
<1>2. CASE \E e \in Device : p = Worker(e)
  <2> PICK e \in Device : p = Worker(e)
    BY <1>2
  <2>1. WorkerReturns(e)
    BY ReturnsRoles
  <2>2. \E queue : Continues(e, queue)
    BY <2>1, Zenon DEF WorkerReturns
  <2> QED BY <2>2, ContinuesGoes
<1>3. CASE \E s \in Session : p = ClientOf(s) \/ p = ServerOf(s)
  <2>1. \A d \in Device : p # Worker(d)
    BY <1>3, Distinct
  <2>2. UNCHANGED task /\ \E x : proc' = [proc EXCEPT ![p] = x]
    BY ZenonT(60), <1>3, ReturnsRoles DEF ServerReturns, CallerReturns
  <2>3. \A q \in Process \ {p} : proc'[q] = proc[q]
    BY <1>1, <2>2
  <2> QED BY <2>1, <2>2, <2>3, TurnGoes
<1> QED BY <1>2, <1>3, Processes

LEMMA RetriesGoes ==
  ASSUME TypeInv, NEW p \in Process, Retries(p)
  PROVE  \A d \in Device : WorkerGoes(d)
<1>0. proc \in [Process -> Local] /\ proc[p] \in Local
  BY DEF TypeInv, TypeOK
<1>1. CASE /\ proc' = [proc EXCEPT ![p].pc = "current", ![p].tries = @ + 1,
                                   ![p].seen = {}, ![p].base = {}]
           /\ UNCHANGED <<task, known, wire>>
  <2>1. proc'[p].pc = "current" /\ \A q \in Process \ {p} : proc'[q] = proc[q]
    BY <1>0, <1>1 DEF Local
  <2> QED BY <1>1, <2>1, TurnGoes
<1>2. CASE Ends(p)
  BY <1>2, EndsGoes
<1> QED BY <1>1, <1>2 DEF Retries

LEMMA WorkerStepGoes ==
  ASSUME TypeInv, NEW e \in Device, WorkerStep(e)
  PROVE  \A d \in Device : WorkerGoes(d)
<1>0. /\ proc \in [Process -> Local] /\ task \in [Device -> Task] /\ Worker(e) \in Process
      /\ \A d \in Device : Worker(e) = Worker(d) => d = e
  BY Processes, Distinct DEF TypeInv, TypeOK
<1>f. ASSUME Fails(Worker(e)) PROVE \A d \in Device : WorkerGoes(d)
  BY <1>0, <1>f, EndsGoes DEF Fails
<1>c. ASSUME proc' = [proc EXCEPT ![Worker(e)] = Current], UNCHANGED task
      PROVE  \A d \in Device : WorkerGoes(d)
  <2>1. proc'[Worker(e)].pc = "current"
    BY <1>0, <1>c, CurrentTypes
  <2>2. \A q \in Process \ {Worker(e)} : proc'[q] = proc[q]
    BY <1>0, <1>c
  <2> QED BY <1>0, <1>c, <2>1, <2>2, TurnGoes
<1>1. CASE Publish(e)
  <2>1. (proc' = [proc EXCEPT ![Worker(e)] = Current] /\ UNCHANGED task) \/ Fails(Worker(e))
    BY <1>1 DEF Publish
  <2> QED BY <2>1, <1>c, <1>f
<1>2. CASE QueueJobs(e)
  <2>1. PICK queue, excluded :
        \/ /\ proc' = [proc EXCEPT ![Worker(e)] = Idle]
           /\ task' = [task EXCEPT ![e] = NoTask]
        \/ /\ proc' = [proc EXCEPT ![Worker(e)] = Loading("reload", e)]
           /\ task' = [task EXCEPT ![e].queue = queue, ![e].excluded = excluded]
        \/ Fails(Worker(e))
    BY <1>2 DEF QueueJobs
  <2>2. CASE ~ Fails(Worker(e))
    <3>1. proc'[Worker(e)].pc = "idle" \/ proc'[Worker(e)] = Loading("reload", e)
      BY <1>0, <2>1, <2>2 DEF Idle
    <3>2. \A q \in Process \ {Worker(e)} : proc'[q] = proc[q]
      BY <1>0, <2>1, <2>2
    <3>3. \A d \in Device \ {e} : task'[d] = task[d]
      BY <1>0, <2>1, <2>2
    <3> QED BY <1>0, <3>1, <3>2, <3>3, TurnGoes
  <2> QED BY <2>2, <1>f
<1>3. CASE Reserve(e)
  <2>1. ASSUME NEW S \in Loads(Worker(e)), Reserving(e, S)
        PROVE  \A d \in Device : WorkerGoes(d)
    <3>1. /\ proc' = [proc EXCEPT ![Worker(e)] = [Idle EXCEPT !.pc = "resolve", !.held = S]]
          /\ task' = [task EXCEPT ![e].reservation = Len(signed) + 1]
      BY <2>1 DEF Reserving
    <3>2. \A d \in Device \ {e} : proc'[Worker(d)] = proc[Worker(d)] /\ task'[d] = task[d]
      BY <1>0, <3>1, Processes
    <3> QED BY <2>1, <3>2 DEF WorkerGoes
  <2> QED BY <1>3, <1>f, <2>1, ReserveSigns, ContinuesGoes
<1>4. CASE RequestFails(e)
  BY <1>4, <1>f DEF RequestFails
<1>5. CASE \E a \in Action : Resolve(e, a)
  BY <1>5, <1>c DEF Resolve
<1> QED BY <1>1, <1>2, <1>3, <1>4, <1>5 DEF WorkerStep

LEMMA StepGoes ==
  ASSUME TypeInv, Next
  PROVE  \A d \in Device : WorkerGoes(d)
<1>0. proc \in [Process -> Local] /\ task \in [Device -> Task]
      /\ \A p \in Process : proc[p] \in Local
  BY DEF TypeInv, TypeOK
<1>1. ASSUME NEW e \in Device, NEW pc \in {"publish", "queue"}, NEW t,
             proc' = [proc EXCEPT ![Worker(e)] = Loading(pc, e)], task' = [task EXCEPT ![e] = t]
      PROVE  \A d \in Device : WorkerGoes(d)
  <2>1. Worker(e) \in Process /\ \A d \in Device : Worker(e) = Worker(d) => d = e
    BY Processes, Distinct
  <2>2. proc'[Worker(e)].pc = pc /\ \A q \in Process \ {Worker(e)} : proc'[q] = proc[q]
    BY <1>0, <1>1, <2>1 DEF Loading, Idle
  <2>3. \A d \in Device \ {e} : task'[d] = task[d]
    BY <1>0, <1>1
  <2> QED BY <2>1, <2>2, <2>3, TurnGoes
<1>2. ASSUME NEW e \in Device, NEW c \in Content, StartPublish(e, c)
      PROVE  \A d \in Device : WorkerGoes(d)
  BY <1>1, <1>2 DEF StartPublish
<1>3. ASSUME NEW e \in Device, NEW k \in Epoch, NEW r \in Retry, StartReconcile(e, k, r)
      PROVE  \A d \in Device : WorkerGoes(d)
  BY <1>1, <1>3 DEF StartReconcile
<1>4. ASSUME NEW s \in Session, Connect(s) \/ SessionStep(s) \/ Cut(s)
      PROVE  \A d \in Device : WorkerGoes(d)
  <2>0. /\ ClientOf(s) \in Process /\ ServerOf(s) \in Process
        /\ \A d \in Device : Worker(d) # ClientOf(s) /\ Worker(d) # ServerOf(s)
    BY Processes, Distinct
  <2>f. ASSUME Fails(ClientOf(s)) \/ Fails(ServerOf(s)) PROVE \A d \in Device : WorkerGoes(d)
    BY <2>0, <2>f, EndsGoes DEF Fails
  <2>1. CASE UNCHANGED task /\ \A q \in Process \ {ClientOf(s), ServerOf(s)} : proc'[q] = proc[q]
    BY <2>0, <2>1, Processes DEF WorkerGoes
  <2>2. CASE Connect(s)
    BY <1>0, <2>0, <2>1, <2>2 DEF Connect
  <2>3. CASE SendPage(s)
    BY <1>0, <2>0, <2>1, <2>3, <2>f DEF SendPage
  <2>4. CASE ReceiveRequest(s)
    BY <1>0, <2>0, <2>1, <2>4 DEF ReceiveRequest
  <2>5. CASE LoadForRequest(s)
    BY <1>0, <2>0, <2>1, <2>5, <2>f DEF LoadForRequest
  <2>6. CASE ReceiveReply(s)
    BY <1>0, <2>0, <2>1, <2>6, <2>f DEF ReceiveReply
  <2>7. CASE SendReply(s)
    BY <1>0, <2>0, <2>1, <2>7 DEF SendReply
  <2>8. CASE Cut(s)
    BY <2>1, <2>8 DEF Cut
  <2> QED BY <1>4, <2>2, <2>3, <2>4, <2>5, <2>6, <2>7, <2>8 DEF SessionStep
<1>5. ASSUME NEW p \in Process, SharedStep(p) \/ LockBusy(p) \/ Interrupt(p)
      PROVE  \A d \in Device : WorkerGoes(d)
  <2>1. CASE ReadCurrent(p)
    <3>1. UNCHANGED task /\ \A q \in Process \ {p} : proc'[q] = proc[q]
      BY <1>0, <2>1 DEF ReadCurrent
    <3>2. proc'[p].pc = "project"
      BY <1>0, <2>1 DEF ReadCurrent, Local
    <3> QED BY <3>1, <3>2, TurnGoes
  <2>2. CASE PublishView(p)
    <3>1. Fails(p) \/ Returns(p) \/ Retries(p)
      BY <2>2 DEF PublishView
    <3> QED BY <3>1, EndsGoes, ReturnsGoes, RetriesGoes DEF Fails
  <2>3. CASE PersistEvent(p)
    <3>1. UNCHANGED task /\ \A q \in Process \ {p} : proc'[q] = proc[q]
      BY <1>0, <2>3 DEF PersistEvent
    <3>2. proc'[p].pc = "persist"
      BY <1>0, <2>3 DEF PersistEvent, Local
    <3> QED BY <3>1, <3>2, TurnGoes
  <2>4. CASE Staged(p)
    BY <2>4, ReturnsGoes DEF Staged
  <2>5. CASE HangUp(p)
    BY <2>5, EndsGoes DEF HangUp, Fails
  <2>6. CASE LockBusy(p)
    BY <2>6, RetriesGoes DEF LockBusy
  <2>7. CASE Interrupt(p)
    BY <2>7, EndsGoes DEF Interrupt
  <2> QED BY <1>5, <2>1, <2>2, <2>3, <2>4, <2>5, <2>6, <2>7 DEF SharedStep
<1> QED BY <1>2, <1>3, <1>4, <1>5, WorkerStepGoes DEF Next

-----------------------------------------------------------------------------
(* The budget.                                                             *)

Own(d) == {e \in Events : Kind(e) = "reservation" /\ signed[e].device = d}

\* A device never loses sight of its own reservations, even in a torn load; and
\* every request it has sent is one of them.
BudgetInv ==
  /\ \A d \in Device : Own(d) \subseteq store[d]
  /\ \A d \in Device : proc[Worker(d)].pc = "reload" /\ Torn => Own(d) \subseteq proc[Worker(d)].base
  /\ \A d \in Device, k \in Epoch : /\ spent[d][k] = Cardinality(Reservations(Events, d, k))
                                    /\ spent[d][k] <= Requests

LEMMA FiniteReservations ==
  ASSUME TypeOK, NEW d, NEW k
  PROVE  IsFiniteSet(Reservations(Events, d, k))
<1>1. IsFiniteSet(Events)
  BY FS_Interval DEF TypeOK, Events
<1> QED BY <1>1, FS_Subset DEF Reservations

\* A step that adds no reservation of d keeps sight of them.
LEMMA OwnStays ==
  ASSUME TypeInv, BudgetInv, Next, NEW d \in Device, Own(d)' = Own(d)
  PROVE  /\ Own(d)' \subseteq store'[d]
         /\ proc'[Worker(d)].pc = "reload" /\ Torn => Own(d)' \subseteq proc'[Worker(d)].base
<1>1. Own(d) \subseteq store[d] /\ store[d] \subseteq store'[d]
  BY StepShows DEF BudgetInv
<1>2. ASSUME proc'[Worker(d)].pc = "reload", Torn PROVE Own(d) \subseteq proc'[Worker(d)].base
  <2>1. CASE proc'[Worker(d)] = proc[Worker(d)]
    BY <1>2, <2>1 DEF BudgetInv
  <2>2. CASE proc'[Worker(d)] = Loading("reload", d)
    BY <1>1, <1>2, <2>2 DEF Loading, Base, Idle
  <2>3. ASSUME NEW S \in Loads(Worker(d)), Reserving(d, S) PROVE FALSE
    <3>1. proc'[Worker(d)] = [Idle EXCEPT !.pc = "resolve", !.held = S]
      BY <2>3, Processes DEF Reserving, TypeInv, TypeOK
    <3> QED BY <1>2, <3>1 DEF Idle
  <2> QED BY <1>2, <2>1, <2>2, <2>3, StepGoes DEF WorkerGoes
<1> QED BY <1>1, <1>2

LEMMA NextBudget == TypeInv /\ BudgetInv /\ [Next]_vars => BudgetInv'
<1> SUFFICES ASSUME TypeInv, BudgetInv, [Next]_vars PROVE BudgetInv'
  OBVIOUS
<1>0. TypeOK /\ spent \in [Device -> [Epoch -> Nat]] /\ proc \in [Process -> Local]
  BY DEF TypeInv, TypeOK
<1>1. CASE UNCHANGED vars
  BY <1>1 DEF vars, BudgetInv, Own, Events, Kind, Reservations
<1>2. ASSUME Next, UNCHANGED spent,
             \/ UNCHANGED signed
             \/ \E x : signed' = Append(signed, x) /\ x.kind # "reservation"
      PROVE  BudgetInv'
  <2>1. (\A d : Own(d)' = Own(d)) /\ \A d, k : Reservations(Events, d, k)' = Reservations(Events, d, k)
    <3>1. CASE UNCHANGED signed
      BY <3>1 DEF Own, Events, Kind, Reservations
    <3>2. ASSUME NEW x, signed' = Append(signed, x), x.kind # "reservation"
          PROVE  /\ \A d : Own(d)' = Own(d)
                 /\ \A d, k : Reservations(Events, d, k)' = Reservations(Events, d, k)
      <4> DEFINE m == Len(signed) + 1
      <4>1. /\ Events' = Events \cup {m} /\ m \notin Events /\ signed'[m] = x
            /\ \A e \in Events : signed'[e] = signed[e]
        BY <1>0, <3>2, Longer
      <4> HIDE DEF m
      <4> QED BY <3>2, <4>1 DEF Own, Kind, Reservations
    <3> QED BY <1>2, <3>1, <3>2
  <2>2. \A d \in Device : /\ Own(d)' \subseteq store'[d]
                          /\ proc'[Worker(d)].pc = "reload" /\ Torn =>
                               Own(d)' \subseteq proc'[Worker(d)].base
    BY <1>2, <2>1, OwnStays
  <2>3. \A d \in Device, k \in Epoch :
          /\ spent'[d][k] = Cardinality(Reservations(Events, d, k)')
          /\ spent'[d][k] <= Requests
    BY <1>2, <2>1 DEF BudgetInv
  <2> QED BY <2>2, <2>3 DEF BudgetInv
<1>3. ASSUME Next, NEW d \in Device, NEW S \in Loads(Worker(d)), Reserving(d, S)
      PROVE  BudgetInv'
  <2> PICK k : k = task[d].epoch
    OBVIOUS
  <2> DEFINE m == Len(signed) + 1
             x == Reservation(d, S)
             Mine == Reservations(Events, d, k)
  <2>0. /\ signed' = Append(signed, x) /\ store' = [store EXCEPT ![d] = @ \cup {m}]
        /\ spent' = [spent EXCEPT ![d][k] = @ + 1]
        /\ proc' = [proc EXCEPT ![Worker(d)] = [Idle EXCEPT !.pc = "resolve", !.held = S]]
        /\ Cardinality(Reservations(S, d, k)) < Requests
        /\ proc[Worker(d)].pc = "reload"
    BY <1>3 DEF Reserving, Sign
  <2>1. /\ Events' = Events \cup {m} /\ m \notin Events /\ signed'[m] = x
        /\ \A e \in Events : signed'[e] = signed[e]
    BY <1>0, <2>0, Longer
  <2>2. x.kind = "reservation" /\ x.device = d /\ x.epoch = k
    BY DEF Reservation
  <2>3. k \in Epoch
    <3>1. task[d].kind = "reconcile" /\ task[d] \in Task
      BY <2>0 DEF TypeInv, TypeOK, Control, WorkerControl
    <3> QED BY <3>1, TaskTypes DEF ReconcileTask
  <2> HIDE DEF m, x, Mine
  <2>4. Reservations(S, d, k) = Mine
    <3>1. Own(d) \subseteq store[d] /\ (Torn => Own(d) \subseteq proc[Worker(d)].base)
      BY <2>0 DEF BudgetInv
    <3>2. /\ S \in SUBSET Events
          /\ proc[Worker(d)].base \subseteq S \/ ~ Torn
          /\ store[d] = S \/ Torn
      BY <1>0, LoadsType, Processes
    <3>3. Own(d) \subseteq S
      BY <3>1, <3>2 DEF TypeInv, TypeOK, Events
    <3> QED BY <3>2, <3>3 DEF Own, Reservations, Mine
  <2>5. Reservations(Events, d, k)' = Mine \cup {m}
    BY <2>1, <2>2 DEF Reservations, Kind, Mine
  <2>6. Cardinality(Mine \cup {m}) = Cardinality(Mine) + 1 /\ Cardinality(Mine) \in Nat
    <3>1. IsFiniteSet(Mine)
      BY <1>0, FiniteReservations DEF Mine
    <3>2. m \notin Mine
      BY <2>1 DEF Mine, Reservations
    <3> QED BY <3>1, <3>2, FS_AddElement, FS_CardinalityType
  <2>7. spent[d][k] = Cardinality(Mine)
    BY <2>3 DEF BudgetInv, Mine
  <2>8. ASSUME NEW e \in Device, NEW j \in Epoch, e # d \/ j # k
        PROVE  Reservations(Events, e, j)' = Reservations(Events, e, j)
    <3>1. ~ (x.device = e /\ x.epoch = j)
      BY <2>2, <2>8
    <3> QED BY <2>1, <3>1 DEF Reservations, Kind
  <2>9. \A e \in Device, j \in Epoch : /\ spent'[e][j] = Cardinality(Reservations(Events, e, j)')
                                       /\ spent'[e][j] <= Requests
    <3> SUFFICES ASSUME NEW e \in Device, NEW j \in Epoch
                 PROVE  /\ spent'[e][j] = Cardinality(Reservations(Events, e, j)')
                        /\ spent'[e][j] <= Requests
      OBVIOUS
    <3>1. CASE e = d /\ j = k
      <4>1. spent'[e][j] = spent[d][k] + 1
        BY <1>0, <2>0, <2>3, <3>1
      <4>2. Requests \in Nat
        BY SyncAssumption
      <4>3. Reservations(Events, e, j)' = Mine \cup {m}
        BY <2>5, <3>1
      <4>4. Cardinality(Mine) < Requests
        BY <2>0, <2>4
      <4>5. spent'[e][j] = Cardinality(Mine \cup {m})
        BY <2>6, <2>7, <4>1
      <4>6. spent'[e][j] <= Requests
        BY <2>6, <2>7, <4>1, <4>2, <4>4
      <4> QED BY <4>3, <4>5, <4>6
    <3>2. CASE e # d \/ j # k
      <4>1. spent'[e][j] = spent[e][j]
        BY <1>0, <2>0, <2>3, <3>2
      <4>2. Reservations(Events, e, j)' = Reservations(Events, e, j)
        BY <2>8, <3>2
      <4> QED BY <4>1, <4>2 DEF BudgetInv
    <3> QED BY <3>1, <3>2
  <2>10. \A e \in Device : /\ Own(e)' \subseteq store'[e]
                           /\ proc'[Worker(e)].pc = "reload" /\ Torn =>
                                Own(e)' \subseteq proc'[Worker(e)].base
    <3> SUFFICES ASSUME NEW e \in Device
                 PROVE  /\ Own(e)' \subseteq store'[e]
                        /\ proc'[Worker(e)].pc = "reload" /\ Torn =>
                             Own(e)' \subseteq proc'[Worker(e)].base
      OBVIOUS
    <3>1. CASE e = d
      <4>1. Own(d)' = Own(d) \cup {m}
        BY <2>1, <2>2 DEF Own, Kind
      <4>2. Own(e)' \subseteq store'[e]
        BY <1>0, <2>0, <3>1, <4>1 DEF BudgetInv, TypeOK, Own
      <4>3. proc'[Worker(d)].pc = "resolve"
        BY <1>0, <2>0, Processes DEF Idle
      <4> QED BY <3>1, <4>2, <4>3
    <3>2. CASE e # d
      <4>1. Own(e)' = Own(e)
        BY <2>1, <2>2, <3>2 DEF Own, Kind
      <4> QED BY <1>3, <4>1, OwnStays
    <3> QED BY <3>1, <3>2
  <2> QED BY <2>9, <2>10 DEF BudgetInv
<1>4. CASE Next
  <2>1. ASSUME NEW d \in Device, NEW S \in Loads(Worker(d)), NEW c \in Content, Publishing(d, S, c)
        PROVE  UNCHANGED spent /\ \E x : signed' = Append(signed, x) /\ x.kind # "reservation"
    <3>1. Publication(d, S, c).kind # "reservation"
      BY DEF Publication
    <3> QED BY <2>1, <3>1 DEF Publishing, Sign
  <2>2. ASSUME NEW d \in Device, NEW a \in Action, Resolving(d, a)
        PROVE  UNCHANGED spent /\ \E x : signed' = Append(signed, x) /\ x.kind # "reservation"
    <3>1. Resolution(d, a).kind # "reservation"
      BY DEF Resolution
    <3> QED BY <2>2, <3>1 DEF Resolving, Sign
  <2>3. \/ UNCHANGED <<signed, spent>>
        \/ UNCHANGED spent /\ \E x : signed' = Append(signed, x) /\ x.kind # "reservation"
        \/ \E d \in Device : \E S \in Loads(Worker(d)) : Reserving(d, S)
    BY <1>4, <2>1, <2>2, StepSigns
  <2> QED BY <1>2, <1>3, <1>4, <2>3
<1> QED BY <1>1, <1>4

\* Kills, restarts, retries and torn loads included, no device sends more
\* requests in an epoch than its budget allows (reconcile).
THEOREM BudgetHolds == Spec => []SpendWithinBudget
<1>1. Init => BudgetInv
  <2> SUFFICES ASSUME Init PROVE BudgetInv
    OBVIOUS
  <2>1. Events = {}
    BY DEF Init, Events
  <2>2. \A d, k : Reservations(Events, d, k) = {}
    BY <2>1 DEF Reservations
  <2>3. \A d \in Device, k \in Epoch : spent[d][k] = 0
    BY DEF Init
  <2>4. Requests \in Nat /\ Cardinality({}) = 0
    BY SyncAssumption, FS_EmptySet
  <2> QED BY <2>1, <2>2, <2>3, <2>4 DEF BudgetInv, Own
<1>2. Init /\ [][Next]_vars /\ []TypeInv => []BudgetInv
  BY <1>1, NextBudget, PTL
<1>3. BudgetInv => SpendWithinBudget
  BY DEF BudgetInv, SpendWithinBudget
<1> QED BY <1>2, <1>3, TypeInvariant, PTL DEF Spec

-----------------------------------------------------------------------------
(* Receipts.                                                               *)

\* A worker that waits for an answer: the question was asked of a complete
\* ledger, and its reservation knows no more and no less.
InHand(held, job, r) ==
  /\ held \in SUBSET Events /\ Complete(held)
  /\ job.version # {} /\ job = PairJob(job.pair, held)
  /\ r \in Events /\ Kind(r) = "reservation" /\ signed[r].past = held

HandInv ==
  \A d \in Device : proc[Worker(d)].pc = "resolve" =>
    InHand(proc[Worker(d)].held, NextJob(task[d].queue), task[d].reservation)

LEMMA EligibleAsked ==
  ASSUME NEW S, NEW excluded, NEW job \in EligibleJobs(S, excluded)
  PROVE  job.version # {} /\ job = PairJob(job.pair, S)
<1>1. PICK pair \in Pair : job = PairJob(pair, S) /\ Version(pair, S) # {}
  BY DEF EligibleJobs
<1>2. job.pair = pair /\ job.version = Version(pair, S)
  BY <1>1 DEF PairJob
<1> QED BY <1>1, <1>2

LEMMA FrameHand ==
  ASSUME TypeOK, NEW x, signed' = Append(signed, x), NEW held, NEW job, NEW r,
         InHand(held, job, r)
  PROVE  InHand(held, job, r)'
<1>1. held \in SUBSET Events /\ Complete(held)
      /\ job.version # {} /\ job = PairJob(job.pair, held)
      /\ r \in Events /\ Kind(r) = "reservation" /\ signed[r].past = held
  BY DEF InHand
<1>2. Complete(held)' /\ \A pair : PairJob(pair, held)' = PairJob(pair, held)
  BY <1>1, Frame
<1>3. held \in SUBSET (Events') /\ r \in Events' /\ signed'[r] = signed[r]
  BY <1>1, Longer
<1>4. Kind(r)' = "reservation"
  BY <1>1, <1>3 DEF Kind
<1> QED BY <1>1, <1>2, <1>3, <1>4 DEF InHand

\* What is signed over the frontier of a question and its reservation replays.
LEMMA AnswerReplays ==
  ASSUME TypeOK, LogInv, NEW held, NEW job, NEW r, InHand(held, job, r)
  PROVE  LET past == Past(Heads(held) \cup {r}) IN
         /\ past \in SUBSET Events
         /\ job.version # {} /\ job.version = Version(job.pair, past)
         /\ job.prior = ReceiptHeads(past, job.pair, job.version)
         /\ job.prior \subseteq {f \in past : Kind(f) = "resolution"}
<1> DEFINE past == held \cup {r}
<1>0. /\ held \in SUBSET Events /\ Complete(held)
      /\ job.version # {} /\ job = PairJob(job.pair, held)
      /\ r \in Events /\ Kind(r) = "reservation" /\ signed[r].past = held
  BY DEF InHand
<1>1. Past(Heads(held)) = held
  BY <1>0, FrontierKnows DEF LogInv
<1>2. Past(Heads(held) \cup {r}) = past
  BY <1>0, <1>1 DEF Past
<1>3. Contents(past) = Contents(held)
  BY <1>0 DEF Contents
<1>4. \A pair : Version(pair, past) = Version(pair, held)
  BY <1>3 DEF Version
<1>5. \A pair, version : Receipts(past, pair, version) = Receipts(held, pair, version)
  BY <1>0 DEF Receipts
<1>6. \A pair, version : ReceiptHeads(past, pair, version) = ReceiptHeads(held, pair, version)
  BY <1>5 DEF ReceiptHeads
<1>7. /\ job.version = Version(job.pair, held)
      /\ job.prior = ReceiptHeads(held, job.pair, job.version)
  <2> PICK pair : pair = job.pair
    OBVIOUS
  <2>1. PairJob(pair, held).version = Version(pair, held)
        /\ PairJob(pair, held).prior = ReceiptHeads(held, pair, Version(pair, held))
    BY DEF PairJob
  <2> QED BY <1>0, <2>1
<1>8. job.prior \subseteq {f \in past : Kind(f) = "resolution"}
  BY <1>7 DEF ReceiptHeads, Receipts
<1> QED BY <1>0, <1>2, <1>4, <1>6, <1>7, <1>8

LEMMA NextHand == TypeInv /\ LogInv /\ HandInv /\ [Next]_vars => HandInv'
<1> SUFFICES ASSUME TypeInv, LogInv, HandInv, [Next]_vars PROVE HandInv'
  OBVIOUS
<1>0. TypeOK /\ proc \in [Process -> Local] /\ task \in [Device -> Task]
  BY DEF TypeInv, TypeOK
<1>1. ASSUME NEW held, NEW job, NEW r, InHand(held, job, r) PROVE InHand(held, job, r)'
  <2>1. CASE UNCHANGED signed
    <3>1. \A pair, version : Receipts(held, pair, version)' = Receipts(held, pair, version)
      BY <2>1 DEF Receipts, Kind
    <3>2. \A pair, version : ReceiptHeads(held, pair, version)' = ReceiptHeads(held, pair, version)
      BY <2>1, <3>1 DEF ReceiptHeads
    <3>3. \A pair : Version(pair, held)' = Version(pair, held)
      BY <2>1 DEF Version, Contents, Kind
    <3>4. \A pair : PairJob(pair, held)' = PairJob(pair, held)
      BY <3>2, <3>3 DEF PairJob
    <3>5. Events' = Events /\ Complete(held)' = Complete(held) /\ Kind(r)' = Kind(r)
      BY <2>1 DEF Events, Complete, Kind
    <3> QED BY <1>1, <2>1, <3>4, <3>5 DEF InHand
  <2>2. CASE \E x : signed' = Append(signed, x)
    BY <1>0, <1>1, <2>2, FrameHand
  <2> QED BY <2>1, <2>2, StepAppends DEF vars
<1> SUFFICES ASSUME NEW d \in Device, proc'[Worker(d)].pc = "resolve"
             PROVE  InHand(proc[Worker(d)].held, NextJob(task[d].queue), task[d].reservation)'
  BY DEF HandInv
<1> PICK held, queue, r : /\ held = proc'[Worker(d)].held /\ queue = task'[d].queue
                          /\ r = task'[d].reservation
  OBVIOUS
<1>2. SUFFICES InHand(held, NextJob(queue), r)'
  BY DEF NextJob
<1>3. CASE proc'[Worker(d)] = proc[Worker(d)] /\ task'[d] = task[d]
  <2>1. InHand(held, NextJob(queue), r)
    BY <1>3 DEF HandInv
  <2> PICK job : job = NextJob(queue)
    OBVIOUS
  <2>2. InHand(held, job, r)'
    BY <1>1, <2>1
  <2> QED BY <2>2 DEF NextJob
<1>4. ASSUME NEW S \in Loads(Worker(d)), Reserving(d, S)
      PROVE  InHand(held, NextJob(queue), r)'
  <2> DEFINE m == Len(signed) + 1
  <2> PICK job, x : job = NextJob(task[d].queue) /\ x = Reservation(d, S)
    OBVIOUS
  <2>1. /\ signed' = Append(signed, x) /\ task' = [task EXCEPT ![d].reservation = m]
        /\ proc' = [proc EXCEPT ![Worker(d)] = [Idle EXCEPT !.pc = "resolve", !.held = S]]
        /\ job \in EligibleJobs(S, task[d].excluded)
        /\ proc[Worker(d)].pc = "reload"
    BY <1>4 DEF Reserving, Sign
  <2>2. S \in SUBSET Events /\ Complete(S) /\ x.past = S /\ x.kind = "reservation"
    BY <1>4, ReservationKnows DEF Reservation
  <2>3. held = S
    BY <1>0, <2>1, Processes DEF Idle
  <2>4. task[d] \in ReconcileTask
    BY <1>0, <2>1, TaskTypes DEF TypeInv, Control, WorkerControl
  <2>5. queue = task[d].queue /\ r = m
    BY <1>0, <2>1, <2>4 DEF ReconcileTask
  <2>6. job.version # {} /\ job = PairJob(job.pair, S)
    BY <2>1, EligibleAsked
  <2>7. Complete(S)' /\ PairJob(job.pair, S)' = PairJob(job.pair, S)
    BY <1>0, <2>1, <2>2, Frame
  <2>8. S \in SUBSET (Events') /\ m \in Events' /\ signed'[m] = x
    BY <1>0, <2>1, <2>2, Longer
  <2> HIDE DEF m
  <2>9. r \in Events' /\ Kind(r)' = "reservation" /\ signed'[r].past = S
    BY <2>2, <2>5, <2>8 DEF Kind
  <2>10. InHand(S, job, r)'
    BY <2>6, <2>7, <2>8, <2>9, <2>2 DEF InHand
  <2>11. job = NextJob(queue)
    BY <2>5
  <2> QED BY <2>3, <2>10, <2>11 DEF NextJob
<1>5. CASE UNCHANGED vars
  BY <1>3, <1>5 DEF vars
<1>6. CASE Next
  <2>1. proc'[Worker(d)] # Loading("reload", d)
    BY DEF Loading, Idle
  <2> QED BY <1>3, <1>4, <1>6, <2>1, StepGoes DEF WorkerGoes
<1> QED BY <1>5, <1>6

\* What ReceiptsReplay says of one event.
ReplaysFully(e) ==
  /\ Replays(e)
  /\ signed[e].job.prior = ReceiptHeads(signed[e].past, signed[e].job.pair, signed[e].job.version)

LEMMA NextReplays ==
  TypeInv /\ LogInv /\ HandInv /\ ReceiptsReplay /\ [Next]_vars => ReceiptsReplay'
<1> SUFFICES ASSUME TypeInv, LogInv, HandInv, ReceiptsReplay, [Next]_vars PROVE ReceiptsReplay'
  OBVIOUS
<1>0. TypeOK
  BY DEF TypeInv
<1>1. CASE UNCHANGED signed
  BY <1>1 DEF ReceiptsReplay, Events, Kind, Replays, Version, Contents, ReceiptHeads, Receipts
<1>2. ASSUME NEW x, signed' = Append(signed, x),
             LET past == x.past
                 job == x.job
             IN x.kind = "resolution" =>
                  /\ past \in SUBSET Events
                  /\ job.version # {} /\ job.version = Version(job.pair, past)
                  /\ job.prior = ReceiptHeads(past, job.pair, job.version)
                  /\ job.prior \subseteq {f \in past : Kind(f) = "resolution"}
      PROVE  ReceiptsReplay'
  <2> DEFINE m == Len(signed) + 1
  <2>0. /\ Events' = Events \cup {m} /\ m \notin Events /\ signed'[m] = x
        /\ \A e \in Events : signed'[e] = signed[e]
    BY <1>0, <1>2, Longer
  <2> HIDE DEF m
  <2> SUFFICES ASSUME NEW e \in Events', signed'[e].kind = "resolution"
               PROVE  /\ Replays(e)'
                      /\ signed'[e].job.prior =
                           ReceiptHeads(signed[e].past, signed[e].job.pair, signed[e].job.version)'
    BY DEF ReceiptsReplay, Kind
  <2> PICK past, job : past = signed'[e].past /\ job = signed'[e].job
    OBVIOUS
  <2>1. CASE e \in Events
    <3>1. Kind(e) = "resolution" /\ past = signed[e].past /\ job = signed[e].job
      BY <2>0, <2>1 DEF Kind
    <3>2. Replays(e) /\ job.prior = ReceiptHeads(past, job.pair, job.version)
      BY <2>1, <3>1 DEF ReceiptsReplay
    <3>3. Replays(e)'
      BY <1>0, <1>2, <2>1, <3>2, FrameReplays DEF LogInv
    <3>4. past \in SUBSET Events
      BY <2>1, <3>1 DEF LogInv, PastInv, Events, TypeInv, TypeOK
    <3>5. \A pair, version : ReceiptHeads(past, pair, version)' = ReceiptHeads(past, pair, version)
      BY <1>0, <1>2, <3>4, Frame
    <3>6. job.prior = ReceiptHeads(past, job.pair, job.version)'
      BY <3>2, <3>5
    <3> QED BY <3>3, <3>6 DEF ReceiptHeads, Receipts
  <2>2. CASE e = m
    <3>1. /\ past \in SUBSET Events
          /\ job.version # {} /\ job.version = Version(job.pair, past)
          /\ job.prior = ReceiptHeads(past, job.pair, job.version)
          /\ job.prior \subseteq {f \in past : Kind(f) = "resolution"}
      BY <1>2, <2>0, <2>2
    <3>2. /\ \A pair : Version(pair, past)' = Version(pair, past)
          /\ \A pair, version :
               ReceiptHeads(past, pair, version)' = ReceiptHeads(past, pair, version)
      BY <1>0, <1>2, <3>1, Frame
    <3>3. \A f \in past : Kind(f)' = Kind(f)
      BY <2>0, <3>1 DEF Kind
    <3>4. job.prior \subseteq {f \in past : Kind(f)' = "resolution"}
      BY <3>1, <3>3
    <3>5. job.prior = ReceiptHeads(past, job.pair, job.version)'
      BY <3>1, <3>2
    <3>6. job.version = Version(job.pair, past)'
      BY <3>1, <3>2
    <3>7. Replays(e)'
      BY <3>1, <3>4, <3>5, <3>6 DEF Replays
    <3> QED BY <3>5, <3>7 DEF ReceiptHeads, Receipts
  <2> QED BY <2>0, <2>1, <2>2
<1>3. ASSUME NEW d \in Device, NEW S \in Loads(Worker(d)), NEW c \in Content, Publishing(d, S, c)
      PROVE  ReceiptsReplay'
  BY <1>2, <1>3 DEF Publishing, Sign, Publication
<1>4. ASSUME NEW d \in Device, NEW S \in Loads(Worker(d)), Reserving(d, S)
      PROVE  ReceiptsReplay'
  BY <1>2, <1>4 DEF Reserving, Sign, Reservation
<1>5. ASSUME NEW d \in Device, NEW a \in Action, Resolving(d, a)
      PROVE  ReceiptsReplay'
  <2> PICK x, held, job, r : /\ x = Resolution(d, a) /\ held = proc[Worker(d)].held
                             /\ job = NextJob(task[d].queue) /\ r = task[d].reservation
    OBVIOUS
  <2>1. signed' = Append(signed, x)
    BY <1>5 DEF Resolving, Sign
  <2>2. InHand(held, job, r)
    BY <1>5 DEF HandInv, Resolving
  <2>3. x.past = Past(Heads(held) \cup {r}) /\ x.job = job
    BY DEF Resolution, ResolutionParents
  <2>4. LET past == Past(Heads(held) \cup {r}) IN
         /\ past \in SUBSET Events
         /\ job.version # {} /\ job.version = Version(job.pair, past)
         /\ job.prior = ReceiptHeads(past, job.pair, job.version)
         /\ job.prior \subseteq {f \in past : Kind(f) = "resolution"}
    BY <1>0, <2>2, AnswerReplays
  <2> QED BY <1>2, <2>1, <2>3, <2>4
<1> QED BY <1>1, <1>3, <1>4, <1>5, StepSigns DEF vars

\* Whatever arrives while a question is being answered, the receipt that is
\* signed replays against its own past, and has settled all of that past's
\* maximal receipts (reconcile, project).
THEOREM ReceiptsAlwaysReplay == Spec => []ReceiptsReplay
<1>1. Init => HandInv /\ ReceiptsReplay
  <2> SUFFICES ASSUME Init PROVE HandInv /\ ReceiptsReplay
    OBVIOUS
  <2>1. Events = {} /\ \A d \in Device : proc[Worker(d)].pc = "idle"
    BY Processes DEF Init, Events, Idle
  <2> QED BY <2>1 DEF HandInv, ReceiptsReplay
<1>2. Init /\ [][Next]_vars /\ [](TypeInv /\ LogInv) => [](HandInv /\ ReceiptsReplay)
  BY <1>1, NextHand, NextReplays, PTL
<1> QED BY <1>2, LogInvariant, PTL DEF Spec

-----------------------------------------------------------------------------
(* How exchanges end.                                                      *)

\* What holds of an exchange between a client x and a server y, with page w on
\* the wire, k what the client knows of the server, and the two ledgers.  The
\* client is done when it knows of all it has; by then the server's load holds
\* all that the client knows of it, so if the server has nothing else, the two
\* inventories are the same.
Exchange(x, y, w, k, ours, theirs) ==
  /\ k \subseteq theirs
  /\ x.pc = "wait" => x.held \subseteq ours
  /\ y.pc = "persist" => (y.held \ y.todo) \subseteq theirs
  /\ y.pc \in {"current", "project", "reply"} => y.held \subseteq theirs
  /\ w.state = "request" =>
       /\ x.pc = "wait" /\ w.inventory = x.held
       /\ w.done => w.inventory \subseteq k
       /\ y.pc = "load" /\ Torn => k \subseteq y.base
       /\ y.pc \in {"persist", "current", "project", "reply"} => k \subseteq y.held
  /\ w.state # "request" => w.inventory \subseteq theirs
  /\ w.state \in {"open", "reply"} => y.pc \in {"idle", "listen"}
  /\ w.state = "reply" /\ w.done =>
       /\ w.events = {} /\ w.inventory = x.held /\ w.inventory \subseteq ours
       /\ x.pc \in {"wait", "persist", "current", "project"}

ExchangeAt(s) ==
  Exchange(proc[ClientOf(s)], proc[ServerOf(s)], wire[s], known[s],
           store[Client[s]], store[Server[s]])

ExchangeInv == \A s \in Session : ExchangeAt(s)

\* The ledgers grow; the connection breaks; one side is gone.
LEMMA ExchangeKept ==
  ASSUME NEW x, NEW y, NEW w, NEW k, NEW ours, NEW theirs, Exchange(x, y, w, k, ours, theirs)
  PROVE  /\ \A A, B : ours \subseteq A /\ theirs \subseteq B => Exchange(x, y, w, k, A, B)
         /\ Exchange(x, y, Closed, k, ours, theirs)
         /\ Exchange(Idle, y, Closed, {}, ours, theirs)
         /\ Exchange(x, Idle, Closed, k, ours, theirs)
<1>1. Closed.state = "closed" /\ Closed.inventory = {} /\ Idle.pc = "idle"
  BY DEF Closed, Idle
<1>2. ASSUME NEW A, NEW B, ours \subseteq A, theirs \subseteq B
      PROVE  Exchange(x, y, w, k, A, B)
  BY <1>2 DEF Exchange
<1>3. Exchange(x, y, Closed, k, ours, theirs)
  BY <1>1 DEF Exchange
<1>4. Exchange(Idle, y, Closed, {}, ours, theirs)
  BY <1>1 DEF Exchange
<1>5. Exchange(x, Idle, Closed, k, ours, theirs)
  BY <1>1 DEF Exchange
<1> QED BY <1>2, <1>3, <1>4, <1>5

\* A step of p leaves other processes, and exchanges p has no part in, alone.
OnlyTouches(p) ==
  /\ \A q \in Process \ {p} : proc'[q] = proc[q]
  /\ \A s \in Session : p \notin {ClientOf(s), ServerOf(s)} =>
       wire'[s] = wire[s] /\ known'[s] = known[s]

LEMMA EndsTouches == ASSUME TypeInv, NEW p \in Process, Ends(p) PROVE OnlyTouches(p)
<1>0. proc \in [Process -> Local] /\ wire \in [Session -> Page] /\ known \in [Session -> SUBSET Events]
  BY DEF TypeInv, TypeOK
<1>1. \A q \in Process \ {p} : proc'[q] = proc[q]
  BY <1>0 DEF Ends
<1>2. CASE \E d \in Device : p = Worker(d)
  BY <1>1, <1>2, Roles DEF Ends, OnlyTouches
<1>3. CASE \E s \in Session : p = ClientOf(s) \/ p = ServerOf(s)
  <2> PICK s \in Session : p = ClientOf(s) \/ p = ServerOf(s)
    BY <1>3
  <2>1. p[2] = s /\ p[1] # "worker"
    BY Roles
  <2>2. \A r \in Session \ {s} : wire'[r] = wire[r] /\ known'[r] = known[r]
    BY <1>0, <2>1 DEF Ends
  <2> QED BY <1>1, <2>2 DEF OnlyTouches
<1> QED BY <1>2, <1>3, Processes

LEMMA ReturnsTouches == ASSUME TypeInv, NEW p \in Process, Returns(p) PROVE OnlyTouches(p)
<1>0. proc \in [Process -> Local] /\ wire \in [Session -> Page] /\ known \in [Session -> SUBSET Events]
  BY DEF TypeInv, TypeOK
<1>1. ASSUME NEW d \in Device, p = Worker(d) PROVE OnlyTouches(p)
  <2>1. WorkerReturns(d)
    BY <1>1, ReturnsRoles
  <2>2. UNCHANGED <<known, wire>> /\ \E x : proc' = [proc EXCEPT ![p] = x]
    BY <1>1, <2>1 DEF WorkerReturns, Continues
  <2> QED BY <1>0, <2>2 DEF OnlyTouches
<1>2. ASSUME NEW s \in Session, p = ServerOf(s) PROVE OnlyTouches(p)
  <2>1. ServerReturns(s)
    BY <1>2, ReturnsRoles
  <2> QED BY <1>0, <1>2, <2>1 DEF OnlyTouches, ServerReturns
<1>3. ASSUME NEW s \in Session, p = ClientOf(s) PROVE OnlyTouches(p)
  <2>1. /\ \E x : proc' = [proc EXCEPT ![p] = x]
        /\ \E k : known' = [known EXCEPT ![s] = k]
        /\ wire' = wire \/ wire' = [wire EXCEPT ![s] = Closed]
    BY <1>3, ClientReturns, Zenon
  <2>2. \A r \in Session \ {s} : wire'[r] = wire[r] /\ known'[r] = known[r]
    BY <1>0, <2>1
  <2>3. \A q \in Process \ {p} : proc'[q] = proc[q]
    BY <1>0, <2>1
  <2> QED BY <1>3, <2>2, <2>3 DEF OnlyTouches
<1> QED BY <1>1, <1>2, <1>3, Processes

LEMMA RetriesTouches == ASSUME TypeInv, NEW p \in Process, Retries(p) PROVE OnlyTouches(p)
<1>0. proc \in [Process -> Local]
  BY DEF TypeInv, TypeOK
<1>1. CASE Ends(p)
  BY <1>1, EndsTouches
<1>2. CASE /\ proc' = [proc EXCEPT ![p].pc = "current", ![p].tries = @ + 1,
                                   ![p].seen = {}, ![p].base = {}]
           /\ UNCHANGED <<task, known, wire>>
  BY <1>0, <1>2 DEF OnlyTouches
<1> QED BY <1>1, <1>2 DEF Retries

LEMMA SharedTouches ==
  ASSUME TypeInv, NEW p \in Process, SharedStep(p) \/ LockBusy(p) \/ Interrupt(p)
  PROVE  OnlyTouches(p)
<1>0. proc \in [Process -> Local]
  BY DEF TypeInv, TypeOK
<1>1. CASE ReadCurrent(p)
  BY <1>0, <1>1 DEF ReadCurrent, OnlyTouches
<1>2. CASE PublishView(p)
  BY <1>2, EndsTouches, ReturnsTouches, RetriesTouches DEF PublishView, Fails
<1>3. CASE PersistEvent(p)
  BY <1>0, <1>3 DEF PersistEvent, OnlyTouches
<1>4. CASE Staged(p)
  BY <1>4, ReturnsTouches DEF Staged
<1>5. CASE HangUp(p)
  BY <1>5, EndsTouches DEF HangUp, Fails
<1>6. CASE LockBusy(p)
  BY <1>6, RetriesTouches DEF LockBusy
<1>7. CASE Interrupt(p)
  BY <1>7, EndsTouches DEF Interrupt
<1> QED BY <1>1, <1>2, <1>3, <1>4, <1>5, <1>6, <1>7 DEF SharedStep

LEMMA WorkerTouches ==
  ASSUME TypeInv, NEW d \in Device,
         \/ \E c \in Content : StartPublish(d, c)
         \/ \E k \in Epoch, r \in Retry : StartReconcile(d, k, r)
         \/ WorkerStep(d)
  PROVE  OnlyTouches(Worker(d))
<1> DEFINE p == Worker(d)
<1>0. p \in Process /\ proc \in [Process -> Local]
  BY Processes DEF TypeInv, TypeOK
<1>1. ASSUME NEW x, proc' = [proc EXCEPT ![p] = x], UNCHANGED <<known, wire>>
      PROVE  OnlyTouches(p)
  BY <1>0, <1>1 DEF OnlyTouches
<1>2. ASSUME NEW queue, Continues(d, queue), UNCHANGED <<known, wire>>
      PROVE  OnlyTouches(p)
  <2>1. \/ proc' = [proc EXCEPT ![p] = Idle]
        \/ proc' = [proc EXCEPT ![p] = Loading("reload", d)]
    BY <1>2 DEF Continues
  <2> QED BY <1>1, <1>2, <2>1
<1>3. ASSUME Fails(p) PROVE OnlyTouches(p)
  BY <1>0, <1>3, EndsTouches DEF Fails
<1> HIDE DEF p
<1>4. ASSUME NEW c \in Content, StartPublish(d, c) PROVE OnlyTouches(p)
  BY <1>1, <1>4 DEF StartPublish, p
<1>5. ASSUME NEW k \in Epoch, NEW r \in Retry, StartReconcile(d, k, r) PROVE OnlyTouches(p)
  BY <1>1, <1>5 DEF StartReconcile, p
<1>6. CASE Publish(d)
  <2>1. Fails(p) \/ (UNCHANGED <<known, wire>> /\ proc' = [proc EXCEPT ![p] = Current])
    BY <1>6 DEF Publish, p
  <2> QED BY <1>1, <1>3, <2>1 DEF p
<1>7. CASE QueueJobs(d)
  <2>1. \/ Fails(p)
        \/ /\ UNCHANGED <<known, wire>>
           /\ \/ proc' = [proc EXCEPT ![p] = Idle]
              \/ proc' = [proc EXCEPT ![p] = Loading("reload", d)]
    BY <1>7 DEF QueueJobs, p
  <2> QED BY <1>1, <1>3, <2>1 DEF p
<1>8. CASE Reserve(d)
  <2>1. \/ Fails(p)
        \/ \E queue : Continues(d, queue) /\ UNCHANGED <<known, wire>>
        \/ /\ UNCHANGED <<known, wire>>
           /\ \E S : proc' = [proc EXCEPT ![p] = [Idle EXCEPT !.pc = "resolve", !.held = S]]
    BY <1>8 DEF Reserve, p
  <2> QED BY <1>1, <1>2, <1>3, <2>1 DEF p
<1>9. CASE RequestFails(d)
  BY <1>3, <1>9 DEF RequestFails, p
<1>10. CASE \E a \in Action : Resolve(d, a)
  <2>1. UNCHANGED <<known, wire>> /\ proc' = [proc EXCEPT ![p] = Current]
    BY <1>10 DEF Resolve, p
  <2> QED BY <1>1, <2>1 DEF p
<1> QED BY <1>4, <1>5, <1>6, <1>7, <1>8, <1>9, <1>10 DEF WorkerStep, p

\* A step that is not one of the exchange leaves its processes and its page alone.
LEMMA StepExchanges ==
  ASSUME TypeInv, Next, NEW s \in Session
  PROVE  \/ Connect(s) \/ SessionStep(s) \/ Cut(s)
         \/ \E p \in {ClientOf(s), ServerOf(s)} : SharedStep(p) \/ LockBusy(p) \/ Interrupt(p)
         \/ UNCHANGED <<proc[ClientOf(s)], proc[ServerOf(s)], wire[s], known[s]>>
<1> DEFINE Alone == UNCHANGED <<proc[ClientOf(s)], proc[ServerOf(s)], wire[s], known[s]>>
<1>0. /\ proc \in [Process -> Local] /\ wire \in [Session -> Page]
      /\ known \in [Session -> SUBSET Events]
  BY DEF TypeInv, TypeOK
<1>1. ASSUME NEW p \in Process, OnlyTouches(p), p \notin {ClientOf(s), ServerOf(s)}
      PROVE  Alone
  BY <1>1, Processes DEF OnlyTouches
<1>2. ASSUME NEW d \in Device, \/ \E c \in Content : StartPublish(d, c)
                               \/ \E k \in Epoch, r \in Retry : StartReconcile(d, k, r)
                               \/ WorkerStep(d)
      PROVE  Alone
  <2>1. OnlyTouches(Worker(d))
    BY <1>2, WorkerTouches
  <2> QED BY <1>1, <2>1, Processes, Distinct
<1>3. ASSUME NEW p \in Process, p \notin {ClientOf(s), ServerOf(s)},
             SharedStep(p) \/ LockBusy(p) \/ Interrupt(p)
      PROVE  Alone
  BY <1>1, <1>3, SharedTouches
<1>4. ASSUME NEW r \in Session \ {s}, Connect(r) \/ SessionStep(r) \/ Cut(r)
      PROVE  Alone
  <2> DEFINE c == ClientOf(r)
             v == ServerOf(r)
  <2>0. /\ c \in Process /\ v \in Process
        /\ ClientOf(s) \in Process \ {c, v} /\ ServerOf(s) \in Process \ {c, v}
    BY Processes, Distinct
  <2>1. ASSUME Ends(c) \/ Ends(v) PROVE Alone
    BY <1>1, <2>0, <2>1, EndsTouches
  <2>2. ASSUME wire' = wire \/ \E m : wire' = [wire EXCEPT ![r] = m], UNCHANGED known,
               \A q \in Process \ {c, v} : proc'[q] = proc[q]
        PROVE  Alone
    BY <1>0, <2>0, <2>2
  <2> HIDE DEF c, v, Alone
  <2>3. CASE Connect(r)
    <3>1. /\ UNCHANGED known /\ \A q \in Process \ {c, v} : proc'[q] = proc[q]
          /\ wire' = [wire EXCEPT ![r].state = "open"]
      BY <1>0, <2>0, <2>3 DEF Connect, c, v
    <3>2. wire' = [wire EXCEPT ![r] = [wire[r] EXCEPT !.state = "open"]]
      BY <1>0, <3>1
    <3> QED BY <2>2, <3>1, <3>2
  <2>4. CASE SendPage(r)
    <3>1. \/ Ends(c)
          \/ /\ UNCHANGED known /\ \E m : wire' = [wire EXCEPT ![r] = m]
             /\ \E x : proc' = [proc EXCEPT ![c] = x]
      BY <2>4, Zenon DEF SendPage, Fails, c
    <3> QED BY <1>0, <2>1, <2>2, <3>1
  <2>5. CASE ReceiveRequest(r)
    <3>1. UNCHANGED <<known, wire>> /\ \E x : proc' = [proc EXCEPT ![v] = x]
      BY <2>5, Zenon DEF ReceiveRequest, v
    <3> QED BY <1>0, <2>2, <3>1
  <2>6. CASE LoadForRequest(r)
    <3>1. Ends(v) \/ (UNCHANGED <<known, wire>> /\ \A q \in Process \ {c, v} : proc'[q] = proc[q])
      BY <1>0, <2>6 DEF LoadForRequest, Fails, v
    <3> QED BY <2>1, <2>2, <3>1
  <2>7. CASE ReceiveReply(r)
    <3>1. Ends(c) \/ (UNCHANGED <<known, wire>> /\ \A q \in Process \ {c, v} : proc'[q] = proc[q])
      BY <1>0, <2>7 DEF ReceiveReply, Fails, c
    <3> QED BY <2>1, <2>2, <3>1
  <2>8. CASE SendReply(r)
    <3>1. /\ UNCHANGED known /\ \E m : wire' = [wire EXCEPT ![r] = m]
          /\ \E x : proc' = [proc EXCEPT ![v] = x]
      BY <2>8, Zenon DEF SendReply, v
    <3> QED BY <1>0, <2>2, <3>1
  <2>9. CASE Cut(r)
    BY <2>2, <2>9 DEF Cut
  <2> QED BY <1>4, <2>3, <2>4, <2>5, <2>6, <2>7, <2>8, <2>9 DEF SessionStep
<1> HIDE DEF Alone
<1>5. Alone => UNCHANGED <<proc[ClientOf(s)], proc[ServerOf(s)], wire[s], known[s]>>
  BY DEF Alone
<1> QED BY <1>2, <1>3, <1>4, <1>5 DEF Next

\* Only a side that has all the other one holds may send an empty page.
LEMMA EmptyPage ==
  ASSUME TypeOK, NEW S \in SUBSET Events, NEW have, {} \in Pages(S, have)
  PROVE  S \subseteq have
<1>1. IsFiniteSet(Events)
  BY FS_Interval DEF TypeOK, Events
<1>2. IsFiniteSet(S \ have)
  BY <1>1, FS_Subset
<1>3. Cardinality({}) = 0 /\ PageSize # 0
  BY FS_EmptySet, SyncAssumption
<1>4. Cardinality(S \ have) = 0
  BY <1>3 DEF Pages
<1>5. S \ have = {}
  BY <1>2, <1>4, FS_EmptySet
<1> QED BY <1>5

\* The client's steps, and the connection's.
LEMMA ClientExchanges ==
  ASSUME TypeInv, ShownInv, NEW s \in Session, ExchangeAt(s),
         Connect(s) \/ SendPage(s) \/ ReceiveReply(s) \/ Cut(s)
  PROVE  ExchangeAt(s)'
<1> DEFINE c == ClientOf(s)
           v == ServerOf(s)
<1>0. /\ TypeOK /\ proc \in [Process -> Local] /\ wire \in [Session -> Page]
      /\ known \in [Session -> SUBSET Events]
      /\ c \in Process /\ v \in Process /\ c # v /\ Home(c) = Client[s] /\ Home(v) = Server[s]
      /\ proc[c] \in Local /\ proc[v] \in Local /\ wire[s] \in Page
      /\ store[Client[s]] \in SUBSET Events /\ store[Server[s]] \in SUBSET Events
  BY Processes, Distinct DEF TypeInv, TypeOK
<1>1. Exchange(proc[c], proc[v], wire[s], known[s], store[Client[s]], store[Server[s]])
  BY DEF ExchangeAt
<1>2. ASSUME NEW w, NEW x, NEW y, Exchange(x, y, w, known[s], store[Client[s]], store[Server[s]]),
             proc'[c] = x, proc'[v] = y, wire'[s] = w, known'[s] = known[s], UNCHANGED store
      PROVE  ExchangeAt(s)'
  BY <1>2 DEF ExchangeAt
<1> HIDE DEF c, v
<1>3. CASE Ends(c) /\ UNCHANGED store
  <2>1. c[1] = "client" /\ c[2] = s
    BY Roles DEF c
  <2>2. /\ proc'[c] = Idle /\ proc'[v] = proc[v] /\ wire'[s] = Closed /\ known'[s] = {}
    BY <1>0, <1>3, <2>1 DEF Ends
  <2>3. Exchange(Idle, proc[v], Closed, {}, store[Client[s]], store[Server[s]])
    BY <1>1, ExchangeKept
  <2> QED BY <1>3, <2>2, <2>3 DEF ExchangeAt, c, v
<1>4. CASE Connect(s)
  <2> DEFINE x == Loading("send", Client[s])
             y == [Idle EXCEPT !.pc = "listen"]
             w == [wire[s] EXCEPT !.state = "open"]
  <2>1. proc'[c] = x /\ proc'[v] = y /\ wire'[s] = w /\ UNCHANGED <<known, store>>
    BY <1>0, <1>4 DEF Connect, c, v
  <2>2. x.pc = "send" /\ y.pc = "listen" /\ w.state = "open" /\ w.inventory = wire[s].inventory
    BY <1>0 DEF Loading, Idle, Page
  <2>3. proc[c].pc = "idle"
    BY <1>4 DEF Connect, c
  <2> HIDE DEF x, y, w
  <2>4. Exchange(x, y, w, known[s], store[Client[s]], store[Server[s]])
    BY <1>1, <2>2, <2>3 DEF Exchange
  <2> QED BY <1>2, <2>1, <2>4
<1>5. CASE SendPage(s)
  <2>1. CASE Fails(c)
    BY <1>3, <2>1 DEF Fails
  <2>2. CASE \E S \in Loads(c) : \E E \in Pages(S, known[s]) :
               /\ wire' = [wire EXCEPT ![s] = Message("request", S, E, E = {})]
               /\ proc' = [proc EXCEPT ![c] = [Idle EXCEPT !.pc = "wait", !.held = S]]
               /\ UNCHANGED <<signed, store, view, task, known, spent, faults>>
    <3> PICK S \in Loads(c) : \E E \in Pages(S, known[s]) :
               /\ wire' = [wire EXCEPT ![s] = Message("request", S, E, E = {})]
               /\ proc' = [proc EXCEPT ![c] = [Idle EXCEPT !.pc = "wait", !.held = S]]
               /\ UNCHANGED <<signed, store, view, task, known, spent, faults>>
      BY <2>2
    <3> PICK E \in Pages(S, known[s]) :
               /\ wire' = [wire EXCEPT ![s] = Message("request", S, E, E = {})]
               /\ proc' = [proc EXCEPT ![c] = [Idle EXCEPT !.pc = "wait", !.held = S]]
               /\ UNCHANGED <<signed, store, view, task, known, spent, faults>>
      OBVIOUS
    <3> DEFINE x == [Idle EXCEPT !.pc = "wait", !.held = S]
               w == Message("request", S, E, E = {})
    <3>1. proc'[c] = x /\ proc'[v] = proc[v] /\ wire'[s] = w /\ UNCHANGED <<known, store>>
      BY <1>0
    <3>2. S \in SUBSET Events /\ S \subseteq store[Client[s]]
      BY <1>0, LoadsType DEF ShownInv
    <3>3. w.done => S \subseteq known[s]
      <4>1. w.done => E = {}
        BY DEF Message
      <4>2. E = {} => S \subseteq known[s]
        BY <1>0, <3>2, EmptyPage
      <4> QED BY <4>1, <4>2
    <3>4. /\ x.pc = "wait" /\ x.held = S
          /\ w.state = "request" /\ w.inventory = S
      BY DEF Idle, Message
    <3>5. wire[s].state \in {"open", "reply"} \/ wire[s].state = "request"
      BY <1>0, <1>5 DEF SendPage, Page
    <3>6. proc[c].pc = "send"
      BY <1>5 DEF SendPage, c
    <3> HIDE DEF x, w
    <3>7. Exchange(x, proc[v], w, known[s], store[Client[s]], store[Server[s]])
      BY <1>1, <3>2, <3>3, <3>4, <3>5, <3>6 DEF Exchange
    <3> QED BY <1>2, <3>1, <3>7
  <2> QED BY <1>5, <2>1, <2>2 DEF SendPage, c
<1>6. CASE ReceiveReply(s)
  <2>1. CASE Fails(c)
    BY <1>3, <2>1 DEF Fails
  <2>2. CASE ~ Fails(c)
    <3> DEFINE x == [proc[c] EXCEPT !.pc = "persist", !.held = proc[c].held \cup wire[s].events,
                                    !.todo = wire[s].events]
    <3>1. /\ proc' = [proc EXCEPT ![c].pc = "persist", ![c].held = proc[c].held \cup wire[s].events,
                                  ![c].todo = wire[s].events]
          /\ UNCHANGED <<known, wire, store>>
          /\ proc[c].pc = "wait" /\ wire[s].state = "reply"
      BY <1>6, <2>2 DEF ReceiveReply, c
    <3>2. proc'[c] = x /\ proc'[v] = proc[v]
      BY <1>0, <3>1
    <3>3. x.pc = "persist" /\ x.held = proc[c].held \cup wire[s].events
      BY <1>0 DEF Local
    <3> HIDE DEF x
    <3>4. Exchange(x, proc[v], wire[s], known[s], store[Client[s]], store[Server[s]])
      BY <1>1, <3>1, <3>3 DEF Exchange
    <3> QED BY <1>2, <3>1, <3>2, <3>4
  <2> QED BY <2>1, <2>2
<1>7. CASE Cut(s)
  <2>1. proc' = proc /\ known' = known /\ store' = store /\ wire'[s] = Closed
    BY <1>0, <1>7 DEF Cut
  <2>2. Exchange(proc[c], proc[v], Closed, known[s], store[Client[s]], store[Server[s]])
    BY <1>1, ExchangeKept
  <2> QED BY <1>2, <2>1, <2>2
<1> QED BY <1>4, <1>5, <1>6, <1>7

\* The server's steps: what it answers holds all that the client knows of it.
LEMMA ServerExchanges ==
  ASSUME TypeInv, ShownInv, NEW s \in Session, ExchangeAt(s),
         ReceiveRequest(s) \/ LoadForRequest(s) \/ SendReply(s)
  PROVE  ExchangeAt(s)'
<1> DEFINE c == ClientOf(s)
           v == ServerOf(s)
<1>0. /\ TypeOK /\ proc \in [Process -> Local] /\ wire \in [Session -> Page]
      /\ known \in [Session -> SUBSET Events]
      /\ c \in Process /\ v \in Process /\ c # v /\ Home(c) = Client[s] /\ Home(v) = Server[s]
      /\ proc[c] \in Local /\ proc[v] \in Local /\ wire[s] \in Page
      /\ store[Client[s]] \in SUBSET Events /\ store[Server[s]] \in SUBSET Events
  BY Processes, Distinct DEF TypeInv, TypeOK
<1>1. Exchange(proc[c], proc[v], wire[s], known[s], store[Client[s]], store[Server[s]])
  BY DEF ExchangeAt
<1>2. ASSUME NEW w, NEW y,
             Exchange(proc[c], y, w, known[s], store[Client[s]], store[Server[s]]),
             proc'[c] = proc[c], proc'[v] = y, wire'[s] = w, UNCHANGED <<known, store>>
      PROVE  ExchangeAt(s)'
  BY <1>2 DEF ExchangeAt
<1> HIDE DEF c, v
<1>3. CASE ReceiveRequest(s)
  <2> DEFINE y == [Loading("load", Server[s]) EXCEPT !.todo = wire[s].events]
  <2>1. proc'[c] = proc[c] /\ proc'[v] = y /\ UNCHANGED <<wire, known, store>>
    BY <1>0, <1>3 DEF ReceiveRequest, v
  <2>2. y.pc = "load" /\ y.base = Base(Server[s])
    BY DEF Loading, Idle
  <2>3. Torn => Base(Server[s]) = store[Server[s]]
    BY DEF Base
  <2>4. wire[s].state = "request"
    BY <1>3 DEF ReceiveRequest
  <2> HIDE DEF y
  <2>5. Exchange(proc[c], y, wire[s], known[s], store[Client[s]], store[Server[s]])
    BY <1>1, <2>2, <2>3, <2>4 DEF Exchange
  <2> QED BY <1>2, <2>1, <2>5
<1>4. CASE LoadForRequest(s)
  <2>1. CASE Fails(v)
    <3>1. v[1] = "server" /\ v[2] = s
      BY Roles DEF v
    <3>2. /\ proc'[c] = proc[c] /\ proc'[v] = Idle /\ wire'[s] = Closed
          /\ UNCHANGED <<known, store>>
      BY <1>0, <2>1, <3>1 DEF Fails, Ends
    <3>3. Exchange(proc[c], Idle, Closed, known[s], store[Client[s]], store[Server[s]])
      BY <1>1, ExchangeKept
    <3> QED BY <1>2, <3>2, <3>3
  <2>2. ASSUME NEW S \in Loads(v),
               /\ proc' = [proc EXCEPT ![v].pc = "persist", ![v].base = {},
                                       ![v].held = S \cup proc[v].todo]
               /\ UNCHANGED <<signed, store, view, task, known, wire, spent, faults>>
        PROVE  ExchangeAt(s)'
    <3> DEFINE y == [proc[v] EXCEPT !.pc = "persist", !.base = {}, !.held = S \cup proc[v].todo]
    <3>1. proc'[c] = proc[c] /\ proc'[v] = y /\ UNCHANGED <<wire, known, store>>
      BY <1>0, <2>2
    <3>2. y.pc = "persist" /\ y.held = S \cup proc[v].todo /\ y.todo = proc[v].todo
      BY <1>0 DEF Local
    <3>3. S \subseteq store[Server[s]] /\ (IF Torn THEN proc[v].base \subseteq S ELSE S = store[Server[s]])
      BY <1>0, LoadsType DEF ShownInv
    <3>4. proc[v].pc = "load"
      BY <1>4 DEF LoadForRequest, v
    <3> HIDE DEF y
    <3>5. Exchange(proc[c], y, wire[s], known[s], store[Client[s]], store[Server[s]])
      BY <1>1, <3>2, <3>3, <3>4 DEF Exchange
    <3> QED BY <1>2, <3>1, <3>5
  <2> QED BY <1>4, <2>1, <2>2 DEF LoadForRequest, v
<1>5. CASE SendReply(s)
  <2>1. PICK E \in Pages(proc[v].held, wire[s].inventory) :
          LET done == ReplyDone(E, wire[s]) IN
          /\ wire' = [wire EXCEPT ![s] = Message("reply", proc[v].held, E, done)]
          /\ proc' = [proc EXCEPT ![v] = IF done THEN Idle ELSE [Idle EXCEPT !.pc = "listen"]]
    BY <1>5 DEF SendReply, v
  <2> DEFINE done == ReplyDone(E, wire[s])
             w == Message("reply", proc[v].held, E, done)
             y == IF done THEN Idle ELSE [Idle EXCEPT !.pc = "listen"]
  <2>2. proc'[c] = proc[c] /\ proc'[v] = y /\ wire'[s] = w /\ UNCHANGED <<known, store>>
    BY <1>0, <1>5, <2>1 DEF SendReply
  <2>3. /\ w.state = "reply" /\ w.inventory = proc[v].held /\ w.events = E
        /\ y.pc \in {"idle", "listen"}
    BY DEF Message, Idle
  <2>4. proc[v].pc = "reply" /\ wire[s].state = "request"
    BY <1>5 DEF SendReply, v
  <2>5. w.done => E = {} /\ wire[s].done /\ proc[v].held \subseteq wire[s].inventory
    <3>1. w.done => E = {} /\ wire[s].done
      BY DEF Message, ReplyDone
    <3>2. E = {} => proc[v].held \subseteq wire[s].inventory
      BY <1>0, EmptyPage DEF Local
    <3> QED BY <3>1, <3>2
  <2> HIDE DEF done, w, y
  <2>6. /\ proc[c].pc = "wait" /\ wire[s].inventory = proc[c].held
        /\ proc[c].held \subseteq store[Client[s]] /\ proc[v].held \subseteq store[Server[s]]
        /\ known[s] \subseteq store[Server[s]] /\ known[s] \subseteq proc[v].held
        /\ wire[s].done => wire[s].inventory \subseteq known[s]
    BY <1>1, <2>4 DEF Exchange
  <2>7. ASSUME w.done PROVE w.events = {} /\ w.inventory = proc[c].held
    <3>1. E = {} /\ wire[s].inventory \subseteq known[s]
      BY <2>5, <2>6, <2>7, Zenon
    <3>2. proc[v].held \subseteq wire[s].inventory
      BY <2>5, <2>7, Zenon
    <3>3. proc[v].held = proc[c].held
      BY <2>6, <3>1, <3>2
    <3> QED BY <2>3, <3>1, <3>3
  <2>8. Exchange(proc[c], y, w, known[s], store[Client[s]], store[Server[s]])
    BY <2>3, <2>6, <2>7 DEF Exchange
  <2> QED BY <1>2, <2>2, <2>8
<1> QED BY <1>3, <1>4, <1>5

\* The steps either side shares with the worker; only the server answers with
\* what it had in hand.
LEMMA SharedExchanges ==
  ASSUME TypeInv, ShownInv, NEW s \in Session, ExchangeAt(s),
         NEW p \in {ClientOf(s), ServerOf(s)}, SharedStep(p) \/ LockBusy(p) \/ Interrupt(p),
         \A d \in Device : store[d] \subseteq store'[d]
  PROVE  ExchangeAt(s)'
<1> DEFINE c == ClientOf(s)
           v == ServerOf(s)
<1>0. /\ TypeOK /\ proc \in [Process -> Local] /\ wire \in [Session -> Page]
      /\ known \in [Session -> SUBSET Events] /\ store \in [Device -> SUBSET Events]
      /\ p \in Process /\ Home(p) \in Device
      /\ c \in Process /\ v \in Process /\ c # v /\ Home(c) = Client[s] /\ Home(v) = Server[s]
      /\ proc[c] \in Local /\ proc[v] \in Local /\ wire[s] \in Page
      /\ store[Client[s]] \subseteq store'[Client[s]] /\ store[Server[s]] \subseteq store'[Server[s]]
  BY Processes, Distinct, SyncAssumption DEF TypeInv, TypeOK
<1>r. c[1] = "client" /\ c[2] = s /\ v[1] = "server" /\ v[2] = s
  BY Roles
<1>1. Exchange(proc[c], proc[v], wire[s], known[s], store'[Client[s]], store'[Server[s]])
  BY <1>0, ExchangeKept DEF ExchangeAt
<1>2. ASSUME NEW w, NEW x, NEW y, NEW k,
             Exchange(x, y, w, k, store'[Client[s]], store'[Server[s]]),
             proc'[c] = x, proc'[v] = y, wire'[s] = w, known'[s] = k
      PROVE  ExchangeAt(s)'
  BY <1>2 DEF ExchangeAt
<1>p. p = c \/ p = v
  OBVIOUS
<1> HIDE DEF c, v
<1>3. ASSUME Ends(p) PROVE ExchangeAt(s)'
  <2>1. CASE p = c
    <3>1. proc'[c] = Idle /\ proc'[v] = proc[v] /\ wire'[s] = Closed /\ known'[s] = {}
      BY <1>0, <1>r, <1>3, <2>1 DEF Ends
    <3>2. Exchange(Idle, proc[v], Closed, {}, store'[Client[s]], store'[Server[s]])
      BY <1>1, ExchangeKept
    <3> QED BY <1>2, <3>1, <3>2
  <2>2. CASE p = v
    <3>1. proc'[c] = proc[c] /\ proc'[v] = Idle /\ wire'[s] = Closed /\ known'[s] = known[s]
      BY <1>0, <1>r, <1>3, <2>2 DEF Ends
    <3>2. Exchange(proc[c], Idle, Closed, known[s], store'[Client[s]], store'[Server[s]])
      BY <1>1, ExchangeKept
    <3> QED BY <1>2, <3>1, <3>2
  <2> QED BY <1>p, <2>1, <2>2
\* p goes on, between current and project, with what it has in hand.
<1>4. ASSUME NEW x, proc' = [proc EXCEPT ![p] = x], UNCHANGED <<wire, known>>,
             x.pc \in {"current", "project"}, x.held = proc[p].held,
             \/ proc[p].pc \in {"current", "project"}
             \/ proc[p].pc = "persist" /\ proc[p].todo = {}
      PROVE  ExchangeAt(s)'
  <2>1. CASE p = c
    <3>1. Exchange(x, proc[v], wire[s], known[s], store'[Client[s]], store'[Server[s]])
      BY <1>1, <1>4, <2>1 DEF Exchange
    <3>2. proc'[c] = x /\ proc'[v] = proc[v]
      BY <1>0, <1>4, <2>1
    <3> QED BY <1>2, <1>4, <3>1, <3>2
  <2>2. CASE p = v
    <3>1. Exchange(proc[c], x, wire[s], known[s], store'[Client[s]], store'[Server[s]])
      BY <1>1, <1>4, <2>2 DEF Exchange
    <3>2. proc'[v] = x /\ proc'[c] = proc[c]
      BY <1>0, <1>4, <2>2
    <3> QED BY <1>2, <1>4, <3>1, <3>2
  <2> QED BY <1>p, <2>1, <2>2
<1>5. ASSUME Returns(p), \/ proc[p].pc = "project"
                         \/ proc[p].pc = "persist" /\ proc[p].todo = {}
      PROVE  ExchangeAt(s)'
  <2>1. CASE p = c
    <3>1. IF wire[s].done
            THEN proc'[c] = Idle /\ known'[s] = {} /\ wire'[s] = Closed
            ELSE /\ proc'[c] = Loading("send", Client[s])
                 /\ known'[s] = wire[s].inventory /\ wire'[s] = wire[s]
      BY <1>0, <1>5, <2>1, ClientReturns DEF c
    <3>2. proc'[v] = proc[v]
      BY <1>0, <1>5, <2>1, ReturnsTouches DEF OnlyTouches, TypeInv
    <3>3. Exchange(Idle, proc[v], Closed, {}, store'[Client[s]], store'[Server[s]])
      BY <1>1, ExchangeKept
    <3>4. CASE ~ wire[s].done
      <4> DEFINE x == Loading("send", Client[s])
      <4>1. x.pc = "send"
        BY DEF Loading, Idle
      <4> HIDE DEF x
      <4>2. Exchange(x, proc[v], wire[s], wire[s].inventory,
                     store'[Client[s]], store'[Server[s]])
        BY <1>1, <1>5, <2>1, <3>4, <4>1 DEF Exchange
      <4> QED BY <1>2, <3>1, <3>2, <3>4, <4>2 DEF x
    <3>5. CASE wire[s].done
      BY <1>2, <3>1, <3>2, <3>3, <3>5
    <3> QED BY <3>4, <3>5
  <2>2. CASE p = v
    <3> DEFINE y == [Idle EXCEPT !.pc = "reply", !.held = proc[v].held]
    <3>1. ServerReturns(s)
      BY <1>5, <2>2, ReturnsRoles DEF v
    <3>2. proc'[v] = y /\ proc'[c] = proc[c] /\ wire'[s] = wire[s] /\ known'[s] = known[s]
      BY <1>0, <3>1 DEF ServerReturns, v
    <3>3. y.pc = "reply" /\ y.held = proc[v].held
      BY DEF Idle
    <3> HIDE DEF y
    <3>4. Exchange(proc[c], y, wire[s], known[s], store'[Client[s]], store'[Server[s]])
      BY <1>1, <1>5, <2>2, <3>3 DEF Exchange
    <3> QED BY <1>2, <3>2, <3>4
  <2> QED BY <1>p, <2>1, <2>2
<1>6. ASSUME Retries(p), proc[p].pc = "project" PROVE ExchangeAt(s)'
  <2>1. CASE ~ Ends(p)
    <3> DEFINE x == [proc[p] EXCEPT !.pc = "current", !.tries = @ + 1, !.seen = {}, !.base = {}]
    <3>1. proc' = [proc EXCEPT ![p] = x] /\ UNCHANGED <<wire, known>>
      BY <1>0, <1>6, <2>1 DEF Retries
    <3>2. x.pc = "current" /\ x.held = proc[p].held
      BY <1>0 DEF Local
    <3> HIDE DEF x
    <3> QED BY <1>4, <1>6, <3>1, <3>2
  <2> QED BY <1>3, <2>1
<1>7. CASE ReadCurrent(p)
  <2> DEFINE x == [proc[p] EXCEPT !.pc = "project", !.seen = view[Home(p)], !.base = Base(Home(p))]
  <2>1. proc' = [proc EXCEPT ![p] = x] /\ UNCHANGED <<wire, known>>
    BY <1>7 DEF ReadCurrent
  <2>2. x.pc = "project" /\ x.held = proc[p].held
    BY <1>0 DEF Local
  <2>3. proc[p].pc = "current" \/ (proc[p].pc = "persist" /\ proc[p].todo = {})
    BY <1>7 DEF ReadCurrent, Accepted
  <2> HIDE DEF x
  <2> QED BY <1>4, <2>1, <2>2, <2>3
<1>8. CASE PublishView(p)
  BY <1>3, <1>5, <1>6, <1>8 DEF PublishView, Fails
<1>9. CASE PersistEvent(p)
  <2> PICK e \in proc[p].todo : /\ store' = [store EXCEPT ![Home(p)] = @ \cup {e}]
                                /\ proc' = [proc EXCEPT ![p].todo = @ \ {e}]
    BY <1>9 DEF PersistEvent
  <2> DEFINE x == [proc[p] EXCEPT !.todo = @ \ {e}]
  <2>1. proc' = [proc EXCEPT ![p] = x] /\ UNCHANGED <<wire, known>> /\ proc[p].pc = "persist"
    BY <1>9 DEF PersistEvent
  <2>2. x.pc = "persist" /\ x.held = proc[p].held /\ x.todo = proc[p].todo \ {e}
    BY <1>0, <2>1 DEF Local
  <2>3. e \in store'[Home(p)]
    BY <1>0
  <2> HIDE DEF x
  <2>4. CASE p = c
    <3>1. Exchange(x, proc[v], wire[s], known[s], store'[Client[s]], store'[Server[s]])
      BY <1>1, <2>1, <2>2, <2>4 DEF Exchange
    <3>2. proc'[c] = x /\ proc'[v] = proc[v]
      BY <1>0, <2>1, <2>4
    <3> QED BY <1>2, <2>1, <3>1, <3>2
  <2>5. CASE p = v
    <3>1. Exchange(proc[c], x, wire[s], known[s], store'[Client[s]], store'[Server[s]])
      BY <1>0, <1>1, <2>1, <2>2, <2>3, <2>5 DEF Exchange
    <3>2. proc'[v] = x /\ proc'[c] = proc[c]
      BY <1>0, <2>1, <2>5
    <3> QED BY <1>2, <2>1, <3>1, <3>2
  <2> QED BY <1>p, <2>4, <2>5
<1>10. CASE Staged(p)
  BY <1>5, <1>10 DEF Staged
<1>11. CASE HangUp(p)
  BY <1>3, <1>11 DEF HangUp, Fails
<1>12. CASE LockBusy(p)
  BY <1>6, <1>12 DEF LockBusy
<1>13. CASE Interrupt(p)
  BY <1>3, <1>13 DEF Interrupt
<1> QED BY <1>7, <1>8, <1>9, <1>10, <1>11, <1>12, <1>13 DEF SharedStep

LEMMA NextExchange == TypeInv /\ ShownInv /\ ExchangeInv /\ [Next]_vars => ExchangeInv'
<1> SUFFICES ASSUME TypeInv, ShownInv, ExchangeInv, [Next]_vars, NEW s \in Session
             PROVE  ExchangeAt(s)'
  BY DEF ExchangeInv
<1>0. ExchangeAt(s)
  BY DEF ExchangeInv
<1>1. CASE UNCHANGED vars
  BY <1>0, <1>1 DEF vars, ExchangeAt
<1>2. CASE Next
  <2>1. \A d \in Device : store[d] \subseteq store'[d]
    BY <1>2, StepShows
  <2>2. CASE UNCHANGED <<proc[ClientOf(s)], proc[ServerOf(s)], wire[s], known[s]>>
    <3>1. Client[s] \in Device /\ Server[s] \in Device
      BY SyncAssumption
    <3>2. Exchange(proc[ClientOf(s)], proc[ServerOf(s)], wire[s], known[s],
                   store'[Client[s]], store'[Server[s]])
      BY <1>0, <2>1, <3>1, ExchangeKept DEF ExchangeAt
    <3> QED BY <2>2, <3>2 DEF ExchangeAt
  <2>3. CASE \E p \in {ClientOf(s), ServerOf(s)} : SharedStep(p) \/ LockBusy(p) \/ Interrupt(p)
    BY <1>0, <2>1, <2>3, SharedExchanges
  <2>4. CASE Connect(s) \/ SessionStep(s) \/ Cut(s)
    BY <1>0, <2>4, ClientExchanges, ServerExchanges DEF SessionStep
  <2> QED BY <1>2, <2>2, <2>3, <2>4, StepExchanges
<1> QED BY <1>1, <1>2

\* An exchange that ends well ends even: each side's ledger holds the one
\* inventory both wrote last, whatever workers, other exchanges, torn loads,
\* kills and cuts did meanwhile (exchange, serve).
THEOREM EvenAtTheEnd == Spec => []EndsEven
<1>1. Init => ExchangeInv
  <2> SUFFICES ASSUME Init, NEW s \in Session PROVE ExchangeAt(s)
    BY DEF ExchangeInv
  <2>1. /\ proc[ClientOf(s)] = Idle /\ proc[ServerOf(s)] = Idle
        /\ wire[s] = Closed /\ known[s] = {}
    BY Processes DEF Init
  <2>2. Idle.pc = "idle" /\ Closed.state = "closed" /\ Closed.inventory = {}
    BY DEF Idle, Closed
  <2> QED BY <2>1, <2>2 DEF ExchangeAt, Exchange
<1>2. Init /\ [][Next]_vars /\ [](TypeInv /\ ShownInv) => []ExchangeInv
  BY <1>1, NextExchange, PTL
<1>3. ExchangeInv => EndsEven
  BY DEF ExchangeInv, ExchangeAt, Exchange, EndsEven
<1> QED BY <1>2, <1>3, ShownInvariant, PTL DEF Spec
=============================================================================
