# Verification of chaosbox

chaosbox extracts a code graph from a repository, has a pinned model (Jev) decide
on candidate relations, publishes versioned builds to PostgreSQL and serves them
read-only: to readers, over MCP, through scoped read views and, for knowledge, across
a federation of peers. Beside that core it keeps session knowledge (compaction),
synchronises knowledge between peers, verifies session migrations, and records what
happens to scratch directories and which objects were added to the Nix store.

This directory holds TLA+ specifications of its stateful parts, the TLC
configurations that check them on small instances, and TLAPS proofs that hold for
every instance. Source paths are relative to `src/crates/` unless they start with
`src/`.

Contents: [modules](#modules) · [inventory](#inventory) ·
[graph publication](#graph-publication) · [paid answers](#paid-answers) ·
[session knowledge](#session-knowledge) · [peer sync](#peer-sync) ·
[components](#components): [scratch ledger](#scratch-ledger) ·
[Nix additions](#nix-additions) · [session migration](#session-migration) ·
[MCP session](#mcp-session) · [graph reading](#graph-reading) ·
[federated reading](#federated-reading) · [scoped reading](#scoped-reading) —
[findings](#findings) · [proofs](#proofs) ·
[only model-checked](#what-is-only-model-checked) · [plan](#plan) ·
[not modelled](#what-is-not-modelled) · [running](#running-the-checks)

## Modules

| module | models | proofs |
| --- | --- | --- |
| `VersionChain` | what publication promises: one atomic step seals an immutable version and makes it active | `VersionChainProofs` |
| `GraphPublication` | `chaosbox run` up to and including `PgStore::publish` | `GraphPublicationProofs` |
| `PaidAnswers` | preflight, decision loop, reuse rule, Jev request budget, durable inferences and decisions | `PaidAnswersProofs` |
| `KnowledgeLog` | what the session worker promises: one final verdict per occurrence, coverage after decision | (implemented by the next) |
| `SessionKnowledge` | capture queue, worker lease, paid attempts, assessment transactions, knowledge outbox | `SessionKnowledgeProofs` |
| `PeerSync` | device ledgers, exchange, publication of views, reconciliation with a budget | `PeerSyncProofs` |
| `ScratchLedger` | reports about scratch directories, the question whether one may be removed, the assessment worker | `OperationsProofs` |
| `NixOperations` | additions to the Nix store under a caller's identity | `OperationsProofs` |
| `SessionCampaign` | `sessions verify` beside the migration driver | `OperationsProofs` |
| `StoreAdoption` | `sessions adopt`, a statement at a time, beside a SQLite writer | `OperationsProofs` |
| `PinnedTools` | resolution and start of a pinned migration tool beside edits of it | `OperationsProofs` |
| `McpSession` | the MCP frame loop over stdio | `ReadingProofs` |
| `GraphRows` | rows, walks and shortest paths: the reference definitions of the next and of `ScopedReading` | |
| `GraphReading` | neighborhood pages, path search, context, export and diff over pinned builds | `ReadingProofs` (pages, paths), `PacketProofs` (contexts) |
| `FederatedReading` | context and evidence queries over several providers and their grants | `ReadingProofs` (disclosure), `PacketProofs` (counts) |
| `ScopedReading` | read views: admission, frozen scope, the connection and its budget | `ReadingProofs` (disclosure) |

`MC*` modules instantiate them for TLC. `GraphPublication` implements
`VersionChain`, and `SessionKnowledge` implements `KnowledgeLog`; both refinements
are checked by TLC and proved. `MCComponents` puts the modules from `ScratchLedger`
on side by side (`MCOperations`, `MCSessions` and `MCReading` hold their instances).

## Inventory

State a component keeps, what changes it, who it talks to, what is hard about it and
what makes it correct. "—" means nothing durable or shared.

| component | state | operations | interacts with | hard behaviour | correct when |
| --- | --- | --- | --- | --- | --- |
| graph publication (`chaosbox-pg/src/store.rs`, `chaosbox/src/pipeline.rs`) | `graph_builds`, claims, `active_pointer`; staging memory store | chain, gate, build, stage claims, publish, reconcile, retry | pipeline, PostgreSQL | rival runs, lost sessions, COMMIT with unknown outcome, claims shared across repositories | history of a repository is a line; sealed versions immutable; success means sealed; a partial build never replaces a full one |
| paid answers (`pipeline.rs`, `reuse.rs`, `chaosbox-jev`) | `inferences`, `decisions`; request counter | preflight, reuse, ask, retry, record | Jev endpoint, PostgreSQL | racing answers, flapping endpoint, crash between payment and record, two keys with different lifetimes | one answer per reuse key; spend within budget; preflight covers the loop |
| session worker and outbox (`compaction/worker.rs`, `chaosbox-pg/src/knowledge.rs`) | `captures`, `attempts`, `processed`, `selections`, `knowledge`, `publication`; lease database; `knowledge_pointer` | open, capture, drain, publish | SQLite, Jev, PostgreSQL, other archives | process death anywhere, retries, tool bodies arriving late, rival archives, lost COMMIT | no verdict lost or revised, no answered question asked again; cumulative budget; rivals never overwritten |
| session custody and planner (`compaction/mod.rs`, `planner.rs`, `native.rs`) | `blobs`, `tool_sources`, `shell_sources`, `plans` | capture, observe, plan, repair, verify | worker | a later capture or repair changes what an issued plan is rebuilt from | an omission is always backed by a receipt bound to its source; plans fit their bounds |
| peer synchronisation (`chaosbox/src/sync/*`, `chaosbox-store/src/replica.rs`, `chaosbox-pg/src/store/replica.rs`) | replica events, staged dependencies, heads, reconcile jobs, reservations | exchange, receive, project, reconcile, publish current | peers, Jev, PostgreSQL | pages out of order and repeated, gaps, concurrent reconcilers, events arriving during a paid request | every receipt replays; a question is asked once by who can know of it; spending within budget; what is shown is complete and only grows; devices in contact converge |
| scratch ledger (`chaosbox/src/scratch/*`) | events, invocations, allocations, observers; attempts of the assessor | record a batch, query, assess | producers, cleaners, file system, Jev | an object replaced under its path, reports late and repeated, verdicts about evidence that is gone, death between reservation and answer | what may be removed was released and not touched since; verdicts are about current evidence; budget |
| Nix operation records (`chaosbox/src/nix/*`) | operations, executions, settlements | add (begin, execute, describe, settle), query | callers, Nix store | two callers under one identity, death between any two transactions | an identity runs once and has one outcome |
| session migration (`sessions/*`) | receipts, pins, progress, destination; adoption records; pinned tools | verify, adopt, install, rollback | migration driver, SQLite writers | the driver still works, receipts of retries and forks, a checkpoint between two reads | a pass that succeeds saw one exact moment; a record is of the file it hashes; only what was pinned and not edited since runs |
| MCP server (`mcp_server.rs`) | queue, running call, controls, response being written, database driver | read, dispatch, call, cancel, write, time out | one client, readers | cancellation racing an answer, ids used again, full queues, deadlines | one response per request; the session settles |
| graph readers (`reader*.rs`, `chaosbox-pg/src/reader.rs`, `chaosbox-store/src/*reader*.rs`) | pinned build, cursor, budgets | page, path, context, export, diff | PostgreSQL or memory | the active build changes between pages, budgets run out in the middle | pages are the neighborhood; short answers say so |
| federation (`federation/*`) | policy, generations, one query | context, evidence | peers' providers | grants and generations change between load and answer, wrong or failing peers | nothing is disclosed without a grant in force; an answer accounts for every provider |
| read views (`read_view/*`) | frozen scope, lease, connection, budget | admit, serve, revoke, expire | connector, one client | revocation and expiry during a call, rows across the border | nothing outside the view, within the budget |
| task leases (`chaosbox-store/src/task.rs`) | tasks with owner, generation, expiry | claim, heartbeat, complete, reclaim | workers | expiry racing a heartbeat, a late completion | a stale generation changes nothing |
| in-memory store (`chaosbox-store/src/store.rs`) | maps behind the same contract as PostgreSQL | put, publish | publication staging | staging ahead of the database | modelled as the staging of the first two parts |
| managed PostgreSQL (`postgres/*`) | data directory, lock, process | init, start, stop, migrate | operating system | two starters, stale pid | one server per directory |
| query log, embeddings, history | append-only rows, backlog | record, backfill | PostgreSQL | repeated backfill | errors never change a run's verdict |
| watch loop (`pipeline_cmd.rs`) | fingerprint, last snapshot | poll, run | pipeline | a change during a run, a failed run | changes are eventually published |
| extraction, selection, communities, ranking, materialisation, workspace impact, setup | — | pure functions | pipeline, readers | caps, ties, bounds | agree with a reference definition |

The components and their status are listed in `PROJECT.json`, with the hazards of each
at their source line.

## Graph publication

`GraphPublication` has one action per step of a run: `Chain` (read the live
pointer), `Decide` (pipeline, generation and identity), `KeepActive`,
`RejectFailed`, `StageClaim`, then the attempts of `PgStore::publish`:
`ExactRetry` or `OpenTransaction` (advisory lock, live checks, staging),
`WriteRows`, `SendCommit`, `CommitAnswered`, `LoseSession`, `Reconcile`. The
server is a separate party: `ServerCommit`, `ServerRollback`, `ServerAbort` act on
`tx[r]` whether or not the client still listens, which is what makes a COMMIT's
outcome unknown. `Crash`, `Restart` and `RetrySameStore` (same process, staging kept)
cover the rest.

A build's digest is represented by the content itself; claim rows are kept because
runs of two repositories hold different advisory locks and meet only there.

| run | asks | instance |
| --- | --- | --- |
| `GraphPublication_rivals` | chain, durability, refinement, gate | 2 runs, 1 repository, 2 snapshots, 2 claim ids, 1 fault |
| `GraphPublication_repos` | claims across repositories; publication ends (fair) | 2 runs of 2 repositories sharing one claim id, 2 faults |
| `GraphPublication_uncertain` | finding 1 | lost session |

Two runs suffice for every lock and predecessor conflict (they are pairwise), and a
run restarts, so that versions of one run interleave too. Generations stop at
`MaxGeneration`, which is also the code's own i64 bound, so the refusal is reached.
`MaxFaults` counts crashes, lost sessions and server aborts together: one in
`rivals`, two in the other runs.

Fairness (`AttemptsEnd`): a process inside publication executes its next statement,
and the server answers or ends a transaction (statement and idle timeouts are set on
every connection, `chaosbox-pg/src/common.rs`). Nobody is assumed to start a run.

## Paid answers

`PaidAnswers` models one candidate question through preflight (`Count`,
`Preflight`), the loop (`Reuse`, `Skip`, `Ask`), the client (`Dispatch`, `Answered`,
`Transient`, `Fault`, `OutOfRequests`) and the two durable writes (`StoreInference`,
`WriteDecision`, `StageDecision`) with a crash possible in between. The relation-local
reuse key, the decision key and the audit cache key are kept apart, because the
interesting cases are those in which two of them agree and the third does not.

| run | asks | instance |
| --- | --- | --- |
| `PaidAnswers_racers` | convergence, budget, failures never displace answers | 2 runs, 2 policies, 2 cache contexts, retries, 1 crash |

## Session knowledge

`SessionKnowledge` models `drain`, `drain --publish` and `publish` processes over one
archive. `journal` is `memory.sqlite`, `lease` the write lock of `worker.sqlite`,
`pointer`/`commit` the PostgreSQL side; everything else is process memory and is
cleared by `Crash`. One action is one journal transaction or one exchange with the
model or the server:

* `Open`, `Forget` – `Journal::open` with its version check and the migration that
  forgets a retired backend's predecessor;
* `CaptureSession` – takes no lease, at any time;
* `StartAssessing` … `FinishAssessing` – `assess_pending`; `SkipItem`, `Replay`,
  `RefuseAttempt`, `ReserveAttempt` are the branches of `evaluate` before dispatch,
  `Respond`/`RespondFails` its second transaction, `Apply`/`RefuseAnswer` what
  `assess` and `validate_answers` do with the answer, `CoverCapture` the final
  transaction of a capture;
* `StartPublishing`, `Compare`, `LosePointer`, `SendCommit`, `CommitAnswered`,
  `LoseSession`, `Reread`, `Record` – `publish_pending` and `publish_knowledge`;
* `RivalPublish` – another archive of the scope.

What extraction finds is a constant, `Extract[c][S]`: the items of capture `c` when
the captures `S` are in custody. It depends on `S` because `Journal::normalized` puts
tool bodies of one capture into the text of another. A question's key is the item,
the text and the related records already admitted. In the instances with
overlapping captures the second holds the body of a tool the first one calls, so that the
first one's text changes when the second is in custody.

| run | asks | instance |
| --- | --- | --- |
| `SessionKnowledge_drains` | tables agree, no answered question is asked again, refinement, cumulative budget | 2 drains, 2 overlapping captures, 2 origins, 1 line, 2 faults |
| `SessionKnowledge_outbox` | rivals safe, generations grow, every process ends (fair) | 2 processes, 1 rival, 1 capture, 2 faults |
| `SessionKnowledge_interrupted` | finding 2 | a crash after the PostgreSQL commit |
| `SessionKnowledge_retry` | finding 3 | an answer stored and then refused |
| `SessionKnowledge_custody` | finding 4 | a crash after the receipt, then a capture with a tool body |

Bounds: `MaxRequests`/`MaxTokens` are the program's own ceilings and small enough
that they are hit; `MaxFaults` counts crashes, failed requests, journal and database
errors, lost sessions and rivals. Two overlapping captures are the least in which the
same occurrence is met twice and a record related to another exists.

`TablesAgree` relates four tables written by two transactions; `AnsweredOnce` says that
nothing is dispatched under the key of a question that has a receipt, which needs the
lease, and the receipt looked up before the reservation, across crashes. That an
occurrence is paid for once (`PaidOnce`) is more, and false: the text may change between
the receipt and the verdict, and with it the key. `PublishedIsSafe`
(`PublishedGrows` and `RivalNeverOverwritten`) is about a COMMIT that arrives when its
sender is gone.

Fairness (`WorkersEnd`): an opened process executes its next statement, the model
answers or its request times out, the server answers; `LeaseBusy` is SQLite's
five-second busy timeout, so a process that waits ends too.

## Peer sync

`PeerSync` models every device's ledger (`store`, the table `replica_events`) and
published view (`view`, `replica_pointer`), and the processes that share them: a worker
(`Worker(d)`, under the device lease) and, for each exchange, the two ends `ClientOf(s)`
and `ServerOf(s)`, which take no lease. `proc` is a process's control state and what it
has in hand, `task` what a worker was asked, `known` and `wire` an exchange.

* `StartPublish`, `Publish` – `cli::publish`;
* `StartReconcile`, `QueueJobs`, `Reserve`, `Resolve`, `RequestFails` –
  `worker::reconcile`: the queue, then for each job a fresh load, the checks, the
  reservation, the request, and the receipt, signed over the frontier it was asked from;
* `ReadCurrent`, `PublishView`, `LockBusy` – `publish_current` and `replica_publish`,
  with three attempts;
* `Connect`, `SendPage`, `ReceiveRequest`, `LoadForRequest`, `SendReply`,
  `ReceiveReply` – `connect`, `exchange`, `serve`; `PersistEvent`, `Accepted`, `Staged`
  are `accept`, one event at a time;
* `Cut`, `Interrupt`, `HangUp` – connections, processes and database calls that fail.

Every call to a device's database is one step. A load reads pages with no snapshot: it
keeps what was there when it began (`base`) and returns it with any part of what came
since, when `Torn` is true; otherwise it is atomic. Its end is one step with the write
that follows it in the same process, since nothing in between can be seen.

Events are numbered in the order they were signed; an event's hash covers its parents,
so this order is consistent with causality. `past`, written at signing, is the set
`ancestors` computes, and `spent` counts dispatches; no guard of the model reads
`spent`. A view is identified by the events it was projected from. `Projects` is
`project` succeeding: a complete history, records that merge (`Clashes` are the sets
that do not), and every receipt replaying against its own past. The token half of the
budget is a choice: a reservation may be refused for it at any time.

| run | asks | instance |
| --- | --- | --- |
| `PeerSync_dispute` | receipts replay; nobody pays twice knowingly; views are complete | 2 devices that disagree on a pair, 1 exchange, pages of 2 events |
| `PeerSync_contact` | types, budget, even exchanges, growing views; convergence (fair) | a publisher, a reconciler with a budget of 1, torn loads, 1 fault |

`PeerSync_dispute` starts where two devices asked the same question before they met and
got different answers (`DisputeInit`): reaching this from empty ledgers takes most of
the events an instance can afford, and the hazards begin there. Each device holds more
events than fit one page, so a page leaves gaps. The second device then adjudicates the dispute,
also while pages arrive; the first one holds a newer version and asks on
about that. `MaxSigned` leaves room for two more events: an attempt with its receipt, or
a reservation on each device.
`PeerSync_contact` has a budget of one request, so that it is reached, and one fault of
any kind.

Fairness: workers, ends of an exchange and publications take their next step, and an
exchange that can be started is started: `serve` contacts each peer every cycle whatever
became of the last one (`cli.rs` 480–523). Faults are bounded by `MaxFaults`: only with
finitely many of them can devices converge. `StartPublish` and `StartReconcile` are
not fair.

Left out: signatures and grants, byte sizes and the round limit of an exchange, the
merge of assessment chains inside a record, and a COMMIT of `replica_publish` with
unknown outcome (the code reads the pointer back and reports success only when it names
its view). One server process per exchange and one worker per device: the lease gives
the latter; a peer that connects twice is two exchanges.

## Components

The modules of this section share no state with each other, and each is small enough
to be explored completely. One run checks them all: `MCComponents` begins with a
`focus`, the component a behaviour is about, and the others stay as they began, so the
reachable states are those of the components one after the other.

| run | asks | properties |
| --- | --- | --- |
| `Components` | each component's own question, below | `UnblockedIsReleased`, `AssessmentsAreCautious`, `AdditionsAreExact`, `MigrationsAreExact`, `AnsweredExactlyOnce`, `SessionsSettle`, `PagesAreTheNeighborhood`, `PathIsShortest`, `ContextIsHonest`, `PacketIsHonest`, `DisclosureIsAuthorized`, `AnswersStayInView` |

One property joins what several modules say of one promise: `MigrationsAreExact` is
`EffectiveIsLatest` and `SuccessMeansExact` (verify), `RecordPinsTheFile` (adopt) and `ToolClosureIsPinned`
(tools). The fairness of `Spec` is that of the MCP session; the other components are
checked for safety, which needs none. Deadlock is not checked: sessions, campaigns, views and connections end.

### Scratch ledger

`ScratchLedger` records events (`RecordEvent`), each one the transaction of
`Ledger::record` with its effect: `ApplyBegin`, `ApplyEnd`, `ApplyContext`
(invocations), `ApplyObservation`, `ApplyAnnotation`, `ApplyLink` (allocations),
`ApplyCoverage` (observers, which expire by `HeartbeatExpires`). `DiskChanges` replaces
or moves objects whenever it likes. `Unblocked(p, l)` is the answer of `query` that a
cleaner acts on: every tracked object at, above or below the path, found by its
identity, is released and its invocations have ended, an observer is live and the
query was complete. The assessor has a lease of its own and never the ledger:
`StartAssessing`, `SkipEntry`, `ChooseEntry`, `ReplayAnswer`, `RefuseRequest`,
`ReserveRequest`, `ModelAnswers`, `ModelFails`, `PublishVerdict`, `FinishAssessing`,
`AssessorCrashes`. A digest of evidence is the evidence itself, taken when the entry is
chosen and compared when the verdict is published.

`UnblockedIsReleased` relates the answer to a history the code does not keep
(`cleared`): path and identity were released and nothing that would reopen them came
since. `AssessmentsAreCautious` says that only a report takes back a release, that
requests never pass the ceiling, whoever died, and that an answered question is not
asked again.

Instance: a directory, a file in it and a quarantine; two objects, so that one replaces
the other at either path; fifteen reports, each at most once, in every order. The
focus is either all of these without an assessment ("reports") or those about the
directory beside an assessment of it ("judging"); both together are only a product,
since an assessment reads one allocation at a time. `MaxNotes`, `MaxLinks` bound
what the evidence of one allocation can hold: a link too many is refused, a note too many
drops the oldest (`Noted`), which happens at `MaxNotes = 1`. `MaxRequests = 2` is reached.

### Nix additions

`NixOperations`: `Call`, then the transactions and calls of `add`: `CommitIntent`,
`Replay`, `RefuseRetry`, `NotStarted`, `Execute`, `RecordExecution`, `DescribeObject`,
`Settle`; `Stop` is a process that dies anywhere, `Shown` the join every reader makes of
executions and settlements. `AdditionsAreExact`: an addition is started at most once
under its identity, everybody who was told an outcome was told the same one, and a
settlement has the outcome of the execution it settles. Two callers, one identity, two
requests; callers come back without bound.

### Session migration

`SessionCampaign`: a pass of `verify` is `BeginPass` (the journals there are),
`ReadJournal` for one after another, while the driver writes receipts into them,
`ResolveReceipts` (names, links, kinds, chains),
`VariantPinsHold`/`DeltaPinsHold` (`LoadPins`), `ReadVersion`,
`BeginSnapshot`, `ReconcileInventory`, one `CheckSession` per session in scope and
`FinishSnapshot`, with the report they build. The driver, which is not this
code, may write, record, remove or damage a session between any two of them.
`Effective` is the walk over the chains; `Orders` states what it should return, as the
orders a chain can be in. `EffectiveIsLatest` compares them for every receipt set;
`SuccessMeansExact` says what a report without complaint entitles to, the names of
concurrent writes included. A digest is what it is computed over: `Encoded` models
the integers JavaScript rounds (`SafeInteger`), `Undigestible` the blobs it refuses.

Instance: three sessions (one migrated and superseded, one variant, one new), four
campaigns at different points, eleven receipts that may be added, malformed, crossing and
cyclic ones among them, and `MaxChanges = 2`: one change between two reads and one more
to undo or complete it.

`StoreAdoption`: a WAL writer (`OpenStore`, `CommitStore`, `CheckpointStore`,
`CloseStore`, `CrashStore`) beside `adopt`, one action per look at the file or the
store: `ScanHolders`, `CheckSidecars`, `StatStore`, `HashStore` (a block),
`ReadStatement`, `JudgeStore`, `RescanHolders`, `RestatStore`, `WriteTemporary`,
`RenameRecord`. The six statements of `schema_info`, `session_counts` and `health` run
outside any transaction, so each sees the store of its own moment. `adopt.rs` 218–220
says that hash, counts and health describe the same bytes; they need not, since a commit
goes to a sidecar that nothing looks for again: `RecordIsOneImage` does not hold
(see [findings](#findings)).
`RecordPinsTheFile` is what the gates do establish: the hash is of one image, the main file
was that image at every statement, every check passed in what it read, and unless a
writer committed after the sidecars were looked for, all of it is of that image. What
the main file was and whether a writer raced is history (`file`, `raced`). A checkpoint is
taken to move the modification time. Instance: one writer, one adopter, three images (one
that is refused), two commits.

`PinnedTools`: `RequestTool` reads the pins, `HashPin` hashes each pinned file,
`StartWalk`, `WalkImports` and `ResolveTool` read the files of the closure once more for
what they import, `StartTool` starts the tool. `EditTool` edits or removes a file at any
moment in between. `ToolClosureIsPinned`: a tool that runs was pinned together with all
that relative imports lead to, and each such file has its pinned text unless it was
edited since the request (`touched`, history); without an edit, a refusal has a reason.
That an edited file is never started is what `tool.rs` says of itself, and false
(`StartsAsPinned`). `Scanned` is what the textual scan `relative_imports` finds
in a text, `from "` and `import "` forms; what node loads by other means (`import()`,
`require`, a template literal) is not found, and nothing is claimed of it. Instance:
three files that import each other, two texts each, one of which adds an import, every
set of pinned files and a pin without a digest, two edits.

### MCP session

`McpSession` is `serve_mcp` with its `exchange`: the dispatched request (`active`,
`calling`, `ready`), the requests and responses that wait (`queued`, `controls`), the
response being written, and the database driver that is cached between calls. `Calls`
are the tool groups by what they do to the session and the driver; a frame that calls for
a response gets a number, which is history. Timers (`DriverExpires`,
`AdmissionExpires`, `OutputTimesOut`) may fire whenever they run.

Instance: two ids, used again; every method; `MaxPending = 1`, so that both queues fill;
three frames, enough for one running, one waiting and one refused.

Fairness (`McpFairness`): the loop takes a step it can take, calls end (every statement
has a timeout, `chaosbox-pg/src/common.rs`), and writing ends (a client that does not
read meets the output deadline). Nothing is assumed of the client: `SessionsSettle`
says that the frames it did send are all answered, or the session has ended.

### Graph reading

`GraphReading` has one reader, since readers share nothing they write, and a `pointer`
that moves (`MovePointer`). `PinBuild` opens a build by name or by the pointer, and
`Continue` takes a cursor: it is good for the request it was given to, in which the build
is no part, but a request that names one must name the cursor's (`Agrees`). Pages:
`DirectionalPage`, `ReturnPage`. Paths: `NextVertex`, `ReadPathPage`,
`PathFails`, breadth first with a page at a time and the budgets of `PathBudget`. Contexts:
`Seed`, `Expand`, `Shorten`, `ReturnContext`. `Export` and `Diff` read whole builds.
Rows are ordered by identifier as in both backends.

`PagesAreTheNeighborhood`: the pages of one cursor, put together, are the neighborhood
in the build the first page was read from, in order, without a gap or a repetition.
`PathIsShortest` and `ContextIsHonest` compare with `Within` and `IsShortest` of
`GraphRows`, which know nothing of queues or budgets; `ContextIsHonest` is about lexical
matches where it speaks of seeds. Instance: four entities, 37
graphs of up to five rows with self-loops and double edges, two builds, bounds
at which each budget runs out in some of them.

### Federated reading

`FederatedReading`: `AskContext` starts a job per provider (`LoadGrants`,
`AnswerContext`, `Unavailable`, `Misanswers`), `ConsultPeers` collects, `Assemble`
groups and takes turns; `AskEvidence` follows a handle by `LoadGrants`, `ReadCurrent`
or `ReadHistory`, and `ReturnEvidence`. `PublishKnowledge` and `ChangeGrants` are the
owners. `DisclosureIsAuthorized`: whatever is returned was, at one moment since the
query began, granted and shared in the generation then current and in the one it is
read from, with its contradictions. `PacketIsHonest` adds up what was
returned, omitted and failed, and says which records are marked as of one origin: those
that agree in their primary source and in what their owner makes of it, statement, kind and
status (`SourceKey`; a record has a `standing` beside its `origin`). The documentation
promises the mark for the source alone, which does not hold (`SameSourceIsMarked`). Two providers, up
to three generations, two changes of grants.

### Scoped reading

`ScopedReading`: `Admit` freezes the visible nodes and rows of a sealed build;
`RequestCall`, `BeginCall`, `CompleteCall`, `CallFails`, `CancelCall`, `TakeAnswer` serve
one call at a time; `Revoke` and `Expire` may come between any two. A response is
written in `PollWrite` (the lease is looked at), `WriteStalls` (the client does not read;
the next poll looks again) and `WriteResponse`. `AnswersStayInView` checks every written
answer against the graph restricted to the view, by the reference definitions of
`GraphRows`; the attempts that were made, whatever became of them (`tried`, a history the
connection does not keep), against the budget; and the lease: whatever is delivered was
last polled while the lease was valid, and at most one response goes out after its end. Six
builds (three that cannot be admitted), eight calls, a budget of one, three frames.

## Findings

Disagreements between the code and what the repository says about it, each the
counterexample of a run (`PROJECT.json` has the quotations):

1. `GraphPublication_uncertain` – after a lost COMMIT, publication reconciles by build
   id alone and may report success for a version another run sealed.
2. `SessionKnowledge_interrupted` – a process that dies after the PostgreSQL commit and
   before its record leaves its own archive in permanent conflict once the bundle
   moves on. (So does a slow first opener: `Journal::open` reads the store version
   before the transaction that forgets the predecessor.)
3. `SessionKnowledge_retry` – an answer that is stored but then refused is replayed for
   ever, also with `--retry`, and wedges the queue.
4. `SessionKnowledge_custody` – a receipt stored before a crash is not found again when a
   later capture supplies a tool body, because the question's key contains the digest of
   the whole text: the occurrence is paid for twice.

The models also show some that no run is spent on. Where one has a name, TLC gives its
counterexample when the name is added to the `INVARIANTS` (`StartsAsPinned`: the
`PROPERTIES`) of a run of the module:

* reconciliation appends its reservation and its receipt with no capacity check
  (`sync/worker.rs` 109, 120), so a ledger at its ceiling grows past it and cannot be
  loaded again, though `PEER_SYNC.md` 180 says that exceeding a limit refuses the
  operation (`WithinCapacity` in `PeerSync`, once `MaxSigned` exceeds `Capacity`);
* `adopt` can record the hash of one image with counts and health of another, or of two:
  a writer opens the store after the sidecars were looked for, commits, and is gone by the
  second scan. Its commit stays in the sidecar, so that neither size nor modification
  time of the main file moves, against `adopt.rs` 218–220 (`RecordIsOneImage` in
  `StoreAdoption`);
* a tool that is edited between its hash and its start runs as edited, where `tool.rs`
  7–9 says that one whose digest does not match refuses to start (`StartsAsPinned` in
  `PinnedTools`);
* records of one primary source that their owners classify differently are not marked as
  of one origin (`federation/reader.rs` 347–360), where `src/docs/src/federation.md` 183 and
  `federation/mod.rs` 174 promise it for the source alone (`SameSourceIsMarked` in
  `FederatedReading`);
* the preflight counts one request per uncached candidate, but a retry spends one too,
  so a transient error makes an admitted run die for want of budget
  (`PreflightCovers` in `PaidAnswers` does not hold);
* a publication that reported failure may still take effect when its COMMIT was in
  flight;
* a decision returned and the row staged differ when a rival with another cache key
  writes between `put_decision`'s two statements;
* a context whose seeds come from semantic search leaves out lexical matches without
  being marked as truncated (`ContextIsHonest` therefore speaks of lexical seeds only).

## Proofs

All theorems are for arbitrary constants under the named assumptions of the modules
(`IdentityAssumption`, `GraphAssumption`, `PaidAssumption`, `KnowledgeAssumption`,
`SyncAssumption`, `ScratchAssumption`, `CampaignAssumption`, `StagedAssumption`,
`AdoptionAssumption`, `ToolAssumption`, `McpAssumption`, `ReadingAssumption`,
`FederationAssumption`, `ScopedAssumption`; `NixOperations` needs none), which TLC
evaluates in every run. Where an assumption says that a set is finite it is one
the code holds in memory or in a database: the rows of a build, the records of a
generation, the files of a tool's tree.

* `VersionChainProofs` – `ChainIsLinear`, `SealedVersionsAreImmutable` for the abstract
  chain.
* `GraphPublicationProofs` – the inductive invariant `IInv` adds to the types: what a
  run remembers of the database stays true (`MemoryInv`), an unresolved transaction
  holds its repository's lock so that the guards it passed still hold (`LockInv`), and
  an inserted claim row is either the transaction's own or durable (`ClaimInv`). The
  lock alone does not carry the safety of the claims, since it is per repository.
  From `IInv`: `TypeCorrect`, `ActiveStaysNewest`, `ClaimsAreDurable`, `OkMeansSealed`,
  `PartialIsGated`; then `Refinement`, and with it `HistoryNeverForks`.
* `PaidAnswersProofs` – `TypeCorrect`, `RacersConverge`, `BudgetBoundsSpend`,
  `AnswersOutliveFailures`.
* `SessionKnowledgeProofs` – `WorkInv`: the holder of the lease is the only process in a
  leased region (`LeaseInv`), so its bundle is the committed one and everything one
  extraction found is decided or still ahead of it (`HandInv`). It gives `TypeCorrect`,
  `TablesStayInStep` and `Refinement`. `OutboxInv` adds that payloads and predecessors
  are older committed bundles (`ChainInv`) and that an unanswered COMMIT keeps the
  pointer where its sender saw it (`LockInv`); it gives `RivalsAreSafe` and
  `PublishedOnlyGrows`. `SpendStaysWithin` is about what was dispatched in all, by any
  process: the sum over the journal's rows is taken one row at a time. `AnsweredOnlyOnce`
  (`AnsweredInv`): a process about to reserve has seen that its key has no receipt and
  holds the lease, and one that waits for an answer waits for that of its own row. It
  assumes nothing of extraction: other captures may change every text.
* `PeerSyncProofs` – `TypeInv` (types, and `Control`: what a worker does agrees with its
  task) gives `TypeCorrect`. `ShownInv`: a view seen before a load began is in what the
  load returns, torn or not; it gives `ViewsOnlyGrow`. `LogInv`: a complete set holds
  the past of its events and its frontier knows all of it, by induction along the log;
  with it, `PublishedComplete` and `AskedOnce`. `BudgetInv`: a device's own reservations
  are in every load that begins after them, so what it counts is what it spent; it gives
  `BudgetHolds`. `HandInv`: while a worker waits for an answer, its question was asked of
  a complete ledger and its reservation knows exactly that; so what it will sign replays:
  `ReceiptsAlwaysReplay`. `ExchangeInv`: a client says it is done when it knows of all it
  has, and what the server answers with is loaded after the question, so it holds all the
  client knows of; if the server has nothing to send either, both inventories are one set
  that both ledgers hold. It gives `EvenAtTheEnd`. That a load is torn or a side is killed
  does not matter: only what was in the ledger when the load began is needed.
* `OperationsProofs` – `RemovalIsReleased`: an allocation marked released is cleared
  (`ReleasedInv`); the answer's completeness and identities do the rest.
  `AssessorIsCautious` needs what the assessor knows of an entry it chose: evidence only
  grows while the object stays (`NotesInv`, `SeenInv`), so evidence that is equal again
  is of an entry that was not released (`AboutInv`); and reservations are numbered, so
  what was dispatched is what was reserved (`CountInv`). `AdditionsStayExact`: only the
  process that committed the intent may start the addition, and until it records what it
  saw nobody else has a receipt.
  `EffectiveReceipts`: the receipts of a campaign resolve exactly when
  those of each session form one line, and the effective receipt is its end. The code
  follows links and counts; that this finds the end of the line, and a fork or a cycle
  otherwise, is proved in both directions by induction along the line. `SuccessIsExact`
  (`CampaignInv`): a pass attests each session as it found it in its snapshot, and the
  snapshot is the destination as long as the version read first stands. `RecordsPinFiles`
  (`AdoptionInv`): while the stamp stands, the main file is what was hashed and what it was
  at every statement, whatever is in the sidecar; and while the number of commits stands,
  there is no sidecar.
  `ToolsArePinned` (`ToolInv`): what is not left to hash was as pinned, or edited since, and
  a closure that is walked is closed but for its queue and the imports of edited files.
  `MigrationsExact` puts the four together over `MCComponents`, and `TypesHold` the types
  of all components (`ComponentsInv`; the module extends `PacketProofs` for it). What
  the safety invariants leave open is added: what the ledger holds besides its entries
  (`HoldingInv`), how far writers got (`WriterInv`), the receipts and sessions of a pass
  (`PassTyped`), where a reader is (`PlacedInv`), grants that change and providers that
  are silent (`RegrantInv`, `SilentInv`), frames counted in a view (`FramedInv`), and
  that the queues of the MCP server stay within `MaxPending` (`BoundedInv`).
* `ReadingProofs` – `EveryFrameAnsweredOnce`. A frame is one token, in the queue, with
  the call, ready, among the controls, being written or answered; every step moves one
  token or adds that of the frame it reads (`TokenInv`). `ExchangeInv` says where the
  dispatched request is: without it a response could be written for a call that runs.
  `PagesDeliverTheNeighborhood` (`ReaderInv`): what was delivered in a direction is the
  beginning of the whole, up to the row the cursor names, or all of it when there is no
  cursor; the pinned build is published, and published builds do not change. Underneath
  is that ranking a finite set by an order lists it once and in order (`RankedFacts`), by
  induction on the number of rows before one. `DisclosureStaysAuthorized`
  (`FederationInv`): a job that has grants has some that were in force during its query,
  and its reply is a projection of one generation through one grant, a failure, or what
  validation rejects. Filling a packet, grouping records by source and taking turns between
  providers are folds; a fold is what one function of its steps says (`FoldExists`), and
  every step keeps the records authorized.
  `DisclosureStaysInView` (`ViewInv`): a connection that serves has frozen the visible
  part of an admissible build; every answer that is ready, being written or delivered
  discloses only that; attempts are counted when they are made, and nothing takes that
  back; and a response that is sent was last polled under a valid lease, so that only the one
  being written can be delivered after the end of it (`LateInv`). What an
  answer about a path says rests on two invariants of a breadth-first
  search. `Tree`: what was seen has a distance, and its parent is one nearer, so the
  parents lead back along a shortest path (`TreePath`). `Frontier`: the queue is in order
  of distance and spans at most two of them, and whoever left it has all neighbours seen,
  so an empty queue means that everything within the hops was seen (`FrontierEnds`). A
  search may pop once per entity; counting what was seen shows that this is enough.
  `PathsAreShortest` (`PathInv`) is the same search, read a page at a time and in two
  directions: what was read of the entity that is expanded, the rows up to the last one
  of a page, has all its ends seen (`PlaceFine`), so an entity that is closed has all its
  neighbours seen, whatever the pages and budgets were.
* `PacketProofs` – `ContextsAreHonest` (`ContextInv`) is a third such search, from many seeds, that joins
  what it sees to a packet: the packet is never larger than was asked for and holds rows
  of the pinned build only (`PacketBounded`), nothing in it is out of reach
  (`PacketNear`), and one that is not truncated kept every row it met, so that `Frontier`
  and the links between closed entities are complete (`PacketWhole`). Expanding an entity
  is a fold over its rows; each row keeps the three while the entity is open.
  `PacketsAreHonest` (`AccountInv`): a combined answer is done only when every provider has
  answered, and then says of each what is still known of its reply (`HonestAnswer`). A
  reply lists every match of its provider or counts it as omitted. The groups that take
  turns have no record in common (`NoneTwice`), so the turns pick none twice (`Picked`),
  and what they leave is counted. The providers that listed something are a part of them
  all; the sums over the part and over all agree, because the others listed nothing
  (`Tally`, `TallyAdds`).

Induction over data is first-order here: a statement about a number becomes a set of
numbers, and a set with the first and with each also the next has them all. That covers
recursive functions and the folds of the community modules.

## What is only model-checked

Liveness (`AttemptsEnd`, `WorkersEnd`, `Converges`, `SessionsSettle`) and everything
about `ENABLED`, which the prover does not support.

## Plan

Done: publication, paid answers, session knowledge, peer sync; scratch ledger, Nix
additions, session migration, MCP session, graph reading, federation, read views.

Left, in order, with the abstract specification or reference definition each is for:

1. `TaskLease` – claim, heartbeat, reclaim. A stale generation changes nothing.
2. `Watch` – poll and run. Every change is eventually published by a successful run
   (liveness; the fingerprint is taken before the run succeeds).
3. `ManagedPostgres` – initialisation, start and stop around a data directory.
4. Pure algorithms against reference definitions: planner projection, candidate
   selection, assessment classification.
5. A COMMIT of unknown outcome in `PeerSync`.

## What is not modelled

* Parsers and extractors, compiler receipts, materialisation, continuation packets,
  workspace impact, session intelligence, command line and setup: pure functions of
  their input, or of state modelled elsewhere.
* Ranking formulas, embeddings and community optimisation: floating point.
* Task leases, managed PostgreSQL, the watch loop, the query log: planned or with
  nothing shared to get wrong.
* Wire formats, rendering, sizes in bytes: where a bound on them matters, running into
  it is a choice of the model.
* Plans, and the repair of bounded tool bodies that comes with one
  (`compaction/planner.rs` 152–230): it replaces a stored tool body by the complete one and
  so changes the text of a capture, as another capture in custody does in the model.
* In the component models: the migration driver, SQLite, the MCP client, the file
  system and the owners of grants are environments, modelled from what the code assumes
  of them; pinned files do not change during a pass of `verify`; annotations are
  distinct by their time and links are not told apart; an answer of the model is a
  choice of the answers its validation accepts.

`PROJECT.json` has the status and the reason for each component.

## Running the checks

    tlc -workers 2 -config GraphPublication_rivals.cfg MCGraphPublication.tla
    tlapm GraphPublicationProofs.tla

Each `.cfg` is named after its module and the question it asks; runs marked
`violation` in `PROJECT.json` are expected to produce a counterexample.
