-------------------------- MODULE SessionKnowledge --------------------------
(***************************************************************************)
(* The session archive's assessment worker and its knowledge outbox        *)
(* (crates/chaosbox/src/compaction/worker.rs): concurrent `drain` and      *)
(* `publish` processes share one SQLite journal, serialised by a lease on  *)
(* a second database, and publish to one PostgreSQL pointer per scope      *)
(* (crates/chaosbox-pg/src/knowledge.rs), which other archives of the      *)
(* scope may move too.                                                     *)
(*                                                                         *)
(* A question's key holds the candidate and the related records already in *)
(* the bundle, so the same candidate has another key over another bundle.  *)
(* A published generation is identified by the hash of the bundle, here by *)
(* the bundle itself.  Each journal transaction is one step; nothing is    *)
(* locked in the journal across a model request or a PostgreSQL call.      *)
(*                                                                         *)
(* The model client's own per-process request budget equals the journal's  *)
(* cumulative one and is never the first to refuse; it is left out.        *)
(***************************************************************************)
EXTENDS Integers, FiniteSets, FiniteSetsExt, Sequences, Functions

CONSTANTS
  Worker,       \* drain and publish processes
  Origin, Line, \* candidate occurrences; assistant records to continue
  Capture,      \* captures that may be committed
  Text,         \* normalised texts, by digest
  Extract,      \* what extraction of a capture finds, given the captures in
                \* custody: tool bodies of one are put into the text of another
  Related,      \* [Origin -> SUBSET Origin]: whose records would be listed
  Usage,        \* input tokens a response may report
  Reserve,      \* input tokens reserved for a question
  MaxRequests,  \* --max-requests
  MaxTokens,    \* --max-input-tokens
  Rival,        \* generations other archives of the scope publish
  Commands,     \* the commands processes are started with
  MaxFaults,    \* bound on failures injected in one behaviour
  None

Item == Origin \cup Line
Verdict == {"admit", "reject"}

\* "refused": passes validate_response but not the stricter checks of assess
\* (a full decision distribution) or validate_answers (a sharper sum).
Answer == Verdict \cup {"refused"}

\* The knowledge bundle: verdicts by origin, and the captures covered.
Bundle == [verdict : [Origin -> Verdict \cup {None}], covered : Seq(Capture)]
EmptyBundle == [verdict |-> [o \in Origin |-> None], covered |-> <<>>]

\* The keys of intelligence::questions and continuation::key, which both hold
\* the digest of the whole text.
Key == [item : Item, text : Text, related : SUBSET Origin]

\* A row of the attempts table.
Row == [ key : Key, attempt : Nat, charge : Nat,
         status : {"reserved", "success", "failed"}, answer : Answer \cup {None} ]

Command == {"drain", "drain_publish", "publish"}

ASSUME KnowledgeAssumption ==
  /\ Origin \cap Line = {}
  /\ Extract \in [Capture -> [SUBSET Capture -> [text : Text, items : Seq(Item)]]]
  /\ Related \in [Origin -> SUBSET Origin]
  /\ Usage \subseteq Nat /\ Reserve \in Nat
  /\ MaxRequests \in Nat /\ MaxTokens \in Nat /\ MaxFaults \in Nat
  /\ None \notin Worker \cup Capture \cup Text \cup Bundle \cup Rival \cup Answer \cup Command
  /\ Bundle \cap Rival = {}
  /\ Commands \subseteq Command

VARIABLES
  \* memory.sqlite
  version,      \* user_version: 0 until the retired predecessor is forgotten
  queue,        \* captures in commit order (rowid)
  assessed,     \* captures with status 'assessed'
  knowledge,    \* the last committed bundle
  processed,    \* origins that need no question any more
  selected,     \* lines with a selection
  attempts,     \* paid attempts
  predecessor,  \* the generation this archive last recorded as published
  \* worker.sqlite
  lease,        \* the process holding the write lease
  \* PostgreSQL
  pointer,      \* the scope's active generation
  commit,       \* server side: state of each process's publication
  \* processes
  pc,
  cmd, retry,   \* the command line
  todo,         \* captures still to assess
  current,      \* the capture in hand ...
  text,         \* ... its text ...
  catalog,      \* ... and its items, from the next one on
  bundle,       \* the bundle in memory
  row,          \* the attempt in hand
  payload,      \* the generation being published
  expected,     \* ... over this predecessor
  faults        \* failures injected so far

journal == <<version, queue, assessed, knowledge, processed, selected, attempts, predecessor>>
server == <<pointer, commit>>
args == <<cmd, retry>>
work == <<todo, current, text, catalog, bundle, row>>
publication == <<payload, expected>>
vars == <<journal, lease, server, pc, args, work, publication, faults>>

WorkerState ==
  { "idle", "forgetting", "opened", "captures", "items", "asking", "applying",
    "outbox", "comparing", "locking", "committing", "reread", "recording",
    "done", "failed", "conflict", "dead" }
Ended(w) == pc[w] \in {"done", "failed", "conflict", "dead"}

TypeOK ==
  /\ version \in {0, 1}
  /\ queue \in Seq(Capture)
  /\ assessed \subseteq Capture
  /\ knowledge \in Bundle
  /\ processed \subseteq Origin
  /\ selected \subseteq Line
  /\ attempts \subseteq Row
  /\ predecessor \in Bundle \cup {None}
  /\ lease \in Worker \cup {None}
  /\ pointer \in Bundle \cup Rival \cup {None}
  /\ commit \in [Worker -> {"none", "sent", "committed", "aborted"}]
  /\ pc \in [Worker -> WorkerState]
  /\ cmd \in [Worker -> Command \cup {None}]
  /\ retry \in [Worker -> BOOLEAN]
  /\ todo \in [Worker -> SUBSET Capture]
  /\ current \in [Worker -> Capture \cup {None}]
  /\ text \in [Worker -> Text \cup {None}]
  /\ catalog \in [Worker -> Seq(Item)]
  /\ bundle \in [Worker -> Bundle]
  /\ row \in [Worker -> Row \cup {None}]
  /\ payload \in [Worker -> Bundle]
  /\ expected \in [Worker -> Bundle \cup {None}]
  /\ faults \in 0 .. MaxFaults

Init ==
  /\ version = 0
  /\ queue = <<>> /\ assessed = {}
  /\ knowledge = EmptyBundle
  /\ processed = {} /\ selected = {} /\ attempts = {}
  /\ predecessor = None
  /\ lease = None
  /\ pointer = None
  /\ commit = [w \in Worker |-> "none"]
  /\ pc = [w \in Worker |-> "idle"]
  /\ cmd = [w \in Worker |-> None]
  /\ retry = [w \in Worker |-> FALSE]
  /\ todo = [w \in Worker |-> {}]
  /\ current = [w \in Worker |-> None]
  /\ text = [w \in Worker |-> None]
  /\ catalog = [w \in Worker |-> <<>>]
  /\ bundle = [w \in Worker |-> EmptyBundle]
  /\ row = [w \in Worker |-> None]
  /\ payload = [w \in Worker |-> EmptyBundle]
  /\ expected = [w \in Worker |-> None]
  /\ faults = 0

-----------------------------------------------------------------------------
(* Helpers *)

Goto(w, state) == pc' = [pc EXCEPT ![w] = state]
Fault == faults < MaxFaults /\ faults' = faults + 1
AtDrain(w) == pc[w] = "opened" /\ cmd[w] # "publish"
AtOutbox(w) == pc[w] = "outbox" \/ (pc[w] = "opened" /\ cmd[w] = "publish")

Pending == Range(queue) \ assessed

\* Captures are assessed in the order they were committed (ORDER BY rowid).
FirstOf(c, captures) ==
  \E i \in DOMAIN queue : queue[i] = c /\ \A j \in 1 .. i - 1 : queue[j] \notin captures

\* The worker's memory of an assessment is gone.
ClearWork(w) ==
  /\ todo' = [todo EXCEPT ![w] = {}]
  /\ current' = [current EXCEPT ![w] = None]
  /\ text' = [text EXCEPT ![w] = None]
  /\ catalog' = [catalog EXCEPT ![w] = <<>>]
  /\ bundle' = [bundle EXCEPT ![w] = EmptyBundle]
  /\ row' = [row EXCEPT ![w] = None]

\* Mutant: an ended process keeps the lease.
LeaseKept(w) == UNCHANGED lease

Release(w) == lease' = IF lease = w THEN None ELSE lease

\* assess_pending returns, with an error or not, and drops the lease; drain
\* goes on to publish when told to, also after an error.
StopAssessing(w, outcome) ==
  /\ ClearWork(w)
  /\ Release(w)
  /\ Goto(w, IF cmd[w] = "drain_publish" THEN "outbox" ELSE outcome)

\* publish_pending returns.
StopPublishing(w, outcome) == Release(w) /\ Goto(w, outcome)

NextItem(w) == Head(catalog[w])

IsDecided(i) == i \in processed \cup selected

\* Related records of the bundle are part of the question, hence of its key.
KeyOf(w) ==
  LET i == NextItem(w)
  IN  [ item |-> i,
        text |-> text[w],
        related |-> IF i \in Origin
                    THEN {p \in Related[i] : bundle[w].verdict[p] = "admit"}
                    ELSE {} ]

Rows(w) == {r \in attempts : r.key = KeyOf(w)}
Receipts(w) == {r \in Rows(w) : r.status = "success"}

Tokens(rows) == MapThenSumSet(LAMBDA r : r.charge, rows)

\* Mutant: attempts that never came back are not counted.
CountsAnswersOnly ==
  LET spent == {r \in attempts : r.status = "success"}
  IN  Cardinality(spent) < MaxRequests /\ Tokens(spent) + Reserve <= MaxTokens

\* Every attempt counts, failed and interrupted ones with their reservation.
WithinBudget ==
  Cardinality(attempts) < MaxRequests /\ Tokens(attempts) + Reserve <= MaxTokens

-----------------------------------------------------------------------------
(* The archive *)

\* capture commits a pending job; an identical capture is ignored.  It needs
\* no worker lease.
CaptureSession(c) ==
  /\ queue' = IF c \in Range(queue) THEN queue ELSE Append(queue, c)
  /\ UNCHANGED <<version, assessed, knowledge, processed, selected, attempts, predecessor>>
  /\ UNCHANGED <<lease, server, pc, args, work, publication, faults>>

\* Journal::open reads the version ...
Open(w, command, again) ==
  /\ pc[w] = "idle"
  /\ cmd' = [cmd EXCEPT ![w] = command]
  /\ retry' = [retry EXCEPT ![w] = again]
  /\ Goto(w, IF version < 1 THEN "forgetting" ELSE "opened")
  /\ UNCHANGED <<journal, lease, server, work, publication, faults>>

\* ... and then forgets the retired backend's predecessor.
Forget(w) ==
  /\ pc[w] = "forgetting"
  /\ predecessor' = None
  /\ version' = 1
  /\ Goto(w, "opened")
  /\ UNCHANGED <<queue, assessed, knowledge, processed, selected, attempts>>
  /\ UNCHANGED <<lease, server, args, work, publication, faults>>

-----------------------------------------------------------------------------
(* assess_pending *)

\* Mutant: workers are not serialised.
NoLease(w) == UNCHANGED lease

TakeLease(w) ==
  /\ lease = None
  /\ lease' = w

StartAssessing(w) ==
  /\ AtDrain(w)
  /\ TakeLease(w)
  /\ todo' = [todo EXCEPT ![w] = Pending]
  /\ Goto(w, "captures")
  /\ UNCHANGED <<journal, server, args, current, text, catalog, bundle, row, publication, faults>>

\* SQLite gives up waiting for the lease after five seconds.
LeaseBusy(w) ==
  /\ lease # None
  /\ \/ AtDrain(w) /\ StopAssessing(w, "failed")
     \/ AtOutbox(w) /\ StopPublishing(w, "failed") /\ UNCHANGED work
  /\ UNCHANGED <<journal, server, args, publication, faults>>

\* The next capture: its items as extractable now, and the committed bundle.
LoadCapture(w, c) ==
  /\ pc[w] = "captures" /\ c \in todo[w] /\ FirstOf(c, todo[w])
  /\ todo' = [todo EXCEPT ![w] = @ \ {c}]
  /\ current' = [current EXCEPT ![w] = c]
  /\ text' = [text EXCEPT ![w] = Extract[c][Range(queue)].text]
  /\ catalog' = [catalog EXCEPT ![w] = Extract[c][Range(queue)].items]
  /\ bundle' = [bundle EXCEPT ![w] = knowledge]
  /\ Goto(w, "items")
  /\ UNCHANGED <<journal, lease, server, args, row, publication, faults>>

FinishAssessing(w) ==
  /\ pc[w] = "captures" /\ todo[w] = {}
  /\ StopAssessing(w, "done")
  /\ UNCHANGED <<journal, server, args, publication, faults>>

\* The same occurrence in another capture is no new vote and is not asked.
SkipItem(w) ==
  /\ pc[w] = "items" /\ catalog[w] # <<>> /\ IsDecided(NextItem(w))
  /\ catalog' = [catalog EXCEPT ![w] = Tail(@)]
  /\ UNCHANGED <<journal, lease, server, pc, args, todo, current, text, bundle, row, publication, faults>>

AtQuestion(w) == pc[w] = "items" /\ catalog[w] # <<>> /\ ~IsDecided(NextItem(w))

\* A paid answer for the same key is replayed.
Replay(w) ==
  /\ AtQuestion(w)
  /\ \E r \in Receipts(w) : row' = [row EXCEPT ![w] = r]
  /\ Goto(w, "applying")
  /\ UNCHANGED <<journal, lease, server, args, todo, current, text, catalog, bundle, publication, faults>>

\* The latest attempt failed or never ended and --retry is not given, or the
\* budget is spent: nothing is dispatched.
RefuseAttempt(w) ==
  /\ AtQuestion(w) /\ Receipts(w) = {}
  /\ (Rows(w) # {} /\ ~retry[w]) \/ ~WithinBudget
  /\ StopAssessing(w, "failed")
  /\ UNCHANGED <<journal, server, args, publication, faults>>

\* One more than the latest attempt under the same key.
Successors(w) ==
  {n \in {1} \cup {r.attempt + 1 : r \in Rows(w)} : \A r \in Rows(w) : r.attempt < n}

NewRow(w, n) ==
  [key |-> KeyOf(w), attempt |-> n, charge |-> Reserve, status |-> "reserved", answer |-> None]

\* The attempt is recorded before it is dispatched.
ReserveAttempt(w) ==
  /\ AtQuestion(w) /\ Receipts(w) = {}
  /\ Rows(w) # {} => retry[w]
  /\ WithinBudget
  /\ \E n \in Successors(w) :
       /\ attempts' = attempts \cup {NewRow(w, n)}
       /\ row' = [row EXCEPT ![w] = NewRow(w, n)]
  /\ Goto(w, "asking")
  /\ UNCHANGED <<version, queue, assessed, knowledge, processed, selected, predecessor>>
  /\ UNCHANGED <<lease, server, args, todo, current, text, catalog, bundle, publication, faults>>

\* UPDATE attempts ... WHERE key AND attempt.
Settle(w, settled) ==
  attempts' = {IF r.key = settled.key /\ r.attempt = settled.attempt THEN settled ELSE r :
                 r \in attempts}

Receipt(w, a, tokens) ==
  [row[w] EXCEPT !.status = "success", !.answer = a,
                 !.charge = IF tokens > Reserve THEN tokens ELSE Reserve]

\* A validated response: the receipt is durable before it is used.
Respond(w, a, tokens) ==
  /\ pc[w] = "asking"
  /\ Settle(w, Receipt(w, a, tokens))
  /\ row' = [row EXCEPT ![w] = Receipt(w, a, tokens)]
  /\ Goto(w, "applying")
  /\ UNCHANGED <<version, queue, assessed, knowledge, processed, selected, predecessor>>
  /\ UNCHANGED <<lease, server, args, todo, current, text, catalog, bundle, publication, faults>>

\* No response, or an invalid one: the reservation stays charged.
RespondFails(w) ==
  /\ pc[w] = "asking"
  /\ Settle(w, [row[w] EXCEPT !.status = "failed"])
  /\ StopAssessing(w, "failed")
  /\ Fault
  /\ UNCHANGED <<version, queue, assessed, knowledge, processed, selected, predecessor>>
  /\ UNCHANGED <<server, args, publication>>

\* Mutant: what validate_response let pass is applied.
AcceptAll(w) == TRUE

Acceptable(w) == row[w].answer # "refused"

\* assess refuses the answer, or validate_answers does.
RefuseAnswer(w) ==
  /\ pc[w] = "applying" /\ ~Acceptable(w)
  /\ StopAssessing(w, "failed")
  /\ UNCHANGED <<journal, server, args, publication, faults>>

\* Mutant: the origin is not marked as processed.
Unmarked(i) == UNCHANGED processed

Mark(i) == processed' = processed \cup {i}

\* A verdict joins the bundle, which is committed together with the mark that
\* its origin is processed; a continuation is recorded on its own.
Apply(w) ==
  /\ pc[w] = "applying" /\ Acceptable(w)
  /\ LET i == NextItem(w)
     IN  IF i \in Origin
         THEN /\ bundle' = [bundle EXCEPT ![w].verdict[i] = row[w].answer]
              /\ knowledge' = bundle'[w]
              /\ Mark(i)
              /\ UNCHANGED selected
         ELSE /\ selected' = selected \cup {i}
              /\ UNCHANGED <<bundle, knowledge, processed>>
  /\ catalog' = [catalog EXCEPT ![w] = Tail(@)]
  /\ row' = [row EXCEPT ![w] = None]
  /\ Goto(w, "items")
  /\ UNCHANGED <<version, queue, assessed, attempts, predecessor>>
  /\ UNCHANGED <<lease, server, args, todo, current, text, publication, faults>>

\* The coverage of the capture and its status commit together.
CoverCapture(w) ==
  /\ pc[w] = "items" /\ catalog[w] = <<>>
  /\ knowledge' = [bundle[w] EXCEPT !.covered = Append(@, current[w])]
  /\ assessed' = assessed \cup {current[w]}
  /\ Goto(w, "captures")
  /\ UNCHANGED <<version, queue, processed, selected, attempts, predecessor>>
  /\ UNCHANGED <<lease, server, args, work, publication, faults>>

\* The journal refuses a read or a write.
JournalError(w) ==
  /\ pc[w] \in {"captures", "items", "asking", "applying"}
  /\ StopAssessing(w, "failed")
  /\ Fault
  /\ UNCHANGED <<journal, server, args, publication>>

-----------------------------------------------------------------------------
(* publish_pending *)

\* Under the lease: the committed bundle over the recorded predecessor.
StartPublishing(w) ==
  /\ AtOutbox(w)
  /\ TakeLease(w)
  /\ payload' = [payload EXCEPT ![w] = knowledge]
  /\ expected' = [expected EXCEPT ![w] = predecessor]
  /\ Goto(w, "comparing")
  /\ UNCHANGED <<journal, server, args, work, faults>>

\* The first look at the pointer: ours already, not what we expect, or ours
\* to move.
Compare(w) ==
  /\ pc[w] = "comparing"
  /\ \/ pointer = payload[w] /\ Goto(w, "recording") /\ UNCHANGED lease
     \/ /\ pointer # payload[w] /\ pointer # expected[w]
        /\ StopPublishing(w, "conflict")
     \/ /\ pointer # payload[w] /\ pointer = expected[w]
        /\ Goto(w, "locking") /\ UNCHANGED lease
  /\ UNCHANGED <<journal, server, args, work, publication, faults>>

LockFree(w) == \A v \in Worker \ {w} : commit[v] # "sent"

\* Mutants: the transaction trusts the first look; it takes no lock.
LockOnly(w) == LockFree(w)
PointerOnly(w) == pointer = expected[w]

\* The transaction takes the scope's advisory lock and looks again.
MayMove(w) == LockFree(w) /\ pointer = expected[w]

LosePointer(w) ==
  /\ pc[w] = "locking" /\ ~MayMove(w)
  /\ StopPublishing(w, "failed")
  /\ UNCHANGED <<journal, server, args, work, publication, faults>>

\* The rows are written and COMMIT is sent.
SendCommit(w) ==
  /\ pc[w] = "locking" /\ MayMove(w)
  /\ commit' = [commit EXCEPT ![w] = "sent"]
  /\ Goto(w, "committing")
  /\ UNCHANGED <<journal, lease, pointer, args, work, publication, faults>>

CommitAnswered(w) ==
  /\ pc[w] = "committing" /\ commit[w] \in {"committed", "aborted"}
  /\ \/ commit[w] = "committed" /\ Goto(w, "recording") /\ UNCHANGED lease
     \/ commit[w] = "aborted" /\ StopPublishing(w, "failed")
  /\ UNCHANGED <<journal, server, args, work, publication, faults>>

\* The session breaks during COMMIT.
LoseSession(w) ==
  /\ pc[w] = "committing"
  /\ Goto(w, "reread")
  /\ Fault
  /\ UNCHANGED <<journal, lease, server, args, work, publication>>

\* The pointer tells whether the commit took effect so far.
Reread(w) ==
  /\ pc[w] = "reread"
  /\ \/ pointer = payload[w] /\ Goto(w, "recording") /\ UNCHANGED lease
     \/ pointer # payload[w] /\ StopPublishing(w, "failed")
  /\ UNCHANGED <<journal, server, args, work, publication, faults>>

\* The database refuses a statement before COMMIT, or the journal its record.
PublishError(w) ==
  /\ pc[w] \in {"comparing", "locking", "recording"}
  /\ StopPublishing(w, "failed")
  /\ Fault
  /\ UNCHANGED <<journal, server, args, work, publication>>

\* The journal learns what it published: a transaction of its own.
Record(w) ==
  /\ pc[w] = "recording"
  /\ predecessor' = payload[w]
  /\ StopPublishing(w, "done")
  /\ UNCHANGED <<version, queue, assessed, knowledge, processed, selected, attempts>>
  /\ UNCHANGED <<server, args, work, publication, faults>>

-----------------------------------------------------------------------------
(* The server, other archives, and processes that die *)

ServerCommit(w) ==
  /\ commit[w] = "sent"
  /\ pointer' = payload[w]
  /\ commit' = [commit EXCEPT ![w] = "committed"]
  /\ UNCHANGED <<journal, lease, pc, args, work, publication, faults>>

\* The server refuses the COMMIT, or drops a transaction whose client is gone.
ServerRollback(w) ==
  /\ commit[w] = "sent"
  /\ commit' = [commit EXCEPT ![w] = "aborted"]
  /\ IF pc[w] = "committing" THEN Fault ELSE UNCHANGED faults
  /\ UNCHANGED <<journal, lease, pointer, pc, args, work, publication>>

\* Another archive of the scope publishes under the same advisory lock.
RivalPublish(g) ==
  /\ \A w \in Worker : commit[w] # "sent"
  /\ pointer # g /\ pointer' = g
  /\ Fault
  /\ UNCHANGED <<journal, lease, commit, pc, args, work, publication>>

\* The process dies; the operating system drops its lease.
Crash(w) ==
  /\ pc[w] # "idle" /\ ~Ended(w)
  /\ ClearWork(w) /\ Release(w)
  /\ Goto(w, "dead")
  /\ Fault
  /\ UNCHANGED <<journal, server, args, publication>>

\* A new process.
Again(w) ==
  /\ Ended(w) /\ commit[w] # "sent"
  /\ Goto(w, "idle")
  /\ commit' = [commit EXCEPT ![w] = "none"]
  /\ cmd' = [cmd EXCEPT ![w] = None]
  /\ retry' = [retry EXCEPT ![w] = FALSE]
  /\ payload' = [payload EXCEPT ![w] = EmptyBundle]
  /\ expected' = [expected EXCEPT ![w] = None]
  /\ UNCHANGED <<journal, lease, pointer, work, faults>>

AssessStep(w) ==
  \/ StartAssessing(w) \/ (\E c \in Capture : LoadCapture(w, c)) \/ FinishAssessing(w)
  \/ SkipItem(w) \/ Replay(w) \/ RefuseAttempt(w) \/ ReserveAttempt(w)
  \/ \E a \in Answer, t \in Usage : Respond(w, a, t)
  \/ RefuseAnswer(w) \/ Apply(w) \/ CoverCapture(w)

PublishStep(w) ==
  \/ StartPublishing(w) \/ Compare(w) \/ LosePointer(w) \/ SendCommit(w)
  \/ CommitAnswered(w) \/ Reread(w) \/ Record(w)

ServerStep(w) == ServerCommit(w) \/ ServerRollback(w)

WorkerStep(w) ==
  \/ \E command \in Commands, again \in BOOLEAN : Open(w, command, again)
  \/ Forget(w) \/ LeaseBusy(w)
  \/ AssessStep(w) \/ RespondFails(w) \/ JournalError(w)
  \/ PublishStep(w) \/ PublishError(w) \/ LoseSession(w)
  \/ ServerStep(w)
  \/ Crash(w) \/ Again(w)

Next ==
  \/ \E c \in Capture : CaptureSession(c)
  \/ \E g \in Rival : RivalPublish(g)
  \/ \E w \in Worker : WorkerStep(w)

Spec == Init /\ [][Next]_vars

\* An opened process executes its next statement, the model answers or times
\* out, and the server answers.  Nobody is assumed to start a process.
ClientStep(w) ==
  Forget(w) \/ LeaseBusy(w) \/ AssessStep(w) \/ RespondFails(w) \/ PublishStep(w)

FairSpec == Spec /\ \A w \in Worker : WF_vars(ClientStep(w)) /\ WF_vars(ServerStep(w))

-----------------------------------------------------------------------------
(* Properties *)

Log == INSTANCE KnowledgeLog WITH
  verdicts <- knowledge.verdict,
  selections <- selected,
  coverage <- knowledge.covered,
  Catalogs <- [c \in Capture |-> {Range(Extract[c][S].items) : S \in SUBSET Capture}]

\* However many workers run, crash and come back, no verdict is lost or
\* revised, and a capture is covered once, after everything found in it was
\* decided (the lease; knowledge and mark in one transaction).
ImplementsKnowledgeLog == Log!Spec

\* The journal's tables agree with the bundle it will publish: an origin is
\* skipped exactly when its verdict is in it, a capture is out of the queue
\* exactly when the bundle covers it.
TablesAgree ==
  /\ processed = {o \in Origin : knowledge.verdict[o] # None}
  /\ assessed = Range(knowledge.covered)

\* A question with a durable answer is never paid for again: the answer is
\* the last attempt under its key, and there is one.  Workers that die while
\* the model is asked leave reservations behind, and --retry passes them.
AnsweredOnce ==
  \A r, q \in attempts :
    r.status = "success" /\ q.key = r.key => q = r \/ q.attempt < r.attempt

\* "Same source occurrence ... does not repeat paid inference": no occurrence
\* is answered in two attempts, whatever has come into custody since.
PaidOnce ==
  \A r, q \in attempts :
    r.status = "success" /\ q.status = "success" /\ r.key.item = q.key.item => r = q

\* "Persistent inference ceilings, cumulative across sessions and restarts":
\* no attempt is dispatched that could take the total over them.
SpendIsCumulative ==
  [][ Cardinality(attempts') > Cardinality(attempts)
        => Cardinality(attempts') <= MaxRequests /\ Tokens(attempts') <= MaxTokens ]_vars

\* "A rival predecessor is never overwritten."
RivalNeverOverwritten == [][(pointer \in Rival) => (pointer' \in Rival)]_vars

\* Generations of this archive only grow: a late commit of an old bundle never
\* replaces a newer one.
PublishedGrows ==
  [][ (pointer \in Bundle /\ pointer' \in Bundle)
        => \A o \in Origin : pointer.verdict[o] # None
                               => pointer'.verdict[o] = pointer.verdict[o] ]_vars

\* What readers were shown is never taken from them, whoever published it and
\* however late a COMMIT arrives.
PublishedIsSafe == RivalNeverOverwritten /\ PublishedGrows

\* Every process ends and gives the lease back.
WorkersEnd ==
  \A w \in Worker : pc[w] = "opened" ~> Ended(w) /\ lease # w

\* "An explicit drain --retry authorizes another attempt": with it, a drain
\* never stops at an answer recorded earlier.
RetryAsksAgain ==
  [][ \A w \in Worker : Replay(w) /\ retry[w] => row'[w].answer # "refused" ]_vars

\* "Interrupted pointer updates are reconciled by content identity": a conflict
\* is only reported when another archive has published.
ConflictMeansRival == \A w \in Worker : pc[w] = "conflict" => pointer \in Rival
=============================================================================
