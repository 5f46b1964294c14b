-------------------------- MODULE GraphPublication --------------------------
(***************************************************************************)
(* Publication of graph builds to PostgreSQL by concurrent `chaosbox run`  *)
(* processes: run_cmd (crates/chaosbox/src/pipeline_cmd.rs) chains off the *)
(* live active build, decides, builds and publishes; PgStore               *)
(* (crates/chaosbox-pg/src/store.rs) validates in an in-memory staging     *)
(* store, then writes one transaction under a per-repository advisory      *)
(* lock.                                                                   *)
(*                                                                         *)
(* A run has a client side (pc, pred, job, staged) and a server side, the  *)
(* state tx of its transaction, because either may fail alone: a process   *)
(* dies, a session is lost before or during COMMIT, the server ends a      *)
(* session that idles or times out.  The server acts on a COMMIT it has    *)
(* received also when the client no longer listens.                        *)
(*                                                                         *)
(* A build's digest is the serialised build with its evidence closure; it  *)
(* is modelled by the content itself (no hash collisions).                 *)
(*                                                                         *)
(* PgStore leaves claim ids to its callers.  The pipeline derives them     *)
(* from the build id, so runs of different builds that use one claim id    *)
(* are a case of the store's interface.                                    *)
(***************************************************************************)
EXTENDS Integers

CONSTANTS
  Repo,            \* repositories
  Run,             \* publishing processes (one PgStore each)
  Home,            \* [Run -> Repo], the repository a run publishes
  Snapshot,        \* source snapshot ids
  Body,            \* graph contents: nodes, edges, coverage, evidence
  DecisionBearing, \* the bodies whose coverage counts decision relations
  ClaimId,         \* claim ids a build may use
  MaxGeneration,   \* largest generation the graph_builds column holds (i64)
  MaxFaults,       \* bound on failures injected in one behaviour
  None             \* no build, no content, no job

Generation == 1 .. MaxGeneration + 1

\* GraphBuild::new: the id is derived from repository, snapshots, generation.
BuildId == [repo : Repo, snap : Snapshot, gen : Generation]
Content == [pred : BuildId \cup {None}, body : Body, claim : ClaimId]

\* "full": every candidate has a decision, fresh or reused.  "partial": a
\* --no-decisions run with candidates left uncovered.
Mode == {"full", "partial"}
Job == [id : BuildId, content : Content, mode : Mode]

ASSUME GraphAssumption ==
  /\ Home \in [Run -> Repo]
  /\ DecisionBearing \subseteq Body
  /\ MaxGeneration \in Nat \ {0}
  /\ MaxFaults \in Nat
  /\ None \notin BuildId \cup Content \cup Job \cup Body

VARIABLES
  pointer,   \* active_pointer: the active build of each repository
  builds,    \* graph_builds and its rows, by build id
  claims,    \* the claims table: body by claim id
  tx,        \* server side: the state of each run's transaction
  wrote,     \* server side: the run's transaction has inserted its claim row
  pc,        \* client side: where the run is
  pred,      \* client side: the expected predecessor
  job,       \* client side: the build it publishes
  staged,    \* client side: the active build of the staging MemoryStore
  faults     \* failures injected so far

serverVars == <<pointer, builds, claims>>
clientVars == <<pred, job, staged>>
vars == <<pointer, builds, claims, tx, wrote, pc, pred, job, staged, faults>>

ClientState ==
  { "fresh",      \* new process, empty staging
    "chained",    \* predecessor read
    "decided",    \* build assembled
    "staged",     \* claim staged, ready to publish
    "writing",    \* guards passed inside the transaction
    "flushed",    \* rows written, pointer upserted
    "committing", \* COMMIT sent, outcome unknown
    "reconcile",  \* session lost during COMMIT
    "ok",         \* publish returned Ok: exit 0
    "failed",     \* publish returned Err: exit 1
    "refused",    \* stopped before publish: exit 1
    "kept",       \* the active build is kept: exit 4
    "dead" }      \* process gone

TxState == {"none", "open", "committing", "committed", "aborted"}

TypeOK ==
  /\ pointer \in [Repo -> BuildId \cup {None}]
  /\ builds \in [BuildId -> Content \cup {None}]
  /\ claims \in [ClaimId -> Body \cup {None}]
  /\ tx \in [Run -> TxState]
  /\ wrote \in [Run -> BOOLEAN]
  /\ pc \in [Run -> ClientState]
  /\ pred \in [Run -> BuildId \cup {None}]
  /\ job \in [Run -> Job \cup {None}]
  /\ staged \in [Run -> BuildId \cup {None}]
  /\ faults \in 0 .. MaxFaults

Init ==
  /\ pointer = [repo \in Repo |-> None]
  /\ builds = [id \in BuildId |-> None]
  /\ claims = [c \in ClaimId |-> None]
  /\ tx = [r \in Run |-> "none"]
  /\ wrote = [r \in Run |-> FALSE]
  /\ pc = [r \in Run |-> "fresh"]
  /\ pred = [r \in Run |-> None]
  /\ job = [r \in Run |-> None]
  /\ staged = [r \in Run |-> None]
  /\ faults = 0

-----------------------------------------------------------------------------
(* Helpers *)

\* The server holds the transaction: its advisory lock and its row locks.
Unresolved(r) == tx[r] \in {"open", "committing"}

\* Mutant: publication takes no advisory lock.
NoLock(r) == FALSE

\* Another transaction holds the repository's advisory lock.
LockHeld(r) == \E q \in Run \ {r} : Home[q] = Home[r] /\ Unresolved(q)

\* Another open transaction has inserted the same claim id: INSERT ... ON
\* CONFLICT waits for it to end.
ClaimRowLocked(r) ==
  \E q \in Run \ {r} :
    /\ Unresolved(q) /\ wrote[q]
    /\ job[q].content.claim = job[r].content.claim

Live(r) == pointer[Home[r]]

NextGeneration(p) == IF p = None THEN 1 ELSE p.gen + 1

\* Mutant: the gate lets every capture-only build pass.
CaptureAlwaysPublishable(r) == TRUE

\* capture_only_publishable: an uncovered capture-only build may publish only
\* when the active build, as read now, has no decision-backed relations.
CaptureOnlyPublishable(r) ==
  Live(r) # None => builds[Live(r)].body \notin DecisionBearing

\* Mutant: the transaction trusts the predecessor its client read.
LiveUnchecked(r) == TRUE

\* The live predecessor and generation checks of publish_tx.
LiveAccepts(r) ==
  /\ Live(r) = job[r].content.pred
  /\ Live(r) # None => job[r].id.gen > Live(r).gen

\* MemoryStore::publish on the staging store.  Its expected predecessor is
\* dropped when staging has no active build (a fresh process).
StagingAccepts(r) ==
  staged[r] # None =>
    /\ job[r].content.pred = staged[r]
    /\ job[r].id.gen > staged[r].gen

\* Mutant: the generation is not checked against the column.
GenerationUnchecked(r) == TRUE

GenerationFits(r) == job[r].id.gen <= MaxGeneration

\* Mutant: durable claims with another body are kept and published over.
ClaimUnchecked(r) == FALSE

\* What the transaction's inserts find on the server.
HeaderClash(r) == builds[job[r].id] \notin {None, job[r].content}
ClaimClash(r) == claims[job[r].content.claim] \notin {None, job[r].content.body}

Goto(r, state) == pc' = [pc EXCEPT ![r] = state]
EndTx(r, state) == tx' = [tx EXCEPT ![r] = state]
Fault == faults < MaxFaults /\ faults' = faults + 1

-----------------------------------------------------------------------------
(* One run, up to publication *)

\* pg_publication_chain: the live active build becomes the predecessor.
Chain(r) ==
  /\ pc[r] = "fresh"
  /\ pred' = [pred EXCEPT ![r] = Live(r)]
  /\ Goto(r, "chained")
  /\ UNCHANGED <<serverVars, tx, wrote, job, staged, faults>>

\* Snapshot, extract and decide, then assemble the build one generation above
\* the chained one.  A partial capture-only run first passes the gate.
Decide(r, s, b, c, m) ==
  /\ pc[r] = "chained"
  /\ m = "partial" => CaptureOnlyPublishable(r)
  /\ job' = [job EXCEPT ![r] =
       [ id |-> [repo |-> Home[r], snap |-> s, gen |-> NextGeneration(pred[r])],
         content |-> [pred |-> pred[r], body |-> b, claim |-> c],
         mode |-> m ]]
  /\ Goto(r, "decided")
  /\ UNCHANGED <<serverVars, tx, wrote, pred, staged, faults>>

\* The gate refuses: the active build is kept (exit 4).
KeepActive(r) ==
  /\ pc[r] = "chained"
  /\ ~CaptureOnlyPublishable(r)
  /\ Goto(r, "kept")
  /\ UNCHANGED <<serverVars, clientVars, tx, wrote, faults>>

\* reject_failed: a batch with a failed decision never reaches the store.
RejectFailed(r) ==
  /\ pc[r] = "chained"
  /\ Goto(r, "refused")
  /\ UNCHANGED <<serverVars, clientVars, tx, wrote, faults>>

\* put_claim: a durable claim with another body stops the run.
StageClaim(r) ==
  /\ pc[r] = "decided"
  /\ Goto(r, IF ClaimClash(r) THEN "refused" ELSE "staged")
  /\ UNCHANGED <<serverVars, clientVars, tx, wrote, faults>>

-----------------------------------------------------------------------------
(* The publication transaction, client side *)

Accepts(r) == LiveAccepts(r) /\ StagingAccepts(r)

\* publish_tx returns an error before it writes: the generation does not fit
\* the column, a rival holds the lock, or the live or staging guards refuse.
RefusePublish(r) ==
  /\ pc[r] = "staged"
  /\ GenerationFits(r) /\ ~LockHeld(r) => Live(r) # job[r].id /\ ~Accepts(r)
  /\ Goto(r, "failed")
  /\ UNCHANGED <<serverVars, clientVars, tx, wrote, faults>>

\* The build is already active: Ok exactly when the stored digest is ours.
ExactRetry(r) ==
  /\ pc[r] = "staged"
  /\ GenerationFits(r) /\ ~LockHeld(r)
  /\ Live(r) = job[r].id
  /\ Goto(r, IF HeaderClash(r) THEN "failed" ELSE "ok")
  /\ UNCHANGED <<serverVars, clientVars, tx, wrote, faults>>

\* Lock taken, guards passed, staging moved ahead of the durable state.
OpenTransaction(r) ==
  /\ pc[r] = "staged"
  /\ GenerationFits(r) /\ ~LockHeld(r)
  /\ Live(r) # job[r].id
  /\ Accepts(r)
  /\ staged' = [staged EXCEPT ![r] = job[r].id]
  /\ EndTx(r, "open")
  /\ wrote' = [wrote EXCEPT ![r] = FALSE]
  /\ Goto(r, "writing")
  /\ UNCHANGED <<serverVars, pred, job, faults>>

\* write_build, write_chain and the pointer upsert.  The claim insert waits
\* for a rival's uncommitted row and adds none where one is durable; then
\* every stored row must be ours, or the transaction is dropped.
WriteRows(r) ==
  /\ pc[r] = "writing" /\ tx[r] = "open"
  /\ ~ClaimRowLocked(r)
  /\ IF HeaderClash(r) \/ ClaimClash(r)
     THEN EndTx(r, "aborted") /\ Goto(r, "failed") /\ UNCHANGED wrote
     ELSE /\ Goto(r, "flushed")
          /\ wrote' = [wrote EXCEPT ![r] = claims[job[r].content.claim] = None]
          /\ UNCHANGED tx
  /\ UNCHANGED <<serverVars, clientVars, faults>>

SendCommit(r) ==
  /\ pc[r] = "flushed" /\ tx[r] = "open"
  /\ EndTx(r, "committing")
  /\ Goto(r, "committing")
  /\ UNCHANGED <<serverVars, clientVars, wrote, faults>>

\* Mutant: an error while the rows are written is not propagated.
ErrorAtPointerOnly(r) ==
  /\ pc[r] = "flushed" /\ tx[r] = "aborted"
  /\ Goto(r, "failed")
  /\ UNCHANGED <<serverVars, clientVars, tx, wrote, faults>>

\* A statement of a transaction the server ended fails with an error code.
TxError(r) ==
  /\ pc[r] \in {"writing", "flushed"} /\ tx[r] = "aborted"
  /\ Goto(r, "failed")
  /\ UNCHANGED <<serverVars, clientVars, tx, wrote, faults>>

\* The server answers the COMMIT.
CommitAnswered(r) ==
  /\ pc[r] = "committing" /\ tx[r] \in {"committed", "aborted"}
  /\ Goto(r, IF tx[r] = "committed" THEN "ok" ELSE "failed")
  /\ UNCHANGED <<serverVars, clientVars, tx, wrote, faults>>

\* The session breaks.  During COMMIT the outcome is unknown (is_uncertain);
\* before it, publish returns the error.
LoseSession(r) ==
  /\ pc[r] \in {"writing", "flushed", "committing"}
  /\ Goto(r, IF pc[r] = "committing" THEN "reconcile" ELSE "failed")
  /\ Fault
  /\ UNCHANGED <<serverVars, clientVars, tx, wrote>>

\* Mutant: an uncertain commit counts as done when any build is active.
ReconcileAnyActive(r) ==
  /\ pc[r] = "reconcile"
  /\ Goto(r, IF Live(r) # job[r].content.pred THEN "ok" ELSE "failed")
  /\ UNCHANGED <<serverVars, clientVars, tx, wrote, faults>>

\* After an uncertain commit: re-read the pointer on a fresh session.
Reconcile(r) ==
  /\ pc[r] = "reconcile"
  /\ Goto(r, IF Live(r) = job[r].id THEN "ok" ELSE "failed")
  /\ UNCHANGED <<serverVars, clientVars, tx, wrote, faults>>

\* ... or fail to: the commit's own error is returned.
ReconcileFails(r) ==
  /\ pc[r] = "reconcile"
  /\ Goto(r, "failed")
  /\ Fault
  /\ UNCHANGED <<serverVars, clientVars, tx, wrote>>

-----------------------------------------------------------------------------
(* The server *)

\* COMMIT takes effect: build rows, claim row and pointer in one step.
ServerCommit(r) ==
  /\ tx[r] = "committing"
  /\ LET id == job[r].id
         content == job[r].content
     IN  /\ builds' = [builds EXCEPT ![id] = content]
         /\ claims' = [claims EXCEPT ![content.claim] = content.body]
         /\ pointer' = [pointer EXCEPT ![Home[r]] = id]
  /\ EndTx(r, "committed")
  /\ UNCHANGED <<clientVars, wrote, pc, faults>>

\* The client no longer drives its transaction.
ClientGone(r) == pc[r] \in {"failed", "dead", "reconcile"}

\* The server rolls back a transaction whose client is gone ...
ServerRollback(r) ==
  /\ Unresolved(r) /\ ClientGone(r)
  /\ EndTx(r, "aborted")
  /\ UNCHANGED <<serverVars, clientVars, wrote, pc, faults>>

\* ... or ends one whose client lives (statement or idle timeout, restart).
ServerAbort(r) ==
  /\ Unresolved(r) /\ ~ClientGone(r)
  /\ EndTx(r, "aborted")
  /\ Fault
  /\ UNCHANGED <<serverVars, clientVars, wrote, pc>>

-----------------------------------------------------------------------------
(* Processes end and start *)

Ended(r) == pc[r] \in {"ok", "failed", "refused", "kept", "dead"}

Crash(r) ==
  /\ ~Ended(r) /\ pc[r] # "fresh"
  /\ Goto(r, "dead")
  /\ Fault
  /\ UNCHANGED <<serverVars, clientVars, tx, wrote>>

\* publish is called again on the same store with the same build.
RetrySameStore(r) ==
  /\ pc[r] = "failed" /\ ~Unresolved(r)
  /\ Goto(r, "staged")
  /\ EndTx(r, "none")
  /\ wrote' = [wrote EXCEPT ![r] = FALSE]
  /\ UNCHANGED <<serverVars, clientVars, faults>>

\* A new process with a fresh store and empty staging.
Restart(r) ==
  /\ Ended(r) /\ ~Unresolved(r)
  /\ Goto(r, "fresh")
  /\ EndTx(r, "none")
  /\ wrote' = [wrote EXCEPT ![r] = FALSE]
  /\ pred' = [pred EXCEPT ![r] = None]
  /\ job' = [job EXCEPT ![r] = None]
  /\ staged' = [staged EXCEPT ![r] = None]
  /\ UNCHANGED <<serverVars, faults>>

Next ==
  \E r \in Run :
    \/ Chain(r)
    \/ \E s \in Snapshot, b \in Body, c \in ClaimId, m \in Mode : Decide(r, s, b, c, m)
    \/ KeepActive(r) \/ RejectFailed(r) \/ StageClaim(r)
    \/ RefusePublish(r) \/ ExactRetry(r) \/ OpenTransaction(r)
    \/ WriteRows(r) \/ SendCommit(r) \/ TxError(r) \/ CommitAnswered(r)
    \/ LoseSession(r) \/ Reconcile(r) \/ ReconcileFails(r)
    \/ ServerCommit(r) \/ ServerRollback(r) \/ ServerAbort(r)
    \/ Crash(r) \/ RetrySameStore(r) \/ Restart(r)

Spec == Init /\ [][Next]_vars

\* A started publication runs on: the process executes its next statement and
\* the server answers it.  Starting a run, choosing its inputs, failures and
\* retries are not assumed to happen.
ClientStep(r) ==
  \/ StageClaim(r) \/ RefusePublish(r) \/ ExactRetry(r) \/ OpenTransaction(r)
  \/ WriteRows(r) \/ SendCommit(r) \/ TxError(r) \/ CommitAnswered(r)
  \/ Reconcile(r)

ServerStep(r) == ServerCommit(r) \/ ServerRollback(r)

FairSpec ==
  /\ Spec
  /\ \A r \in Run : WF_vars(ClientStep(r)) /\ WF_vars(ServerStep(r))

-----------------------------------------------------------------------------
(* Properties *)

VC == INSTANCE VersionChain WITH active <- pointer, versions <- builds

\* Publication implements the abstract chain of versions: whatever the
\* interleaving of runs, crashes, lost sessions and late commits, readers see
\* one atomic, predecessor-checked step from a sealed version to the next
\* (publish_tx's checks under the advisory lock).
ImplementsVersionChain == VC!Spec

\* The active build is sealed and no sealed build of its repository is newer:
\* "older worker cannot replace newer build".
ActiveIsNewest == VC!ActiveIsNewest

\* Two runs chained off the same build never both publish: the history of a
\* repository never forks.
NoFork == VC!NoFork

\* Every sealed build's claim row is the body the build was sealed with, also
\* when runs of other repositories race to commit the same claim id
\* (write_claims: "never publish over it").
SealedClaimsAreDurable ==
  \A id \in VC!Sealed : claims[builds[id].claim] = builds[id].body

\* A run that reports success left a build of its identity in the database,
\* also when it learned that only by reconciling an uncertain commit.
OkIsSealed ==
  \A r \in Run : pc[r] = "ok" => job[r].id \in VC!Sealed

\* Stronger: what a successful run sealed is the version it submitted.
OkIsThisVersion ==
  \A r \in Run : pc[r] = "ok" => builds[job[r].id] = job[r].content

\* A --no-decisions run that left candidates uncovered never replaces a build
\* with decision-backed relations, though its gate looked long before the
\* pointer moved (capture_only_publishable).
PartialNeverReplacesDecisions ==
  [][ \A r \in Run :
        tx[r] = "committing" /\ tx'[r] = "committed" /\ job[r].mode = "partial"
          /\ Live(r) # None
        => builds[Live(r)].body \notin DecisionBearing ]_vars

\* A started publication ends, and the advisory lock it took is released.
AttemptsEnd ==
  \A r \in Run :
    /\ pc[r] \in {"decided", "staged"} ~> Ended(r)
    /\ Unresolved(r) ~> ~Unresolved(r)
=============================================================================
