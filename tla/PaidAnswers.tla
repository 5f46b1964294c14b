---------------------------- MODULE PaidAnswers ----------------------------
(***************************************************************************)
(* Paid model answers, by concurrent `chaosbox run` processes over one     *)
(* PostgreSQL: the budget preflight (uncached_decisions), the decision     *)
(* loop (Pipeline::decide, decide_cached), the reuse rule both share       *)
(* (resolve_reuse), the Jev client's request budget and retries            *)
(* (JevClient::evaluate) and the two durable writes put_inference and      *)
(* put_decision.                                                           *)
(*                                                                         *)
(* Three keys decide what is shared.  A candidate's inference is stored    *)
(* under its relation-local reuse key, which outlives snapshots; its       *)
(* decision under the candidate id, which belongs to one snapshot; and the *)
(* decision row carries an audit cache key over every input.               *)
(*                                                                         *)
(* A process that meets a store error exits like one that crashes.         *)
(***************************************************************************)
EXTENDS Integers

CONSTANTS
  Run,          \* concurrent processes on one repository
  NumCand,      \* candidates of the catalog, asked in order
  Snap,         \* source snapshots
  Policy,       \* what the reuse key holds besides the relation: model,
                \* rubric and effective policy
  Catalog,      \* what only the cache key holds: catalog digest, thresholds
  Answer,       \* raw answers the model may give
  MaxRequests,  \* request budgets a run may be started with
  MaxRetries,   \* retries of one question
  MaxCrashes,   \* bound on crashes in one behaviour
  None

Cand == 1 .. NumCand
Context == [snap : Snap, policy : Policy, catalog : Catalog]
Failed == "failed"

\* A decision row: its audit cache key and its answer or failure.
Row == [key : Context, answer : Answer \cup {Failed}]

ASSUME PaidAssumption ==
  /\ MaxRequests \subseteq Nat
  /\ NumCand \in Nat /\ MaxRetries \in Nat /\ MaxCrashes \in Nat
  /\ Failed \notin Answer /\ None \notin Answer \cup {Failed} \cup Row

VARIABLES
  inferences,  \* [Cand \X Policy -> Answer \cup {None}]: by reuse key
  decisions,   \* [Cand \X Snap -> Row \cup {None}]: by decision key
  ctx,         \* the inputs of each run
  live,        \* the run may ask the model (--live-jev)
  budget,      \* ... with at most so many requests (--max-requests)
  pc,          \* where the run is
  next,        \* the candidate it looks at
  pending,     \* preflight: candidates counted as uncached
  answer,      \* the answer (or failure) in hand
  attempt,     \* attempts already made for the question in hand
  sent,        \* requests dispatched by the run's client
  starved,     \* a question failed because the request budget was used up
  returned,    \* the decisions the run publishes from
  staged,      \* the decisions in its staging store
  crashes

durable == <<inferences, decisions>>
client == <<attempt, sent, starved>>
results == <<returned, staged>>
input == <<ctx, live, budget>>
vars == <<durable, input, pc, next, pending, answer, client, results, crashes>>

RunState == {"idle", "counting", "deciding", "asking", "answered", "writing", "staging",
             "stopped", "refused", "published", "dead"}
Ended(r) == pc[r] \in {"stopped", "refused", "published", "dead"}

TypeOK ==
  /\ inferences \in [Cand \X Policy -> Answer \cup {None}]
  /\ decisions \in [Cand \X Snap -> Row \cup {None}]
  /\ ctx \in [Run -> Context]
  /\ live \in [Run -> BOOLEAN]
  /\ budget \in [Run -> MaxRequests]
  /\ pc \in [Run -> RunState]
  /\ next \in [Run -> 1 .. NumCand + 1]
  /\ pending \in [Run -> Nat]
  /\ answer \in [Run -> Answer \cup {Failed, None}]
  /\ attempt \in [Run -> 0 .. MaxRetries]
  /\ sent \in [Run -> Nat]
  /\ starved \in [Run -> BOOLEAN]
  /\ returned \in [Run -> [Cand -> Row \cup {None}]]
  /\ staged \in [Run -> [Cand -> Row \cup {None}]]
  /\ crashes \in 0 .. MaxCrashes

NoRows == [c \in Cand |-> None]

Init ==
  /\ inferences = [k \in Cand \X Policy |-> None]
  /\ decisions = [k \in Cand \X Snap |-> None]
  /\ ctx \in [Run -> Context]
  /\ live = [r \in Run |-> FALSE]
  /\ budget \in [Run -> MaxRequests]
  /\ pc = [r \in Run |-> "idle"]
  /\ next = [r \in Run |-> 1]
  /\ pending = [r \in Run |-> 0]
  /\ answer = [r \in Run |-> None]
  /\ attempt = [r \in Run |-> 0]
  /\ sent = [r \in Run |-> 0]
  /\ starved = [r \in Run |-> FALSE]
  /\ returned = [r \in Run |-> NoRows]
  /\ staged = [r \in Run |-> NoRows]
  /\ crashes = 0

-----------------------------------------------------------------------------
(* The reuse rule *)

ReuseKey(r) == <<next[r], ctx[r].policy>>
DecisionKey(r) == <<next[r], ctx[r].snap>>

Goto(r, state) == pc' = [pc EXCEPT ![r] = state]
Hold(r, a) == answer' = [answer EXCEPT ![r] = a]

\* A recorded failure under the same reuse key blocks reuse: retries re-ask.
FailureBlocks(r) ==
  LET d == decisions[DecisionKey(r)]
  IN  d # None /\ d.answer = Failed /\ d.key.policy = ctx[r].policy

\* resolve_reuse finds nothing to reuse.  The inference and the decision are
\* read by two queries; inferences never change, so reading both when the
\* second runs gives the same verdict.
Uncached(r) == inferences[ReuseKey(r)] = None \/ FailureBlocks(r)

\* Mutant: the upsert takes every row submitted.
LastWins(old, new) == new

\* put_decision, in the database and in staging alike: a row is replaced when
\* its cache key differs or it records a failure.
Upsert(old, new) ==
  IF old = None \/ old.key # new.key \/ old.answer = Failed THEN new ELSE old

-----------------------------------------------------------------------------
(* Preflight *)

Start(r, x, isLive, requests) ==
  /\ pc[r] = "idle"
  /\ ctx' = [ctx EXCEPT ![r] = x]
  /\ live' = [live EXCEPT ![r] = isLive]
  /\ budget' = [budget EXCEPT ![r] = requests]
  /\ Goto(r, IF isLive THEN "counting" ELSE "deciding")
  /\ UNCHANGED <<durable, next, pending, answer, client, results, crashes>>

\* uncached_decisions, one candidate at a time.
Count(r) ==
  /\ pc[r] = "counting" /\ next[r] <= NumCand
  /\ pending' = [pending EXCEPT ![r] = IF Uncached(r) THEN @ + 1 ELSE @]
  /\ next' = [next EXCEPT ![r] = @ + 1]
  /\ UNCHANGED <<durable, input, pc, answer, client, results, crashes>>

\* Nothing is spent when the budget cannot cover the count.
Preflight(r) ==
  /\ pc[r] = "counting" /\ next[r] > NumCand
  /\ Goto(r, IF pending[r] > budget[r] THEN "stopped" ELSE "deciding")
  /\ next' = [next EXCEPT ![r] = 1]
  /\ UNCHANGED <<durable, input, pending, answer, client, results, crashes>>

-----------------------------------------------------------------------------
(* The decision loop *)

\* A validated stored inference is rematerialised without asking.
Reuse(r) ==
  /\ pc[r] = "deciding" /\ next[r] <= NumCand
  /\ ~Uncached(r)
  /\ Hold(r, inferences[ReuseKey(r)])
  /\ Goto(r, "writing")
  /\ UNCHANGED <<durable, input, next, pending, client, results, crashes>>

\* decide_cached leaves an uncached candidate out ...
Skip(r) ==
  /\ pc[r] = "deciding" /\ next[r] <= NumCand
  /\ Uncached(r) /\ ~live[r]
  /\ next' = [next EXCEPT ![r] = @ + 1]
  /\ UNCHANGED <<durable, input, pc, pending, answer, client, results, crashes>>

\* ... decide asks the model.
Ask(r) ==
  /\ pc[r] = "deciding" /\ next[r] <= NumCand
  /\ Uncached(r) /\ live[r]
  /\ attempt' = [attempt EXCEPT ![r] = 0]
  /\ Goto(r, "asking")
  /\ UNCHANGED <<durable, input, next, pending, answer, sent, starved, results, crashes>>

\* Mutant: only the first attempt of a question checks the request budget.
FirstAttemptMaySend(r) == attempt[r] = 0 => sent[r] < budget[r]

\* The budget is checked before every dispatch, retries included.
MaySend(r) == sent[r] < budget[r]

\* Mutant: an exhausted budget is recorded without an outcome.
OutOfRequestsUnrecorded(r) ==
  /\ pc[r] = "asking" /\ ~MaySend(r)
  /\ starved' = [starved EXCEPT ![r] = TRUE]
  /\ Hold(r, None)
  /\ Goto(r, "writing")
  /\ UNCHANGED <<durable, input, next, pending, attempt, sent, results, crashes>>

\* evaluate returns Budget("max_requests"): recorded as a failed decision.
OutOfRequests(r) ==
  /\ pc[r] = "asking" /\ ~MaySend(r)
  /\ starved' = [starved EXCEPT ![r] = TRUE]
  /\ Hold(r, Failed)
  /\ Goto(r, "writing")
  /\ UNCHANGED <<durable, input, next, pending, attempt, sent, results, crashes>>

Dispatch(r) ==
  /\ pc[r] = "asking" /\ MaySend(r)
  /\ sent' = [sent EXCEPT ![r] = @ + 1]

\* The model answers and the answer validates.
Answered(r, a) ==
  /\ Dispatch(r)
  /\ Hold(r, a)
  /\ Goto(r, "answered")
  /\ UNCHANGED <<durable, input, next, pending, attempt, starved, results, crashes>>

\* Timeout, 429, 529 or another 5xx: tried again while retries last.
Transient(r) ==
  /\ Dispatch(r)
  /\ attempt[r] < MaxRetries
  /\ attempt' = [attempt EXCEPT ![r] = @ + 1]
  /\ UNCHANGED <<durable, input, pc, next, pending, answer, starved, results, crashes>>

\* Retries used up, authentication, schema, protocol or token-budget error:
\* recorded as a failed decision.
Fault(r) ==
  /\ Dispatch(r)
  /\ Hold(r, Failed)
  /\ Goto(r, "writing")
  /\ UNCHANGED <<durable, input, next, pending, attempt, starved, results, crashes>>

\* Mutant: the run materialises the answer it submitted.
StoreAndKeepOwn(r) ==
  /\ pc[r] = "answered"
  /\ inferences' = [inferences EXCEPT ![ReuseKey(r)] = IF @ = None THEN answer[r] ELSE @]
  /\ Goto(r, "writing")
  /\ UNCHANGED <<decisions, input, next, pending, answer, client, results, crashes>>

\* put_inference, then find_inference: the first write wins and the winner is
\* what the run goes on with.  The row is immutable, so its later reads by
\* the same run see the same row.
StoreInference(r) ==
  /\ pc[r] = "answered"
  /\ LET winner == IF inferences[ReuseKey(r)] = None THEN answer[r] ELSE inferences[ReuseKey(r)]
     IN  /\ inferences' = [inferences EXCEPT ![ReuseKey(r)] = winner]
         /\ Hold(r, winner)
  /\ Goto(r, "writing")
  /\ UNCHANGED <<decisions, input, next, pending, client, results, crashes>>

Decision(r) == [key |-> ctx[r], answer |-> answer[r]]

\* put_decision's upsert ...
WriteDecision(r) ==
  /\ pc[r] = "writing"
  /\ decisions' = [decisions EXCEPT ![DecisionKey(r)] = Upsert(@, Decision(r))]
  /\ Goto(r, "staging")
  /\ UNCHANGED <<inferences, input, next, pending, answer, client, results, crashes>>

\* ... and its read, a statement of its own: the row read is staged, the
\* submitted decision is returned.
StageDecision(r) ==
  /\ pc[r] = "staging"
  /\ staged' = [staged EXCEPT ![r][next[r]] = Upsert(@, decisions[DecisionKey(r)])]
  /\ returned' = [returned EXCEPT ![r][next[r]] = Decision(r)]
  /\ next' = [next EXCEPT ![r] = @ + 1]
  /\ Goto(r, "deciding")
  /\ UNCHANGED <<durable, input, pending, answer, client, crashes>>

AnyFailed(r) == \E c \in Cand : returned[r][c] # None /\ returned[r][c].answer = Failed

\* reject_failed: a batch with a failure is never published.
Finish(r) ==
  /\ pc[r] = "deciding" /\ next[r] > NumCand
  /\ Goto(r, IF AnyFailed(r) THEN "refused" ELSE "published")
  /\ UNCHANGED <<durable, input, next, pending, answer, client, results, crashes>>

-----------------------------------------------------------------------------
Crash(r) ==
  /\ pc[r] # "idle" /\ ~Ended(r)
  /\ crashes < MaxCrashes /\ crashes' = crashes + 1
  /\ Goto(r, "dead")
  /\ UNCHANGED <<durable, input, next, pending, answer, client, results>>

\* A new process: fresh client, empty staging.
Again(r) ==
  /\ Ended(r)
  /\ Goto(r, "idle")
  /\ next' = [next EXCEPT ![r] = 1]
  /\ pending' = [pending EXCEPT ![r] = 0]
  /\ Hold(r, None)
  /\ attempt' = [attempt EXCEPT ![r] = 0]
  /\ sent' = [sent EXCEPT ![r] = 0]
  /\ starved' = [starved EXCEPT ![r] = FALSE]
  /\ returned' = [returned EXCEPT ![r] = NoRows]
  /\ staged' = [staged EXCEPT ![r] = NoRows]
  /\ UNCHANGED <<durable, input, crashes>>

Next ==
  \E r \in Run :
    \/ \E x \in Context, isLive \in BOOLEAN, n \in MaxRequests : Start(r, x, isLive, n)
    \/ Count(r) \/ Preflight(r)
    \/ Reuse(r) \/ Skip(r) \/ Ask(r)
    \/ OutOfRequests(r) \/ Transient(r) \/ Fault(r)
    \/ \E a \in Answer : Answered(r, a)
    \/ StoreInference(r) \/ WriteDecision(r) \/ StageDecision(r) \/ Finish(r)
    \/ Crash(r) \/ Again(r)

Spec == Init /\ [][Next]_vars

-----------------------------------------------------------------------------
(* Properties *)

\* Whoever asked, and however often the model would have answered otherwise,
\* every decision returned or recorded for a reuse key has the one durable
\* answer ("concurrent racers converge").
AnswersConverge ==
  /\ \A c \in Cand, s \in Snap :
       LET d == decisions[<<c, s>>]
       IN  d # None /\ d.answer # Failed => d.answer = inferences[<<c, d.key.policy>>]
  /\ \A r \in Run, c \in Cand :
       LET d == returned[r][c]
       IN  d # None /\ d.answer # Failed => d.answer = inferences[<<c, d.key.policy>>]

\* A failed attempt never replaces an answer recorded under its cache key,
\* also when the attempt began before the answer was recorded.
FailureNeverDisplacesAnswer ==
  [][ \A k \in Cand \X Snap :
        decisions[k] # None /\ decisions[k].answer # Failed
          /\ decisions'[k].answer = Failed
        => decisions'[k].key # decisions[k].key ]_vars

\* Retries spend requests too, and still never walk the spend past
\* max_requests.
SpendWithinBudget == \A r \in Run : sent[r] <= budget[r]

\* The preflight's promise: a run it admits never fails a question for want
\* of requests ("exactly one live Jev request" per uncached candidate).  It does
\* not hold: a retry spends a request the preflight did not count.
PreflightCovers == \A r \in Run : ~starved[r]
=============================================================================
