--------------------------- MODULE ScratchLedger ---------------------------
(***************************************************************************)
(* The scratch ledger (chaosbox/src/scratch): producers report, in any     *)
(* order and any number of times, what happens below the scratch root;     *)
(* each report is one transaction that appends the event and updates the   *)
(* allocations and invocations it concerns.  A cleaner, which is not part  *)
(* of this code, asks the ledger whether it may remove a path.             *)
(*                                                                         *)
(* A separate process asks the model about unfinished work; it holds a     *)
(* lease of its own and never the ledger, so reports arrive while it waits *)
(* and its verdict may be about evidence that is no longer there.          *)
(*                                                                         *)
(* An identity is what device, inode and birth time identify.  The digest  *)
(* of an allocation's evidence is represented by the evidence; annotations *)
(* carry the time they were recorded at, so no two of them are equal, while *)
(* links are not told apart.                                                *)
(***************************************************************************)
EXTENDS Naturals, FiniteSets, Sequences

CONSTANTS
  Path,          \* allocation paths below the root
  Nested,        \* Nested[p]: the paths that are p, below p or above p
  Place,         \* Place[<<p, q, l>>]: where the object of q is when that of p is at l
  Identity,      \* file system objects
  Invocation,    \* tool and shell invocations
  Observer,      \* adapter instances
  Event,         \* what the producers may report, see EventType
  QueryLimit,    \* entries one query scans
  MaxLinks,      \* linked evidence of one allocation
  MaxNotes,      \* annotations an allocation keeps
  MaxRequests,   \* the cumulative ceiling on dispatched requests
  MaxSelected    \* allocations one assessment judges

\* A report.  Every kind has the fields of its variant in the source that a
\* property can tell apart, and an id, which makes a delivery unique.
EventType ==
  [kind : {"begin", "context"}, id : Nat, invocation : Invocation]
  \cup [kind : {"end"}, id : Nat, invocation : Invocation,
        outcome : {"exited", "error", "interrupted", "unknown"}, asserted : BOOLEAN]
  \cup [kind : {"observe"}, id : Nat, path : Path, identity : Identity,
        present : BOOLEAN, activity : BOOLEAN, owners : SUBSET Invocation]
  \cup [kind : {"annotation"}, id : Nat, path : Path, identity : Identity,
        disposition : {"unknown", "open", "needs-finalization", "released"}]
  \cup [kind : {"link"}, id : Nat, path : Path, identity : Identity]
  \cup [kind : {"coverage"}, id : Nat, observer : Observer, healthy : BOOLEAN]

ASSUME ScratchAssumption ==
  /\ Nested \in [Path -> SUBSET Path] /\ \A p \in Path : p \in Nested[p]
  /\ Place \in [Path \X Path \X Path -> SUBSET Path]
  /\ \A p, l \in Path : Place[<<p, p, l>>] = {l}
  /\ Event \subseteq EventType
  /\ \A e, f \in Event : e.id = f.id => e = f
  /\ {QueryLimit, MaxLinks, MaxRequests, MaxSelected} \subseteq Nat /\ MaxNotes \in Nat \ {0}

VARIABLES
  disk,          \* disk[p]: the object at p, {} or a singleton
  log,           \* the events recorded
  invocation,    \* invocation[o]: {} or its row, a singleton
  entry,         \* entry[p]: {} or the allocation recorded at p, a singleton
  live,          \* observers whose last report is healthy and less than 90 s old
  attempts,      \* the table scratch_attempts
  assessor,      \* the assessing process
  cleared,       \* history: <<path, identity>> released and untouched since
  dispatched     \* history: requests sent to the model

scratchVars == <<disk, log, invocation, entry, live, attempts, assessor, cleared, dispatched>>
ledger == <<log, invocation, entry, live, cleared>>

Disposition == {"unknown", "open", "needs-finalization", "released"}
Run == [status : {"running", "exited", "error", "interrupted", "unknown"},
        asserted : BOOLEAN, sources : 0 .. 1]

\* The annotations an allocation keeps, in the order they were recorded.
Notes == {s \in Seq({e.id : e \in Event}) : Len(s) <= MaxNotes}

\* What a question is about: the object and all that was recorded of it.
EvidenceType == [path : Path, identity : Identity, owners : SUBSET Invocation,
                 runs : SUBSET (Invocation \X Run),
                 notes : Notes, links : 0 .. MaxLinks]

Entry == [identity : Identity, present : BOOLEAN, disposition : Disposition,
          owners : SUBSET Invocation, notes : Notes, links : 0 .. MaxLinks,
          assessed : SUBSET EvidenceType, failed : SUBSET EvidenceType]

Opt(S) == {{}} \cup {{x} : x \in S}
The(s) == CHOOSE x \in s : TRUE

Unsettled(o) == \A r \in invocation[o] : r.status \in {"running", "unknown"}

-----------------------------------------------------------------------------
(* Ledger::record, one event of a batch.                                   *)

\* An allocation never seen, or one whose path now holds another object.
Fresh(e) == [identity |-> e.identity, present |-> e.present,
             disposition |-> IF e.owners = {} THEN "unknown" ELSE "open",
             owners |-> {}, notes |-> <<>>, links |-> 0, assessed |-> {}, failed |-> {}]

\* Mutant: a recorded allocation is taken over by the object that replaced it.
KeepsEntry(e) == {IF entry[e.path] # {} THEN [The(entry[e.path]) EXCEPT !.identity = e.identity]
                                        ELSE Fresh(e)}

\* The allocation an observation is about.
Observed(e) ==
  LET same == {x \in entry[e.path] : x.identity = e.identity}
  IN  IF same # {} THEN same ELSE {Fresh(e)}

Reopens(x) == IF x.disposition = "released" THEN "open" ELSE x.disposition

\* The object now at an annotated or linked path is the one recorded and named.
SameObject(e) ==
  /\ \E x \in entry[e.path] : x.identity = e.identity
  /\ disk[e.path] = {e.identity}

\* apply_invocation.
ApplyBegin(e) ==
  /\ e.kind = "begin"
  /\ invocation[e.invocation] = {}
  /\ invocation' = [invocation EXCEPT ![e.invocation] =
                      {[status |-> "running", asserted |-> FALSE, sources |-> 0]}]
  /\ UNCHANGED <<entry, live, cleared>>

ApplyEnd(e) ==
  /\ e.kind = "end"
  /\ \E r \in invocation[e.invocation] :
       /\ r.status = "running" \/ (r.status = "unknown" /\ e.asserted)
       /\ invocation' = [invocation EXCEPT ![e.invocation] =
                           {[r EXCEPT !.status = e.outcome, !.asserted = e.asserted]}]
  /\ UNCHANGED <<entry, live, cleared>>

\* Settled text for an invocation: its evidence changes, nothing else does.
ApplyContext(e) ==
  /\ e.kind = "context"
  /\ \E r \in invocation[e.invocation] :
       invocation' = [invocation EXCEPT ![e.invocation] = {[r EXCEPT !.sources = 1]}]
  /\ UNCHANGED <<entry, live, cleared>>

ApplyObservation(e) ==
  /\ e.kind = "observe"
  /\ \A o \in e.owners : invocation[o] # {}
  /\ \E x \in Observed(e) :
       /\ entry' = [entry EXCEPT ![e.path] =
                      {[x EXCEPT !.present = e.present, !.owners = @ \cup e.owners,
                                 !.disposition = IF e.activity THEN Reopens(x) ELSE @]}]
  /\ cleared' = IF e.activity THEN cleared \ {<<e.path, e.identity>>} ELSE cleared
  /\ UNCHANGED <<invocation, live>>

\* One more annotation; the oldest one goes when there are too many.
Noted(notes, id) == Append(IF Len(notes) = MaxNotes THEN Tail(notes) ELSE notes, id)

\* Mutant: a release does not look at the invocations.
AnnotatesAnyway(e) ==
  /\ e.kind = "annotation"
  /\ \E x \in entry[e.path] :
       /\ entry' = [entry EXCEPT ![e.path] =
                      {[x EXCEPT !.disposition = e.disposition, !.notes = Noted(@, e.id)]}]
  /\ UNCHANGED <<invocation, live, cleared>>

ApplyAnnotation(e) ==
  /\ e.kind = "annotation"
  /\ SameObject(e)
  /\ \E x \in entry[e.path] :
       /\ e.disposition = "released" => \A o \in x.owners : ~ Unsettled(o)
       /\ entry' = [entry EXCEPT ![e.path] =
                      {[x EXCEPT !.disposition = e.disposition, !.notes = Noted(@, e.id)]}]
  /\ cleared' = IF e.disposition = "released" THEN cleared \cup {<<e.path, e.identity>>}
                                              ELSE cleared \ {<<e.path, e.identity>>}
  /\ UNCHANGED <<invocation, live>>

ApplyLink(e) ==
  /\ e.kind = "link"
  /\ SameObject(e)
  /\ \E x \in entry[e.path] :
       /\ x.links < MaxLinks
       /\ entry' = [entry EXCEPT ![e.path] =
                      {[x EXCEPT !.links = @ + 1, !.disposition = Reopens(x)]}]
  /\ cleared' = cleared \ {<<e.path, e.identity>>}
  /\ UNCHANGED <<invocation, live>>

ApplyCoverage(e) ==
  /\ e.kind = "coverage"
  /\ live' = IF e.healthy THEN live \cup {e.observer} ELSE live \ {e.observer}
  /\ UNCHANGED <<invocation, entry, cleared>>

\* A recorded event is skipped when it is delivered again, and a batch one of
\* whose events is refused is not recorded at all.
RecordEvent(e) ==
  /\ e \notin log
  /\ log' = log \cup {e}
  /\ \/ ApplyBegin(e) \/ ApplyEnd(e) \/ ApplyContext(e) \/ ApplyObservation(e)
     \/ ApplyAnnotation(e) \/ ApplyLink(e) \/ ApplyCoverage(e)
  /\ UNCHANGED <<disk, attempts, assessor, dispatched>>

\* A heartbeat is good for 90 seconds.
HeartbeatExpires(o) ==
  /\ o \in live
  /\ live' = live \ {o}
  /\ UNCHANGED <<disk, log, invocation, entry, attempts, assessor, cleared, dispatched>>

\* The world: an object appears at a path, leaves it or replaces another one.
DiskChanges(p) ==
  /\ \E o \in Opt(Identity) :
       /\ o # disk[p]
       /\ \A q \in Path : o # {} => disk[q] # o
       /\ disk' = [disk EXCEPT ![p] = o]
  /\ UNCHANGED <<ledger, attempts, assessor, dispatched>>

-----------------------------------------------------------------------------
(* Ledger::query_at: may the object recorded at p, now at l, be removed?    *)

Tracked == {p \in Path : entry[p] # {}}
Complete == Cardinality(Tracked) <= QueryLimit

\* The object recorded at q is where it is expected when the one recorded at p
\* is at l, a quarantine say: what is below p moves along.
Matches(p, q, l, x) == \E m \in Place[<<p, q, l>>] : disk[m] = {x.identity}

Holds(p, q, l) ==
  \E x \in entry[q] :
    LET matches == Matches(p, q, l, x) IN
    /\ matches \/ x.present
    /\ \/ ~ matches
       \/ x.disposition # "released"
       \/ \E o \in x.owners : invocation[o] # {} /\ Unsettled(o)

Unblocked(p, l) ==
  /\ Complete
  /\ live # {}
  /\ \E x \in entry[p] : disk[l] = {x.identity}
  /\ \A q \in Nested[p] : ~ Holds(p, q, l)

-----------------------------------------------------------------------------
(* Ledger::assess.                                                         *)

Evidence(p, x) ==
               [path |-> p, identity |-> x.identity, owners |-> x.owners,
                runs |-> {run \in x.owners \X Run : invocation[run[1]] = {run[2]}},
                notes |-> x.notes, links |-> x.links]

Resting == [pc |-> "rest", todo |-> {}, seen |-> [p \in Path |-> {}], path |-> {},
            about |-> {}, stage |-> "roles", retry |-> FALSE, chosen |-> 0]

\* assess begins: the lease is free, and the inventory is read once.
StartAssessing(retry) ==
  /\ assessor.pc = "rest"
  /\ assessor' = [Resting EXCEPT !.pc = "choose", !.todo = Tracked, !.seen = entry,
                                 !.retry = retry]
  /\ UNCHANGED <<disk, ledger, attempts, dispatched>>

\* An allocation the process judges: it is there and not released, something
\* is known of it, nobody judged exactly that, and its invocations have ended.
Candidate(p, x) ==
  /\ x.present /\ x.disposition # "released"
  /\ x.owners # {} \/ x.notes # <<>> \/ x.links > 0
  /\ x.assessed # {Evidence(p, x)}
  /\ assessor.retry \/ x.failed # {Evidence(p, x)}
  /\ \A o \in x.owners : ~ Unsettled(o)

SkipEntry(p) ==
  /\ assessor.pc = "choose" /\ p \in assessor.todo
  /\ \A x \in assessor.seen[p] : ~ Candidate(p, x)
  /\ assessor' = [assessor EXCEPT !.todo = @ \ {p}]
  /\ UNCHANGED <<disk, ledger, attempts, dispatched>>

ChooseEntry(p) ==
  /\ assessor.pc = "choose" /\ p \in assessor.todo
  /\ assessor.chosen < MaxSelected
  /\ \E x \in assessor.seen[p] :
       /\ Candidate(p, x)
       /\ assessor' = [assessor EXCEPT !.pc = "ask", !.path = {p}, !.about = {Evidence(p, x)},
                                       !.stage = "roles", !.chosen = @ + 1]
  /\ UNCHANGED <<disk, ledger, attempts, dispatched>>

\* Nothing is left, or the selection is full.
FinishAssessing ==
  /\ assessor.pc = "choose"
  /\ assessor.todo = {} \/ assessor.chosen = MaxSelected
  /\ assessor' = Resting
  /\ UNCHANGED <<disk, ledger, attempts, dispatched>>

Key == [about |-> The(assessor.about), stage |-> assessor.stage]
Tried == {a \in attempts : a.key = Key}
PaidFor == {a \in Tried : a.status = "success"}

\* What judge makes of an answer: obligations are asked about in a second
\* request; one that is not satisfied holds the allocation, and satisfied
\* needs an invocation observed to exit ("exited" stands for exit code zero).
Verified(v) == \E r \in v.runs : r[2].status = "exited" /\ ~ r[2].asserted
Concludes(a) ==
  CASE assessor.stage = "roles" /\ a = "obligations" ->
         [assessor EXCEPT !.pc = "ask", !.stage = "status"]
    [] assessor.stage = "roles" /\ a = "nothing" -> [assessor EXCEPT !.pc = "clear"]
    [] assessor.stage = "status" ->
         [assessor EXCEPT !.pc = IF a = "satisfied" /\ Verified(The(assessor.about))
                                   THEN "clear" ELSE "unfinished"]
Answers == IF assessor.stage = "roles" THEN {"obligations", "nothing"}
                                       ELSE {"satisfied", "outstanding"}

\* evaluate, before dispatch: an answer already paid for is used again.
ReplayAnswer ==
  /\ assessor.pc = "ask"
  /\ \E a \in PaidFor : assessor' = Concludes(a.answer)
  /\ UNCHANGED <<disk, ledger, attempts, dispatched>>

\* A failed or interrupted attempt without --retry, or an exhausted budget
\* (its token half is a choice here).
RefuseRequest ==
  /\ assessor.pc = "ask" /\ PaidFor = {}
  /\ assessor' = [assessor EXCEPT !.pc = "failed"]
  /\ UNCHANGED <<disk, ledger, attempts, dispatched>>

\* Mutant: only attempts that did not fail count against the budget.
ReservesAgain ==
  /\ assessor.pc = "ask" /\ PaidFor = {}
  /\ Tried = {} \/ assessor.retry
  /\ Cardinality({a \in attempts : a.status # "failed"}) < MaxRequests
  /\ attempts' = attempts \cup {[key |-> Key, number |-> Cardinality(Tried) + 1,
                                 status |-> "dispatching", answer |-> ""]}
  /\ assessor' = [assessor EXCEPT !.pc = "wait"]
  /\ dispatched' = dispatched + 1
  /\ UNCHANGED <<disk, ledger>>

ReserveRequest ==
  /\ assessor.pc = "ask" /\ PaidFor = {}
  /\ Tried = {} \/ assessor.retry
  /\ Cardinality(attempts) < MaxRequests
  /\ attempts' = attempts \cup {[key |-> Key, number |-> Cardinality(Tried) + 1,
                                 status |-> "dispatching", answer |-> ""]}
  /\ assessor' = [assessor EXCEPT !.pc = "wait"]
  /\ dispatched' = dispatched + 1
  /\ UNCHANGED <<disk, ledger>>

\* The model answered or the request failed; the attempt is updated.
Settled(status, answer) ==
  {IF a.key = Key /\ a.number = Cardinality(Tried)
     THEN [a EXCEPT !.status = status, !.answer = answer] ELSE a : a \in attempts}

ModelAnswers ==
  /\ assessor.pc = "wait"
  /\ \E a \in Answers :
       /\ attempts' = Settled("success", a)
       /\ assessor' = Concludes(a)
  /\ UNCHANGED <<disk, ledger, dispatched>>

ModelFails ==
  /\ assessor.pc = "wait"
  /\ attempts' = Settled("failed", "")
  /\ assessor' = [assessor EXCEPT !.pc = "failed"]
  /\ UNCHANGED <<disk, ledger, dispatched>>

\* What finish_assessment writes into the allocation.
Judged(x, v) ==
  CASE assessor.pc = "failed" -> [x EXCEPT !.failed = {v}]
    [] assessor.pc = "clear" -> [x EXCEPT !.assessed = {v}, !.failed = {}]
    [] assessor.pc = "unfinished" -> [x EXCEPT !.assessed = {v}, !.failed = {},
                                               !.disposition = "needs-finalization"]

\* Mutant: the verdict is written whatever was recorded in the meantime.
PublishesAnyway ==
  /\ assessor.pc \in {"failed", "clear", "unfinished"}
  /\ \E p \in assessor.path : \E x \in entry[p] :
       /\ entry' = [entry EXCEPT ![p] = {Judged(x, The(assessor.about))}]
       /\ cleared' = IF assessor.pc = "unfinished" THEN cleared \ {<<p, x.identity>>} ELSE cleared
       /\ assessor' = [assessor EXCEPT !.pc = "choose", !.todo = @ \ {p}, !.path = {}, !.about = {}]
  /\ UNCHANGED <<disk, log, invocation, live, attempts, dispatched>>

\* finish_assessment: the verdict is kept when the evidence and the object are
\* still those it was asked about, and dropped otherwise.
PublishVerdict ==
  /\ assessor.pc \in {"failed", "clear", "unfinished"}
  /\ \E p \in assessor.path, v \in assessor.about : \E x \in entry[p] :
       LET current == Evidence(p, x) = v
                      /\ \E y \in assessor.seen[p] : disk[p] = {y.identity} IN
       /\ entry' = IF current THEN [entry EXCEPT ![p] = {Judged(x, v)}] ELSE entry
       /\ cleared' = IF current /\ assessor.pc = "unfinished"
                       THEN cleared \ {<<p, x.identity>>} ELSE cleared
       /\ assessor' = [assessor EXCEPT !.pc = "choose", !.todo = @ \ {p}, !.path = {}, !.about = {}]
  /\ UNCHANGED <<disk, log, invocation, live, attempts, dispatched>>

\* The process dies; its attempt stays "dispatching" and its lease is freed.
AssessorCrashes ==
  /\ assessor.pc # "rest"
  /\ assessor' = Resting
  /\ UNCHANGED <<disk, ledger, attempts, dispatched>>

-----------------------------------------------------------------------------
ScratchInit ==
  /\ disk = [p \in Path |-> {}]
  /\ log = {}
  /\ invocation = [o \in Invocation |-> {}]
  /\ entry = [p \in Path |-> {}]
  /\ live = {}
  /\ attempts = {}
  /\ assessor = Resting
  /\ cleared = {}
  /\ dispatched = 0

Assess ==
  \/ \E retry \in BOOLEAN : StartAssessing(retry)
  \/ \E p \in Path : SkipEntry(p) \/ ChooseEntry(p)
  \/ FinishAssessing \/ ReplayAnswer \/ RefuseRequest \/ ReserveRequest
  \/ ModelAnswers \/ ModelFails \/ PublishVerdict \/ AssessorCrashes

ScratchNext ==
  \/ \E e \in Event : RecordEvent(e)
  \/ \E o \in Observer : HeartbeatExpires(o)
  \/ \E p \in Path : DiskChanges(p)
  \/ Assess

ScratchSpec == ScratchInit /\ [][ScratchNext]_scratchVars

-----------------------------------------------------------------------------
\* Types.
ScratchTypeOK ==
  /\ disk \in [Path -> Opt(Identity)]
  /\ log \subseteq Event
  /\ \A o \in Invocation : invocation[o] \in Opt(Run)
  /\ \A p \in Path : \A x \in entry[p] :
       /\ entry[p] = {x} /\ x.identity \in Identity /\ x.disposition \in Disposition
       /\ x.owners \subseteq Invocation
       /\ x.notes \in Notes /\ x.links \in 0 .. MaxLinks
  /\ live \subseteq Observer
  /\ cleared \subseteq Path \X Identity
  /\ dispatched \in Nat

\* The answer a cleaner acts on.  The object it may remove, and every tracked
\* object above or below it that is there, was explicitly released under that
\* path and identity, and nothing was recorded of it since that would reopen
\* it: activity, a link, another annotation, an unfinished obligation.  Objects
\* are replaced, and reports about the old and the new one cross
\* (apply_observation, apply_annotation, query_item).
UnblockedIsReleased ==
  \A p, l \in Path :
    Unblocked(p, l) =>
      /\ \E i \in disk[l] : <<p, i>> \in cleared
      /\ \A q \in Nested[p] : \A x \in entry[q] :
           Matches(p, q, l, x) \/ x.present => <<q, x.identity>> \in cleared

\* A release survives the verdict of a question asked before it: only a report
\* moves an allocation out of "released" (finish_assessment's digest check).  And
\* requests that were sent, those that failed, were interrupted or whose process
\* died among them, stay within the cumulative ceiling, and what was answered is
\* never asked again (evaluate).
AssessmentsAreCautious ==
  [][/\ \A p \in Path : \A x \in entry[p] :
          x.disposition = "released" /\ entry'[p] # entry[p] => log' # log
     /\ dispatched' # dispatched =>
          /\ dispatched' <= MaxRequests
          /\ \A a, b \in attempts' : a.key = b.key /\ a.status = "success" => b.number <= a.number
    ]_scratchVars
=============================================================================
