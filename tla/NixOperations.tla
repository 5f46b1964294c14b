--------------------------- MODULE NixOperations ---------------------------
(***************************************************************************)
(* Reason-gated additions to the Nix store (chaosbox/src/nix).  A caller   *)
(* commits its intent, runs the addition, records what it observed, asks   *)
(* the store for metadata and settles.  The identity of an operation is    *)
(* the caller's: a retry may come from another process at any of these     *)
(* points, and any process may die between two of them.                    *)
(***************************************************************************)
EXTENDS Naturals, FiniteSets

CONSTANTS
  Operation,     \* operation identities
  Request,       \* what is asked for under an identity
  Caller         \* processes that call nix add

VARIABLES
  operations,    \* operations[i]: {} or the request whose intent is committed
  executions,    \* executions[i]: {} or the receipt of the observed execution
  settlements,   \* settlements[i]: {} or the settled receipt
  caller,        \* the processes
  started,       \* history: how often the addition of i was started
  returned       \* history: the receipts handed to callers of i

nixVars == <<operations, executions, settlements, caller, started, returned>>
journal == <<operations, executions, settlements>>

NixReceipt == [outcome : {"unresolved", "not-started", "succeeded", "failed", "interrupted"},
            coverage : {"unknown", "returned-path-only", "returned-object-metadata"},
            warning : BOOLEAN]
NixPc == {"idle", "begin", "run", "record", "describe", "settle"}
Idle == [pc |-> "idle", id |-> {}, request |-> {}, receipt |-> {}]
Unresolved == [outcome |-> "unresolved", coverage |-> "unknown", warning |-> FALSE]

\* The receipt of an operation as every reader sees it: the settlement, or what
\* was observed of an execution that is not settled yet (evidence, query and
\* context join the tables this way; begin does too).
Shown(i) == IF settlements[i] # {} THEN settlements[i] ELSE executions[i]

Goes(c, pc, r) == caller' = [caller EXCEPT ![c].pc = pc, ![c].receipt = {r}]
EndsCall(c) == caller' = [caller EXCEPT ![c] = Idle]
HandsOut(c, i, r) == EndsCall(c) /\ returned' = [returned EXCEPT ![i] = @ \cup {r}]

\* add is called.
Call(c, i, q) ==
  /\ caller[c].pc = "idle"
  /\ caller' = [caller EXCEPT ![c] = [pc |-> "begin", id |-> {i}, request |-> {q},
                                      receipt |-> {Unresolved}]]
  /\ UNCHANGED <<journal, started, returned>>

\* begin, an identity never seen: the intent is durable before anything runs.
CommitIntent(c) ==
  /\ caller[c].pc = "begin"
  /\ \E i \in caller[c].id :
       /\ operations[i] = {}
       /\ operations' = [operations EXCEPT ![i] = caller[c].request]
  /\ Goes(c, "run", Unresolved)
  /\ UNCHANGED <<executions, settlements, started, returned>>

\* Mutant: an operation with no receipt yet is run again.
RunsAgain(c) ==
  /\ caller[c].pc = "begin"
  /\ \E i \in caller[c].id :
       /\ operations[i] = caller[c].request /\ Shown(i) = {}
       /\ Goes(c, "run", Unresolved)
  /\ UNCHANGED <<journal, started, returned>>

\* begin, the same request again: a receipt is replayed, and settles an
\* execution nobody settled.
Replay(c) ==
  /\ caller[c].pc = "begin"
  /\ \E i \in caller[c].id : \E r \in Shown(i) :
       /\ operations[i] = caller[c].request
       /\ settlements' = [settlements EXCEPT ![i] = {r}]
       /\ HandsOut(c, i, r)
  /\ UNCHANGED <<operations, executions, started>>

\* begin, otherwise: another request under this identity, or an operation whose
\* outcome nobody knows.
RefuseRetry(c) ==
  /\ caller[c].pc = "begin"
  /\ \E i \in caller[c].id :
       /\ operations[i] # {}
       /\ operations[i] # caller[c].request \/ Shown(i) = {}
  /\ EndsCall(c)
  /\ UNCHANGED <<journal, started, returned>>

\* execute: the process cannot be started, it ends, or nobody sees it end.
NotStarted(c) ==
  /\ caller[c].pc = "run"
  /\ Goes(c, "settle", [Unresolved EXCEPT !.outcome = "not-started"])
  /\ UNCHANGED <<journal, started, returned>>

Execute(c) ==
  /\ caller[c].pc = "run"
  /\ \E i \in caller[c].id : started' = [started EXCEPT ![i] = @ + 1]
  /\ \/ Goes(c, "settle", Unresolved)
     \/ \E o \in {"succeeded", "failed", "interrupted"} : \E v \in {"unknown", "returned-path-only"} :
          /\ v = "returned-path-only" => o = "succeeded"
          /\ Goes(c, "record", [Unresolved EXCEPT !.outcome = o, !.coverage = v])
  /\ UNCHANGED <<journal, returned>>

\* executed, then the optional metadata; when the table refuses the write the
\* receipt is settled at once, with a warning.
RecordExecution(c) ==
  /\ caller[c].pc = "record"
  /\ \E i \in caller[c].id, r \in caller[c].receipt :
       \/ /\ executions' = [executions EXCEPT ![i] = {r}]
          /\ Goes(c, IF r.coverage = "unknown" THEN "settle" ELSE "describe", r)
       \/ /\ Goes(c, "settle", [r EXCEPT !.warning = TRUE])
          /\ UNCHANGED executions
  /\ UNCHANGED <<operations, settlements, started, returned>>

DescribeObject(c) ==
  /\ caller[c].pc = "describe"
  /\ \E r \in caller[c].receipt, v \in {"returned-path-only", "returned-object-metadata"} :
       Goes(c, "settle", [r EXCEPT !.coverage = v])
  /\ UNCHANGED <<journal, started, returned>>

\* Mutant: the caller gets its own receipt.
SettlesOwn(c) ==
  /\ caller[c].pc = "settle"
  /\ \E i \in caller[c].id, r \in caller[c].receipt :
       /\ settlements' = [settlements EXCEPT ![i] = IF @ = {} THEN {r} ELSE @]
       /\ HandsOut(c, i, r)
  /\ UNCHANGED <<operations, executions, started>>

\* settle: the first settlement stays, and is what every caller gets.
Settle(c) ==
  /\ caller[c].pc = "settle"
  /\ \E i \in caller[c].id :
       /\ settlements' = [settlements EXCEPT ![i] = IF @ = {} THEN caller[c].receipt ELSE @]
       /\ \E r \in settlements'[i] : HandsOut(c, i, r)
  /\ UNCHANGED <<operations, executions, started>>

\* A process dies, or a journal write other than executed's fails.
Stop(c) ==
  /\ caller[c].pc # "idle"
  /\ EndsCall(c)
  /\ UNCHANGED <<journal, started, returned>>

-----------------------------------------------------------------------------
NixInit ==
  /\ operations = [i \in Operation |-> {}]
  /\ executions = [i \in Operation |-> {}]
  /\ settlements = [i \in Operation |-> {}]
  /\ caller = [c \in Caller |-> Idle]
  /\ started = [i \in Operation |-> 0]
  /\ returned = [i \in Operation |-> {}]

NixStep(c) ==
  \/ \E i \in Operation, q \in Request : Call(c, i, q)
  \/ CommitIntent(c) \/ Replay(c) \/ RefuseRetry(c) \/ NotStarted(c) \/ Execute(c)
  \/ RecordExecution(c) \/ DescribeObject(c) \/ Settle(c) \/ Stop(c)

NixNext == \E c \in Caller : NixStep(c)
NixSpec == NixInit /\ [][NixNext]_nixVars

-----------------------------------------------------------------------------
\* Types.
NixTypeOK ==
  /\ operations \in [Operation -> {{}} \cup {{q} : q \in Request}]
  /\ executions \in [Operation -> {{}} \cup {{r} : r \in NixReceipt}]
  /\ settlements \in [Operation -> {{}} \cup {{r} : r \in NixReceipt}]
  /\ \A c \in Caller :
       /\ caller[c].pc \in NixPc /\ caller[c].receipt \subseteq NixReceipt
       /\ caller[c].id \subseteq Operation /\ caller[c].request \subseteq Request
  /\ started \in [Operation -> Nat]
  /\ returned \in [Operation -> SUBSET NixReceipt]

\* "Reusing the identity never reexecutes an addition": not after a crash, not
\* when two processes call at once, not when the outcome is unknown (begin).
AddedOnce == \A i \in Operation : started[i] <= 1

\* Everybody who was given a receipt was given the same one, also when a retry
\* settles an execution while its own process still asks for metadata; and an
\* outcome that was shown once is not revised (begin, settle, evidence, query).
ReceiptsAgree ==
  /\ \A i \in Operation : returned[i] \subseteq settlements[i]
  /\ \A i \in Operation : \A x \in executions[i], s \in settlements[i] : s.outcome = x.outcome

\* An identity stands for one addition with one outcome: started at most once,
\* and everybody is told the same about it.
AdditionsAreExact == AddedOnce /\ ReceiptsAgree
=============================================================================
