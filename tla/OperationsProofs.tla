--------------------------- MODULE OperationsProofs ---------------------------
(***************************************************************************)
(* Proofs about the ledgers of operations and the session migration, and    *)
(* about the types of the components side by side.                          *)
(* NixOperations: whoever commits the intent of an identity owns it: only   *)
(* the owner runs the addition and records its execution, and nobody owns   *)
(* an identity a second time, since its intent is never erased.             *)
(* ScratchLedger: an allocation that is released is in the history of       *)
(* releases under its own path and identity, whatever was replaced in       *)
(* between; and an annotation is never recorded twice, and the last one is  *)
(* never dropped, so an allocation with the annotations somebody saw while  *)
(* it was not released cannot have been released since.                     *)
(* SessionCampaign: receipts resolve exactly when those of every session    *)
(* form one line; a pass attests what it found of every session it checked, *)
(* and its snapshot is the destination for as long as the version it read   *)
(* first stands.  StoreAdoption: a stamp that has not moved is a main file  *)
(* that has not moved.  PinnedTools: a closure that is walked is closed but *)
(* for its queue.                                                           *)
(* MCComponents: the types of every component, from the invariants above    *)
(* and from those of ReadingProofs and PacketProofs.                        *)
(***************************************************************************)
EXTENDS MCComponents, PacketProofs, TLAPS, FiniteSetTheorems, FunctionTheorems, SequenceTheorems,
        WellFoundedInduction

-----------------------------------------------------------------------------
(* Nix operations.                                                          *)

Owning == {"run", "record", "describe", "settle"}
Owns(c, i) == caller[c].pc \in Owning /\ i \in caller[c].id

JournalInv ==
  /\ operations \in [Operation -> {{}} \cup {{q} : q \in Request}]
  /\ executions \in [Operation -> {{}} \cup {{r} : r \in NixReceipt}]
  /\ settlements \in [Operation -> {{}} \cup {{r} : r \in NixReceipt}]
  /\ started \in [Operation -> Nat]
  /\ returned \in [Operation -> SUBSET NixReceipt]

CallerInv ==
  /\ caller \in [Caller -> [pc : NixPc, id : SUBSET Operation, request : SUBSET Request,
                            receipt : SUBSET NixReceipt]]
  /\ \A c \in Caller : caller[c].pc # "idle" =>
       (\E i \in Operation : caller[c].id = {i}) /\ (\E r \in NixReceipt : caller[c].receipt = {r})
  /\ \A c \in Caller : caller[c].pc = "begin" => \E q \in Request : caller[c].request = {q}

\* An identity with no committed intent has left no trace, and an owner's was
\* committed.  There is one owner.
OwnerInv ==
  /\ \A i \in Operation : operations[i] = {} =>
       started[i] = 0 /\ executions[i] = {} /\ settlements[i] = {}
  /\ \A c \in Caller, i \in Operation : Owns(c, i) => operations[i] # {}
  /\ \A c, d \in Caller, i \in Operation : Owns(c, i) /\ Owns(d, i) => c = d

\* What an owner has in hand, against what is in the journal.
HandInv ==
  \A c \in Caller, i \in Operation : Owns(c, i) =>
    /\ caller[c].pc = "run" => started[i] = 0
    /\ caller[c].pc \in {"run", "record"} => executions[i] = {} /\ settlements[i] = {}
    /\ caller[c].pc \in {"describe", "settle"} =>
         \A x \in executions[i], r \in caller[c].receipt : r.outcome = x.outcome

NixTypeInv == JournalInv /\ CallerInv
NixInv == NixTypeInv /\ OwnerInv /\ HandInv /\ AdditionsAreExact

-----------------------------------------------------------------------------
LEMMA UnresolvedType == Unresolved \in NixReceipt
BY DEF Unresolved, NixReceipt

\* Every caller's move keeps callers well formed.
LEMMA GoesOn ==
  ASSUME CallerInv, NEW c \in Caller, caller[c].pc # "idle",
         NEW pc \in NixPc \ {"begin"}, NEW r \in NixReceipt, Goes(c, pc, r)
  PROVE  /\ CallerInv'
         /\ caller'[c] = [caller[c] EXCEPT !.pc = pc, !.receipt = {r}]
         /\ \A d \in Caller \ {c} : caller'[d] = caller[d]
<1>1. caller'[c] = [caller[c] EXCEPT !.pc = pc, !.receipt = {r}]
  BY DEF CallerInv, Goes
<1>2. \A d \in Caller \ {c} : caller'[d] = caller[d]
  BY DEF CallerInv, Goes
<1>3. caller' \in [Caller -> [pc : NixPc, id : SUBSET Operation, request : SUBSET Request,
                              receipt : SUBSET NixReceipt]]
  BY DEF CallerInv, Goes
<1>4. \E i \in Operation : caller[c].id = {i}
  BY DEF CallerInv
<1>5. caller'[c].id = caller[c].id /\ caller'[c].pc = pc /\ caller'[c].receipt = {r}
  BY <1>1 DEF CallerInv
<1>6. ASSUME NEW d \in Caller, caller'[d].pc # "idle"
      PROVE  /\ \E i \in Operation : caller'[d].id = {i}
             /\ \E s \in NixReceipt : caller'[d].receipt = {s}
  <2>1. CASE d = c
    BY <2>1, <1>4, <1>5
  <2>2. CASE d # c
    BY <2>2, <1>2, <1>6 DEF CallerInv
  <2> QED BY <2>1, <2>2
<1>7. ASSUME NEW d \in Caller, caller'[d].pc = "begin"
      PROVE  \E q \in Request : caller'[d].request = {q}
  BY <1>2, <1>5, <1>7 DEF CallerInv
<1> QED BY <1>1, <1>2, <1>3, <1>6, <1>7 DEF CallerInv

LEMMA CallEnds ==
  ASSUME CallerInv, NEW c \in Caller, EndsCall(c)
  PROVE  /\ CallerInv' /\ caller'[c].pc = "idle"
         /\ \A d \in Caller \ {c} : caller'[d] = caller[d]
<1>1. caller'[c] = Idle /\ \A d \in Caller \ {c} : caller'[d] = caller[d]
  BY DEF CallerInv, EndsCall
<1>2. Idle \in [pc : NixPc, id : SUBSET Operation, request : SUBSET Request,
                receipt : SUBSET NixReceipt]
  BY DEF Idle, NixPc
<1>3. caller' \in [Caller -> [pc : NixPc, id : SUBSET Operation, request : SUBSET Request,
                              receipt : SUBSET NixReceipt]]
  BY <1>2 DEF CallerInv, EndsCall
<1>4. Idle.pc = "idle"
  BY DEF Idle
<1> QED BY <1>1, <1>3, <1>4 DEF CallerInv

-----------------------------------------------------------------------------
(* One lemma per action.                                                     *)

LEMMA CallStep ==
  ASSUME NixInv, NEW c \in Caller, NEW i \in Operation, NEW q \in Request, Call(c, i, q)
  PROVE  NixInv'
<1> DEFINE Begun == [pc |-> "begin", id |-> {i}, request |-> {q}, receipt |-> {Unresolved}]
<1>1. Begun \in [pc : NixPc, id : SUBSET Operation, request : SUBSET Request,
                 receipt : SUBSET NixReceipt]
  BY UnresolvedType DEF NixPc
<1>2. caller' = [caller EXCEPT ![c] = Begun]
  BY DEF Call
<1>3. Begun.pc = "begin" /\ Begun.id = {i} /\ Begun.request = {q} /\ Begun.receipt = {Unresolved}
  OBVIOUS
<1> HIDE DEF Begun
<1>4. caller'[c] = Begun /\ \A d \in Caller \ {c} : caller'[d] = caller[d]
  BY <1>2 DEF NixInv, NixTypeInv, CallerInv
<1>5. CallerInv'
  <2>1. caller' \in [Caller -> [pc : NixPc, id : SUBSET Operation, request : SUBSET Request,
                                receipt : SUBSET NixReceipt]]
    BY <1>1, <1>2 DEF NixInv, NixTypeInv, CallerInv
  <2>2. \A d \in Caller : caller'[d].pc # "idle" =>
          /\ \E j \in Operation : caller'[d].id = {j}
          /\ \E r \in NixReceipt : caller'[d].receipt = {r}
    BY <1>3, <1>4, UnresolvedType DEF NixInv, NixTypeInv, CallerInv
  <2>3. \A d \in Caller : caller'[d].pc = "begin" => \E p \in Request : caller'[d].request = {p}
    BY <1>3, <1>4 DEF NixInv, NixTypeInv, CallerInv
  <2> QED BY <2>1, <2>2, <2>3 DEF CallerInv
<1>6. UNCHANGED <<operations, executions, settlements, started, returned>>
  BY DEF Call, journal
<1>7. \A d \in Caller, j \in Operation : Owns(d, j)' => d # c /\ Owns(d, j)
  BY <1>3, <1>4 DEF Owns, Owning
<1> QED BY <1>4, <1>5, <1>6, <1>7
        DEF NixInv, NixTypeInv, JournalInv, OwnerInv, HandInv, AdditionsAreExact, AddedOnce, ReceiptsAgree

\* The first caller of an identity becomes its owner.
LEMMA CommitIntentStep ==
  ASSUME NixInv, NEW c \in Caller, CommitIntent(c)
  PROVE  NixInv'
<1>1. PICK i \in caller[c].id : operations[i] = {} /\ operations' = [operations EXCEPT ![i] = caller[c].request]
  BY DEF CommitIntent
<1>2. caller[c].pc = "begin" /\ i \in Operation /\ caller[c].id = {i}
  BY <1>1 DEF CommitIntent, NixInv, NixTypeInv, CallerInv
<1>3. PICK q \in Request : caller[c].request = {q}
  BY <1>2 DEF NixInv, NixTypeInv, CallerInv
<1>4. /\ CallerInv'
      /\ caller'[c] = [caller[c] EXCEPT !.pc = "run", !.receipt = {Unresolved}]
      /\ \A d \in Caller \ {c} : caller'[d] = caller[d]
  BY <1>2, GoesOn, UnresolvedType DEF CommitIntent, NixInv, NixTypeInv, NixPc
<1>5. caller'[c].pc = "run" /\ caller'[c].id = {i}
  BY <1>2, <1>4 DEF NixInv, NixTypeInv, CallerInv
<1>6. operations'[i] # {} /\ \A j \in Operation \ {i} : operations'[j] = operations[j]
  BY <1>1, <1>2, <1>3 DEF NixInv, NixTypeInv, JournalInv
<1>7. UNCHANGED <<executions, settlements, started, returned>>
  BY DEF CommitIntent
<1>8. JournalInv'
  BY <1>1, <1>2, <1>3, <1>7 DEF NixInv, NixTypeInv, JournalInv
<1>9. \A d \in Caller, j \in Operation : Owns(d, j)' <=> IF d = c THEN j = i ELSE Owns(d, j)
  BY <1>4, <1>5, <1>2 DEF Owns, Owning
<1>10. \A d \in Caller : ~ Owns(d, i)
  BY <1>1, <1>2 DEF NixInv, OwnerInv
<1>11. OwnerInv'
  BY <1>2, <1>6, <1>7, <1>9, <1>10 DEF NixInv, OwnerInv
<1>12. HandInv'
  <2> SUFFICES ASSUME NEW d \in Caller, NEW j \in Operation, Owns(d, j)'
               PROVE  /\ caller'[d].pc = "run" => started[j] = 0
                      /\ caller'[d].pc \in {"run", "record"} => executions[j] = {} /\ settlements[j] = {}
                      /\ caller'[d].pc \in {"describe", "settle"} =>
                           \A x \in executions[j], r \in caller'[d].receipt : r.outcome = x.outcome
    BY <1>7 DEF HandInv
  <2>1. CASE d = c
    BY <2>1, <1>1, <1>2, <1>5, <1>9 DEF NixInv, OwnerInv
  <2>2. CASE d # c
    BY <2>2, <1>4, <1>9 DEF NixInv, HandInv
  <2> QED BY <2>1, <2>2
<1> QED BY <1>4, <1>7, <1>8, <1>11, <1>12
        DEF NixInv, NixTypeInv, AdditionsAreExact, AddedOnce, ReceiptsAgree

\* A call that ends and leaves the journal alone.
LEMMA ReturnStep ==
  ASSUME NixInv, NEW c \in Caller, EndsCall(c), UNCHANGED <<journal, started, returned>>
  PROVE  NixInv'
<1>1. /\ CallerInv' /\ caller'[c].pc = "idle"
      /\ \A d \in Caller \ {c} : caller'[d] = caller[d]
  BY CallEnds DEF NixInv, NixTypeInv
<1>2. \A d \in Caller, j \in Operation : Owns(d, j)' => d # c /\ Owns(d, j)
  BY <1>1 DEF Owns, Owning
<1>3. UNCHANGED <<operations, executions, settlements, started, returned>>
  BY DEF journal
<1> QED BY <1>1, <1>2, <1>3
        DEF NixInv, NixTypeInv, JournalInv, OwnerInv, HandInv, AdditionsAreExact, AddedOnce, ReceiptsAgree

LEMMA ReplayStep ==
  ASSUME NixInv, NEW c \in Caller, Replay(c)
  PROVE  NixInv'
<1>0. PICK i \in caller[c].id : \E r \in Shown(i) :
        /\ settlements' = [settlements EXCEPT ![i] = {r}]
        /\ EndsCall(c) /\ returned' = [returned EXCEPT ![i] = @ \cup {r}]
  BY DEF Replay, HandsOut
<1>1. PICK r \in Shown(i) :
        /\ settlements' = [settlements EXCEPT ![i] = {r}]
        /\ EndsCall(c) /\ returned' = [returned EXCEPT ![i] = @ \cup {r}]
  BY <1>0
<1>2. caller[c].pc = "begin" /\ i \in Operation
  BY <1>1 DEF Replay, NixInv, NixTypeInv, CallerInv
<1>3. /\ CallerInv' /\ caller'[c].pc = "idle"
      /\ \A d \in Caller \ {c} : caller'[d] = caller[d]
  BY <1>1, CallEnds DEF NixInv, NixTypeInv
<1>4. UNCHANGED <<operations, executions, started>>
  BY DEF Replay
<1>5. r \in NixReceipt /\ (settlements[i] # {} => settlements[i] = {r})
        /\ (settlements[i] = {} => executions[i] = {r})
  BY <1>1, <1>2 DEF Shown, NixInv, NixTypeInv, JournalInv
<1>6. /\ settlements'[i] = {r} /\ \A j \in Operation \ {i} : settlements'[j] = settlements[j]
      /\ returned'[i] = returned[i] \cup {r} /\ \A j \in Operation \ {i} : returned'[j] = returned[j]
  BY <1>1, <1>2 DEF NixInv, NixTypeInv, JournalInv
<1>7. JournalInv'
  BY <1>1, <1>2, <1>4, <1>5 DEF NixInv, NixTypeInv, JournalInv
<1>8. \A d \in Caller, j \in Operation : Owns(d, j)' => d # c /\ Owns(d, j)
  BY <1>3 DEF Owns, Owning
<1>9. operations[i] # {}
  BY <1>2, <1>5 DEF NixInv, OwnerInv
<1>10. OwnerInv'
  BY <1>4, <1>6, <1>8, <1>9 DEF NixInv, OwnerInv
<1>11. HandInv'
  <2> SUFFICES ASSUME NEW d \in Caller, NEW j \in Operation, Owns(d, j), d # c
               PROVE  /\ caller[d].pc = "run" => started[j] = 0
                      /\ caller[d].pc \in {"run", "record"} => executions[j] = {} /\ settlements'[j] = {}
                      /\ caller[d].pc \in {"describe", "settle"} =>
                           \A x \in executions[j], s \in caller[d].receipt : s.outcome = x.outcome
    BY <1>3, <1>4, <1>8 DEF HandInv
  <2>1. caller[d].pc \in {"run", "record"} => j # i
    BY <1>5 DEF NixInv, HandInv
  <2> QED BY <2>1, <1>6 DEF NixInv, HandInv
<1>12. AdditionsAreExact'
  BY <1>2, <1>4, <1>5, <1>6 DEF NixInv, NixTypeInv, JournalInv, AdditionsAreExact, AddedOnce, ReceiptsAgree
<1> QED BY <1>3, <1>7, <1>10, <1>11, <1>12 DEF NixInv, NixTypeInv

\* A move of an owner that only changes what it has in hand.
LEMMA OwnerGoes ==
  ASSUME NixInv, NEW c \in Caller, NEW i \in Operation, caller[c].pc \in Owning, caller[c].id = {i},
         NEW pc \in Owning, NEW r \in NixReceipt, Goes(c, pc, r)
  PROVE  /\ CallerInv' /\ caller'[c].pc = pc /\ caller'[c].receipt = {r} /\ caller'[c].id = {i}
         /\ \A d \in Caller \ {c} : caller'[d] = caller[d]
         /\ \A d \in Caller, j \in Operation : Owns(d, j)' <=> Owns(d, j)
         /\ \A d \in Caller \ {c} : ~ Owns(d, i)
<1>1. /\ CallerInv'
      /\ caller'[c] = [caller[c] EXCEPT !.pc = pc, !.receipt = {r}]
      /\ \A d \in Caller \ {c} : caller'[d] = caller[d]
  BY GoesOn DEF NixInv, NixTypeInv, Owning, NixPc
<1>2. caller'[c].pc = pc /\ caller'[c].receipt = {r} /\ caller'[c].id = {i}
  BY <1>1 DEF NixInv, NixTypeInv, CallerInv
<1>3. \A d \in Caller, j \in Operation : Owns(d, j)' <=> Owns(d, j)
  BY <1>1, <1>2 DEF Owns
<1>4. Owns(c, i)
  BY DEF Owns
<1> QED BY <1>1, <1>2, <1>3, <1>4 DEF NixInv, OwnerInv

LEMMA OwnerOf ==
  ASSUME NixInv, NEW c \in Caller, caller[c].pc \in Owning
  PROVE  \E i \in Operation, r \in NixReceipt :
           caller[c].id = {i} /\ caller[c].receipt = {r} /\ Owns(c, i)
BY DEF NixInv, NixTypeInv, CallerInv, Owning, Owns

LEMMA NotStartedStep ==
  ASSUME NixInv, NEW c \in Caller, NotStarted(c)
  PROVE  NixInv'
<1> DEFINE r == [Unresolved EXCEPT !.outcome = "not-started"]
<1>1. caller[c].pc = "run" /\ Goes(c, "settle", r) /\ r \in NixReceipt
  BY DEF NotStarted, Unresolved, NixReceipt
<1> HIDE DEF r
<1>2. PICK i \in Operation : caller[c].id = {i} /\ Owns(c, i)
  BY <1>1, OwnerOf DEF Owning
<1>3. /\ CallerInv' /\ caller'[c].pc = "settle" /\ caller'[c].receipt = {r}
      /\ \A d \in Caller \ {c} : caller'[d] = caller[d]
      /\ \A d \in Caller, j \in Operation : Owns(d, j)' <=> Owns(d, j)
  BY <1>1, <1>2, OwnerGoes DEF Owning
<1>4. UNCHANGED <<operations, executions, settlements, started, returned>>
  BY DEF NotStarted, journal
<1>5. HandInv'
  <2> SUFFICES ASSUME NEW d \in Caller, NEW j \in Operation, Owns(d, j)
               PROVE  /\ caller'[d].pc = "run" => started[j] = 0
                      /\ caller'[d].pc \in {"run", "record"} => executions[j] = {} /\ settlements[j] = {}
                      /\ caller'[d].pc \in {"describe", "settle"} =>
                           \A x \in executions[j], s \in caller'[d].receipt : s.outcome = x.outcome
    BY <1>3, <1>4 DEF HandInv
  <2>1. CASE d = c
    BY <2>1, <1>1, <1>3 DEF NixInv, HandInv
  <2>2. CASE d # c
    BY <2>2, <1>3 DEF NixInv, HandInv
  <2> QED BY <2>1, <2>2
<1> QED BY <1>3, <1>4, <1>5
        DEF NixInv, NixTypeInv, JournalInv, OwnerInv, AdditionsAreExact, AddedOnce, ReceiptsAgree

\* The addition is started: by the owner, who had not started it before.
LEMMA ExecuteStep ==
  ASSUME NixInv, NEW c \in Caller, Execute(c)
  PROVE  NixInv'
<1>1. caller[c].pc = "run" /\ UNCHANGED <<operations, executions, settlements, returned>>
  BY DEF Execute, journal
<1>2. PICK i \in Operation : caller[c].id = {i} /\ Owns(c, i)
  BY <1>1, OwnerOf DEF Owning
<1>3. started' = [started EXCEPT ![i] = @ + 1]
  BY <1>2 DEF Execute
<1>4. \E pc \in {"settle", "record"}, r \in NixReceipt : Goes(c, pc, r)
  <2>1. CASE Goes(c, "settle", Unresolved)
    BY <2>1, UnresolvedType
  <2>2. ASSUME NEW o \in {"succeeded", "failed", "interrupted"}, NEW v \in {"unknown", "returned-path-only"},
               Goes(c, "record", [Unresolved EXCEPT !.outcome = o, !.coverage = v])
        PROVE  \E pc \in {"settle", "record"}, r \in NixReceipt : Goes(c, pc, r)
    <3>1. [Unresolved EXCEPT !.outcome = o, !.coverage = v] \in NixReceipt
      BY DEF Unresolved, NixReceipt
    <3> QED BY <2>2, <3>1
  <2> QED BY <2>1, <2>2 DEF Execute
<1>5. PICK pc \in {"settle", "record"}, r \in NixReceipt : Goes(c, pc, r)
  BY <1>4
<1>6. /\ CallerInv' /\ caller'[c].pc = pc /\ caller'[c].receipt = {r}
      /\ \A d \in Caller \ {c} : caller'[d] = caller[d]
      /\ \A d \in Caller, j \in Operation : Owns(d, j)' <=> Owns(d, j)
      /\ \A d \in Caller \ {c} : ~ Owns(d, i)
  BY <1>1, <1>2, <1>5, OwnerGoes DEF Owning
<1>7. started[i] = 0 /\ executions[i] = {} /\ settlements[i] = {} /\ operations[i] # {}
  BY <1>1, <1>2 DEF NixInv, HandInv, OwnerInv
<1>8. started'[i] = 1 /\ \A j \in Operation \ {i} : started'[j] = started[j]
  BY <1>3, <1>7 DEF NixInv, NixTypeInv, JournalInv
<1>9. JournalInv'
  BY <1>1, <1>3 DEF NixInv, NixTypeInv, JournalInv
<1>10. OwnerInv'
  BY <1>1, <1>6, <1>7, <1>8 DEF NixInv, OwnerInv
<1>11. HandInv'
  <2> SUFFICES ASSUME NEW d \in Caller, NEW j \in Operation, Owns(d, j)
               PROVE  /\ caller'[d].pc = "run" => started'[j] = 0
                      /\ caller'[d].pc \in {"run", "record"} => executions[j] = {} /\ settlements[j] = {}
                      /\ caller'[d].pc \in {"describe", "settle"} =>
                           \A x \in executions[j], s \in caller'[d].receipt : s.outcome = x.outcome
    BY <1>1, <1>6 DEF HandInv
  <2>1. CASE d = c
    <3>1. j = i
      BY <2>1, <1>2 DEF Owns
    <3> QED BY <2>1, <3>1, <1>6, <1>7
  <2>2. CASE d # c
    <3>1. j # i
      BY <2>2, <1>6
    <3> QED BY <2>2, <3>1, <1>6, <1>8 DEF NixInv, HandInv
  <2> QED BY <2>1, <2>2
<1>12. AdditionsAreExact'
  BY <1>1, <1>8 DEF NixInv, AdditionsAreExact, AddedOnce, ReceiptsAgree
<1> QED BY <1>6, <1>9, <1>10, <1>11, <1>12 DEF NixInv, NixTypeInv

LEMMA RecordExecutionStep ==
  ASSUME NixInv, NEW c \in Caller, RecordExecution(c)
  PROVE  NixInv'
<1>1. caller[c].pc = "record" /\ UNCHANGED <<operations, settlements, started, returned>>
  BY DEF RecordExecution
<1>2. PICK i \in Operation, r \in NixReceipt : caller[c].id = {i} /\ caller[c].receipt = {r} /\ Owns(c, i)
  BY <1>1, OwnerOf DEF Owning
<1>3. operations[i] # {} /\ executions[i] = {} /\ settlements[i] = {}
  BY <1>1, <1>2 DEF NixInv, HandInv, OwnerInv
<1>4. \E pc \in {"describe", "settle"}, s \in NixReceipt :
        /\ Goes(c, pc, s) /\ s.outcome = r.outcome
        /\ executions' = [executions EXCEPT ![i] = {r}] \/ UNCHANGED executions
  <2>1. CASE /\ executions' = [executions EXCEPT ![i] = {r}]
             /\ Goes(c, IF r.coverage = "unknown" THEN "settle" ELSE "describe", r)
    BY <2>1
  <2>2. CASE Goes(c, "settle", [r EXCEPT !.warning = TRUE]) /\ UNCHANGED executions
    <3>1. [r EXCEPT !.warning = TRUE] \in NixReceipt /\ [r EXCEPT !.warning = TRUE].outcome = r.outcome
      BY DEF NixReceipt
    <3> QED BY <2>2, <3>1
  <2> QED BY <1>2, <2>1, <2>2 DEF RecordExecution
<1>5. PICK pc \in {"describe", "settle"}, s \in NixReceipt :
        /\ Goes(c, pc, s) /\ s.outcome = r.outcome
        /\ executions' = [executions EXCEPT ![i] = {r}] \/ UNCHANGED executions
  BY <1>4
<1>6. /\ CallerInv' /\ caller'[c].pc = pc /\ caller'[c].receipt = {s}
      /\ \A d \in Caller \ {c} : caller'[d] = caller[d]
      /\ \A d \in Caller, j \in Operation : Owns(d, j)' <=> Owns(d, j)
      /\ \A d \in Caller \ {c} : ~ Owns(d, i)
  BY <1>1, <1>2, <1>5, OwnerGoes DEF Owning
<1>7. /\ \A x \in executions'[i] : x = r
      /\ \A j \in Operation \ {i} : executions'[j] = executions[j]
  BY <1>3, <1>5 DEF NixInv, NixTypeInv, JournalInv
<1>8. JournalInv'
  BY <1>1, <1>5 DEF NixInv, NixTypeInv, JournalInv
<1>9. OwnerInv'
  BY <1>1, <1>3, <1>6, <1>7 DEF NixInv, OwnerInv
<1>10. HandInv'
  <2> SUFFICES ASSUME NEW d \in Caller, NEW j \in Operation, Owns(d, j)
               PROVE  /\ caller'[d].pc = "run" => started[j] = 0
                      /\ caller'[d].pc \in {"run", "record"} => executions'[j] = {} /\ settlements[j] = {}
                      /\ caller'[d].pc \in {"describe", "settle"} =>
                           \A x \in executions'[j], t \in caller'[d].receipt : t.outcome = x.outcome
    BY <1>1, <1>6 DEF HandInv
  <2>1. CASE d = c
    <3>1. j = i
      BY <2>1, <1>2 DEF Owns
    <3> QED BY <2>1, <3>1, <1>5, <1>6, <1>7
  <2>2. CASE d # c
    <3>1. j # i
      BY <2>2, <1>6
    <3> QED BY <2>2, <3>1, <1>6, <1>7 DEF NixInv, HandInv
  <2> QED BY <2>1, <2>2
<1>11. AdditionsAreExact'
  BY <1>1, <1>3, <1>7 DEF NixInv, AdditionsAreExact, AddedOnce, ReceiptsAgree
<1> QED BY <1>6, <1>8, <1>9, <1>10, <1>11 DEF NixInv, NixTypeInv

LEMMA DescribeObjectStep ==
  ASSUME NixInv, NEW c \in Caller, DescribeObject(c)
  PROVE  NixInv'
<1>1. caller[c].pc = "describe" /\ UNCHANGED <<operations, executions, settlements, started, returned>>
  BY DEF DescribeObject, journal
<1>2. PICK i \in Operation, r \in NixReceipt : caller[c].id = {i} /\ caller[c].receipt = {r} /\ Owns(c, i)
  BY <1>1, OwnerOf DEF Owning
<1>3. PICK v \in {"returned-path-only", "returned-object-metadata"} :
        Goes(c, "settle", [r EXCEPT !.coverage = v])
  BY <1>2 DEF DescribeObject
<1>4. [r EXCEPT !.coverage = v] \in NixReceipt /\ [r EXCEPT !.coverage = v].outcome = r.outcome
  BY DEF NixReceipt
<1>5. PICK s \in NixReceipt : Goes(c, "settle", s) /\ s.outcome = r.outcome
  BY <1>3, <1>4
<1>6. /\ CallerInv' /\ caller'[c].pc = "settle" /\ caller'[c].receipt = {s}
      /\ \A d \in Caller \ {c} : caller'[d] = caller[d]
      /\ \A d \in Caller, j \in Operation : Owns(d, j)' <=> Owns(d, j)
  BY <1>1, <1>2, <1>5, OwnerGoes DEF Owning
<1>7. HandInv'
  <2> SUFFICES ASSUME NEW d \in Caller, NEW j \in Operation, Owns(d, j)
               PROVE  /\ caller'[d].pc = "run" => started[j] = 0
                      /\ caller'[d].pc \in {"run", "record"} => executions[j] = {} /\ settlements[j] = {}
                      /\ caller'[d].pc \in {"describe", "settle"} =>
                           \A x \in executions[j], t \in caller'[d].receipt : t.outcome = x.outcome
    BY <1>1, <1>6 DEF HandInv
  <2>1. CASE d = c
    BY <2>1, <1>1, <1>2, <1>5, <1>6 DEF NixInv, HandInv
  <2>2. CASE d # c
    BY <2>2, <1>6 DEF NixInv, HandInv
  <2> QED BY <2>1, <2>2
<1> QED BY <1>1, <1>6, <1>7
        DEF NixInv, NixTypeInv, JournalInv, OwnerInv, AdditionsAreExact, AddedOnce, ReceiptsAgree

LEMMA SettleStep ==
  ASSUME NixInv, NEW c \in Caller, Settle(c)
  PROVE  NixInv'
<1>1. caller[c].pc = "settle" /\ UNCHANGED <<operations, executions, started>>
  BY DEF Settle
<1>2. PICK i \in Operation, r \in NixReceipt : caller[c].id = {i} /\ caller[c].receipt = {r} /\ Owns(c, i)
  BY <1>1, OwnerOf DEF Owning
<1>3. /\ settlements' = [settlements EXCEPT ![i] = IF @ = {} THEN {r} ELSE @]
      /\ \E s \in settlements'[i] : EndsCall(c) /\ returned' = [returned EXCEPT ![i] = @ \cup {s}]
  BY <1>2 DEF Settle, HandsOut
<1>4. PICK s \in settlements'[i] : EndsCall(c) /\ returned' = [returned EXCEPT ![i] = @ \cup {s}]
  BY <1>3
<1>5. /\ CallerInv' /\ caller'[c].pc = "idle"
      /\ \A d \in Caller \ {c} : caller'[d] = caller[d]
  BY <1>4, CallEnds DEF NixInv, NixTypeInv
<1>6. /\ settlements'[i] = IF settlements[i] = {} THEN {r} ELSE settlements[i]
      /\ \A j \in Operation \ {i} : settlements'[j] = settlements[j]
  BY <1>3 DEF NixInv, NixTypeInv, JournalInv
<1>7. \A j \in Operation : settlements'[j] \in {{}} \cup {{x} : x \in NixReceipt}
  BY <1>6 DEF NixInv, NixTypeInv, JournalInv
<1>8. s \in NixReceipt
  BY <1>4, <1>7
<1>9. JournalInv'
  BY <1>1, <1>3, <1>4, <1>7, <1>8 DEF NixInv, NixTypeInv, JournalInv
<1>10. \A d \in Caller, j \in Operation : Owns(d, j)' => d # c /\ j # i /\ Owns(d, j)
  BY <1>2, <1>5 DEF Owns, Owning, NixInv, OwnerInv
<1>11. operations[i] # {}
  BY <1>2 DEF NixInv, OwnerInv
<1>12. OwnerInv'
  BY <1>1, <1>6, <1>10, <1>11 DEF NixInv, OwnerInv
<1>13. HandInv'
  BY <1>1, <1>5, <1>6, <1>10 DEF NixInv, HandInv
<1>14. AdditionsAreExact'
  <2>1. \A x \in executions[i] : r.outcome = x.outcome
    BY <1>1, <1>2 DEF NixInv, HandInv
  <2>2. \A j \in Operation : \A x \in executions[j], t \in settlements'[j] : t.outcome = x.outcome
    BY <2>1, <1>6 DEF NixInv, AdditionsAreExact, ReceiptsAgree
  <2>3. \A j \in Operation : returned'[j] \subseteq settlements'[j]
    BY <1>4, <1>6 DEF NixInv, NixTypeInv, JournalInv, AdditionsAreExact, ReceiptsAgree
  <2> QED BY <1>1, <2>2, <2>3 DEF NixInv, AdditionsAreExact, AddedOnce, ReceiptsAgree
<1> QED BY <1>5, <1>9, <1>12, <1>13, <1>14 DEF NixInv, NixTypeInv

-----------------------------------------------------------------------------
LEMMA NixInit_Inv == NixInit => NixInv
<1> SUFFICES ASSUME NixInit PROVE NixInv
  OBVIOUS
<1>1. Idle \in [pc : NixPc, id : SUBSET Operation, request : SUBSET Request,
                receipt : SUBSET NixReceipt] /\ Idle.pc = "idle"
  BY DEF Idle, NixPc
<1>2. \A c \in Caller : caller[c] = Idle
  BY DEF NixInit
<1>3. CallerInv
  BY <1>1, <1>2 DEF NixInit, CallerInv
<1>4. \A c \in Caller, i \in Operation : ~ Owns(c, i)
  BY <1>1, <1>2 DEF Owns, Owning
<1>5. JournalInv /\ AdditionsAreExact
  BY DEF NixInit, JournalInv, AdditionsAreExact, AddedOnce, ReceiptsAgree
<1> QED BY <1>3, <1>4, <1>5 DEF NixInit, NixInv, NixTypeInv, OwnerInv, HandInv

LEMMA NixStep_Inv == NixInv /\ [NixNext]_nixVars => NixInv'
<1> SUFFICES ASSUME NixInv, [NixNext]_nixVars PROVE NixInv'
  OBVIOUS
<1>1. CASE UNCHANGED nixVars
  <2> USE <1>1 DEF nixVars
  <2>1. \A c \in Caller, i \in Operation : Owns(c, i)' <=> Owns(c, i)
    BY DEF Owns
  <2>2. JournalInv' /\ CallerInv' /\ AdditionsAreExact'
    BY DEF NixInv, NixTypeInv, JournalInv, CallerInv, AdditionsAreExact, AddedOnce, ReceiptsAgree
  <2>3. OwnerInv'
    BY <2>1 DEF NixInv, OwnerInv
  <2>4. HandInv'
    BY <2>1 DEF NixInv, HandInv
  <2> QED BY <2>2, <2>3, <2>4 DEF NixInv, NixTypeInv
<1>2. ASSUME NEW c \in Caller, NixStep(c) PROVE NixInv'
  <2>1. ASSUME NEW i \in Operation, NEW q \in Request, Call(c, i, q) PROVE NixInv'
    BY <2>1, CallStep
  <2>2. CASE CommitIntent(c)
    BY <2>2, CommitIntentStep
  <2>3. CASE Replay(c)
    BY <2>3, ReplayStep
  <2>4. CASE RefuseRetry(c)
    BY <2>4, ReturnStep DEF RefuseRetry
  <2>5. CASE NotStarted(c)
    BY <2>5, NotStartedStep
  <2>6. CASE Execute(c)
    BY <2>6, ExecuteStep
  <2>7. CASE RecordExecution(c)
    BY <2>7, RecordExecutionStep
  <2>8. CASE DescribeObject(c)
    BY <2>8, DescribeObjectStep
  <2>9. CASE Settle(c)
    BY <2>9, SettleStep
  <2>10. CASE Stop(c)
    BY <2>10, ReturnStep DEF Stop
  <2> QED BY <1>2, <2>1, <2>2, <2>3, <2>4, <2>5, <2>6, <2>7, <2>8, <2>9, <2>10 DEF NixStep
<1> QED BY <1>1, <1>2 DEF NixNext

\* An identity stands for one addition with one outcome, whoever retries it and
\* whoever dies (begin, execute, executed, settle).
THEOREM AdditionsStayExact == NixSpec => []AdditionsAreExact
<1>1. NixInv => AdditionsAreExact
  BY DEF NixInv
<1> QED BY <1>1, NixInit_Inv, NixStep_Inv, PTL DEF NixSpec

-----------------------------------------------------------------------------
(* The scratch ledger.                                                      *)

Ids == {e.id : e \in Event}
Stage == {"roles", "status"}
Active == {"ask", "wait", "failed", "clear", "unfinished"}
Assessor == [pc : Active \cup {"rest", "choose"}, todo : SUBSET Path, seen : [Path -> Opt(Entry)],
             path : Opt(Path), about : Opt(EvidenceType), stage : Stage, retry : BOOLEAN,
             chosen : Nat]
Attempt == [key : [about : EvidenceType, stage : Stage], number : Nat,
            status : {"dispatching", "success", "failed"},
            answer : {"", "obligations", "nothing", "satisfied", "outstanding"}]

EntryInv ==
  /\ log \subseteq Event
  /\ entry \in [Path -> Opt(Entry)]

AssessorInv ==
  /\ assessor \in Assessor
  /\ assessor.pc \in Active =>
       /\ \E p \in Path : assessor.path = {p}
       /\ \E v \in EvidenceType : assessor.about = {v}

\* A released allocation was released as what it is.
ReleasedInv ==
  \A p \in Path : \A x \in entry[p] : x.disposition = "released" => <<p, x.identity>> \in cleared

\* An answer that was paid for is one to the question of its stage.
AttemptInv ==
  /\ attempts \subseteq Attempt
  /\ \A a \in attempts : a.status = "success" =>
       a.answer \in IF a.key.stage = "roles" THEN {"obligations", "nothing"}
                                            ELSE {"satisfied", "outstanding"}

TypeInv == EntryInv /\ AssessorInv /\ AttemptInv
ReleaseInv == TypeInv /\ ReleasedInv

-----------------------------------------------------------------------------
(* Reports, entries and evidence.                                            *)

LEMMA Reports ==
  ASSUME NEW e \in Event
  PROVE  /\ e.id \in Ids
         /\ e.kind = "observe" => /\ e.path \in Path /\ e.identity \in Identity /\ e.present \in BOOLEAN
                                  /\ e.activity \in BOOLEAN /\ e.owners \subseteq Invocation
         /\ e.kind = "annotation" => /\ e.path \in Path /\ e.identity \in Identity
                                     /\ e.disposition \in Disposition
         /\ e.kind = "link" => e.path \in Path /\ e.identity \in Identity
<1>1. e \in EventType
  BY ScratchAssumption
<1>2. e.id \in Ids
  BY DEF Ids
<1> QED BY <1>1, <1>2 DEF EventType, Disposition

LEMMA FreshType ==
  ASSUME NEW e \in Event, e.kind = "observe"
  PROVE  /\ Fresh(e) \in Entry /\ Fresh(e).identity = e.identity
         /\ Fresh(e).disposition # "released" /\ Fresh(e).notes = <<>>
<1>1. <<>> \in Notes
  BY ScratchAssumption DEF Notes
<1> QED BY <1>1, Reports, ScratchAssumption DEF Fresh, Entry, Disposition

\* One more annotation, and perhaps one less: the new one is the last.
LEMMA NotedIs ==
  ASSUME NEW V, NEW s \in Seq(V), Len(s) <= MaxNotes, NEW id
  PROVE  /\ Noted(s, id) \in Seq(V \cup {id}) /\ Len(Noted(s, id)) <= MaxNotes
         /\ id \notin V => Noted(s, id) \notin Seq(V)
<1> DEFINE t == IF Len(s) = MaxNotes THEN Tail(s) ELSE s
           n == Len(t)
           u == Append(t, id)
<1>1. MaxNotes \in Nat /\ MaxNotes # 0
  BY ScratchAssumption
<1>2. t \in Seq(V) /\ n < MaxNotes /\ n \in Nat
  <2>1. CASE Len(s) = MaxNotes
    <3>1. s # <<>>
      BY <1>1, <2>1
    <3> QED BY <1>1, <2>1, <3>1
  <2>2. CASE Len(s) # MaxNotes
    BY <1>1, <2>2
  <2> QED BY <2>1, <2>2
<1> HIDE DEF t
<1>3. t \in Seq(V \cup {id})
  BY <1>2, LargerSeq
<1>4. u \in Seq(V \cup {id}) /\ Len(u) = n + 1 /\ u[n + 1] = id
  BY <1>2, <1>3
<1>5. u = Noted(s, id)
  BY DEF Noted, t
<1> HIDE DEF u, n
<1>6. ASSUME u \in Seq(V) PROVE id \in V
  <2>1. n + 1 \in 1 .. Len(u)
    BY <1>2, <1>4
  <2>2. u[n + 1] \in V
    BY <1>6, <2>1
  <2> QED BY <1>4, <2>2
<1> QED BY <1>1, <1>2, <1>4, <1>5, <1>6

LEMMA EvidenceHasType ==
  ASSUME NEW p \in Path, NEW x \in Entry
  PROVE  Evidence(p, x) \in EvidenceType /\ Evidence(p, x).notes = x.notes
<1>1. {run \in x.owners \X Run : invocation[run[1]] = {run[2]}} \subseteq Invocation \X Run
  BY DEF Entry
<1> QED BY <1>1 DEF Evidence, EvidenceType, Entry

\* What one report does to the entries: it changes at most one, in one of four
\* ways, and the history of releases with it.
LEMMA EntryChanges ==
  ASSUME EntryInv, NEW e \in Event, RecordEvent(e)
  PROVE  \/ UNCHANGED <<entry, cleared>>
         \/ /\ e.kind = "observe"
            /\ \E x \in Entry, y \in Entry :
                 /\ entry[e.path] = {x} \/ x = Fresh(e)
                 /\ x.identity = e.identity
                 /\ entry' = [entry EXCEPT ![e.path] = {y}]
                 /\ y.identity = e.identity /\ y.notes = x.notes
                 /\ y.disposition = IF e.activity THEN Reopens(x) ELSE x.disposition
            /\ cleared' = IF e.activity THEN cleared \ {<<e.path, e.identity>>} ELSE cleared
         \/ /\ e.kind = "annotation"
            /\ \E x \in Entry, y \in Entry :
                 /\ entry[e.path] = {x} /\ x.identity = e.identity
                 /\ entry' = [entry EXCEPT ![e.path] = {y}]
                 /\ y.identity = e.identity /\ y.notes = Noted(x.notes, e.id)
                 /\ y.disposition = e.disposition
            /\ cleared' = IF e.disposition = "released" THEN cleared \cup {<<e.path, e.identity>>}
                                                        ELSE cleared \ {<<e.path, e.identity>>}
         \/ /\ e.kind = "link"
            /\ \E x \in Entry, y \in Entry :
                 /\ entry[e.path] = {x} /\ x.identity = e.identity
                 /\ entry' = [entry EXCEPT ![e.path] = {y}]
                 /\ y.identity = e.identity /\ y.notes = x.notes
                 /\ y.disposition = Reopens(x)
            /\ cleared' = cleared \ {<<e.path, e.identity>>}
<1>1. CASE ApplyBegin(e) \/ ApplyEnd(e) \/ ApplyContext(e) \/ ApplyCoverage(e)
  BY <1>1 DEF ApplyBegin, ApplyEnd, ApplyContext, ApplyCoverage
<1>2. CASE ApplyObservation(e)
  <2>1. e.kind = "observe" /\ e.path \in Path /\ e.identity \in Identity /\ e.present \in BOOLEAN
          /\ e.activity \in BOOLEAN /\ e.owners \subseteq Invocation
    BY <1>2, Reports DEF ApplyObservation
  <2>2. entry[e.path] \in Opt(Entry)
    BY <2>1 DEF EntryInv
  <2>3. PICK x \in Observed(e) :
          entry' = [entry EXCEPT ![e.path] =
                      {[x EXCEPT !.present = e.present, !.owners = @ \cup e.owners,
                                 !.disposition = IF e.activity THEN Reopens(x) ELSE @]}]
    BY <1>2 DEF ApplyObservation
  <2>4. x \in Entry /\ x.identity = e.identity /\ (entry[e.path] = {x} \/ x = Fresh(e))
    <3>1. CASE {z \in entry[e.path] : z.identity = e.identity} # {}
      BY <2>2, <2>3, <3>1 DEF Observed, Opt
    <3>2. CASE {z \in entry[e.path] : z.identity = e.identity} = {}
      BY <2>1, <2>3, <3>2, FreshType DEF Observed
    <3> QED BY <3>1, <3>2
  <2> DEFINE y == [x EXCEPT !.present = e.present, !.owners = @ \cup e.owners,
                            !.disposition = IF e.activity THEN Reopens(x) ELSE @]
  <2>5. Reopens(x) \in Disposition
    BY <2>4 DEF Reopens, Entry, Disposition
  <2>6. y \in Entry
    BY <2>1, <2>4, <2>5 DEF Entry
  <2>7. /\ y.identity = e.identity /\ y.notes = x.notes
        /\ y.disposition = IF e.activity THEN Reopens(x) ELSE x.disposition
    BY <2>4 DEF Entry
  <2>8. entry' = [entry EXCEPT ![e.path] = {y}]
    BY <2>3
  <2>9. cleared' = IF e.activity THEN cleared \ {<<e.path, e.identity>>} ELSE cleared
    BY <1>2 DEF ApplyObservation
  <2> HIDE DEF y
  <2> QED BY <2>1, <2>4, <2>6, <2>7, <2>8, <2>9
<1>3. CASE ApplyAnnotation(e)
  <2>1. e.kind = "annotation" /\ e.path \in Path /\ e.identity \in Identity
          /\ e.disposition \in Disposition /\ e.id \in Ids
    BY <1>3, Reports DEF ApplyAnnotation
  <2>2. entry[e.path] \in Opt(Entry)
    BY <2>1 DEF EntryInv
  <2>3. PICK x \in entry[e.path] :
          entry' = [entry EXCEPT ![e.path] =
                      {[x EXCEPT !.disposition = e.disposition, !.notes = Noted(@, e.id)]}]
    BY <1>3 DEF ApplyAnnotation
  <2>4. x \in Entry /\ entry[e.path] = {x}
    BY <2>2, <2>3 DEF Opt
  <2>5. x.identity = e.identity
    BY <1>3, <2>4 DEF ApplyAnnotation, SameObject
  <2> DEFINE y == [x EXCEPT !.disposition = e.disposition, !.notes = Noted(@, e.id)]
  <2>10. Noted(x.notes, e.id) \in Notes
    <3>1. x.notes \in Seq(Ids) /\ Len(x.notes) <= MaxNotes /\ Ids \cup {e.id} = Ids
      BY <2>1, <2>4 DEF Entry, Notes, Ids
    <3>2. Noted(x.notes, e.id) \in Seq(Ids) /\ Len(Noted(x.notes, e.id)) <= MaxNotes
      BY <3>1, NotedIs
    <3> QED BY <3>2 DEF Notes, Ids
  <2>6. y \in Entry
    BY <2>1, <2>4, <2>10 DEF Entry
  <2>7. y.identity = e.identity /\ y.notes = Noted(x.notes, e.id) /\ y.disposition = e.disposition
    BY <2>4, <2>5 DEF Entry
  <2>8. entry' = [entry EXCEPT ![e.path] = {y}]
    BY <2>3
  <2>9. cleared' = IF e.disposition = "released" THEN cleared \cup {<<e.path, e.identity>>}
                                                 ELSE cleared \ {<<e.path, e.identity>>}
    BY <1>3 DEF ApplyAnnotation
  <2> HIDE DEF y
  <2> QED BY <2>1, <2>4, <2>5, <2>6, <2>7, <2>8, <2>9
<1>4. CASE ApplyLink(e)
  <2>1. e.kind = "link" /\ e.path \in Path /\ e.identity \in Identity
    BY <1>4, Reports DEF ApplyLink
  <2>2. entry[e.path] \in Opt(Entry)
    BY <2>1 DEF EntryInv
  <2>3. PICK x \in entry[e.path] :
          /\ x.links < MaxLinks
          /\ entry' = [entry EXCEPT ![e.path] =
                         {[x EXCEPT !.links = @ + 1, !.disposition = Reopens(x)]}]
    BY <1>4 DEF ApplyLink
  <2>4. x \in Entry /\ entry[e.path] = {x}
    BY <2>2, <2>3 DEF Opt
  <2>5. x.identity = e.identity
    BY <1>4, <2>4 DEF ApplyLink, SameObject
  <2> DEFINE y == [x EXCEPT !.links = @ + 1, !.disposition = Reopens(x)]
  <2>6. Reopens(x) \in Disposition /\ x.links + 1 \in 0 .. MaxLinks
    BY <2>3, <2>4, ScratchAssumption DEF Reopens, Entry, Disposition
  <2>7. y \in Entry
    BY <2>4, <2>6 DEF Entry
  <2>8. y.identity = e.identity /\ y.notes = x.notes /\ y.disposition = Reopens(x)
    BY <2>4, <2>5 DEF Entry
  <2>9. entry' = [entry EXCEPT ![e.path] = {y}]
    BY <2>3
  <2>10. cleared' = cleared \ {<<e.path, e.identity>>}
    BY <1>4 DEF ApplyLink
  <2> HIDE DEF y
  <2> QED BY <2>1, <2>4, <2>5, <2>7, <2>8, <2>9, <2>10
<1> QED BY <1>1, <1>2, <1>3, <1>4 DEF RecordEvent

-----------------------------------------------------------------------------
(* Types.                                                                    *)

LEMMA RecordEventType ==
  ASSUME TypeInv, NEW e \in Event, RecordEvent(e)
  PROVE  TypeInv'
<1>1. UNCHANGED <<assessor, attempts>> /\ log' \subseteq Event
  BY DEF RecordEvent, TypeInv, EntryInv
<1>2. entry' \in [Path -> Opt(Entry)]
  <2>1. entry' = entry \/ \E y \in Entry : entry' = [entry EXCEPT ![e.path] = {y}]
    BY EntryChanges DEF TypeInv
  <2> QED BY <2>1 DEF TypeInv, EntryInv, Opt
<1> QED BY <1>1, <1>2 DEF TypeInv, EntryInv, AssessorInv, AttemptInv

LEMMA StartAssessingType ==
  ASSUME TypeInv, NEW retry \in BOOLEAN, StartAssessing(retry)
  PROVE  TypeInv'
<1>1. assessor' = [pc |-> "choose", todo |-> Tracked, seen |-> entry, path |-> {}, about |-> {},
                   stage |-> "roles", retry |-> retry, chosen |-> 0]
  BY DEF StartAssessing, Resting
<1>2. assessor' \in Assessor /\ assessor'.pc = "choose"
  BY <1>1 DEF TypeInv, EntryInv, Assessor, Tracked, Stage, Opt
<1>3. UNCHANGED <<log, entry, attempts>>
  BY DEF StartAssessing, ledger
<1> QED BY <1>2, <1>3 DEF TypeInv, EntryInv, AssessorInv, AttemptInv, Active

\* The assessor rests, or passes an allocation over.
LEMMA RestType ==
  ASSUME TypeInv, assessor' = Resting, UNCHANGED <<log, entry, attempts>>
  PROVE  TypeInv'
<1>1. Resting \in Assessor /\ Resting.pc = "rest"
  BY DEF Resting, Assessor, Stage, Opt
<1> QED BY <1>1 DEF TypeInv, EntryInv, AssessorInv, AttemptInv, Active

LEMMA SkipEntryType ==
  ASSUME TypeInv, NEW p \in Path, SkipEntry(p)
  PROVE  TypeInv'
<1>1. assessor' \in Assessor /\ assessor'.pc = "choose"
  BY DEF SkipEntry, TypeInv, AssessorInv, Assessor
<1> QED BY <1>1 DEF SkipEntry, ledger, TypeInv, EntryInv, AssessorInv, AttemptInv, Active

\* What is chosen, and the evidence about it.
LEMMA Chosen ==
  ASSUME TypeInv, NEW p \in Path, ChooseEntry(p)
  PROVE  \E x \in Entry :
           /\ assessor.seen[p] = {x} /\ Candidate(p, x)
           /\ assessor' \in Assessor /\ assessor'.pc = "ask" /\ assessor'.stage = "roles"
           /\ assessor'.path = {p} /\ assessor'.about = {Evidence(p, x)}
           /\ Evidence(p, x) \in EvidenceType /\ Evidence(p, x).notes = x.notes
           /\ assessor'.seen = assessor.seen
<1>1. PICK x \in assessor.seen[p] :
        /\ Candidate(p, x)
        /\ assessor' = [assessor EXCEPT !.pc = "ask", !.path = {p}, !.about = {Evidence(p, x)},
                                        !.stage = "roles", !.chosen = @ + 1]
  BY DEF ChooseEntry
<1>2. x \in Entry /\ assessor.seen[p] = {x}
  BY <1>1 DEF TypeInv, AssessorInv, Assessor, Opt
<1>3. Evidence(p, x) \in EvidenceType /\ Evidence(p, x).notes = x.notes
  BY <1>2, EvidenceHasType
<1> DEFINE v == Evidence(p, x)
<1> HIDE DEF v
<1>4. v \in EvidenceType
  BY <1>3 DEF v
<1>5. assessor' = [assessor EXCEPT !.pc = "ask", !.path = {p}, !.about = {v},
                                   !.stage = "roles", !.chosen = @ + 1]
  BY <1>1 DEF v
<1>6. /\ assessor' \in Assessor /\ assessor'.pc = "ask" /\ assessor'.stage = "roles"
      /\ assessor'.path = {p} /\ assessor'.about = {v} /\ assessor'.seen = assessor.seen
  <2>1. assessor \in Assessor
    BY DEF TypeInv, AssessorInv
  <2>2. {p} \in Opt(Path) /\ {v} \in Opt(EvidenceType)
    BY <1>4 DEF Opt
  <2>3. /\ assessor'.pc = "ask" /\ assessor'.stage = "roles"
        /\ assessor'.path = {p} /\ assessor'.about = {v} /\ assessor'.seen = assessor.seen
    BY <1>5, <2>1 DEF Assessor
  <2>4. assessor' \in Assessor
    <3>1. assessor' = [pc |-> "ask", todo |-> assessor.todo, seen |-> assessor.seen, path |-> {p},
                       about |-> {v}, stage |-> "roles", retry |-> assessor.retry,
                       chosen |-> assessor.chosen + 1]
      BY <1>5, <2>1 DEF Assessor
    <3>2. /\ assessor.todo \in SUBSET Path /\ assessor.seen \in [Path -> Opt(Entry)]
          /\ assessor.retry \in BOOLEAN /\ assessor.chosen + 1 \in Nat
      BY <2>1 DEF Assessor
    <3>3. "ask" \in Active \cup {"rest", "choose"} /\ "roles" \in Stage
      BY DEF Active, Stage
    <3> QED BY <3>1, <3>2, <3>3, <2>2 DEF Assessor
  <2> QED BY <2>3, <2>4
<1> QED BY <1>1, <1>2, <1>3, <1>6 DEF v

LEMMA ChooseEntryType ==
  ASSUME TypeInv, NEW p \in Path, ChooseEntry(p)
  PROVE  TypeInv'
<1>1. /\ assessor' \in Assessor
      /\ \E q \in Path : assessor'.path = {q}
      /\ \E v \in EvidenceType : assessor'.about = {v}
  BY Chosen
<1> QED BY <1>1 DEF ChooseEntry, ledger, TypeInv, EntryInv, AssessorInv, AttemptInv

\* The assessor moves on with its question.
LEMMA Proceeds ==
  ASSUME AssessorInv, assessor.pc \in Active, NEW pc \in Active, NEW stage \in Stage,
         assessor' = [assessor EXCEPT !.pc = pc, !.stage = stage]
  PROVE  /\ AssessorInv' /\ assessor'.pc = pc
         /\ assessor'.path = assessor.path /\ assessor'.about = assessor.about
         /\ assessor'.seen = assessor.seen
BY DEF AssessorInv, Assessor

LEMMA KeepsStage ==
  ASSUME AssessorInv, NEW pc
  PROVE  [assessor EXCEPT !.pc = pc] = [assessor EXCEPT !.pc = pc, !.stage = assessor.stage]
BY DEF AssessorInv, Assessor

LEMMA ConcludesType ==
  ASSUME AssessorInv, NEW a \in Answers, assessor.pc \in Active
  PROVE  \E pc \in Active, stage \in Stage : Concludes(a) = [assessor EXCEPT !.pc = pc, !.stage = stage]
<1>1. CASE assessor.stage = "roles"
  <2>1. CASE a = "obligations"
    BY <1>1, <2>1 DEF Concludes, Active, Stage
  <2>2. CASE a = "nothing"
    <3>1. Concludes(a) = [assessor EXCEPT !.pc = "clear"]
      BY <1>1, <2>2 DEF Concludes
    <3> QED BY <1>1, <3>1, KeepsStage DEF Active, Stage
  <2> QED BY <1>1, <2>1, <2>2 DEF Answers
<1>2. CASE assessor.stage = "status"
  <2>1. \E pc \in {"clear", "unfinished"} : Concludes(a) = [assessor EXCEPT !.pc = pc]
    BY <1>2 DEF Concludes
  <2> QED BY <1>2, <2>1, KeepsStage DEF Active, Stage
<1> QED BY <1>1, <1>2 DEF AssessorInv, Assessor, Stage

LEMMA KeyType ==
  ASSUME AssessorInv, assessor.pc \in Active
  PROVE  /\ Key \in [about : EvidenceType, stage : Stage] /\ Key.stage = assessor.stage
         /\ assessor.about = {Key.about}
<1>1. PICK v \in EvidenceType : assessor.about = {v}
  BY DEF AssessorInv
<1>2. The(assessor.about) = v
  BY <1>1 DEF The
<1>3. assessor.stage \in Stage
  BY DEF AssessorInv, Assessor
<1> QED BY <1>1, <1>2, <1>3 DEF Key

LEMMA ReplayAnswerType ==
  ASSUME TypeInv, ReplayAnswer
  PROVE  TypeInv'
<1>1. assessor.pc = "ask" /\ UNCHANGED <<log, entry, attempts>>
  BY DEF ReplayAnswer, ledger
<1>2. PICK a \in PaidFor : assessor' = Concludes(a.answer)
  BY DEF ReplayAnswer
<1>3. a \in attempts /\ a.key = Key /\ a.status = "success"
  BY <1>2 DEF PaidFor, Tried
<1>4. a.answer \in Answers
  BY <1>1, <1>3, KeyType DEF TypeInv, AttemptInv, Answers, Active
<1>5. PICK pc \in Active, stage \in Stage : assessor' = [assessor EXCEPT !.pc = pc, !.stage = stage]
  BY <1>1, <1>2, <1>4, ConcludesType DEF TypeInv, Active
<1>6. AssessorInv'
  BY <1>1, <1>5, Proceeds DEF TypeInv, Active
<1> QED BY <1>1, <1>6 DEF TypeInv, EntryInv, AttemptInv

\* A step of the question that leaves its stage alone.
LEMMA MovesOn ==
  ASSUME AssessorInv, assessor.pc \in Active, NEW pc \in Active,
         assessor' = [assessor EXCEPT !.pc = pc]
  PROVE  /\ AssessorInv' /\ assessor'.pc = pc
         /\ assessor'.path = assessor.path /\ assessor'.about = assessor.about
         /\ assessor'.seen = assessor.seen
BY DEF AssessorInv, Assessor

LEMMA RefuseRequestType ==
  ASSUME TypeInv, RefuseRequest
  PROVE  TypeInv'
<1>1. AssessorInv'
  BY MovesOn DEF RefuseRequest, TypeInv, Active
<1> QED BY <1>1 DEF RefuseRequest, ledger, TypeInv, EntryInv, AttemptInv

\* The attempt a request is charged to.
Reserved == [key |-> Key, number |-> Cardinality(Tried) + 1, status |-> "dispatching", answer |-> ""]

LEMMA ReserveRequestType ==
  ASSUME TypeInv, IsFiniteSet(attempts), ReserveRequest
  PROVE  TypeInv' /\ Reserved \in Attempt
<1>1. AssessorInv'
  BY MovesOn DEF ReserveRequest, TypeInv, Active
<1>2. Cardinality(Tried) \in Nat
  BY FS_Subset, FS_CardinalityType DEF Tried
<1>3. Reserved \in Attempt
  <2>1. Key \in [about : EvidenceType, stage : Stage]
    BY KeyType DEF ReserveRequest, TypeInv, Active
  <2> HIDE DEF Key
  <2> QED BY <1>2, <2>1 DEF Reserved, Attempt
<1>4. attempts' = attempts \cup {Reserved} /\ Reserved.status = "dispatching"
  BY DEF ReserveRequest, Reserved
<1>5. AttemptInv'
  BY <1>3, <1>4 DEF TypeInv, AttemptInv
<1> QED BY <1>1, <1>3, <1>5 DEF ReserveRequest, ledger, TypeInv, EntryInv

\* What an attempt becomes when it is settled.
Settles(a, status, answer) ==
  IF a.key = Key /\ a.number = Cardinality(Tried)
    THEN [a EXCEPT !.status = status, !.answer = answer] ELSE a

LEMMA SettlesType ==
  ASSUME NEW a \in Attempt, NEW status \in {"success", "failed"},
         NEW answer \in {"", "obligations", "nothing", "satisfied", "outstanding"}
  PROVE  /\ Settles(a, status, answer) \in Attempt
         /\ Settles(a, status, answer).key = a.key /\ Settles(a, status, answer).number = a.number
         /\ \/ Settles(a, status, answer) = a
            \/ /\ a.key = Key /\ a.number = Cardinality(Tried)
               /\ Settles(a, status, answer).status = status /\ Settles(a, status, answer).answer = answer
BY DEF Settles, Attempt

LEMMA SettledIs ==
  ASSUME NEW status, NEW answer
  PROVE  Settled(status, answer) = {Settles(a, status, answer) : a \in attempts}
BY DEF Settled, Settles

\* No two attempts at a question have the same number.
Numbered == \A a, b \in attempts : a.key = b.key /\ a.number = b.number => a = b

\* Settling an attempt adds and loses none.
LEMMA SettledSize ==
  ASSUME AttemptInv, NEW S, S \subseteq attempts, IsFiniteSet(S), NEW status \in {"success", "failed"},
         NEW answer \in {"", "obligations", "nothing", "satisfied", "outstanding"}
  PROVE  LET T == {Settles(a, status, answer) : a \in S}
         IN  IsFiniteSet(T) /\ (Numbered => Cardinality(T) = Cardinality(S))
<1> DEFINE T == {Settles(a, status, answer) : a \in S}
           f == [a \in S |-> Settles(a, status, answer)]
<1>1. f \in Surjection(S, T)
  BY DEF Surjection
<1>2. ASSUME Numbered
      PROVE  f \in Injection(S, T)
  <2>1. ASSUME NEW a \in S, NEW b \in S, f[a] = f[b]
        PROVE  a = b
    <3>1. a \in Attempt /\ b \in Attempt
      BY DEF AttemptInv
    <3>2. Settles(a, status, answer) = Settles(b, status, answer)
      BY <2>1
    <3>3. a.key = b.key /\ a.number = b.number
      BY <3>1, <3>2 DEF Settles, Attempt
    <3> QED BY <1>2, <3>3 DEF Numbered
  <2> QED BY <2>1, Fun_IsInj
<1> HIDE DEF f, T
<1>3. IsFiniteSet(T) /\ (Numbered => Cardinality(T) = Cardinality(S))
  BY <1>1, <1>2, FS_Surjection
<1> QED BY <1>3 DEF T

LEMMA ModelAnswersType ==
  ASSUME TypeInv, ModelAnswers
  PROVE  TypeInv'
<1>1. assessor.pc = "wait" /\ UNCHANGED <<log, entry>>
  BY DEF ModelAnswers, ledger
<1>2. PICK a \in Answers : attempts' = Settled("success", a) /\ assessor' = Concludes(a)
  BY DEF ModelAnswers
<1>3. PICK pc \in Active, stage \in Stage : assessor' = [assessor EXCEPT !.pc = pc, !.stage = stage]
  BY <1>1, <1>2, ConcludesType DEF TypeInv, Active
<1>4. AssessorInv'
  BY <1>1, <1>3, Proceeds DEF TypeInv, Active
<1>5. a \in {"", "obligations", "nothing", "satisfied", "outstanding"}
  BY DEF Answers
<1>6. Key.stage = assessor.stage
  BY <1>1, KeyType DEF TypeInv, Active
<1>7. AttemptInv'
  <2>1. attempts' = {Settles(b, "success", a) : b \in attempts}
    BY <1>2, SettledIs
  <2>2. ASSUME NEW b \in attempts
        PROVE  \E c \in Attempt :
                 /\ c = Settles(b, "success", a)
                 /\ c.status = "success" =>
                      c.answer \in IF c.key.stage = "roles" THEN {"obligations", "nothing"}
                                                            ELSE {"satisfied", "outstanding"}
    <3>1. b \in Attempt
      BY DEF TypeInv, AttemptInv
    <3>2. /\ Settles(b, "success", a) \in Attempt
          /\ Settles(b, "success", a).key = b.key
          /\ \/ Settles(b, "success", a) = b
             \/ b.key = Key /\ Settles(b, "success", a).answer = a
      <4>1. \A s \in {"success", "failed"}, n \in {"", "obligations", "nothing", "satisfied", "outstanding"} :
              /\ Settles(b, s, n) \in Attempt
              /\ Settles(b, s, n).key = b.key
              /\ \/ Settles(b, s, n) = b
                 \/ b.key = Key /\ Settles(b, s, n).answer = n
        BY <3>1 DEF Settles, Attempt
      <4> QED BY <1>5, <4>1
    <3>3. PICK c \in Attempt :
            /\ c = Settles(b, "success", a) /\ c.key = b.key
            /\ c = b \/ (b.key = Key /\ c.answer = a)
      BY <3>2
    <3>4. CASE c = b
      BY <3>1, <3>3, <3>4 DEF TypeInv, AttemptInv
    <3>5. CASE b.key = Key /\ c.answer = a
      <4>1. c.key.stage = assessor.stage
        BY <1>6, <3>3, <3>5
      <4>2. c.answer \in IF assessor.stage = "roles" THEN {"obligations", "nothing"}
                                                    ELSE {"satisfied", "outstanding"}
        BY <3>5 DEF Answers
      <4> QED BY <3>3, <4>1, <4>2
    <3> QED BY <3>3, <3>4, <3>5
  <2> QED BY <2>1, <2>2 DEF AttemptInv
<1> QED BY <1>1, <1>4, <1>7 DEF TypeInv, EntryInv

LEMMA ModelFailsType ==
  ASSUME TypeInv, ModelFails
  PROVE  TypeInv'
<1>1. AssessorInv'
  BY MovesOn DEF ModelFails, TypeInv, Active
<1>2. attempts' = {Settles(b, "failed", "") : b \in attempts}
  BY SettledIs DEF ModelFails
<1>3. AttemptInv'
  <2>1. ASSUME NEW b \in attempts
        PROVE  /\ Settles(b, "failed", "") \in Attempt
               /\ Settles(b, "failed", "") = b \/ Settles(b, "failed", "").status = "failed"
    <3>1. b \in Attempt
      BY DEF TypeInv, AttemptInv
    <3> QED BY <3>1, SettlesType
  <2> QED BY <1>2, <2>1 DEF TypeInv, AttemptInv
<1> QED BY <1>1, <1>3 DEF ModelFails, ledger, TypeInv, EntryInv

\* What a verdict does: the allocation it is about may change, never by a release.
LEMMA Verdict ==
  ASSUME TypeInv, PublishVerdict
  PROVE  /\ assessor.pc \in {"failed", "clear", "unfinished"}
         /\ UNCHANGED <<log, attempts, dispatched>>
         /\ assessor' \in Assessor /\ assessor'.pc = "choose" /\ assessor'.seen = assessor.seen
         /\ \/ UNCHANGED <<entry, cleared>>
            \/ \E p \in Path, x \in Entry, y \in Entry :
                 /\ entry[p] = {x} /\ assessor.path = {p} /\ assessor.about = {Evidence(p, x)}
                 /\ entry' = [entry EXCEPT ![p] = {y}]
                 /\ y.identity = x.identity /\ y.notes = x.notes
                 /\ \/ y.disposition = x.disposition /\ cleared' = cleared
                    \/ y.disposition # "released" /\ cleared' = cleared \ {<<p, x.identity>>}
<1>1. assessor.pc \in {"failed", "clear", "unfinished"} /\ UNCHANGED <<log, attempts, dispatched>>
  BY DEF PublishVerdict
<1>2. PICK p \in assessor.path, v \in assessor.about : \E x \in entry[p] :
        LET current == Evidence(p, x) = v
                       /\ \E y \in assessor.seen[p] : disk[p] = {y.identity} IN
        /\ entry' = IF current THEN [entry EXCEPT ![p] = {Judged(x, v)}] ELSE entry
        /\ cleared' = IF current /\ assessor.pc = "unfinished"
                        THEN cleared \ {<<p, x.identity>>} ELSE cleared
        /\ assessor' = [assessor EXCEPT !.pc = "choose", !.todo = @ \ {p}, !.path = {}, !.about = {}]
  BY DEF PublishVerdict
<1>3. /\ assessor.path = {p} /\ p \in Path /\ assessor.about = {v} /\ v \in EvidenceType
      /\ assessor \in Assessor
  BY <1>1, <1>2 DEF TypeInv, AssessorInv, Active
<1>4. PICK x \in entry[p] :
        LET current == Evidence(p, x) = v
                       /\ \E y \in assessor.seen[p] : disk[p] = {y.identity} IN
        /\ entry' = IF current THEN [entry EXCEPT ![p] = {Judged(x, v)}] ELSE entry
        /\ cleared' = IF current /\ assessor.pc = "unfinished"
                        THEN cleared \ {<<p, x.identity>>} ELSE cleared
        /\ assessor' = [assessor EXCEPT !.pc = "choose", !.todo = @ \ {p}, !.path = {}, !.about = {}]
  BY <1>2
<1>5. x \in Entry /\ entry[p] = {x}
  BY <1>3 DEF TypeInv, EntryInv, Opt
<1>6. assessor' \in Assessor /\ assessor'.pc = "choose" /\ assessor'.seen = assessor.seen
  <2>1. assessor' = [pc |-> "choose", todo |-> assessor.todo \ {p}, seen |-> assessor.seen, path |-> {},
                     about |-> {}, stage |-> assessor.stage, retry |-> assessor.retry,
                     chosen |-> assessor.chosen]
    BY <1>3, <1>4 DEF Assessor
  <2>2. {} \in Opt(Path) /\ {} \in Opt(EvidenceType)
    BY DEF Opt
  <2> QED BY <1>3, <2>1, <2>2 DEF Assessor
<1>7. /\ Judged(x, v) \in Entry
      /\ Judged(x, v).identity = x.identity /\ Judged(x, v).notes = x.notes
      /\ Judged(x, v).disposition = IF assessor.pc = "unfinished" THEN "needs-finalization"
                                                                 ELSE x.disposition
  <2>1. {v} \in SUBSET EvidenceType
    BY <1>3
  <2>2. CASE assessor.pc = "failed"
    BY <1>5, <2>1, <2>2 DEF Judged, Entry
  <2>3. CASE assessor.pc = "clear"
    BY <1>5, <2>1, <2>3 DEF Judged, Entry
  <2>4. CASE assessor.pc = "unfinished"
    BY <1>5, <2>1, <2>4 DEF Judged, Entry, Disposition
  <2> QED BY <1>1, <2>2, <2>3, <2>4
<1>8. CASE UNCHANGED <<entry, cleared>>
  BY <1>1, <1>6, <1>8
<1>9. CASE ~ UNCHANGED <<entry, cleared>>
  <2>1. /\ Evidence(p, x) = v /\ entry' = [entry EXCEPT ![p] = {Judged(x, v)}]
        /\ cleared' = IF assessor.pc = "unfinished" THEN cleared \ {<<p, x.identity>>} ELSE cleared
    BY <1>4, <1>9
  <2>2. /\ entry[p] = {x} /\ assessor.path = {p} /\ assessor.about = {Evidence(p, x)}
    BY <1>3, <1>5, <2>1
  <2> DEFINE y == Judged(x, v)
  <2>3. /\ y \in Entry /\ entry' = [entry EXCEPT ![p] = {y}]
        /\ y.identity = x.identity /\ y.notes = x.notes
        /\ \/ y.disposition = x.disposition /\ cleared' = cleared
           \/ y.disposition # "released" /\ cleared' = cleared \ {<<p, x.identity>>}
    BY <1>7, <2>1
  <2> HIDE DEF y
  <2> QED BY <1>1, <1>3, <1>5, <1>6, <2>2, <2>3
<1> QED BY <1>8, <1>9

LEMMA PublishVerdictType ==
  ASSUME TypeInv, PublishVerdict
  PROVE  TypeInv'
<1>1. UNCHANGED <<log, attempts>> /\ assessor' \in Assessor /\ assessor'.pc = "choose"
  BY Verdict
<1>2. entry' = entry \/ \E p \in Path, y \in Entry : entry' = [entry EXCEPT ![p] = {y}]
  BY Verdict
<1>3. EntryInv'
  BY <1>1, <1>2 DEF TypeInv, EntryInv, Opt
<1> QED BY <1>1, <1>3 DEF TypeInv, AssessorInv, AttemptInv, Active

\* Every step keeps the types; attempts are added one at a time.
LEMMA NextType ==
  ASSUME TypeInv, IsFiniteSet(attempts), [ScratchNext]_scratchVars
  PROVE  TypeInv' /\ IsFiniteSet(attempts)'
<1>1. ASSUME NEW e \in Event, RecordEvent(e)
      PROVE  TypeInv' /\ IsFiniteSet(attempts)'
  BY <1>1, RecordEventType DEF RecordEvent
<1>2. ASSUME NEW o \in Observer, HeartbeatExpires(o)
      PROVE  TypeInv' /\ IsFiniteSet(attempts)'
  BY <1>2 DEF HeartbeatExpires, TypeInv, EntryInv, AssessorInv, AttemptInv
<1>3. ASSUME NEW p \in Path, DiskChanges(p)
      PROVE  TypeInv' /\ IsFiniteSet(attempts)'
  BY <1>3 DEF DiskChanges, ledger, TypeInv, EntryInv, AssessorInv, AttemptInv
<1>4. ASSUME NEW retry \in BOOLEAN, StartAssessing(retry)
      PROVE  TypeInv' /\ IsFiniteSet(attempts)'
  BY <1>4, StartAssessingType DEF StartAssessing
<1>5. ASSUME NEW p \in Path, SkipEntry(p)
      PROVE  TypeInv' /\ IsFiniteSet(attempts)'
  BY <1>5, SkipEntryType DEF SkipEntry
<1>6. ASSUME NEW p \in Path, ChooseEntry(p)
      PROVE  TypeInv' /\ IsFiniteSet(attempts)'
  BY <1>6, ChooseEntryType DEF ChooseEntry
<1>7. CASE FinishAssessing \/ AssessorCrashes
  BY <1>7, RestType DEF FinishAssessing, AssessorCrashes, ledger
<1>8. CASE ReplayAnswer
  BY <1>8, ReplayAnswerType DEF ReplayAnswer
<1>9. CASE RefuseRequest
  BY <1>9, RefuseRequestType DEF RefuseRequest
<1>10. CASE ReserveRequest
  <2>1. attempts' = attempts \cup {Reserved}
    BY <1>10 DEF ReserveRequest, Reserved
  <2>2. IsFiniteSet(attempts')
    BY <2>1, FS_AddElement
  <2> QED BY <1>10, <2>2, ReserveRequestType
<1>11. CASE ModelAnswers
  <2>1. PICK a \in Answers : attempts' = {Settles(b, "success", a) : b \in attempts}
    BY <1>11, SettledIs DEF ModelAnswers
  <2>2. IsFiniteSet(attempts')
    <3>1. a \in {"", "obligations", "nothing", "satisfied", "outstanding"}
      BY DEF Answers
    <3> QED BY <2>1, <3>1, SettledSize DEF TypeInv
  <2> QED BY <1>11, <2>2, ModelAnswersType
<1>12. CASE ModelFails
  <2>1. attempts' = {Settles(b, "failed", "") : b \in attempts}
    BY <1>12, SettledIs DEF ModelFails
  <2>2. IsFiniteSet(attempts')
    BY <2>1, SettledSize DEF TypeInv
  <2> QED BY <1>12, <2>2, ModelFailsType
<1>13. CASE PublishVerdict
  BY <1>13, PublishVerdictType DEF PublishVerdict
<1>14. CASE UNCHANGED scratchVars
  BY <1>14 DEF scratchVars, TypeInv, EntryInv, AssessorInv, AttemptInv
<1> QED BY <1>1, <1>2, <1>3, <1>4, <1>5, <1>6, <1>7, <1>8, <1>9, <1>10, <1>11, <1>12, <1>13, <1>14
        DEF ScratchNext, Assess

-----------------------------------------------------------------------------
(* What may be removed was released.                                         *)

LEMMA ReleasedNext ==
  ASSUME TypeInv, ReleasedInv, [ScratchNext]_scratchVars
  PROVE  ReleasedInv'
<1> USE DEF TypeInv, EntryInv
<1>1. ASSUME NEW e \in Event, RecordEvent(e)
      PROVE  ReleasedInv'
  <2>1. /\ e.kind = "observe" => e.path \in Path
        /\ e.kind = "annotation" => e.path \in Path
        /\ e.kind = "link" => e.path \in Path
    BY Reports
  <2>2. CASE UNCHANGED <<entry, cleared>>
    BY <2>2 DEF ReleasedInv
  <2>3. CASE /\ e.kind = "observe"
             /\ \E x \in Entry, y \in Entry :
                  /\ entry[e.path] = {x} \/ x = Fresh(e)
                  /\ x.identity = e.identity
                  /\ entry' = [entry EXCEPT ![e.path] = {y}]
                  /\ y.identity = e.identity /\ y.notes = x.notes
                  /\ y.disposition = IF e.activity THEN Reopens(x) ELSE x.disposition
             /\ cleared' = IF e.activity THEN cleared \ {<<e.path, e.identity>>} ELSE cleared
    <3>1. PICK x \in Entry, y \in Entry :
                  /\ entry[e.path] = {x} \/ x = Fresh(e)
                  /\ x.identity = e.identity
                  /\ entry' = [entry EXCEPT ![e.path] = {y}]
                  /\ y.identity = e.identity
                  /\ y.disposition = IF e.activity THEN Reopens(x) ELSE x.disposition
      BY <2>3
    <3>2. y.disposition = "released" => ~ e.activity /\ x.disposition = "released"
      BY <3>1 DEF Reopens
    <3>3. x = Fresh(e) => x.disposition # "released"
      BY <2>3, FreshType
    <3>4. y.disposition = "released" => <<e.path, e.identity>> \in cleared'
      BY <2>1, <2>3, <3>1, <3>2, <3>3 DEF ReleasedInv
    <3> QED BY <2>1, <2>3, <3>1, <3>4 DEF ReleasedInv
  <2>4. CASE /\ e.kind = "annotation"
             /\ \E x \in Entry, y \in Entry :
                  /\ entry[e.path] = {x} /\ x.identity = e.identity
                  /\ entry' = [entry EXCEPT ![e.path] = {y}]
                  /\ y.identity = e.identity /\ y.notes = Noted(x.notes, e.id)
                  /\ y.disposition = e.disposition
             /\ cleared' = IF e.disposition = "released" THEN cleared \cup {<<e.path, e.identity>>}
                                                         ELSE cleared \ {<<e.path, e.identity>>}
    BY <2>1, <2>4 DEF ReleasedInv
  <2>5. CASE /\ e.kind = "link"
             /\ \E x \in Entry, y \in Entry :
                  /\ entry[e.path] = {x} /\ x.identity = e.identity
                  /\ entry' = [entry EXCEPT ![e.path] = {y}]
                  /\ y.identity = e.identity /\ y.notes = x.notes
                  /\ y.disposition = Reopens(x)
             /\ cleared' = cleared \ {<<e.path, e.identity>>}
    BY <2>1, <2>5 DEF ReleasedInv, Reopens
  <2> QED BY <1>1, <2>2, <2>3, <2>4, <2>5, EntryChanges
<1>2. CASE PublishVerdict
  <2>1. CASE UNCHANGED <<entry, cleared>>
    BY <2>1 DEF ReleasedInv
  <2>2. CASE \E p \in Path, x \in Entry, y \in Entry :
               /\ entry[p] = {x}
               /\ entry' = [entry EXCEPT ![p] = {y}]
               /\ y.identity = x.identity
               /\ \/ y.disposition = x.disposition /\ cleared' = cleared
                  \/ y.disposition # "released" /\ cleared' = cleared \ {<<p, x.identity>>}
    BY <2>2 DEF ReleasedInv
  <2> QED BY <1>2, <2>1, <2>2, Verdict
<1>3. CASE UNCHANGED <<entry, cleared>>
  BY <1>3 DEF ReleasedInv
<1>4. ASSUME ~ \E e \in Event : RecordEvent(e), ~ PublishVerdict
      PROVE  UNCHANGED <<entry, cleared>>
  BY <1>4 DEF ScratchNext, Assess, HeartbeatExpires, DiskChanges, StartAssessing, SkipEntry,
              ChooseEntry, FinishAssessing, ReplayAnswer, RefuseRequest, ReserveRequest,
              ModelAnswers, ModelFails, AssessorCrashes, ledger, scratchVars
<1> QED BY <1>1, <1>2, <1>3, <1>4

LEMMA InitType ==
  ASSUME ScratchInit
  PROVE  TypeInv /\ IsFiniteSet(attempts) /\ ReleasedInv
<1>1. Resting \in Assessor /\ Resting.pc = "rest"
  BY DEF Resting, Assessor, Stage, Opt
<1>2. AssessorInv
  BY <1>1 DEF ScratchInit, AssessorInv, Active
<1>3. EntryInv /\ AttemptInv /\ ReleasedInv
  BY DEF ScratchInit, EntryInv, AttemptInv, ReleasedInv, Opt
<1>4. IsFiniteSet(attempts)
  BY FS_EmptySet DEF ScratchInit
<1> QED BY <1>2, <1>3, <1>4 DEF TypeInv

LEMMA ReleasedAnswer ==
  ASSUME TypeInv, ReleasedInv
  PROVE  UnblockedIsReleased
<1> SUFFICES ASSUME NEW p \in Path, NEW l \in Path, Unblocked(p, l)
             PROVE  /\ \E i \in disk[l] : <<p, i>> \in cleared
                    /\ \A q \in Nested[p] : \A x \in entry[q] :
                         Matches(p, q, l, x) \/ x.present => <<q, x.identity>> \in cleared
  BY DEF UnblockedIsReleased
<1>1. ASSUME NEW q \in Nested[p], NEW x \in entry[q], Matches(p, q, l, x) \/ x.present
      PROVE  <<q, x.identity>> \in cleared
  <2>1. q \in Path /\ ~ Holds(p, q, l)
    BY ScratchAssumption DEF Unblocked
  <2>2. x.disposition = "released"
    BY <1>1, <2>1 DEF Holds
  <2> QED BY <2>1, <2>2 DEF ReleasedInv
<1>2. PICK x \in entry[p] : disk[l] = {x.identity}
  BY DEF Unblocked
<1>3. p \in Nested[p] /\ Matches(p, p, l, x)
  BY <1>2, ScratchAssumption DEF Matches
<1>4. <<p, x.identity>> \in cleared
  BY <1>1, <1>3
<1> QED BY <1>1, <1>2, <1>4

\* What a cleaner is told it may remove, and all that is there above and below it,
\* was released under its own path and identity and not reopened since, for any
\* reports, paths, replacements and verdicts (query_item, apply_observation,
\* apply_annotation, finish_assessment).
THEOREM RemovalIsReleased == ScratchSpec => []UnblockedIsReleased
<1> DEFINE Inv == TypeInv /\ IsFiniteSet(attempts) /\ ReleasedInv
<1>1. ScratchInit => Inv
  BY InitType
<1>2. Inv /\ [ScratchNext]_scratchVars => Inv'
  BY NextType, ReleasedNext
<1>3. Inv => UnblockedIsReleased
  BY ReleasedAnswer
<1> QED BY <1>1, <1>2, <1>3, PTL DEF ScratchSpec

-----------------------------------------------------------------------------
(* A verdict finds what it was asked about unreleased.                       *)

LogIds == {e.id : e \in log}

\* Annotations come from the log, those the assessor has seen too.
NotesInv ==
  /\ \A p \in Path : \A x \in entry[p] : x.notes \in Seq(LogIds)
  /\ \A p \in Path : \A x \in assessor.seen[p] : x.notes \in Seq(LogIds)
  /\ assessor.pc \in Active => \A v \in assessor.about : v.notes \in Seq(LogIds)

\* An allocation with the annotations of one that was seen unreleased is not released.
SeenInv ==
  \A p \in Path : \A x \in assessor.seen[p], y \in entry[p] :
    x.disposition # "released" /\ y.notes = x.notes => y.disposition # "released"

AboutInv ==
  assessor.pc \in Active =>
    \A p \in assessor.path : \A v \in assessor.about, y \in entry[p] :
      y.notes = v.notes => y.disposition # "released"

UnreleasedInv == NotesInv /\ SeenInv /\ AboutInv

LEMMA EntryStep ==
  ASSUME TypeInv, NEW e \in Event, RecordEvent(e), NEW p \in Path, NEW y \in entry'[p]
  PROVE  \/ \E x \in entry[p] :
              y.notes = x.notes /\ (y.disposition = "released" => x.disposition = "released")
         \/ y.notes = <<>> /\ y.disposition # "released"
         \/ \E x \in entry[p] : y.notes = Noted(x.notes, e.id)
<1> USE DEF TypeInv, EntryInv
<1>1. /\ e.kind = "observe" => e.path \in Path /\ Fresh(e).notes = <<>> /\ Fresh(e).disposition # "released"
      /\ e.kind = "annotation" => e.path \in Path
      /\ e.kind = "link" => e.path \in Path
  BY Reports, FreshType
<1>2. \/ entry' = entry
      \/ \E x, z \in Entry :
           /\ entry[e.path] = {x} \/ (x.notes = <<>> /\ x.disposition # "released")
           /\ e.path \in Path /\ entry' = [entry EXCEPT ![e.path] = {z}] /\ z.notes = x.notes
           /\ z.disposition = "released" => x.disposition = "released"
      \/ \E x, z \in Entry :
           /\ entry[e.path] = {x}
           /\ e.path \in Path /\ entry' = [entry EXCEPT ![e.path] = {z}]
           /\ z.notes = Noted(x.notes, e.id)
  BY <1>1, EntryChanges DEF Reopens
<1> QED BY <1>2

LEMMA NewId ==
  ASSUME TypeInv, NEW e \in Event, RecordEvent(e)
  PROVE  e.id \notin LogIds /\ LogIds' = LogIds \cup {e.id}
BY ScratchAssumption DEF RecordEvent, LogIds, TypeInv, EntryInv

LEMMA RecordEventUnreleased ==
  ASSUME TypeInv, UnreleasedInv, NEW e \in Event, RecordEvent(e)
  PROVE  UnreleasedInv'
<1>1. assessor' = assessor
  BY DEF RecordEvent
<1>2. ASSUME NEW p \in Path, NEW y \in entry'[p]
      PROVE  /\ y.notes \in Seq(LogIds')
             /\ \A notes \in Seq(LogIds) :
                  /\ y.notes = notes
                  /\ \A x \in entry[p] : x.notes = notes => x.disposition # "released"
                  => y.disposition # "released"
  <2>1. \A x \in entry[p] : x.notes \in Seq(LogIds) /\ Len(x.notes) <= MaxNotes
    <3>1. \A x \in entry[p] : x \in Entry
      BY DEF TypeInv, EntryInv, Opt
    <3>2. \A x \in Entry : Len(x.notes) <= MaxNotes
      BY DEF Entry, Notes
    <3> QED BY <3>1, <3>2 DEF UnreleasedInv, NotesInv
  <2>2. e.id \notin LogIds /\ LogIds' = LogIds \cup {e.id}
    BY NewId
  <2>3. \A x \in entry[p] : x.notes \in Seq(LogIds')
    BY <2>1, <2>2, LargerSeq
  <2>4. \A x \in entry[p] : Noted(x.notes, e.id) \in Seq(LogIds') /\ Noted(x.notes, e.id) \notin Seq(LogIds)
    BY <2>1, <2>2, NotedIs
  <2>5. CASE \E x \in entry[p] : y.notes = x.notes /\ (y.disposition = "released" => x.disposition = "released")
    BY <2>3, <2>5
  <2>6. CASE y.notes = <<>> /\ y.disposition # "released"
    BY <2>6
  <2>7. CASE \E x \in entry[p] : y.notes = Noted(x.notes, e.id)
    BY <2>4, <2>7
  <2> QED BY <1>2, <2>5, <2>6, <2>7, EntryStep
<1>3. NotesInv'
  <2>1. LogIds \subseteq LogIds'
    BY NewId
  <2>2. \A t \in Seq(LogIds) : t \in Seq(LogIds')
    BY <2>1, LargerSeq
  <2> QED BY <1>1, <1>2, <2>2 DEF UnreleasedInv, NotesInv
<1>4. SeenInv'
  <2>1. ASSUME NEW p \in Path, NEW x \in assessor.seen[p], NEW y \in entry'[p],
               x.disposition # "released", y.notes = x.notes
        PROVE  y.disposition # "released"
    <3>1. x.notes \in Seq(LogIds)
      BY DEF UnreleasedInv, NotesInv
    <3>2. \A z \in entry[p] : z.notes = x.notes => z.disposition # "released"
      BY <2>1 DEF UnreleasedInv, SeenInv
    <3> QED BY <1>2, <2>1, <3>1, <3>2
  <2> QED BY <1>1, <2>1 DEF SeenInv
<1>5. AboutInv'
  <2>1. ASSUME assessor.pc \in Active, NEW p \in assessor.path, NEW v \in assessor.about,
               NEW y \in entry'[p], y.notes = v.notes
        PROVE  y.disposition # "released"
    <3>1. v.notes \in Seq(LogIds) /\ p \in Path
      BY <2>1 DEF UnreleasedInv, NotesInv, TypeInv, AssessorInv
    <3>2. \A z \in entry[p] : z.notes = v.notes => z.disposition # "released"
      BY <2>1 DEF UnreleasedInv, AboutInv
    <3> QED BY <1>2, <2>1, <3>1, <3>2
  <2> QED BY <1>1, <2>1 DEF AboutInv
<1> QED BY <1>3, <1>4, <1>5 DEF UnreleasedInv

LEMMA StartAssessingUnreleased ==
  ASSUME TypeInv, UnreleasedInv, NEW retry \in BOOLEAN, StartAssessing(retry)
  PROVE  UnreleasedInv'
<1>1. assessor'.pc = "choose" /\ assessor'.seen = entry /\ UNCHANGED <<log, entry>>
  BY DEF StartAssessing, Resting, ledger
<1>2. ASSUME NEW p \in Path, NEW x \in entry[p], NEW y \in entry[p]
      PROVE  x = y
  BY DEF TypeInv, EntryInv, Opt
<1> QED BY <1>1, <1>2 DEF UnreleasedInv, NotesInv, SeenInv, AboutInv, Active, LogIds

LEMMA ChooseEntryUnreleased ==
  ASSUME TypeInv, UnreleasedInv, NEW p \in Path, ChooseEntry(p)
  PROVE  UnreleasedInv'
<1>1. UNCHANGED <<log, entry>>
  BY DEF ChooseEntry, ledger
<1>2. PICK x \in Entry :
        /\ assessor.seen[p] = {x} /\ x.disposition # "released"
        /\ assessor'.path = {p} /\ assessor'.about = {Evidence(p, x)}
        /\ Evidence(p, x).notes = x.notes /\ assessor'.seen = assessor.seen
  BY Chosen DEF Candidate
<1> DEFINE v == Evidence(p, x)
<1> HIDE DEF v
<1>3. /\ assessor.seen[p] = {x} /\ x.disposition # "released" /\ v.notes = x.notes
      /\ assessor'.path = {p} /\ assessor'.about = {v} /\ assessor'.seen = assessor.seen
  BY <1>2 DEF v
<1>4. NotesInv'
  BY <1>1, <1>3 DEF UnreleasedInv, NotesInv, LogIds
<1>5. SeenInv'
  BY <1>1, <1>3 DEF UnreleasedInv, SeenInv
<1>6. AboutInv'
  BY <1>1, <1>3 DEF UnreleasedInv, SeenInv, AboutInv
<1> QED BY <1>4, <1>5, <1>6 DEF UnreleasedInv

\* While a question is open, what was seen and what is asked about stay.
LEMMA QuestionGoesOn ==
  ASSUME TypeInv, ReplayAnswer \/ RefuseRequest \/ ReserveRequest \/ ModelAnswers \/ ModelFails
  PROVE  /\ assessor.pc \in Active /\ UNCHANGED <<log, entry>>
         /\ assessor'.path = assessor.path /\ assessor'.about = assessor.about
         /\ assessor'.seen = assessor.seen
<1>1. CASE ReplayAnswer
  <2>1. PICK a \in PaidFor : assessor' = Concludes(a.answer)
    BY <1>1 DEF ReplayAnswer
  <2>2. assessor.pc \in Active /\ UNCHANGED <<log, entry>>
    BY <1>1 DEF ReplayAnswer, ledger, Active
  <2>3. a \in attempts /\ a.key = Key /\ a.status = "success"
    BY <2>1 DEF PaidFor, Tried
  <2>4. a.answer \in Answers
    BY <2>2, <2>3, KeyType DEF TypeInv, AttemptInv, Answers
  <2>5. PICK pc \in Active, stage \in Stage : assessor' = [assessor EXCEPT !.pc = pc, !.stage = stage]
    BY <2>1, <2>2, <2>4, ConcludesType DEF TypeInv
  <2> QED BY <2>2, <2>5, Proceeds DEF TypeInv
<1>2. CASE ModelAnswers
  <2>1. PICK a \in Answers : assessor' = Concludes(a)
    BY <1>2 DEF ModelAnswers
  <2>2. assessor.pc \in Active /\ UNCHANGED <<log, entry>>
    BY <1>2 DEF ModelAnswers, ledger, Active
  <2>3. PICK pc \in Active, stage \in Stage : assessor' = [assessor EXCEPT !.pc = pc, !.stage = stage]
    BY <2>1, <2>2, ConcludesType DEF TypeInv
  <2> QED BY <2>2, <2>3, Proceeds DEF TypeInv
<1>3. CASE RefuseRequest \/ ReserveRequest \/ ModelFails
  <2>1. assessor.pc \in Active /\ UNCHANGED <<log, entry>>
    BY <1>3 DEF RefuseRequest, ReserveRequest, ModelFails, ledger, Active
  <2>2. PICK pc \in Active : assessor' = [assessor EXCEPT !.pc = pc]
    BY <1>3 DEF RefuseRequest, ReserveRequest, ModelFails, Active
  <2> QED BY <2>1, <2>2, MovesOn DEF TypeInv
<1> QED BY <1>1, <1>2, <1>3

LEMMA PublishVerdictUnreleased ==
  ASSUME TypeInv, UnreleasedInv, PublishVerdict
  PROVE  UnreleasedInv'
<1>1. log' = log /\ assessor'.pc = "choose" /\ assessor'.seen = assessor.seen
  BY Verdict
<1>2. ASSUME NEW p \in Path, NEW y \in entry'[p]
      PROVE  \E x \in entry[p] :
               y.notes = x.notes /\ (y.disposition = "released" => x.disposition = "released")
  <2>1. \/ entry' = entry
        \/ \E q \in Path, x, z \in Entry :
             /\ entry[q] = {x} /\ entry' = [entry EXCEPT ![q] = {z}] /\ z.notes = x.notes
             /\ z.disposition = "released" => x.disposition = "released"
    BY Verdict
  <2> QED BY <1>2, <2>1 DEF TypeInv, EntryInv
<1>3. NotesInv'
  BY <1>1, <1>2 DEF UnreleasedInv, NotesInv, LogIds, Active
<1>4. SeenInv'
  BY <1>1, <1>2 DEF UnreleasedInv, SeenInv
<1> QED BY <1>1, <1>3, <1>4 DEF UnreleasedInv, AboutInv, Active

LEMMA UnreleasedNext ==
  ASSUME TypeInv, UnreleasedInv, [ScratchNext]_scratchVars
  PROVE  UnreleasedInv'
<1>1. ASSUME UNCHANGED <<log, entry>>, assessor'.seen = assessor.seen,
             assessor'.pc \notin Active
      PROVE  UnreleasedInv'
  BY <1>1 DEF UnreleasedInv, NotesInv, SeenInv, AboutInv, LogIds
<1>2. ASSUME UNCHANGED <<log, entry>>, assessor'.seen = assessor.seen,
             assessor'.path = assessor.path, assessor'.about = assessor.about,
             assessor'.pc \in Active => assessor.pc \in Active
      PROVE  UnreleasedInv'
  BY <1>2 DEF UnreleasedInv, NotesInv, SeenInv, AboutInv, LogIds
<1>3. ASSUME NEW p \in Path, SkipEntry(p)
      PROVE  UnreleasedInv'
  <2>1. assessor'.pc = "choose" /\ assessor'.seen = assessor.seen
    BY <1>3 DEF SkipEntry, TypeInv, AssessorInv, Assessor
  <2> QED BY <1>1, <1>3, <2>1 DEF SkipEntry, ledger, Active
<1>4. CASE FinishAssessing \/ AssessorCrashes
  <2>1. assessor' = Resting /\ UNCHANGED <<log, entry>>
    BY <1>4 DEF FinishAssessing, AssessorCrashes, ledger
  <2>2. assessor'.pc = "rest" /\ assessor'.seen = [p \in Path |-> {}]
    BY <2>1 DEF Resting
  <2> QED BY <2>1, <2>2 DEF UnreleasedInv, NotesInv, SeenInv, AboutInv, LogIds, Active
<1>5. CASE ReplayAnswer \/ RefuseRequest \/ ReserveRequest \/ ModelAnswers \/ ModelFails
  BY <1>2, <1>5, QuestionGoesOn
<1>6. ASSUME \/ \E o \in Observer : HeartbeatExpires(o)
             \/ \E p \in Path : DiskChanges(p)
             \/ UNCHANGED scratchVars
      PROVE  UNCHANGED <<log, entry, assessor>>
  BY <1>6 DEF HeartbeatExpires, DiskChanges, ledger, scratchVars
<1> QED BY <1>2, <1>3, <1>4, <1>5, <1>6, RecordEventUnreleased, StartAssessingUnreleased,
           ChooseEntryUnreleased, PublishVerdictUnreleased DEF ScratchNext, Assess

-----------------------------------------------------------------------------
(* Every request is counted, and an answer is the last attempt.              *)

About(k) == {a \in attempts : a.key = k}

CountInv ==
  /\ IsFiniteSet(attempts) /\ Cardinality(attempts) = dispatched
  /\ Numbered
  /\ \A a \in attempts : a.number <= Cardinality(About(a.key))
  /\ \A a, b \in attempts : a.key = b.key /\ a.status = "success" => b.number <= a.number

LEMMA TriedIs ==
  ASSUME CountInv, AttemptInv
  PROVE  /\ Tried = About(Key)
         /\ \A k : IsFiniteSet(About(k)) /\ Cardinality(About(k)) \in Nat
         /\ \A a \in attempts : a.number \in Nat
BY FS_Subset, FS_CardinalityType DEF CountInv, Tried, About, AttemptInv, Attempt

LEMMA ReserveRequestCount ==
  ASSUME TypeInv, CountInv, ReserveRequest
  PROVE  CountInv' /\ dispatched' <= MaxRequests
<1> USE DEF TypeInv
<1> DEFINE n == Cardinality(About(Key))
           new == Reserved
<1>1. /\ attempts' = attempts \cup {new} /\ dispatched' = dispatched + 1
      /\ Cardinality(attempts) < MaxRequests /\ PaidFor = {}
  BY DEF ReserveRequest, Reserved
<1>2. new.key = Key /\ new.number = n + 1 /\ new.status = "dispatching" /\ n \in Nat
  BY TriedIs DEF Reserved
<1>3. \A a \in attempts : a.key = Key => a.number <= n /\ a.status # "success"
  BY <1>1, TriedIs DEF CountInv, PaidFor, About
<1> HIDE DEF new, n
<1>4. \A a \in attempts : a.number \in Nat
  BY TriedIs
<1>5. new \notin attempts
  BY <1>2, <1>3, <1>4
<1>6. /\ IsFiniteSet(attempts') /\ Cardinality(attempts') = dispatched'
      /\ dispatched' <= MaxRequests
  <2>1. Cardinality(attempts') = Cardinality(attempts) + 1 /\ IsFiniteSet(attempts')
    BY <1>1, <1>5, FS_AddElement DEF CountInv
  <2>2. Cardinality(attempts) \in Nat
    BY FS_CardinalityType DEF CountInv
  <2> QED BY <1>1, <2>1, <2>2, ScratchAssumption DEF CountInv
<1>7. Numbered'
  BY <1>1, <1>2, <1>3, <1>4 DEF CountInv, Numbered
<1>8. ASSUME NEW a \in attempts'
      PROVE  a.number <= Cardinality(About(a.key)')
  <2> DEFINE new2 == {b \in attempts' : b.key = a.key}
  <2>1. About(a.key)' = {b \in attempts' : b.key = a.key}
    BY DEF About
  <2>2. CASE a.key = Key
    <3>1. About(a.key)' = About(Key) \cup {new} /\ new \notin About(Key)
      BY <1>1, <1>2, <1>5, <2>1, <2>2 DEF About
    <3>2. Cardinality(About(a.key)') = n + 1
      BY <3>1, TriedIs, FS_AddElement DEF n
    <3> QED BY <1>1, <1>2, <1>3, <1>4, <2>2, <3>2
  <2>3. CASE a.key # Key
    <3>1. a \in attempts /\ About(a.key)' = About(a.key)
      BY <1>1, <1>2, <2>1, <2>3 DEF About
    <3> QED BY <3>1 DEF CountInv
  <2> QED BY <2>2, <2>3
<1>9. \A a, b \in attempts' : a.key = b.key /\ a.status = "success" => b.number <= a.number
  BY <1>1, <1>2, <1>3 DEF CountInv
<1>10. \A a \in attempts' : a.number <= Cardinality(About(a.key))'
  BY <1>8
<1> QED BY <1>6, <1>7, <1>9, <1>10 DEF CountInv

LEMMA SettledCount ==
  ASSUME TypeInv, CountInv, NEW status \in {"success", "failed"},
         NEW answer \in {"", "obligations", "nothing", "satisfied", "outstanding"},
         attempts' = Settled(status, answer), dispatched' = dispatched
  PROVE  CountInv'
<1> USE DEF TypeInv
<1> DEFINE T == {Settles(a, status, answer) : a \in attempts}
           n == Cardinality(Tried)
<1>1. attempts' = T
  BY SettledIs
<1>2. ASSUME NEW a \in attempts
      PROVE  LET b == Settles(a, status, answer) IN
             /\ b.key = a.key /\ b.number = a.number /\ a.number \in Nat
             /\ b.status = "success" => a.status = "success" \/ (a.key = Key /\ a.number = n)
  BY DEF Settles, AttemptInv, Attempt
<1>3. /\ IsFiniteSet(T) /\ Cardinality(T) = Cardinality(attempts)
  <2>1. attempts \subseteq attempts /\ AttemptInv /\ IsFiniteSet(attempts) /\ Numbered
    BY DEF CountInv
  <2> HIDE DEF TypeInv
  <2>2. IsFiniteSet(T) /\ (Numbered => Cardinality(T) = Cardinality(attempts))
    BY <2>1, SettledSize
  <2> QED BY <2>1, <2>2
<1>4. \A b \in attempts' : \E a \in attempts :
        /\ b.key = a.key /\ b.number = a.number /\ b = Settles(a, status, answer)
        /\ b.status = "success" => a.status = "success" \/ (a.key = Key /\ a.number = n)
  BY <1>1, <1>2
<1>5. ASSUME NEW k
      PROVE  Cardinality(About(k)') = Cardinality(About(k))
  <2> DEFINE U == {Settles(a, status, answer) : a \in About(k)}
  <2>1. About(k)' = {b \in T : b.key = k}
    BY <1>1 DEF About
  <2>2. \A b : b \in {b2 \in T : b2.key = k} <=> b \in U
    BY <1>2 DEF About
  <2>3. About(k)' = U
    BY <2>1, <2>2
  <2>4. About(k) \subseteq attempts /\ IsFiniteSet(About(k)) /\ AttemptInv /\ Numbered
    BY TriedIs DEF About, CountInv
  <2>5. Cardinality(U) = Cardinality(About(k))
    BY <2>4, SettledSize
  <2> QED BY <2>3, <2>5
<1>6. \A a \in attempts : a.number \in Nat /\ (a.key = Key => a.number <= n)
  BY TriedIs DEF CountInv
<1> HIDE DEF n, T
<1>7. Numbered'
  <2>1. ASSUME NEW b \in attempts', NEW c \in attempts', b.key = c.key, b.number = c.number
        PROVE  b = c
    <3>1. PICK a \in attempts :
            b.key = a.key /\ b.number = a.number /\ b = Settles(a, status, answer)
      BY <1>4
    <3>2. PICK d \in attempts :
            c.key = d.key /\ c.number = d.number /\ c = Settles(d, status, answer)
      BY <1>4
    <3>3. a = d
      BY <2>1, <3>1, <3>2 DEF CountInv, Numbered
    <3> QED BY <3>1, <3>2, <3>3
  <2> QED BY <2>1 DEF Numbered
<1>8. ASSUME NEW b \in attempts'
      PROVE  b.number <= Cardinality(About(b.key)')
  <2>1. PICK a \in attempts : b.key = a.key /\ b.number = a.number
    BY <1>4
  <2>2. a.number <= Cardinality(About(a.key))
    BY DEF CountInv
  <2>3. Cardinality(About(b.key)') = Cardinality(About(b.key))
    BY <1>5
  <2> QED BY <2>1, <2>2, <2>3
<1>9. ASSUME NEW b \in attempts', NEW c \in attempts', b.key = c.key, b.status = "success"
      PROVE  c.number <= b.number
  <2>1. PICK d \in attempts : /\ b.key = d.key /\ b.number = d.number
                              /\ d.status = "success" \/ (d.key = Key /\ d.number = n)
    BY <1>4, <1>9
  <2>2. PICK e \in attempts : c.key = e.key /\ c.number = e.number
    BY <1>4
  <2>3. CASE d.status = "success"
    BY <1>9, <2>1, <2>2, <2>3 DEF CountInv
  <2>4. CASE d.key = Key /\ d.number = n
    BY <1>6, <1>9, <2>1, <2>2, <2>4
  <2> QED BY <2>1, <2>3, <2>4
<1>10. \A b \in attempts' : b.number <= Cardinality(About(b.key))'
  BY <1>8
<1>11. IsFiniteSet(attempts') /\ Cardinality(attempts') = dispatched'
  BY <1>1, <1>3 DEF CountInv
<1> QED BY <1>7, <1>9, <1>10, <1>11 DEF CountInv

LEMMA CountNext ==
  ASSUME TypeInv, CountInv, [ScratchNext]_scratchVars
  PROVE  CountInv' /\ (dispatched' # dispatched => dispatched' <= MaxRequests)
<1>1. CASE ReserveRequest
  BY <1>1, ReserveRequestCount
<1>2. CASE ModelAnswers
  <2>1. dispatched' = dispatched
    BY <1>2 DEF ModelAnswers
  <2>2. PICK a \in Answers : attempts' = Settled("success", a)
    BY <1>2 DEF ModelAnswers
  <2>3. a \in {"", "obligations", "nothing", "satisfied", "outstanding"}
    BY DEF Answers
  <2> QED BY <2>1, <2>2, <2>3, SettledCount
<1>3. CASE ModelFails
  BY <1>3, SettledCount DEF ModelFails
<1>4. ASSUME ~ ReserveRequest, ~ ModelAnswers, ~ ModelFails
      PROVE  UNCHANGED <<attempts, dispatched>>
  BY <1>4 DEF ScratchNext, Assess, RecordEvent, HeartbeatExpires, DiskChanges, StartAssessing,
              SkipEntry, ChooseEntry, FinishAssessing, ReplayAnswer, RefuseRequest,
              PublishVerdict, AssessorCrashes, scratchVars
<1>5. CASE UNCHANGED <<attempts, dispatched>>
  BY <1>5 DEF CountInv, Numbered, About
<1> QED BY <1>1, <1>2, <1>3, <1>4, <1>5

\* An unreleased allocation is all a verdict writes over; what is released is left
\* to the reports.
LEMMA ReleasedStays ==
  ASSUME TypeInv, UnreleasedInv, [ScratchNext]_scratchVars,
         NEW p \in Path, NEW x \in entry[p], x.disposition = "released", entry'[p] # entry[p]
  PROVE  log' # log
<1>1. CASE \E e \in Event : RecordEvent(e)
  BY <1>1 DEF RecordEvent
<1>2. CASE PublishVerdict
  <2>1. PICK q \in Path, z \in Entry, y \in Entry :
          /\ entry[q] = {z} /\ assessor.path = {q} /\ assessor.about = {Evidence(q, z)}
          /\ entry' = [entry EXCEPT ![q] = {y}]
    BY <1>2, Verdict
  <2>2. q = p /\ z = x
    BY <2>1 DEF TypeInv, EntryInv
  <2>3. assessor.pc \in Active /\ Evidence(p, x).notes = x.notes
    BY <1>2, <2>1, <2>2, EvidenceHasType DEF PublishVerdict, Active
  <2> DEFINE v == Evidence(p, x)
  <2> HIDE DEF v
  <2>4. assessor.path = {p} /\ assessor.about = {v} /\ v.notes = x.notes
    BY <2>1, <2>2, <2>3 DEF v
  <2> QED BY <2>3, <2>4 DEF UnreleasedInv, AboutInv
<1>3. ASSUME ~ \E e \in Event : RecordEvent(e), ~ PublishVerdict
      PROVE  entry' = entry
  BY <1>3 DEF ScratchNext, Assess, HeartbeatExpires, DiskChanges, StartAssessing, SkipEntry,
              ChooseEntry, FinishAssessing, ReplayAnswer, RefuseRequest, ReserveRequest,
              ModelAnswers, ModelFails, AssessorCrashes, ledger, scratchVars
<1> QED BY <1>1, <1>2, <1>3

\* Whatever was recorded while the model thought, its verdict never undoes a release;
\* and requests stay within the ceiling and never ask what was answered, for any
\* number of processes that died in between (finish_assessment, evaluate).
THEOREM AssessorIsCautious == ScratchSpec => AssessmentsAreCautious
<1> DEFINE Inv == TypeInv /\ UnreleasedInv /\ CountInv
           Cautious == /\ \A p \in Path : \A x \in entry[p] :
                            x.disposition = "released" /\ entry'[p] # entry[p] => log' # log
                       /\ dispatched' # dispatched =>
                            /\ dispatched' <= MaxRequests
                            /\ \A a, b \in attempts' :
                                 a.key = b.key /\ a.status = "success" => b.number <= a.number
<1>1. ScratchInit => Inv
  <2> SUFFICES ASSUME ScratchInit PROVE Inv
    OBVIOUS
  <2>1. UnreleasedInv
    BY DEF ScratchInit, Resting, UnreleasedInv, NotesInv, SeenInv, AboutInv, Active
  <2>2. CountInv
    BY FS_EmptySet DEF ScratchInit, CountInv, Numbered
  <2> QED BY <2>1, <2>2, InitType
<1>2. Inv /\ [ScratchNext]_scratchVars => Inv'
  BY NextType, UnreleasedNext, CountNext DEF CountInv
<1>3. Inv /\ [ScratchNext]_scratchVars => Cautious
  <2> SUFFICES ASSUME Inv, [ScratchNext]_scratchVars PROVE Cautious
    OBVIOUS
  <2>1. \A p \in Path : \A x \in entry[p] :
          x.disposition = "released" /\ entry'[p] # entry[p] => log' # log
    BY ReleasedStays
  <2>2. CountInv' /\ (dispatched' # dispatched => dispatched' <= MaxRequests)
    BY CountNext
  <2> QED BY <2>1, <2>2 DEF CountInv
<1>4. Inv /\ [ScratchNext]_scratchVars => [Cautious]_scratchVars
  BY <1>3
<1> QED BY <1>1, <1>2, <1>4, PTL DEF ScratchSpec, AssessmentsAreCautious

-----------------------------------------------------------------------------
(* Recursion over numbers.                                                  *)

\* A function that is defined by recursion over an interval exists.
Iterates(f, B, b, step, m) ==
  f \in [0 .. m -> B] /\ f[0] = b /\ \A i \in 1 .. m : f[i] = step[f[i - 1]]

\* A step repeated m times gives a sequence of values: recursion by induction.
LEMMA IteratesExist ==
  ASSUME NEW B, NEW b \in B, NEW step \in [B -> B], NEW m \in Nat
  PROVE  \E f : Iterates(f, B, b, step, m)
<1> DEFINE Good(n) == \E f \in [0 .. n -> B] :
             f[0] = b /\ \A i \in 1 .. n : f[i] = step[f[i - 1]]
           S == {n \in Nat : Good(n)}
<1>1. 0 \in S
  <2> DEFINE f == [i \in 0 .. 0 |-> b]
  <2>1. f \in [0 .. 0 -> B] /\ f[0] = b
    OBVIOUS
  <2>2. \A i \in 1 .. 0 : f[i] = step[f[i - 1]]
    OBVIOUS
  <2> HIDE DEF f
  <2> QED BY <2>1, <2>2
<1>2. ASSUME NEW n \in S PROVE n + 1 \in S
  <2>1. PICK f \in [0 .. n -> B] : f[0] = b /\ \A i \in 1 .. n : f[i] = step[f[i - 1]]
    BY <1>2
  <2> DEFINE g == [i \in 0 .. n + 1 |-> IF i = n + 1 THEN step[f[n]] ELSE f[i]]
  <2>2. g \in [0 .. n + 1 -> B]
    BY <1>2, <2>1
  <2>3. g[0] = b
    BY <1>2, <2>1
  <2>4. \A i \in 1 .. n + 1 : g[i] = step[g[i - 1]]
    BY <1>2, <2>1
  <2> HIDE DEF g
  <2> QED BY <1>2, <2>2, <2>3, <2>4
<1>3. m \in S
  <2> HIDE DEF S
  <2>1. S \in SUBSET Nat
    BY DEF S
  <2> QED BY <1>1, <1>2, <2>1, AllNumbers
<1> QED BY <1>3 DEF Iterates

-----------------------------------------------------------------------------
(* Tools.  What was walked and what is queued contain the entry, are pinned  *)
(* and are closed but for the queue, as far as nobody edited a file since the *)
(* request; the queue is empty in the end.  Without such an edit nothing gets  *)
(* there that the entry does not reach.                                       *)

WalkType == [pc : {"idle", "hash", "walk", "resolved", "running", "refused"}, entry : SUBSET Tool,
             left : SUBSET Tool, queue : SUBSET Tool, walked : SUBSET Tool]
Met(w) == w.walked \cup w.queue

\* A walk is closed but for its queue.
Walking(w) ==
  /\ w.entry \subseteq Met(w) /\ Met(w) \subseteq DOMAIN pinned
  /\ \A f \in w.walked : LeadsTo(f) \subseteq Met(w)

\* Without an edit nothing is met that the entry does not lead to.
Straight(w) == touched = {} => \A e \in w.entry : Met(w) \subseteq Reachable(e)

\* What was hashed is as pinned, or was edited after.
Hashed(w) == \A f \in DOMAIN pinned \ w.left : AsPinned(f) \/ f \in touched

\* A refusal has its reason.
Justified(w) ==
  touched # {} \/ \A e \in w.entry : \E f \in Reachable(e) \cup DOMAIN pinned : ~ AsPinned(f)

ToolInv ==
  /\ ToolTypeOK
  /\ walk.pc = "idle" => walk.entry = {}
  /\ walk.pc = "hash" =>
       /\ walk.walked = {} /\ walk.queue = {} /\ walk.left \subseteq DOMAIN pinned
       /\ Hashed(walk) /\ \E f \in Tool : walk.entry = {f}
  /\ walk.pc \in {"walk", "resolved", "running"} =>
       walk.left = {} /\ Hashed(walk) /\ Walking(walk) /\ Straight(walk)
  /\ walk.pc \in {"resolved", "running"} => walk.queue = {}
  /\ walk.pc = "refused" => Justified(walk)

\* What a file leads to are files of the tools.
LEMMA ImportsAreTools ==
  ASSUME ToolTypeOK, NEW f \in Tool
  PROVE  ImportsOf(f) \in SUBSET Tool /\ LeadsTo(f) \in SUBSET Tool /\ LeadsTo(f) \subseteq ImportsOf(f)
<1>1. ~ Missing(f) => onDisk[f] \in Text
  BY DEF ToolTypeOK, Missing
<1>2. ~ Missing(f) => Scanned[f][onDisk[f]] \in SUBSET Tool
  BY <1>1, ToolAssumption
<1> QED BY <1>2 DEF ImportsOf, LeadsTo

\* What an entry reaches is closed under imports.
LEMMA ReachableIsClosed ==
  ASSUME ToolTypeOK, NEW e \in Tool
  PROVE  /\ e \in Reachable(e) /\ Reachable(e) \in SUBSET Tool
         /\ \A f \in Reachable(e) : LeadsTo(f) \subseteq Reachable(e)
<1>1. \A f \in Tool : LeadsTo(f) \in SUBSET Tool
  BY ImportsAreTools
<1> QED BY <1>1 DEF Reachable

\* Any closed set with the entry has all the entry reaches.
LEMMA ReachableIsLeast ==
  ASSUME NEW S \in SUBSET Tool, NEW e \in S, \A f \in S : LeadsTo(f) \subseteq S
  PROVE  Reachable(e) \subseteq S
BY DEF Reachable

\* What is pinned is a file of the tools.
LEMMA PinsAreTools == ToolTypeOK => DOMAIN pinned \in SUBSET Tool
<1> SUFFICES ASSUME ToolTypeOK PROVE DOMAIN pinned \in SUBSET Tool
  OBVIOUS
<1>1. CASE pinned \in PinFile
  BY <1>1, ToolAssumption
<1>2. CASE pinned = NoPins
  BY <1>2 DEF NoPins
<1> QED BY <1>1, <1>2 DEF ToolTypeOK

\* Before a request nothing is walked.
LEMMA ToolInv_Init == ToolInit => ToolInv
<1> SUFFICES ASSUME ToolInit PROVE ToolInv
  OBVIOUS
<1>1. /\ walk = [pc |-> "idle", entry |-> {}, left |-> {}, queue |-> {}, walked |-> {}]
      /\ pinned = NoPins /\ edits = 0 /\ touched = {} /\ onDisk \in [Tool -> Text]
  BY DEF ToolInit, NoWalk
<1>2. edits \in 0 .. MaxEdits /\ onDisk \in [Tool -> Text \cup {Gone}]
  BY <1>1, ToolAssumption
<1> QED BY <1>1, <1>2 DEF ToolInv, ToolTypeOK

\* A request has every pinned file before it.
LEMMA RequestToolKeeps ==
  ASSUME ToolInv, NEW f \in Tool, NEW d \in PinFile, RequestTool(f, d)
  PROVE  ToolInv'
<1>1. /\ walk' = [pc |-> "hash", entry |-> {f}, left |-> DOMAIN d, queue |-> {}, walked |-> {}]
      /\ pinned' = d /\ UNCHANGED <<onDisk, edits, touched>>
  BY DEF RequestTool, NoWalk
<1>2. DOMAIN d \in SUBSET Tool
  BY ToolAssumption
<1>3. ToolTypeOK'
  BY <1>1, <1>2 DEF ToolInv, ToolTypeOK
<1> QED BY <1>1, <1>3 DEF ToolInv, Hashed

\* Where nothing but the walk moves, what files hold and lead to stays.
LEMMA FilesStay ==
  ASSUME UNCHANGED <<onDisk, pinned, touched>>
  PROVE  /\ \A f : LeadsTo(f)' = LeadsTo(f) /\ (AsPinned(f)' <=> AsPinned(f)) /\ ImportsOf(f)' = ImportsOf(f)
         /\ \A e : Reachable(e)' = Reachable(e)
<1>1. \A f : LeadsTo(f)' = LeadsTo(f) /\ (AsPinned(f)' <=> AsPinned(f)) /\ ImportsOf(f)' = ImportsOf(f)
  BY DEF LeadsTo, ImportsOf, AsPinned, Missing
<1> QED BY <1>1 DEF Reachable

\* A file that is hashed is as pinned, or the tool is refused.
LEMMA HashPinKeeps ==
  ASSUME ToolInv, NEW f \in Tool, HashPin(f)
  PROVE  ToolInv'
<1>1. /\ ToolTypeOK /\ walk \in WalkType /\ walk.pc = "hash" /\ f \in walk.left
      /\ walk.walked = {} /\ walk.queue = {} /\ Hashed(walk) /\ (\E g \in Tool : walk.entry = {g})
      /\ walk.left \subseteq DOMAIN pinned /\ UNCHANGED <<onDisk, pinned, edits, touched>>
  BY DEF ToolInv, ToolTypeOK, WalkType, HashPin
<1>2. CASE onDisk[f] = pinned[f]
  <2>1. walk' = [pc |-> "hash", entry |-> walk.entry, left |-> walk.left \ {f}, queue |-> {}, walked |-> {}]
    BY <1>1, <1>2 DEF HashPin, WalkType
  <2>2. ToolTypeOK'
    BY <1>1, <2>1 DEF ToolTypeOK, WalkType
  <2>3. Hashed(walk)'
    BY <1>1, <1>2, <2>1 DEF Hashed, AsPinned
  <2> QED BY <1>1, <2>1, <2>2, <2>3 DEF ToolInv
<1>3. CASE onDisk[f] # pinned[f]
  <2>1. walk' = [pc |-> "refused", entry |-> walk.entry, left |-> walk.left, queue |-> {}, walked |-> {}]
    BY <1>1, <1>3 DEF HashPin, WalkType
  <2>2. ToolTypeOK'
    BY <1>1, <2>1 DEF ToolTypeOK, WalkType
  <2>3. ~ AsPinned(f)' /\ f \in DOMAIN pinned'
    BY <1>1, <1>3 DEF AsPinned
  <2> QED BY <2>1, <2>2, <2>3 DEF ToolInv, Justified
<1> QED BY <1>1, <1>2, <1>3

\* The walk begins at the file that was asked for, or refuses it.
LEMMA StartWalkKeeps ==
  ASSUME ToolInv, StartWalk
  PROVE  ToolInv'
<1>1. /\ ToolTypeOK /\ walk \in WalkType /\ walk.pc = "hash" /\ walk.left = {}
      /\ walk.walked = {} /\ Hashed(walk) /\ UNCHANGED <<onDisk, pinned, edits, touched>>
  BY DEF ToolInv, ToolTypeOK, WalkType, StartWalk
<1>2. PICK e \in Tool : walk.entry = {e}
  BY <1>1 DEF ToolInv
<1>3. e \in Reachable(e) /\ Reachable(e)' = Reachable(e)
  BY <1>1, ReachableIsClosed, FilesStay
<1>4. CASE e \in DOMAIN pinned
  <2>1. walk' = [pc |-> "walk", entry |-> {e}, left |-> {}, queue |-> {e}, walked |-> {}]
    BY <1>1, <1>2, <1>4 DEF StartWalk, WalkType
  <2>2. ToolTypeOK'
    BY <1>1, <2>1 DEF ToolTypeOK, WalkType
  <2>3. Walking(walk)' /\ Straight(walk)' /\ Hashed(walk)'
    BY <1>1, <1>3, <1>4, <2>1 DEF Walking, Straight, Met, Hashed, AsPinned
  <2> QED BY <2>1, <2>2, <2>3 DEF ToolInv
<1>5. CASE e \notin DOMAIN pinned
  <2>1. walk' = [pc |-> "refused", entry |-> {e}, left |-> {}, queue |-> walk.queue, walked |-> {}]
    BY <1>1, <1>2, <1>5 DEF StartWalk, WalkType
  <2>2. ToolTypeOK'
    BY <1>1, <2>1 DEF ToolTypeOK, WalkType
  <2>3. Justified(walk)'
    BY <1>1, <1>3, <1>5, <2>1 DEF Justified, AsPinned
  <2> QED BY <2>1, <2>2, <2>3 DEF ToolInv
<1> QED BY <1>4, <1>5

\* A file that is walked queues what it imports.
LEMMA WalkImportsKeeps ==
  ASSUME ToolInv, NEW f \in Tool, WalkImports(f)
  PROVE  ToolInv'
<1>1. /\ ToolTypeOK /\ walk \in WalkType /\ walk.pc = "walk" /\ f \in walk.queue /\ walk.left = {}
      /\ Walking(walk) /\ Straight(walk) /\ Hashed(walk) /\ UNCHANGED <<onDisk, pinned, edits, touched>>
  BY DEF ToolInv, ToolTypeOK, WalkType, WalkImports
<1>2. \A e \in walk.entry : Reachable(e)' = Reachable(e)
  BY <1>1, FilesStay
<1>3. /\ \A g \in Tool : LeadsTo(g)' = LeadsTo(g)
      /\ ImportsOf(f) \in SUBSET Tool /\ LeadsTo(f) \subseteq ImportsOf(f) /\ Hashed(walk)'
  <2>1. \A g \in Tool : LeadsTo(g)' = LeadsTo(g) /\ (AsPinned(g)' <=> AsPinned(g))
    BY <1>1, FilesStay
  <2>2. walk'.left = {}
    BY <1>1 DEF WalkImports, WalkType
  <2>3. Hashed(walk)'
    BY <1>1, <2>2 DEF Hashed, AsPinned
  <2> QED BY <1>1, <2>1, <2>3, ImportsAreTools
<1>4. ASSUME touched = {}, NEW e \in walk.entry
      PROVE  f \in Reachable(e) /\ ImportsOf(f) \subseteq Reachable(e)
  <2>1. f \in Reachable(e) /\ walk.entry \in SUBSET Tool
    BY <1>1, <1>4 DEF Straight, Met, WalkType
  <2>2. LeadsTo(f) = ImportsOf(f)
    BY <1>4 DEF LeadsTo
  <2> QED BY <1>1, <1>4, <2>1, <2>2, ReachableIsClosed
<1>5. CASE f \in walk.walked
  <2>1. walk' = [pc |-> "walk", entry |-> walk.entry, left |-> {}, queue |-> walk.queue \ {f},
                 walked |-> walk.walked]
    BY <1>1, <1>5 DEF WalkImports, WalkType
  <2>2. ToolTypeOK' /\ Met(walk') = Met(walk)
    BY <1>1, <1>5, <2>1 DEF ToolTypeOK, WalkType, Met
  <2>3. Walking(walk)' /\ Straight(walk)'
    <3>1. walk.walked \in SUBSET Tool /\ walk'.entry = walk.entry /\ walk'.walked = walk.walked
      BY <1>1, <2>1 DEF WalkType
    <3> QED BY <1>1, <1>2, <1>3, <2>2, <3>1 DEF Walking, Straight
  <2> QED BY <1>3, <2>1, <2>2, <2>3 DEF ToolInv
<1>6. CASE f \notin walk.walked /\ (Missing(f) \/ ~ ImportsOf(f) \subseteq DOMAIN pinned)
  <2>1. walk' = [pc |-> "refused", entry |-> walk.entry, left |-> {}, queue |-> walk.queue,
                 walked |-> walk.walked]
    BY <1>1, <1>6 DEF WalkImports, WalkType
  <2>2. ToolTypeOK'
    BY <1>1, <2>1 DEF ToolTypeOK, WalkType
  <2>3. ASSUME touched = {}, NEW e \in walk.entry
        PROVE  \E g \in Reachable(e) \cup DOMAIN pinned : ~ AsPinned(g)
    <3>1. CASE Missing(f)
      <4>1. pinned[f] # Gone
        <5>1. f \in DOMAIN pinned
          BY <1>1 DEF Walking, Met
        <5>2. CASE pinned \in PinFile
          BY <5>1, <5>2, ToolAssumption
        <5>3. CASE pinned = NoPins
          BY <5>1, <5>3 DEF NoPins
        <5> QED BY <1>1, <5>2, <5>3 DEF ToolTypeOK
      <4> QED BY <1>4, <2>3, <3>1, <4>1 DEF AsPinned, Missing
    <3>2. CASE ~ ImportsOf(f) \subseteq DOMAIN pinned
      BY <1>4, <2>3, <3>2 DEF AsPinned
    <3> QED BY <1>6, <3>1, <3>2
  <2>4. \A g : AsPinned(g)' <=> AsPinned(g)
    BY <1>1, FilesStay
  <2>5. Justified(walk)'
    BY <1>1, <1>2, <2>1, <2>3, <2>4 DEF Justified
  <2> QED BY <2>1, <2>2, <2>5 DEF ToolInv
<1>7. CASE f \notin walk.walked /\ ~ Missing(f) /\ ImportsOf(f) \subseteq DOMAIN pinned
  <2>1. walk' = [pc |-> "walk", entry |-> walk.entry, left |-> {},
                 queue |-> (walk.queue \ {f}) \cup ImportsOf(f), walked |-> walk.walked \cup {f}]
    BY <1>1, <1>7 DEF WalkImports, WalkType
  <2>2. ToolTypeOK' /\ Met(walk') = Met(walk) \cup ImportsOf(f)
    BY <1>1, <1>3, <2>1 DEF ToolTypeOK, WalkType, Met
  <2>3. Walking(walk)'
    <3>1. walk.walked \in SUBSET Tool /\ walk'.entry = walk.entry /\ walk'.walked = walk.walked \cup {f}
      BY <1>1, <2>1 DEF WalkType
    <3> QED BY <1>1, <1>3, <1>7, <2>2, <3>1 DEF Walking
  <2>4. Straight(walk)'
    BY <1>1, <1>2, <1>4, <2>1, <2>2 DEF Straight
  <2> QED BY <1>3, <2>1, <2>2, <2>3, <2>4 DEF ToolInv
<1> QED BY <1>5, <1>6, <1>7

\* A walk with nothing queued stays what it is, resolved and running.
LEMMA ResolveKeeps ==
  ASSUME ToolInv, ResolveTool \/ StartTool
  PROVE  ToolInv'
<1>1. /\ ToolTypeOK /\ walk \in WalkType /\ walk.left = {} /\ walk.queue = {}
      /\ Walking(walk) /\ Straight(walk) /\ Hashed(walk) /\ UNCHANGED <<onDisk, pinned, edits, touched>>
  BY DEF ToolInv, ToolTypeOK, WalkType, ResolveTool, StartTool
<1>2. PICK to \in {"resolved", "running"} :
        walk' = [pc |-> to, entry |-> walk.entry, left |-> {}, queue |-> {}, walked |-> walk.walked]
  BY <1>1 DEF ResolveTool, StartTool, WalkType
<1>3. ToolTypeOK' /\ Met(walk') = Met(walk) /\ walk'.walked = walk.walked /\ walk'.entry = walk.entry
  BY <1>1, <1>2 DEF ToolTypeOK, WalkType, Met
<1>4. \A f : Reachable(f)' = Reachable(f) /\ LeadsTo(f)' = LeadsTo(f) /\ (AsPinned(f)' <=> AsPinned(f))
  BY <1>1, FilesStay
<1>5. Walking(walk)' /\ Straight(walk)' /\ Hashed(walk)'
  <2>1. Walking(walk)'
    BY <1>1, <1>3, <1>4 DEF Walking
  <2>2. Straight(walk)'
    BY <1>1, <1>3, <1>4 DEF Straight
  <2>3. Hashed(walk)'
    BY <1>1, <1>2, <1>4 DEF Hashed
  <2> QED BY <2>1, <2>2, <2>3
<1> QED BY <1>2, <1>3, <1>5 DEF ToolInv

\* An edit takes a file out of what is claimed, and no other.
LEMMA EditToolKeeps ==
  ASSUME ToolInv, NEW f \in Tool, NEW t \in Text \cup {Gone}, EditTool(f, t)
  PROVE  ToolInv'
<1>1. /\ ToolTypeOK /\ UNCHANGED <<pinned, walk>> /\ onDisk' = [onDisk EXCEPT ![f] = t]
      /\ edits < MaxEdits /\ edits' = edits + 1
      /\ touched' = IF walk.pc = "idle" THEN touched ELSE touched \cup {f}
  BY DEF ToolInv, EditTool
<1>2. ToolTypeOK'
  <2>1. edits' \in 0 .. MaxEdits
    BY <1>1, ToolAssumption DEF ToolTypeOK
  <2> QED BY <1>1, <2>1 DEF ToolTypeOK
<1>3. CASE walk.pc = "idle"
  BY <1>1, <1>2, <1>3 DEF ToolInv
<1>4. CASE walk.pc # "idle"
  <2>1. touched' = touched \cup {f} /\ touched' # {}
    BY <1>1, <1>4
  <2>2. ASSUME NEW g \in Tool PROVE LeadsTo(g)' \subseteq LeadsTo(g)
    BY <1>1, <2>1, <2>2 DEF LeadsTo, ImportsOf, Missing, ToolTypeOK
  <2>3. ASSUME NEW g \in Tool PROVE AsPinned(g) \/ g \in touched => AsPinned(g)' \/ g \in touched'
    BY <1>1, <2>1, <2>3 DEF AsPinned, ToolTypeOK
  <2>4. Hashed(walk) => Hashed(walk)'
    BY <1>1, <2>3, PinsAreTools DEF Hashed
  <2>5. Walking(walk) => Walking(walk)'
    <3>1. walk.walked \in SUBSET Tool
      BY <1>1 DEF ToolTypeOK
    <3> QED BY <1>1, <2>2, <3>1 DEF Walking
  <2>6. Straight(walk)' /\ Justified(walk)'
    BY <2>1 DEF Straight, Justified
  <2> QED BY <1>1, <1>2, <1>4, <2>4, <2>5, <2>6 DEF ToolInv
<1> QED BY <1>3, <1>4

\* Every step of a resolution, and every edit, keeps the invariant.
LEMMA ToolInv_Step == ToolInv /\ [ToolNext]_toolVars => ToolInv'
<1> SUFFICES ASSUME ToolInv, [ToolNext]_toolVars PROVE ToolInv'
  OBVIOUS
<1>1. CASE \E f \in Tool, d \in PinFile : RequestTool(f, d)
  BY <1>1, RequestToolKeeps
<1>2. CASE \E f \in Tool : HashPin(f) \/ WalkImports(f)
  BY <1>2, HashPinKeeps, WalkImportsKeeps
<1>3. CASE StartWalk
  BY <1>3, StartWalkKeeps
<1>4. CASE ResolveTool \/ StartTool
  BY <1>4, ResolveKeeps
<1>5. CASE ToolEnds
  <2>1. walk' = [pc |-> "idle", entry |-> {}, left |-> {}, queue |-> {}, walked |-> {}]
        /\ pinned' = NoPins /\ touched' = {} /\ UNCHANGED <<onDisk, edits>> /\ ToolTypeOK
    BY <1>5 DEF ToolEnds, NoWalk, ToolInv
  <2> QED BY <2>1 DEF ToolInv, ToolTypeOK
<1>6. CASE \E f \in Tool, t \in Text \cup {Gone} : EditTool(f, t)
  BY <1>6, EditToolKeeps
<1>7. CASE UNCHANGED toolVars
  <2>1. UNCHANGED <<onDisk, pinned, walk, edits, touched>>
    BY <1>7 DEF toolVars
  <2>2. \A f : Reachable(f)' = Reachable(f) /\ LeadsTo(f)' = LeadsTo(f) /\ (AsPinned(f)' <=> AsPinned(f))
    BY <2>1, FilesStay
  <2>3. /\ (Hashed(walk)' <=> Hashed(walk)) /\ (Walking(walk)' <=> Walking(walk))
        /\ (Straight(walk)' <=> Straight(walk)) /\ (Justified(walk)' <=> Justified(walk))
    BY <2>1, <2>2 DEF Hashed, Walking, Straight, Justified
  <2>4. ToolTypeOK'
    BY <2>1 DEF ToolInv, ToolTypeOK
  <2> QED BY <2>1, <2>3, <2>4 DEF ToolInv
<1> QED BY <1>1, <1>2, <1>3, <1>4, <1>5, <1>6, <1>7 DEF ToolNext

\* A walk with nothing queued is the closure.
LEMMA ToolInv_Closure == ToolInv => ToolClosureIsPinned
<1> SUFFICES ASSUME ToolInv, NEW e \in walk.entry, walk.pc \in {"resolved", "running"},
                    NEW f \in Reachable(e) \cup DOMAIN pinned
             PROVE  AsPinned(f) \/ f \in DOMAIN pinned \cap touched
  BY DEF ToolInv, ToolClosureIsPinned, Justified
<1>1. /\ walk.walked \in SUBSET Tool /\ e \in walk.walked /\ walk.walked \subseteq DOMAIN pinned
      /\ \A g \in walk.walked : LeadsTo(g) \subseteq walk.walked
  BY DEF ToolInv, ToolTypeOK, Walking, Met
<1>2. f \in DOMAIN pinned
  BY <1>1, ReachableIsLeast
<1> QED BY <1>2 DEF ToolInv, Hashed

-----------------------------------------------------------------------------
(* Adoption.  The main file never changes without its stamp.  So the stamp  *)
(* an adopter took bounds that of the store, and while the two are equal the *)
(* blocks that were hashed, and what the main file was at the statements, are *)
(* those of the main file.  And while nobody committed since the sidecars were *)
(* looked for, there is none, and a statement reads the main file.           *)

Stamped == {"hash", "read", "rescan", "restat"}
Started == Stamped \cup {"stat", "publish", "rename"}
View == [pc : {"idle", "sidecars"} \cup Started, held : BOOLEAN, stamp : SUBSET Nat,
         hash : SUBSET Image, seen : Seq(SUBSET Image), file : SUBSET Image,
         began : Nat, ended : Nat]
StoreType == [main : {{i} : i \in Image}, wal : {{}} \cup {{i} : i \in Image},
              stamp : Nat, writes : Nat]
AllSeen(v) == \A n \in DOMAIN v.seen : v.seen[n] = v.hash

\* What its stamp tells an adopter of the main file.
KnowsFile(v, s) ==
  v.pc \in Stamped => \E n \in Nat :
    /\ v.stamp = {n} /\ n <= s.stamp
    /\ n = s.stamp =>
         /\ v.pc = "hash" => v.hash \subseteq s.main
         /\ v.pc \in Stamped \ {"hash"} => v.hash = s.main
         /\ v.pc = "read" => v.file \subseteq s.main /\ (v.seen # <<>> => v.file = s.main)
         /\ v.pc \in {"rescan", "restat"} => v.file = s.main

\* What holds while nobody has committed.
KnowsQuiet(v, s) ==
  /\ v.pc \in Started => v.began <= v.ended /\ v.ended <= s.writes
  /\ v.pc \in Started /\ v.began = s.writes => s.wal = {}
  /\ v.pc \in Stamped /\ v.began = s.writes => v.stamp = {s.stamp}
  /\ v.pc \in Started /\ v.began = v.ended => AllSeen(v)

\* How far its statements are, and what they have shown.
KnowsParts(v) ==
  /\ v.pc \in {"sidecars", "stat", "hash"} => v.seen = <<>> /\ v.file = {}
  /\ v.pc \in {"sidecars", "stat"} => v.hash = {}
  /\ Len(v.seen) <= Len(Statement)
  /\ v.pc \in {"rescan", "restat", "publish", "rename"} =>
       Adoptable(v) /\ Len(v.seen) = Len(Statement)
  /\ v.pc \in {"publish", "rename"} => \E i \in Image : v.hash = {i} /\ v.file = {i}

\* What an adopter knows of the store while it goes on.
Follows(v, s) == KnowsFile(v, s) /\ KnowsQuiet(v, s) /\ KnowsParts(v)

AdoptionInv ==
  /\ store \in StoreType
  /\ adopter \in [Adopter -> View]
  /\ \A a \in Adopter : Follows(adopter[a], store)
  /\ RecordPinsTheFile

\* What one step of a writer does to the main file, its stamp and its sidecar.
MainMoves(s, t) ==
  /\ (t.stamp = s.stamp /\ t.main = s.main) \/ t.stamp > s.stamp
  /\ t.writes = s.writes \/ t.writes = s.writes + 1
  /\ t.writes = s.writes /\ s.wal = {} => t.wal = {} /\ t.stamp = s.stamp

\* Writers, checkpoints and crashes change the main file only with its stamp.
LEMMA StoreMoves ==
  ASSUME store \in StoreType, StoreChanges
  PROVE  store' \in StoreType /\ MainMoves(store, store') /\ UNCHANGED <<adopter, record>>
<1> USE DEF StoreType, MainMoves
<1>1. PICK w \in Writer :
        OpenStore(w) \/ CommitStore(w) \/ CheckpointStore(w) \/ CloseStore(w) \/ CrashStore(w)
  BY DEF StoreChanges
<1>2. CASE OpenStore(w)
  BY <1>2 DEF OpenStore
<1>3. CASE CommitStore(w)
  <2>1. PICK i \in Image : store' = [store EXCEPT !.wal = {i}, !.writes = @ + 1]
    BY <1>3 DEF CommitStore
  <2>2. store' = [main |-> store.main, wal |-> {i}, stamp |-> store.stamp,
                  writes |-> store.writes + 1]
    BY <2>1
  <2> QED BY <1>3, <2>2 DEF CommitStore
<1>4. CASE CheckpointStore(w)
  <2>1. store' = [store EXCEPT !.main = store.wal, !.stamp = @ + 1] /\ store.wal # {}
    BY <1>4 DEF CheckpointStore
  <2>2. store' = [main |-> store.wal, wal |-> store.wal, stamp |-> store.stamp + 1,
                  writes |-> store.writes]
    BY <2>1
  <2> QED BY <1>4, <2>1, <2>2 DEF CheckpointStore
<1>5. CASE CloseStore(w)
  <2>2. ASSUME store.wal # {},
               store' = [store EXCEPT !.main = store.wal, !.wal = {},
                           !.stamp = IF store.wal = store.main THEN @ ELSE @ + 1]
        PROVE  store' \in StoreType /\ MainMoves(store, store')
    <3>1. PICK n \in Nat : /\ n = store.stamp \/ n = store.stamp + 1
                           /\ n = store.stamp => store.wal = store.main
                           /\ n = IF store.wal = store.main THEN store.stamp ELSE store.stamp + 1
      OBVIOUS
    <3>2. store' = [main |-> store.wal, wal |-> {}, stamp |-> n, writes |-> store.writes]
      BY <2>2, <3>1
    <3>3. /\ store'.main = store.wal /\ store'.wal = {} /\ store'.stamp = n
          /\ store'.writes = store.writes
      BY <3>2
    <3>4. store' \in StoreType
      BY <2>2, <3>2
    <3> QED BY <2>2, <3>1, <3>3, <3>4
  <2> QED BY <1>5, <2>2 DEF CloseStore
<1>6. CASE CrashStore(w)
  BY <1>6 DEF CrashStore
<1> QED BY <1>1, <1>2, <1>3, <1>4, <1>5, <1>6

\* What an adopter knows survives a change of the store.
LEMMA FollowsStore ==
  ASSUME NEW v \in View, NEW s \in StoreType, NEW t \in StoreType, MainMoves(s, t), Follows(v, s)
  PROVE  Follows(v, t)
<1>1. KnowsFile(v, t)
  BY DEF Follows, KnowsFile, MainMoves, StoreType, Stamped
<1>2. KnowsQuiet(v, t)
  <2>1. s.writes \in Nat /\ t.writes \in Nat /\ v.began \in Nat /\ v.ended \in Nat
    BY DEF StoreType, View
  <2>2. v.began = t.writes /\ v.pc \in Started => s.writes = t.writes
    BY <2>1 DEF Follows, KnowsQuiet, MainMoves
  <2>3. Stamped \subseteq Started
    BY DEF Started
  <2> QED BY <2>1, <2>2, <2>3 DEF Follows, KnowsQuiet, MainMoves
<1> QED BY <1>1, <1>2 DEF Follows

\* An adopter that has not begun claims nothing.
LEMMA NoViewFollows == NoView \in View /\ Follows(NoView, store)
<1>1. NoView \in View /\ NoView.pc = "idle" /\ NoView.seen = <<>>
  BY DEF NoView, View
<1>2. "idle" \notin Started /\ Stamped \subseteq Started /\ Len(Statement) = 6
  BY DEF Started, Stamped, Statement
<1> HIDE DEF NoView
<1> QED BY <1>1, <1>2 DEF Follows, KnowsFile, KnowsQuiet, KnowsParts, Stamped, Started

\* An adopter that goes on to p has passed the gate before it.
Passes(v, s, p) ==
  \/ v.pc = "read" /\ p = "rescan" /\ Adoptable(v) /\ Len(v.seen) = Len(Statement)
  \/ v.pc = "rescan" /\ p = "restat"
  \/ v.pc = "restat" /\ p = "publish" /\ v.stamp = {s.stamp}
  \/ v.pc = "publish" /\ p = "rename"

\* Going on from one statement or look to the next, with what was learnt.
LEMMA AdoptionGoesOn ==
  ASSUME NEW v \in View, NEW s \in StoreType, Follows(v, s),
         NEW p \in Started, Passes(v, s, p), NEW w,
         w.pc = p, w.stamp = v.stamp, w.hash = v.hash, w.seen = v.seen, w.file = v.file,
         w.began = v.began, w.ended = v.ended
  PROVE  Follows(w, s)
<1>1. /\ w.pc = p /\ w.stamp = v.stamp /\ w.hash = v.hash /\ w.seen = v.seen /\ w.file = v.file
      /\ w.began = v.began /\ w.ended = v.ended
  OBVIOUS
<1>2. Adoptable(w) <=> Adoptable(v)
  BY <1>1 DEF Adoptable, Read
<1>3. Len(v.seen) = Len(Statement) => v.seen # <<>>
  BY DEF View, Statement
<1>4. KnowsFile(w, s)
  BY <1>1, <1>3 DEF Passes, Follows, KnowsFile, Stamped
<1>5. KnowsQuiet(w, s)
  BY <1>1 DEF Passes, Follows, KnowsQuiet, Stamped, Started, AllSeen
<1>6. v.pc = "restat" /\ v.stamp = {s.stamp} => v.hash = s.main /\ v.file = s.main
  BY DEF Follows, KnowsFile, Stamped
<1>7. KnowsParts(w)
  BY <1>1, <1>2, <1>6 DEF Passes, Follows, KnowsParts, StoreType
<1> QED BY <1>4, <1>5, <1>7 DEF Follows

\* A step of one adopter.
LEMMA AdoptStepKeeps ==
  ASSUME AdoptionInv, NEW a \in Adopter, AdoptStep(a)
  PROVE  AdoptionInv'
<1> DEFINE v == adopter[a]
<1>t. store \in StoreType /\ v \in View /\ adopter \in [Adopter -> View] /\ Follows(v, store)
  BY DEF AdoptionInv
<1>u. UNCHANGED store
  BY DEF AdoptStep, ScanHolders, CheckSidecars, StatStore, HashStore, ReadStatement, JudgeStore,
         RescanHolders, RestatStore, WriteTemporary, RenameRecord, AdopterDies
<1> HIDE DEF v
<1>1. ASSUME NEW w \in View, adopter' = [adopter EXCEPT ![a] = w], Follows(w, store),
             RecordPinsTheFile'
      PROVE  AdoptionInv'
  <2>1. adopter' \in [Adopter -> View]
    BY <1>t, <1>1
  <2>2. \A b \in Adopter : adopter'[b] = IF b = a THEN w ELSE adopter[b]
    BY <1>t, <1>1
  <2>3. \A b \in Adopter : Follows(adopter'[b], store')
    BY <1>1, <1>u, <2>2 DEF AdoptionInv
  <2> QED BY <1>1, <1>t, <1>u, <2>1, <2>3 DEF AdoptionInv
<1>2. UNCHANGED record => RecordPinsTheFile'
  BY DEF AdoptionInv, RecordPinsTheFile
<1>3. Refuses(a) /\ RecordPinsTheFile' => AdoptionInv'
  BY <1>1, NoViewFollows DEF Refuses
<1>4. ASSUME NEW p \in Started, Moves(a, p), UNCHANGED record, Passes(v, store, p)
      PROVE  AdoptionInv'
  <2> DEFINE w == [v EXCEPT !.pc = p]
  <2>1. adopter' = [adopter EXCEPT ![a] = w]
    BY <1>4, <1>t DEF Moves, v
  <2>2. /\ w \in View
        /\ w.pc = p /\ w.stamp = v.stamp /\ w.hash = v.hash /\ w.seen = v.seen
        /\ w.file = v.file /\ w.began = v.began /\ w.ended = v.ended
    BY <1>4, <1>t DEF View
  <2> HIDE DEF w
  <2>3. Follows(w, store)
    BY <1>4, <1>t, <2>2, AdoptionGoesOn
  <2> QED BY <1>1, <1>2, <1>4, <2>1, <2>2, <2>3
<1>s. {"rescan", "restat", "publish", "rename"} \subseteq Started
  BY DEF Started, Stamped
<1>5. CASE \E allow \in BOOLEAN : ScanHolders(a, allow)
  <2>1. PICK allow \in BOOLEAN : ScanHolders(a, allow)
    BY <1>5
  <2> DEFINE w == [NoView EXCEPT !.pc = "sidecars", !.held = allow]
  <2>2. w \in View /\ w.pc = "sidecars" /\ w.seen = <<>> /\ w.hash = {} /\ w.file = {}
    BY NoViewFollows DEF NoView, View
  <2>3. adopter' = [adopter EXCEPT ![a] = w] /\ UNCHANGED record
    BY <2>1 DEF ScanHolders
  <2> HIDE DEF w
  <2>4. Follows(w, store)
    BY <2>2 DEF Follows, KnowsFile, KnowsQuiet, KnowsParts, Stamped, Started, Statement
  <2> QED BY <1>1, <1>2, <2>2, <2>3, <2>4
<1>6. CASE CheckSidecars(a)
  <2>1. CASE store.wal = {}
    <3> DEFINE w == [v EXCEPT !.pc = "stat", !.began = store.writes, !.ended = store.writes]
    <3>1. v.pc = "sidecars" /\ UNCHANGED record /\ adopter' = [adopter EXCEPT ![a] = w]
      BY <1>6, <1>t, <2>1 DEF CheckSidecars, AdopterAt, v
    <3>2. v.seen = <<>> /\ v.hash = {} /\ v.file = {}
      BY <1>t, <3>1 DEF Follows, KnowsParts
    <3>3. w \in View /\ w.pc = "stat" /\ w.seen = <<>> /\ w.hash = {} /\ w.file = {}
          /\ w.began = store.writes /\ w.ended = store.writes
      BY <1>t, <3>2 DEF View, StoreType, Started
    <3> HIDE DEF w
    <3>5. Follows(w, store)
      BY <1>t, <2>1, <3>3 DEF Follows, KnowsFile, KnowsQuiet, KnowsParts, AllSeen, Stamped, Started,
         Statement, StoreType
    <3> QED BY <1>1, <1>2, <3>1, <3>3, <3>5
  <2> QED BY <1>2, <1>3, <1>6, <2>1 DEF CheckSidecars
<1>7. CASE StatStore(a)
  <2> DEFINE w == [v EXCEPT !.pc = "hash", !.stamp = {store.stamp}]
  <2>0. store.stamp \in Nat /\ {store.stamp} \in SUBSET Nat /\ "hash" \in Stamped
    BY <1>t DEF StoreType, Stamped
  <2>1. v.pc = "stat" /\ adopter' = [adopter EXCEPT ![a] = w] /\ UNCHANGED record
    BY <1>7, <1>t DEF StatStore, AdopterAt, v
  <2>2. /\ w.pc = "hash" /\ w.stamp = {store.stamp} /\ w.hash = v.hash /\ w.seen = v.seen
        /\ w.file = v.file /\ w.began = v.began /\ w.ended = v.ended
    BY <1>t DEF View
  <2>3. w \in View
    <3>1. \A S \in SUBSET Nat : [v EXCEPT !.pc = "hash", !.stamp = S] \in View
      BY <1>t DEF View, Started, Stamped
    <3> QED BY <2>0, <3>1
  <2> HIDE DEF w
  <2>4. v.hash = {} /\ v.seen = <<>> /\ v.file = {}
    BY <1>t, <2>1 DEF Follows, KnowsParts
  <2>5. KnowsFile(w, store) /\ KnowsParts(w)
    BY <2>0, <2>2, <2>4, <1>t, <2>1 DEF KnowsFile, KnowsParts, Follows
  <2>6. KnowsQuiet(w, store)
    BY <1>t, <2>1, <2>2, <2>4 DEF Follows, KnowsQuiet, AllSeen, Started, Stamped
  <2> QED BY <1>1, <1>2, <2>1, <2>3, <2>5, <2>6 DEF Follows
<1>8. CASE HashStore(a)
  <2>1. PICK p \in {"hash", "read"} : adopter' = [adopter EXCEPT ![a].pc = p, ![a].hash = @ \cup store.main]
    BY <1>8 DEF HashStore
  <2> DEFINE w == [v EXCEPT !.pc = p, !.hash = @ \cup store.main]
  <2>2. v.pc = "hash" /\ UNCHANGED record
    BY <1>8 DEF HashStore, AdopterAt, v
  <2>3. adopter' = [adopter EXCEPT ![a] = w]
    BY <2>1, <1>t DEF v
  <2>4. /\ w.pc = p /\ w.stamp = v.stamp /\ w.hash = v.hash \cup store.main /\ w.seen = v.seen
        /\ w.file = v.file /\ w.began = v.began /\ w.ended = v.ended
    BY <1>t DEF View
  <2>5. w \in View
    BY <1>t DEF View, Started, Stamped, StoreType
  <2> HIDE DEF w
  <2>6. v.seen = <<>> /\ v.file = {}
    BY <1>t, <2>2 DEF Follows, KnowsParts
  <2>7. KnowsFile(w, store)
    BY <1>t, <2>2, <2>4, <2>6 DEF Follows, KnowsFile, Stamped
  <2>8. KnowsQuiet(w, store)
    BY <1>t, <2>2, <2>4, <2>6 DEF Follows, KnowsQuiet, AllSeen, Started, Stamped
  <2>9. KnowsParts(w)
    BY <1>t, <2>2, <2>4, <2>6 DEF Follows, KnowsParts
  <2> QED BY <1>1, <1>2, <2>2, <2>3, <2>5, <2>7, <2>8, <2>9 DEF Follows
<1>9. CASE ReadStatement(a)
  <2> DEFINE w == [v EXCEPT !.seen = Append(@, Logical), !.file = @ \cup store.main,
                            !.ended = store.writes]
  <2>1. /\ v.pc = "read" /\ UNCHANGED record /\ Len(v.seen) < Len(Statement)
        /\ adopter' = [adopter EXCEPT ![a] = w]
    BY <1>9, <1>t DEF ReadStatement, AdopterAt, v
  <2>2. /\ w.pc = "read" /\ w.stamp = v.stamp /\ w.hash = v.hash
        /\ w.seen = Append(v.seen, Logical) /\ w.file = v.file \cup store.main
        /\ w.began = v.began /\ w.ended = store.writes
    BY <1>t, <2>1 DEF View
  <2>3. Logical \in SUBSET Image /\ v.seen \in Seq(SUBSET Image) /\ store.writes \in Nat
        /\ v.began \in Nat /\ v.ended \in Nat
    BY <1>t DEF Logical, StoreType, View
  <2>4. w \in View
    <3>1. Append(v.seen, Logical) \in Seq(SUBSET Image) /\ v.file \cup store.main \in SUBSET Image
      BY <1>t, <2>3 DEF View, StoreType
    <3>2. \A q \in Seq(SUBSET Image), F \in SUBSET Image, n \in Nat :
            [v EXCEPT !.seen = q, !.file = F, !.ended = n] \in View
      BY <1>t DEF View
    <3>3. w = [v EXCEPT !.seen = Append(v.seen, Logical), !.file = v.file \cup store.main,
                        !.ended = store.writes]
      BY <1>t DEF View
    <3> HIDE DEF w
    <3> QED BY <2>3, <3>1, <3>2, <3>3
  <2> HIDE DEF w
  <2>5. KnowsFile(w, store)
    BY <1>t, <2>1, <2>2 DEF Follows, KnowsFile, Stamped
  <2>6. KnowsQuiet(w, store)
    <3>1. v.began <= v.ended /\ v.ended <= store.writes
      BY <1>t, <2>1 DEF Follows, KnowsQuiet, Started, Stamped
    <3>2. ASSUME v.began = store.writes
          PROVE  store.wal = {} /\ v.stamp = {store.stamp} /\ AllSeen(v)
      BY <1>t, <2>1, <2>3, <3>1, <3>2 DEF Follows, KnowsQuiet, Started, Stamped
    <3>3. ASSUME v.began = store.writes
          PROVE  Logical = v.hash
      BY <1>t, <2>1, <3>2, <3>3 DEF Follows, KnowsFile, Stamped, Logical
    <3>4. ASSUME v.began = store.writes
          PROVE  AllSeen(w)
      BY <2>2, <2>3, <3>2, <3>3, <3>4 DEF AllSeen
    <3> QED BY <2>2, <2>3, <3>1, <3>2, <3>4 DEF KnowsQuiet
  <2>7. KnowsParts(w)
    BY <1>t, <2>1, <2>2, <2>3 DEF KnowsParts, Statement
  <2> QED BY <1>1, <1>2, <2>1, <2>4, <2>5, <2>6, <2>7 DEF Follows
<1>10. CASE JudgeStore(a)
  <2>1. v.pc = "read" /\ UNCHANGED record /\ Len(v.seen) = Len(Statement)
        /\ IF Adoptable(v) THEN Moves(a, "rescan") ELSE Refuses(a)
    BY <1>10 DEF JudgeStore, AdopterAt, v
  <2> QED BY <1>2, <1>3, <1>4, <1>s, <2>1 DEF Passes
<1>11. CASE RescanHolders(a)
  <2>1. v.pc = "rescan" /\ UNCHANGED record /\ (Moves(a, "restat") \/ Refuses(a))
    BY <1>11 DEF RescanHolders, AdopterAt, v
  <2> QED BY <1>2, <1>3, <1>4, <1>s, <2>1 DEF Passes
<1>12. CASE RestatStore(a)
  <2>1. v.pc = "restat" /\ UNCHANGED record
        /\ IF v.stamp = {store.stamp} THEN Moves(a, "publish") ELSE Refuses(a)
    BY <1>12 DEF RestatStore, AdopterAt, v
  <2> QED BY <1>2, <1>3, <1>4, <1>s, <2>1 DEF Passes
<1>13. CASE WriteTemporary(a)
  <2>1. v.pc = "publish" /\ UNCHANGED record /\ (Moves(a, "rename") \/ Refuses(a))
    BY <1>13 DEF WriteTemporary, AdopterAt, v
  <2> QED BY <1>2, <1>3, <1>4, <1>s, <2>1 DEF Passes
<1>14. CASE RenameRecord(a)
  <2> DEFINE r == [hash |-> v.hash, seen |-> v.seen, held |-> v.held, file |-> v.file,
                   raced |-> v.began # v.ended]
  <2>1. v.pc = "rename" /\ Refuses(a) /\ record' = {r}
    BY <1>14 DEF RenameRecord, AdopterAt, v
  <2>2. /\ \E i \in Image : v.hash = {i} /\ v.file = {i}
        /\ Len(v.seen) = Len(Statement) /\ Adoptable(v)
        /\ v.began = v.ended => AllSeen(v)
    BY <1>t, <2>1 DEF Follows, KnowsParts, KnowsQuiet, Started
  <2>3. r.seen = v.seen /\ r.hash = v.hash /\ r.file = v.file /\ (~ r.raced => v.began = v.ended)
    OBVIOUS
  <2>4. Adoptable(r)
    BY <2>2, <2>3 DEF Adoptable, Read
  <2> HIDE DEF r
  <2>5. RecordPinsTheFile'
    BY <2>1, <2>2, <2>3, <2>4 DEF RecordPinsTheFile, AllSeen
  <2> QED BY <1>3, <2>1, <2>5
<1>15. CASE AdopterDies(a)
  BY <1>2, <1>3, <1>15 DEF AdopterDies, Refuses
<1> QED BY <1>5, <1>6, <1>7, <1>8, <1>9, <1>10, <1>11, <1>12, <1>13, <1>14, <1>15 DEF AdoptStep

\* In the beginning no adopter has begun and nothing is recorded.
LEMMA AdoptionInv_Init == AdoptionInit => AdoptionInv
BY NoViewFollows DEF AdoptionInit, AdoptionInv, StoreType, RecordPinsTheFile

\* Every step of a writer or an adopter keeps what the adopters know true.
LEMMA AdoptionInv_Step == AdoptionInv /\ [AdoptionNext]_adoptionVars => AdoptionInv'
<1> SUFFICES ASSUME AdoptionInv, [AdoptionNext]_adoptionVars PROVE AdoptionInv'
  OBVIOUS
<1>1. CASE StoreChanges
  <2>1. store' \in StoreType /\ MainMoves(store, store') /\ UNCHANGED <<adopter, record>>
    BY <1>1, StoreMoves DEF AdoptionInv
  <2>2. \A a \in Adopter : Follows(adopter[a], store')
    BY <2>1, FollowsStore DEF AdoptionInv
  <2> QED BY <2>1, <2>2 DEF AdoptionInv, RecordPinsTheFile
<1>2. CASE \E a \in Adopter : AdoptStep(a)
  BY <1>2, AdoptStepKeeps
<1>3. CASE UNCHANGED adoptionVars
  BY <1>3 DEF AdoptionInv, RecordPinsTheFile, adoptionVars
<1> QED BY <1>1, <1>2, <1>3 DEF AdoptionNext

-----------------------------------------------------------------------------
(* Receipts.  Counting references and walking once from the head against   *)
(* the lines the receipts of a session form.                               *)
\* Files of receipts are distinct.
Distinct(files) == files \subseteq Receipt /\ FilesDiffer(files)

\* A receipt names at most one receipt.
LEMMA NamedIsOne ==
  ASSUME NEW files, Distinct(files), NEW r \in files, NEW p \in Named(files, r)
  PROVE  Named(files, r) = {p} /\ r.supersedes = {p.file} /\ p \in files
<1>1. p \in files /\ r.supersedes = {p.file}
  BY DEF Named
<1>2. \A q \in Named(files, r) : q \in files /\ q.file = p.file
  BY <1>1 DEF Named
<1> QED BY <1>1, <1>2 DEF Distinct, FilesDiffer

\* The receipts met on a walk from the head, link by link.
Walk(f, files, head, n) ==
  f = [i \in 1 .. n + 1 |->
         IF i = 1 THEN {head} ELSE UNION {Named(files, r) : r \in f[i - 1]}]

\* Following the links defines what is visited at every length.
LEMMA WalkExists ==
  ASSUME NEW files, NEW head \in files, NEW n \in Nat
  PROVE  \E f : Walk(f, files, head, n)
<1> DEFINE B == SUBSET files
           step == [S \in B |-> UNION {Named(files, r) : r \in S}]
<1>1. {head} \in B /\ step \in [B -> B]
  BY DEF Named
<1>2. PICK f : Iterates(f, B, {head}, step, n)
  <2> HIDE DEF B, step
  <2> QED BY <1>1, IteratesExist
<1>3. f \in [0 .. n -> B] /\ f[0] = {head} /\ \A i \in 1 .. n : f[i] = step[f[i - 1]]
  BY <1>2 DEF Iterates
<1> DEFINE g == [i \in 1 .. n + 1 |-> f[i - 1]]
<1>4. \A i \in 1 .. n + 1 :
        g[i] = IF i = 1 THEN {head} ELSE UNION {Named(files, r) : r \in g[i - 1]}
  <2> SUFFICES ASSUME NEW i \in 1 .. n + 1, i # 1
               PROVE  g[i] = UNION {Named(files, r) : r \in g[i - 1]}
    <3>1. g[1] = {head}
      BY <1>3
    <3> HIDE DEF g
    <3> QED BY <3>1
  <2>1. i - 1 \in 1 .. n /\ i - 1 - 1 \in 0 .. n
    OBVIOUS
  <2>2. g[i] = step[f[i - 1 - 1]] /\ f[i - 1 - 1] \in B
    BY <1>3, <2>1
  <2>3. g[i - 1] = f[i - 1 - 1]
    BY <2>1
  <2> HIDE DEF g
  <2> QED BY <2>2, <2>3
<1>5. Walk(g, files, head, n)
  BY <1>4 DEF Walk
<1> QED BY <1>5

\* WalksAll speaks of the walk.
LEMMA WalksAllMeans ==
  ASSUME NEW files, NEW head \in files, NEW n \in Nat
  PROVE  \E f : /\ Walk(f, files, head, n)
                /\ WalksAll(files, head, n) <=> f[n] # {} /\ f[n + 1] = {}
<1> DEFINE f == CHOOSE f : Walk(f, files, head, n)
<1>1. Walk(f, files, head, n)
  BY WalkExists
<1>2. WalksAll(files, head, n) <=> f[n] # {} /\ f[n + 1] = {}
  BY DEF WalksAll, Walk
<1> QED BY <1>1, <1>2

Steps(f, files, head, n) ==
  /\ f[1] = {head}
  /\ \A i \in 1 .. n : \A r \in files : f[i] = {r} => f[i + 1] = Named(files, r)
  /\ \A i \in 1 .. n : f[i] = {} => f[i + 1] = {}

\* A step of a walk goes from a receipt to the one it names.
LEMMA WalkSteps ==
  ASSUME NEW files, NEW head, NEW n \in Nat, NEW f, Walk(f, files, head, n)
  PROVE  Steps(f, files, head, n)
<1>1. \A i \in 1 .. n : i + 1 \in 1 .. n + 1 /\ i + 1 # 1 /\ i + 1 - 1 = i
  OBVIOUS
<1>2. \A i \in 1 .. n : f[i + 1] = UNION {Named(files, r) : r \in f[i]}
  BY <1>1 DEF Walk
<1>3. f[1] = {head}
  BY DEF Walk
<1>4. \A i \in 1 .. n : \A r \in files : f[i] = {r} => f[i + 1] = Named(files, r)
  BY <1>2
<1>5. \A i \in 1 .. n : f[i] = {} => f[i + 1] = {}
  BY <1>2
<1> QED BY <1>3, <1>4, <1>5 DEF Steps

\* A walk that visits as many receipts as a session has and ends there visits
\* each one once; read backwards it is the order they were written in.
LEMMA WalkIsOrder ==
  ASSUME NEW files, Distinct(files), LinksResolve(files), NEW s, NEW head \in Members(files, s),
         NEW n \in Nat \ {0}, n = Cardinality(Members(files, s)),
         NEW f, Walk(f, files, head, n), f[n] # {}, f[n + 1] = {}
  PROVE  Orders(files, s) # {}
<1> DEFINE M == Members(files, s)
           v == [i \in 1 .. n |-> CHOOSE r \in M : f[i] = {r}]
<1>1. /\ f[1] = {head}
      /\ \A i \in 1 .. n : \A r \in files : f[i] = {r} => f[i + 1] = Named(files, r)
      /\ \A i \in 1 .. n : f[i] = {} => f[i + 1] = {}
  <2>1. n \in Nat
    OBVIOUS
  <2>2. Steps(f, files, head, n)
    BY <2>1, WalkSteps
  <2> QED BY <2>2 DEF Steps
<1>2. M \subseteq files /\ IsFiniteSet(M) /\ \A r \in M : r.file.session = s
  BY FS_Subset DEF Distinct, FilesDiffer, Members
\* What was empty stays empty.
<1>3. \A i \in 1 .. n : f[i] # {}
  <2> DEFINE S == {k \in Nat : k < n => f[n - k] # {}}
  <2>1. 0 \in S
    OBVIOUS
  <2>2. ASSUME NEW k \in S PROVE k + 1 \in S
    <3> SUFFICES ASSUME k + 1 < n PROVE f[n - (k + 1)] # {}
      BY <2>2
    <3>1. n - (k + 1) \in 1 .. n /\ n - (k + 1) + 1 = n - k /\ k < n
      BY <2>2
    <3> QED BY <1>1, <2>2, <3>1
  <2>3. S = Nat
    <3> HIDE DEF S
    <3>1. S \in SUBSET Nat
      BY DEF S
    <3> QED BY <2>1, <2>2, <3>1, AllNumbers
  <2> SUFFICES ASSUME NEW i \in 1 .. n PROVE f[i] # {}
    OBVIOUS
  <2>4. n - i \in Nat /\ n - i < n /\ n - (n - i) = i
    OBVIOUS
  <2> QED BY <2>3, <2>4
<1>4. \A i \in 1 .. n : \E r \in M : f[i] = {r}
  <2> DEFINE S == {k \in Nat : k < n => \E r \in M : f[k + 1] = {r}}
  <2>1. 0 \in S
    BY <1>1
  <2>2. ASSUME NEW k \in S PROVE k + 1 \in S
    <3> SUFFICES ASSUME k + 1 < n PROVE \E r \in M : f[k + 1 + 1] = {r}
      BY <2>2
    <3>1. k + 1 \in 1 .. n /\ k + 1 + 1 \in 1 .. n /\ k < n
      BY <2>2
    <3>2. PICK r \in M : f[k + 1] = {r}
      BY <2>2, <3>1
    <3>3. f[k + 1 + 1] = Named(files, r) /\ f[k + 1 + 1] # {} /\ r \in files
      BY <1>1, <1>2, <1>3, <3>1, <3>2
    <3>4. PICK p : p \in Named(files, r)
      BY <3>3
    <3>5. Named(files, r) = {p} /\ p \in files /\ p.file.session = s
      BY <1>2, <3>3, <3>4, NamedIsOne DEF LinksResolve
    <3> QED BY <3>3, <3>5 DEF Members
  <2>3. S = Nat
    <3> HIDE DEF S
    <3>1. S \in SUBSET Nat
      BY DEF S
    <3> QED BY <2>1, <2>2, <3>1, AllNumbers
  <2> SUFFICES ASSUME NEW i \in 1 .. n PROVE \E r \in M : f[i] = {r}
    OBVIOUS
  <2>4. i - 1 \in Nat /\ i - 1 < n /\ i - 1 + 1 = i
    OBVIOUS
  <2> QED BY <2>3, <2>4
<1>5. v \in [1 .. n -> M] /\ \A i \in 1 .. n : f[i] = {v[i]}
  BY <1>4
<1> HIDE DEF v
<1>6. \A i \in 1 .. n : i < n => v[i].supersedes = {v[i + 1].file}
  <2> SUFFICES ASSUME NEW i \in 1 .. n, i < n PROVE v[i].supersedes = {v[i + 1].file}
    OBVIOUS
  <2>1. i + 1 \in 1 .. n
    OBVIOUS
  <2>2. v[i + 1] \in Named(files, v[i])
    BY <1>1, <1>2, <1>5, <2>1
  <2> QED BY <2>2 DEF Named
<1>7. v[n].supersedes = None
  <2>1. n \in 1 .. n
    OBVIOUS
  <2>2. Named(files, v[n]) = {} /\ v[n] \in files
    BY <1>1, <1>2, <1>5, <2>1
  <2> QED BY <2>2 DEF LinksResolve
\* Two visits of one receipt would repeat to the end.
<1>8. \A i, j \in 1 .. n : v[i] = v[j] => i = j
  <2> DEFINE S == {k \in Nat : k < n => \A i \in 1 .. n : i < n - k => v[i] # v[n - k]}
  <2>1. 0 \in S
    <3> SUFFICES ASSUME NEW i \in 1 .. n, i < n PROVE v[i] # v[n]
      OBVIOUS
    <3> QED BY <1>6, <1>7 DEF None
  <2>2. ASSUME NEW k \in S PROVE k + 1 \in S
    <3> SUFFICES ASSUME k + 1 < n, NEW i \in 1 .. n, i < n - (k + 1) PROVE v[i] # v[n - (k + 1)]
      BY <2>2
    <3>0. k \in Nat /\ k < n
      BY <2>2
    <3>1. i + 1 \in 1 .. n /\ i + 1 < n - k /\ n - (k + 1) \in 1 .. n /\ n - (k + 1) + 1 = n - k
          /\ n - k \in 1 .. n /\ n - (k + 1) < n /\ i < n
      BY <3>0
    <3>2. v[i + 1] # v[n - k] /\ v[i + 1] \in files /\ v[n - k] \in files
      BY <1>2, <1>5, <2>2, <3>0, <3>1
    <3>3. v[i + 1].file # v[n - k].file
      BY <3>2 DEF Distinct, FilesDiffer
    <3>4. v[i].supersedes = {v[i + 1].file} /\ v[n - (k + 1)].supersedes = {v[n - k].file}
      BY <1>6, <3>1
    <3> QED BY <3>3, <3>4
  <2>3. S = Nat
    <3> HIDE DEF S
    <3>1. S \in SUBSET Nat
      BY DEF S
    <3> QED BY <2>1, <2>2, <3>1, AllNumbers
  <2>4. ASSUME NEW i \in 1 .. n, NEW j \in 1 .. n, i < j PROVE v[i] # v[j]
    <3>1. n - j \in Nat /\ n - j < n /\ n - (n - j) = j
      OBVIOUS
    <3> QED BY <2>3, <2>4, <3>1
  <2> QED BY <2>4
<1>9. \A r \in M : \E i \in 1 .. n : v[i] = r
  <2>1. v \in Injection(1 .. n, M)
    BY <1>5, <1>8 DEF Injection, IsInjective
  <2>2. Cardinality(1 .. n) = n
    BY FS_Interval
  <2>3. v \in Surjection(1 .. n, M)
    BY <1>2, <2>1, <2>2, FS_Injection
  <2> QED BY <2>3 DEF Surjection
<1> DEFINE q == [i \in 1 .. n |-> v[n + 1 - i]]
<1>10. q \in [1 .. n -> M] /\ DOMAIN q = 1 .. n
  BY <1>5
<1>11. \A r \in M : \E i \in 1 .. n : q[i] = r
  <2> SUFFICES ASSUME NEW r \in M PROVE \E i \in 1 .. n : q[i] = r
    OBVIOUS
  <2>1. PICK i \in 1 .. n : v[i] = r
    BY <1>9
  <2>2. n + 1 - i \in 1 .. n /\ n + 1 - (n + 1 - i) = i
    OBVIOUS
  <2> QED BY <2>1, <2>2
<1>12. q[1] = v[n]
  OBVIOUS
<1>13. \A i \in (1 .. n) \ {1} : q[i].supersedes = {q[i - 1].file}
  <2> SUFFICES ASSUME NEW i \in 1 .. n, i # 1 PROVE q[i].supersedes = {q[i - 1].file}
    OBVIOUS
  <2>1. n + 1 - i \in 1 .. n /\ n + 1 - i < n /\ n + 1 - i + 1 = n + 1 - (i - 1) /\ i - 1 \in 1 .. n
    OBVIOUS
  <2>2. q[i] = v[n + 1 - i] /\ q[i - 1] = v[n + 1 - i + 1]
    BY <2>1
  <2> QED BY <1>6, <2>1, <2>2
<1> HIDE DEF q
<1>14. q \in Orders(files, s)
  BY <1>7, <1>10, <1>11, <1>12, <1>13 DEF Orders
<1> QED BY <1>14

\* An order ends with the receipt that no other one supersedes.
LEMMA OrderFacts ==
  ASSUME NEW files, Distinct(files), NEW s, Members(files, s) # {}, NEW q \in Orders(files, s)
  PROVE  LET n == Cardinality(Members(files, s)) IN
         /\ n \in Nat \ {0} /\ q \in [1 .. n -> Members(files, s)] /\ Len(q) = n
         /\ \A r \in Members(files, s) : \E i \in 1 .. n : q[i] = r
         /\ q[1].supersedes = None
         /\ \A i \in 1 .. n : i # 1 => q[i].supersedes = {q[i - 1].file} /\ i - 1 \in 1 .. n
         /\ \A i, j \in 1 .. n : q[i] = q[j] => i = j
<1> DEFINE M == Members(files, s)
           n == Cardinality(M)
<1>1. M \subseteq files /\ IsFiniteSet(M)
  BY FS_Subset DEF Distinct, FilesDiffer, Members
<1>2. n \in Nat /\ n # 0
  BY <1>1, FS_CardinalityType, FS_EmptySet
<1>3. /\ q \in [1 .. n -> M] /\ DOMAIN q = 1 .. n
      /\ \A r \in M : \E i \in DOMAIN q : q[i] = r
      /\ q[1].supersedes = None
      /\ \A i \in DOMAIN q \ {1} : q[i].supersedes = {q[i - 1].file}
  BY DEF Orders
<1>4. Len(q) = n
  <2>1. q \in Seq(M)
    <3> HIDE DEF n, M
    <3> QED BY <1>2, <1>3, SeqDef
  <2> QED BY <1>2, <1>3, <2>1, LenProperties
<1>5. \A i, j \in 1 .. n : q[i] = q[j] => i = j
  <2>1. q \in Surjection(1 .. n, M)
    BY <1>3 DEF Surjection
  <2>2. IsFiniteSet(1 .. n) /\ Cardinality(1 .. n) = n
    BY <1>2, FS_Interval
  <2>3. q \in Injection(1 .. n, M)
    BY <2>1, <2>2, FS_SurjSameCardinalityImpliesInj
  <2> QED BY <1>3, <2>3 DEF Injection, IsInjective
<1> HIDE DEF M, n
<1>6. \A i \in 1 .. n : i # 1 => i - 1 \in 1 .. n
  BY <1>2
<1> QED BY <1>2, <1>3, <1>4, <1>5, <1>6 DEF n, M

\* An order ends at the one receipt nothing refers to.
LEMMA OrderEndsAtHead ==
  ASSUME NEW files, Distinct(files), NEW s, NEW head, Unreferenced(files, s) = {head},
         NEW q \in Orders(files, s)
  PROVE  q[Len(q)] = head
<1> DEFINE M == Members(files, s)
           n == Cardinality(M)
<1>1. head \in M /\ \A p \in files : head \notin Named(files, p)
  BY DEF Unreferenced
<1>2. /\ n \in Nat \ {0} /\ q \in [1 .. n -> M] /\ Len(q) = n
      /\ \A r \in M : \E i \in 1 .. n : q[i] = r
      /\ \A i \in 1 .. n : i # 1 => q[i].supersedes = {q[i - 1].file} /\ i - 1 \in 1 .. n
  BY <1>1, OrderFacts
<1>3. M \subseteq files
  BY DEF Members
<1> HIDE DEF n, M
<1>4. PICK i \in 1 .. n : q[i] = head
  BY <1>1, <1>2
<1>5. ASSUME i # n PROVE FALSE
  <2>1. i + 1 \in 1 .. n /\ i + 1 # 1 /\ i + 1 - 1 = i
    BY <1>2, <1>5
  <2>2. q[i + 1].supersedes = {q[i].file} /\ q[i + 1] \in files /\ q[i] \in files
    BY <1>2, <1>3, <2>1
  <2>3. head \in Named(files, q[i + 1])
    BY <1>4, <2>2 DEF Named
  <2> QED BY <1>1, <2>2, <2>3
<1> QED BY <1>2, <1>4, <1>5

\* Every receipt is well formed and speaks of the session its file is named after.
Sound(files) ==
  /\ \A r \in files : ValidReceipt(r) /\ r.claims = r.file.session
  /\ \A s \in Covered(files) : Orders(files, s) # {}

\* A covered session has receipts.
LEMMA CoveredMembers ==
  ASSUME NEW files, NEW s \in Covered(files) PROVE Members(files, s) # {}
BY DEF Covered, Members

\* Counting references and walking once is enough: what resolves is in order.
LEMMA ResolvableIsSound ==
  ASSUME NEW files, Distinct(files), Resolvable(files)
  PROVE  Sound(files)
<1>1. LinksResolve(files) /\ \A r \in files : ValidReceipt(r)
  BY DEF Resolvable
<1>2. \A r \in files : r.claims = r.file.session
  BY <1>1 DEF LinksResolve
<1>3. ASSUME NEW s \in Covered(files) PROVE Orders(files, s) # {}
  <2> DEFINE n == Cardinality(Members(files, s))
  <2>1. PICK head \in Unreferenced(files, s) : WalksAll(files, head, n)
    BY <1>3 DEF Resolvable
  <2>2. head \in Members(files, s) /\ head \in files
    BY <2>1 DEF Unreferenced, Members
  <2>3. n \in Nat \ {0}
    <3>1. IsFiniteSet(Members(files, s))
      BY FS_Subset DEF Distinct, FilesDiffer, Members
    <3> QED BY <2>2, <3>1, FS_CardinalityType, FS_EmptySet
  <2>4. PICK f : Walk(f, files, head, n) /\ f[n] # {} /\ f[n + 1] = {}
    <3> HIDE DEF n
    <3> QED BY <2>1, <2>2, <2>3, WalksAllMeans
  <2> HIDE DEF n
  <2> QED BY <1>1, <2>2, <2>3, <2>4, WalkIsOrder DEF n
<1> QED BY <1>1, <1>2, <1>3 DEF Sound

\* In an order each receipt names the one before it, and nothing else does.
LEMMA SoundLinks ==
  ASSUME NEW files, Distinct(files), Sound(files), NEW s \in Covered(files),
         NEW q \in Orders(files, s), NEW r \in files, NEW i \in 1 .. Cardinality(Members(files, s)),
         q[i] = r
  PROVE  /\ Named(files, r) = IF i = 1 THEN {} ELSE {q[i - 1]}
         /\ i = 1 => r.supersedes = None
<1> DEFINE M == Members(files, s)
           n == Cardinality(M)
<1>1. /\ q \in [1 .. n -> M] /\ q[1].supersedes = None
      /\ \A j \in 1 .. n : j # 1 => q[j].supersedes = {q[j - 1].file} /\ j - 1 \in 1 .. n
  BY CoveredMembers, OrderFacts
<1>2. M \subseteq files
  BY DEF Members
<1> HIDE DEF n, M
<1>3. CASE i = 1
  BY <1>1, <1>3 DEF Named, None
<1>4. CASE i # 1
  <2>1. i \in 1 .. n
    BY DEF n, M
  <2>2. r.supersedes = {q[i - 1].file} /\ q[i - 1] \in files
    BY <1>1, <1>2, <1>4, <2>1
  <2>3. q[i - 1] \in Named(files, r)
    BY <2>2 DEF Named
  <2> QED BY <1>4, <2>3, NamedIsOne
<1> QED BY <1>3, <1>4

\* A receipt and what it names have one session.
LEMMA SoundSession ==
  ASSUME NEW files, Distinct(files), Sound(files), NEW r \in files, NEW p \in Named(files, r)
  PROVE  p.file.session = r.file.session
<1> DEFINE s == r.file.session
           M == Members(files, s)
           n == Cardinality(M)
<1>1. s \in Covered(files) /\ r \in M
  BY DEF Covered, Members
<1>2. PICK q : q \in Orders(files, s)
  BY <1>1 DEF Sound
<1>3. /\ q \in [1 .. n -> M] /\ \A x \in M : \E i \in 1 .. n : q[i] = x
      /\ \A j \in 1 .. n : j # 1 => j - 1 \in 1 .. n
  BY <1>1, <1>2, CoveredMembers, OrderFacts
<1>4. PICK i \in 1 .. n : q[i] = r
  BY <1>1, <1>3
<1>5. Named(files, r) = IF i = 1 THEN {} ELSE {q[i - 1]}
  BY <1>1, <1>2, <1>4, SoundLinks
<1>6. i # 1 /\ p = q[i - 1] /\ q[i - 1] \in M
  BY <1>3, <1>5
<1> QED BY <1>6 DEF Members

\* In a sound campaign every link leads to a receipt of its session.
LEMMA SoundResolves == ASSUME NEW files, Distinct(files), Sound(files) PROVE LinksResolve(files)
<1> SUFFICES ASSUME NEW r \in files, r.supersedes # None PROVE Named(files, r) # {}
  BY SoundSession DEF LinksResolve, Sound
<1> DEFINE s == r.file.session
           M == Members(files, s)
           n == Cardinality(M)
<1>1. s \in Covered(files) /\ r \in M
  BY DEF Covered, Members
<1>2. PICK q : q \in Orders(files, s)
  BY <1>1 DEF Sound
<1>3. \A x \in M : \E i \in 1 .. n : q[i] = x
  BY <1>1, <1>2, CoveredMembers, OrderFacts
<1>4. PICK i \in 1 .. n : q[i] = r
  BY <1>1, <1>3
<1> QED BY <1>1, <1>2, <1>4, SoundLinks

\* The last receipt of the order is the one that is not superseded.
LEMMA SoundHead ==
  ASSUME NEW files, Distinct(files), Sound(files), NEW s \in Covered(files),
         NEW q \in Orders(files, s)
  PROVE  Unreferenced(files, s) = {q[Cardinality(Members(files, s))]}
<1> DEFINE M == Members(files, s)
           n == Cardinality(M)
<1>1. /\ n \in Nat \ {0} /\ q \in [1 .. n -> M]
      /\ \A x \in M : \E i \in 1 .. n : q[i] = x
      /\ \A j \in 1 .. n : j # 1 => q[j].supersedes = {q[j - 1].file} /\ j - 1 \in 1 .. n
      /\ \A i, j \in 1 .. n : q[i] = q[j] => i = j
  BY CoveredMembers, OrderFacts
<1>2. M \subseteq files /\ \A x \in files : x \in M <=> x.file.session = s
  BY DEF Members
<1>3. \A i \in 1 .. n : Named(files, q[i]) = IF i = 1 THEN {} ELSE {q[i - 1]}
  <2> SUFFICES ASSUME NEW i \in 1 .. n PROVE Named(files, q[i]) = IF i = 1 THEN {} ELSE {q[i - 1]}
    OBVIOUS
  <2>1. q[i] \in files
    BY <1>1, <1>2
  <2> QED BY <2>1, SoundLinks
<1> HIDE DEF n, M
<1>4. \A x \in files : q[n] \notin Named(files, x)
  <2> SUFFICES ASSUME NEW x \in files, q[n] \in Named(files, x) PROVE FALSE
    OBVIOUS
  <2>1. q[n] \in M
    BY <1>1
  <2>2. x \in M
    BY <1>2, <2>1, SoundSession
  <2>3. PICK i \in 1 .. n : q[i] = x
    BY <1>1, <2>2
  <2>4. i # 1 /\ q[n] = q[i - 1] /\ i - 1 \in 1 .. n
    BY <1>1, <1>3, <2>3
  <2> QED BY <1>1, <2>4
<1>5. \A x \in M : x # q[n] => \E y \in files : x \in Named(files, y)
  <2> SUFFICES ASSUME NEW x \in M, x # q[n] PROVE \E y \in files : x \in Named(files, y)
    OBVIOUS
  <2>1. PICK i \in 1 .. n : q[i] = x
    BY <1>1
  <2>2. i + 1 \in 1 .. n /\ i + 1 # 1 /\ i + 1 - 1 = i
    BY <1>1, <2>1
  <2>3. x \in Named(files, q[i + 1]) /\ q[i + 1] \in files
    BY <1>1, <1>2, <1>3, <2>1, <2>2
  <2> QED BY <2>3
<1>6. q[n] \in M
  BY <1>1
<1> QED BY <1>4, <1>5, <1>6 DEF Unreferenced, n, M

\* What is in order resolves.
LEMMA SoundIsResolvable ==
  ASSUME NEW files, Distinct(files), Sound(files)
  PROVE  Resolvable(files)
<1>1. ASSUME NEW s \in Covered(files)
      PROVE  \E head \in Unreferenced(files, s) :
               /\ Unreferenced(files, s) = {head}
               /\ WalksAll(files, head, Cardinality(Members(files, s)))
  <2> DEFINE M == Members(files, s)
             n == Cardinality(M)
  <2>1. PICK q : q \in Orders(files, s)
    BY <1>1 DEF Sound
  <2>2. n \in Nat \ {0} /\ q \in [1 .. n -> M]
    BY <2>1, CoveredMembers, OrderFacts
  <2>3. M \subseteq files
    BY DEF Members
  <2>4. \A i \in 1 .. n : Named(files, q[i]) = IF i = 1 THEN {} ELSE {q[i - 1]}
    <3> SUFFICES ASSUME NEW i \in 1 .. n PROVE Named(files, q[i]) = IF i = 1 THEN {} ELSE {q[i - 1]}
      OBVIOUS
    <3>1. q[i] \in files /\ i \in 1 .. Cardinality(Members(files, s))
      BY <2>2, <2>3
    <3> HIDE DEF n, M
    <3>2. \A x \in files : q[i] = x => Named(files, x) = IF i = 1 THEN {} ELSE {q[i - 1]}
      BY <1>1, <2>1, <3>1, SoundLinks
    <3> QED BY <3>1, <3>2
  <2>5. Unreferenced(files, s) = {q[n]}
    BY <2>1, SoundHead
  <2> HIDE DEF n, M
  <2>6. q[n] \in files /\ n \in Nat
    BY <2>2, <2>3
  <2>7. PICK f : /\ Walk(f, files, q[n], n)
                 /\ WalksAll(files, q[n], n) <=> f[n] # {} /\ f[n + 1] = {}
    BY <2>6, WalksAllMeans
  <2>8. Steps(f, files, q[n], n)
    BY <2>6, <2>7, WalkSteps
  <2>9. \A i \in 1 .. n : f[i] = {q[n + 1 - i]}
    <3> DEFINE S == {k \in Nat : k < n => f[k + 1] = {q[n - k]}}
    <3>1. 0 \in S
      BY <2>8, <2>6 DEF Steps
    <3>2. ASSUME NEW k \in S PROVE k + 1 \in S
      <4> SUFFICES ASSUME k + 1 < n PROVE f[k + 1 + 1] = {q[n - (k + 1)]}
        BY <3>2
      <4>1. k \in Nat /\ k < n /\ k + 1 \in 1 .. n /\ n - k \in 1 .. n /\ n - k # 1
            /\ n - k - 1 = n - (k + 1)
        BY <2>6, <3>2
      <4>2. f[k + 1] = {q[n - k]} /\ q[n - k] \in files
        BY <2>2, <2>3, <3>2, <4>1
      <4>3. f[k + 1 + 1] = Named(files, q[n - k])
        BY <2>8, <4>1, <4>2 DEF Steps
      <4> QED BY <2>4, <4>1, <4>3
    <3>3. S = Nat
      <4> HIDE DEF S
      <4>1. S \in SUBSET Nat
        BY DEF S
      <4> QED BY <3>1, <3>2, <4>1, AllNumbers
    <3> SUFFICES ASSUME NEW i \in 1 .. n PROVE f[i] = {q[n + 1 - i]}
      OBVIOUS
    <3>4. i - 1 \in Nat /\ i - 1 < n /\ i - 1 + 1 = i /\ n - (i - 1) = n + 1 - i
      BY <2>6
    <3> QED BY <3>3, <3>4
  <2>10. 1 \in 1 .. n /\ n \in 1 .. n /\ n + 1 - n = 1
    BY <2>2
  <2>11. f[n] = {q[1]} /\ q[1] \in files /\ Named(files, q[1]) = {}
    BY <2>2, <2>3, <2>4, <2>9, <2>10
  <2>12. f[n + 1] = {}
    BY <2>8, <2>10, <2>11 DEF Steps
  <2>13. WalksAll(files, q[n], n)
    BY <2>7, <2>11, <2>12
  <2> QED BY <2>5, <2>13 DEF n, M
<1> QED BY <1>1, SoundResolves DEF Resolvable, Sound

\* The effective receipts of a sound campaign are the ends of the orders.
LEMMA EffectiveHeads ==
  ASSUME NEW files, Distinct(files), Sound(files)
  PROVE  /\ DOMAIN Effective(files) = Covered(files)
         /\ \A s \in Covered(files) : \A q \in Orders(files, s) :
              /\ Effective(files)[s].head = q[Len(q)]
              /\ Effective(files)[s].depth \in Nat \ {0}
<1>1. Resolvable(files)
  BY SoundIsResolvable
<1>2. Effective(files) = [s \in Covered(files) |->
           [head |-> CHOOSE r \in Unreferenced(files, s) : TRUE,
            depth |-> Cardinality(Members(files, s))]]
  BY <1>1 DEF Effective
<1>3. ASSUME NEW s \in Covered(files), NEW q \in Orders(files, s)
      PROVE  /\ Effective(files)[s].head = q[Len(q)]
             /\ Effective(files)[s].depth \in Nat \ {0}
  <2> DEFINE n == Cardinality(Members(files, s))
  <2>1. n \in Nat \ {0} /\ Len(q) = n
    BY CoveredMembers, OrderFacts
  <2>2. Unreferenced(files, s) = {q[n]}
    BY SoundHead
  <2>3. Effective(files)[s] = [head |-> CHOOSE r \in Unreferenced(files, s) : TRUE, depth |-> n]
    BY <1>2
  <2> HIDE DEF n
  <2>4. (CHOOSE r \in Unreferenced(files, s) : TRUE) = q[n]
    BY <2>2
  <2> QED BY <2>1, <2>3, <2>4
<1> QED BY <1>2, <1>3

-----------------------------------------------------------------------------
(* The pass.                                                                *)
\* The receipts are distinct files and no commit goes uncounted.
CampaignOK ==
  /\ campaign \in CampaignType /\ Distinct(campaign.receipts)
  /\ version \in Nat

ReportFields ==
  {"chain", "healthy", "reconciled", "complete", "missing", "digest", "superseded", "count",
   "source", "recovery", "remap", "sourceErrors", "uncovered", "checked", "coverage",
   "concurrent"}

PassFields ==
  {"pc", "options", "unread", "files", "effective", "todo", "variants", "delta", "before", "snapshot",
   "healthy", "progress", "final", "report"}

Underway == {"pins", "version", "begin", "reconcile", "check", "done"}

PassShape ==
  /\ DOMAIN pass = PassFields /\ DOMAIN pass.report = ReportFields
  /\ pass.pc \in {"idle", "list", "stopped"} \cup Underway

\* What is being read is there, and what was resolved is what was read, whatever
\* is written since.
FilesResolved ==
  /\ pass.pc \in {"idle", "list"} => pass.files \subseteq campaign.receipts
  /\ pass.pc \in Underway =>
       /\ Distinct(pass.files) /\ pass.effective = Effective(pass.files)
       /\ pass.report.chain <=> ~ Resolvable(pass.files)

\* A version that has not moved is a destination that has not moved.
VersionTells ==
  /\ pass.pc \in {"begin", "reconcile", "check", "done"} =>
       pass.before \in Nat /\ pass.before <= version
  /\ pass.pc \in {"reconcile", "check"} /\ pass.before = version =>
       campaign.destination = pass.snapshot
  /\ pass.pc = "done" /\ ~ pass.report.concurrent => pass.final = {pass.snapshot}

\* A complete pass has an inventory that reconciles, and leaves no session out.
CompleteIsAll ==
  /\ pass.pc \in {"check", "done"} /\ pass.report.complete =>
       /\ \E p \in pass.progress : p.complete /\ Reconciles(p)
       /\ DOMAIN pass.effective \subseteq pass.report.checked \cup pass.todo
  /\ pass.pc = "done" => pass.todo = {}

\* What a report attests of a session it does not name in its findings.
HeldAsAttested(snapshot, report, s, r) ==
  \A c \in snapshot[s] :
    /\ s \notin report.digest \cup report.superseded => Digest(c) = r.digest
    /\ s \notin report.count => Len(c.messages) = r.messages

DerivedAsAttested(report, s, r) ==
  s \notin report.sourceErrors =>
    /\ s \notin report.source => \E o \in Inputs(s, r) : Digest(o) = r.input
    /\ s \notin report.remap /\ r.kind = "divergent-variant" =>
         \A o \in r.origin : VariantSession(r.source, o, r.attempt) = s

Early == {"idle", "list", "pins", "version", "begin", "reconcile"}

NoneChecked == pass.pc \in Early => pass.report.checked = {}

CheckedIsAttested ==
  pass.pc \in {"check", "done"} =>
    \A s \in pass.report.checked :
      /\ s \in DOMAIN pass.effective =>
           HeldAsAttested(pass.snapshot, pass.report, s, pass.effective[s].head)
      /\ s \in DOMAIN pass.effective /\ Opts.sources =>
           DerivedAsAttested(pass.report, s, pass.effective[s].head)

CampaignInv ==
  /\ CampaignOK /\ PassShape /\ FilesResolved /\ VersionTells /\ CompleteIsAll
  /\ NoneChecked /\ CheckedIsAttested

\* What is effective has a place in the chain of its session.
LEMMA EffectiveDepth ==
  ASSUME NEW files, Distinct(files), NEW s \in DOMAIN Effective(files)
  PROVE  /\ Resolvable(files) /\ s \in Covered(files)
         /\ Effective(files)[s].depth \in Nat \ {0}
<1>1. Resolvable(files)
  BY DEF Effective
<1>2. Sound(files)
  BY <1>1, ResolvableIsSound
<1>3. s \in Covered(files)
  BY <1>2, EffectiveHeads
<1>4. PICK q : q \in Orders(files, s)
  BY <1>2, <1>3 DEF Sound
<1> QED BY <1>1, <1>2, <1>3, <1>4, EffectiveHeads

\* The checks of a session only add findings, and leave the verdicts alone.
LEMMA BindingReports ==
  ASSUME NEW report, DOMAIN report = ReportFields, NEW s, NEW r
  PROVE  LET b == BindProvenance(report, s, r) IN
         /\ DOMAIN b = ReportFields
         /\ \A f \in ReportFields \ {"uncovered", "sourceErrors"} : b[f] = report[f]
         /\ report.sourceErrors \subseteq b.sourceErrors
BY DEF BindProvenance, ReportFields

\* The comparison with the destination.
LEMMA ComparisonReports ==
  ASSUME NEW report, DOMAIN report = ReportFields, NEW s, NEW r, NEW depth
  PROVE  LET b == CompareDestination(report, s, r, depth) IN
         /\ DOMAIN b = ReportFields
         /\ \A f \in ReportFields \ {"missing", "digest", "superseded", "count"} : b[f] = report[f]
         /\ report.digest \subseteq b.digest /\ report.superseded \subseteq b.superseded
         /\ report.count \subseteq b.count
         /\ depth \in Nat \ {0} => HeldAsAttested(pass.snapshot, b, s, r)
<1> DEFINE b == CompareDestination(report, s, r, depth)
<1>1. /\ DOMAIN b = ReportFields
      /\ \A f \in ReportFields \ {"missing", "digest", "superseded", "count"} : b[f] = report[f]
  BY DEF CompareDestination, ReportFields
<1> DEFINE differs == \E c \in pass.snapshot[s] : Digest(c) # r.digest
<1>2. /\ b.digest = report.digest \cup In(s, differs /\ depth = 1)
      /\ b.superseded = report.superseded \cup In(s, differs /\ depth > 1)
      /\ b.count = report.count \cup In(s, \E c \in pass.snapshot[s] : Len(c.messages) # r.messages)
  BY DEF CompareDestination, ReportFields
<1> HIDE DEF b
<1>3. depth \in Nat \ {0} =>
        \A c \in pass.snapshot[s] : s \notin b.digest \cup b.superseded => Digest(c) = r.digest
  BY <1>2 DEF In
<1>4. \A c \in pass.snapshot[s] : s \notin b.count => Len(c.messages) = r.messages
  BY <1>2 DEF In
<1>5. depth \in Nat \ {0} => HeldAsAttested(pass.snapshot, b, s, r)
  BY <1>3, <1>4 DEF HeldAsAttested
<1> QED BY <1>1, <1>2, <1>5 DEF b

\* The comparison with the frozen sources.
LEMMA SourceReports ==
  ASSUME NEW report, DOMAIN report = ReportFields, NEW s, NEW r
  PROVE  LET b == CompareSources(report, s, r) IN
         /\ DOMAIN b = ReportFields
         /\ \A f \in ReportFields \ {"sourceErrors", "source", "recovery", "remap", "coverage"} :
              b[f] = report[f]
         /\ report.sourceErrors \subseteq b.sourceErrors /\ report.source \subseteq b.source
         /\ report.remap \subseteq b.remap
         /\ DerivedAsAttested(b, s, r)
<1> DEFINE b == CompareSources(report, s, r)
<1>1. /\ DOMAIN b = ReportFields
      /\ \A f \in ReportFields \ {"sourceErrors", "source", "recovery", "remap", "coverage"} :
           b[f] = report[f]
  BY DEF CompareSources, ReportFields
<1>2. /\ b.sourceErrors = report.sourceErrors \cup In(s, Inputs(s, r) = {})
      /\ b.source = report.source \cup In(s, \E c \in Inputs(s, r) : Digest(c) # r.input)
      /\ b.remap = report.remap \cup In(s, SourceOf(r) # {} /\ r.kind = "divergent-variant"
                                             /\ ~ RemapAgrees(r, s))
  BY DEF CompareSources, ReportFields
<1> HIDE DEF b
<1>3. ASSUME s \notin b.sourceErrors, s \notin b.source PROVE \E o \in Inputs(s, r) : Digest(o) = r.input
  BY <1>2, <1>3 DEF In
<1>4. ASSUME s \notin b.sourceErrors, s \notin b.remap, r.kind = "divergent-variant"
      PROVE  \A o \in r.origin : VariantSession(r.source, o, r.attempt) = s
  <2>1. Inputs(s, r) # {}
    BY <1>2, <1>4 DEF In
  <2>2. SourceOf(r) # {}
    BY <2>1 DEF Inputs
  <2>3. RemapAgrees(r, s)
    BY <1>2, <1>4, <2>2 DEF In
  <2> QED BY <2>3 DEF RemapAgrees
<1>5. DerivedAsAttested(b, s, r)
  BY <1>3, <1>4 DEF DerivedAsAttested
<1> QED BY <1>1, <1>2, <1>5 DEF b

\* A change of the campaign keeps its files apart, and moves the destination
\* only with the version.
Outside ==
  /\ CampaignOK' /\ UNCHANGED pass /\ campaign.receipts \subseteq campaign'.receipts
  /\ version' >= version /\ (version' = version => campaign'.destination = campaign.destination)

\* A write to the destination counts as a commit.
LEMMA WritesStayOutside ==
  ASSUME CampaignOK,
         (\E s \in Session : DriverWrites(s) \/ SessionRemoved(s)) \/ DestinationDamaged
  PROVE  Outside
<1>0. campaign.changes < MaxChanges /\ version' = version + 1 /\ UNCHANGED pass
  BY DEF DriverWrites, SessionRemoved, DestinationDamaged, Changes
<1> USE DEF CampaignOK, CampaignType, Changes
<1>1. campaign.changes + 1 \in 0 .. MaxChanges
  BY <1>0, StagedAssumption
<1>2. PICK d \in [Session -> SUBSET Content], h \in BOOLEAN :
        campaign' = [campaign EXCEPT !.destination = d, !.healthy = h, !.changes = @ + 1]
  <2>1. CASE \E s \in Session : DriverWrites(s)
    <3>0. PICK s \in Session : DriverWrites(s)
      BY <2>1
    <3>1. PICK c \in Content : campaign' = [[campaign EXCEPT !.destination[s] = {c}] EXCEPT !.changes = @ + 1]
      BY <3>0 DEF DriverWrites
    <3>2. [campaign.destination EXCEPT ![s] = {c}] \in [Session -> SUBSET Content]
      OBVIOUS
    <3>3. campaign' = [campaign EXCEPT !.destination = [campaign.destination EXCEPT ![s] = {c}],
                                       !.healthy = campaign.healthy, !.changes = @ + 1]
      BY <3>1
    <3> QED BY <3>2, <3>3
  <2>2. CASE \E s \in Session : SessionRemoved(s)
    <3>0. PICK s \in Session : SessionRemoved(s)
      BY <2>2
    <3>1. campaign' = [[campaign EXCEPT !.destination[s] = None] EXCEPT !.changes = @ + 1]
      BY <3>0 DEF SessionRemoved
    <3>2. [campaign.destination EXCEPT ![s] = None] \in [Session -> SUBSET Content]
      BY DEF None
    <3>3. campaign' = [campaign EXCEPT !.destination = [campaign.destination EXCEPT ![s] = None],
                                       !.healthy = campaign.healthy, !.changes = @ + 1]
      BY <3>1
    <3> QED BY <3>2, <3>3
  <2>3. CASE DestinationDamaged
    <3>1. campaign' = [campaign EXCEPT !.destination = campaign.destination,
                                       !.healthy = FALSE, !.changes = @ + 1]
      BY <2>3 DEF DestinationDamaged
    <3> QED BY <3>1
  <2> QED BY <2>1, <2>2, <2>3
<1>3. campaign' \in CampaignType /\ campaign'.receipts = campaign.receipts
  BY <1>1, <1>2
<1> QED BY <1>0, <1>1, <1>2, <1>3 DEF Outside

\* The progress file stays one.
LEMMA ProgressTyped ==
  ASSUME NEW old \in InventoryType, NEW s \in Session
  PROVE  /\ [old EXCEPT !.verified = @ \cup {s}, !.total = @ + 1] \in InventoryType
         /\ [old EXCEPT !.errors = 1, !.total = @ + 1] \in InventoryType
         /\ [old EXCEPT !.complete = TRUE] \in InventoryType
<1>1. old.total + 1 \in Nat /\ old.verified \cup {s} \in SUBSET Session
  BY DEF InventoryType
<1>2. ASSUME NEW n \in Nat, NEW v \in SUBSET Session
      PROVE  /\ [old EXCEPT !.verified = v, !.total = n] \in InventoryType
             /\ [old EXCEPT !.errors = 1, !.total = n] \in InventoryType
             /\ [old EXCEPT !.complete = TRUE] \in InventoryType
  BY DEF InventoryType
<1> QED BY <1>1, <1>2

\* Receipts are added under new names, and progress stays a progress file.
LEMMA FilesStayOutside ==
  ASSUME CampaignOK,
         (\E r \in Receipt : DriverReceipts(r)) \/ (\E s \in Session : DriverProgress(s))
  PROVE  Outside
<1>0. campaign.changes < MaxChanges /\ UNCHANGED <<version, pass>>
  BY DEF DriverReceipts, DriverProgress, Changes
<1> USE DEF CampaignOK, CampaignType, Changes
<1>1. campaign.changes + 1 \in 0 .. MaxChanges
  BY <1>0, StagedAssumption
<1>2. PICK files \in SUBSET Receipt, p \in InventoryType :
        /\ Distinct(files) /\ campaign.receipts \subseteq files
        /\ campaign' = [campaign EXCEPT !.receipts = files, !.progress = p, !.changes = @ + 1]
  <2>1. CASE \E r \in Receipt : DriverReceipts(r)
    <3>1. PICK r \in Receipt : DriverReceipts(r)
      BY <2>1
    <3>2. campaign' = [campaign EXCEPT !.receipts = campaign.receipts \cup {r},
                                       !.progress = campaign.progress, !.changes = @ + 1]
      BY <3>1 DEF DriverReceipts
    <3>3. IsFiniteSet(campaign.receipts \cup {r})
      BY FS_AddElement DEF Distinct, FilesDiffer
    <3>4. Distinct(campaign.receipts \cup {r})
      BY <3>1, <3>3 DEF Distinct, FilesDiffer, DriverReceipts
    <3> QED BY <3>2, <3>4
  <2>2. CASE \E s \in Session : DriverProgress(s)
    <3>1. PICK s \in Session : DriverProgress(s)
      BY <2>2
    <3> DEFINE old == campaign.progress
    <3>2. PICK p \in InventoryType :
            campaign' = [[campaign EXCEPT !.progress = p] EXCEPT !.changes = @ + 1]
      <4>1. old \in InventoryType
        OBVIOUS
      <4>2. CASE campaign' = [[campaign EXCEPT !.progress.verified = @ \cup {s}, !.progress.total = @ + 1]
                               EXCEPT !.changes = @ + 1]
        BY <4>1, <4>2, ProgressTyped
      <4>3. CASE campaign' = [[campaign EXCEPT !.progress.errors = 1, !.progress.total = @ + 1]
                               EXCEPT !.changes = @ + 1]
        BY <4>1, <4>3, ProgressTyped
      <4>4. CASE campaign' = [[campaign EXCEPT !.progress.complete = TRUE] EXCEPT !.changes = @ + 1]
        BY <4>1, <4>4, ProgressTyped
      <4> QED BY <3>1, <4>2, <4>3, <4>4 DEF DriverProgress
    <3>3. campaign' = [campaign EXCEPT !.receipts = campaign.receipts, !.progress = p, !.changes = @ + 1]
      BY <3>2
    <3> QED BY <3>3
  <2> QED BY <2>1, <2>2
<1>3. campaign' \in CampaignType /\ campaign'.receipts = files
  BY <1>1, <1>2
<1> QED BY <1>0, <1>2, <1>3 DEF Outside

\* The process keeps what it read while the campaign moves on.
LEMMA OutsideKeeps ==
  ASSUME CampaignInv, Outside
  PROVE  CampaignInv'
<1>1. CampaignOK' /\ pass' = pass
  BY DEF Outside
<1>2. PassShape' /\ FilesResolved' /\ CompleteIsAll' /\ NoneChecked' /\ CheckedIsAttested'
  BY <1>1 DEF CampaignInv, NoneChecked, PassShape, FilesResolved, CompleteIsAll, CheckedIsAttested, Reconciles,
              Sanctioned, HeldAsAttested, DerivedAsAttested, Opts, Outside
<1>3. VersionTells'
  BY <1>1 DEF CampaignInv, VersionTells, Outside, CampaignOK
<1> QED BY <1>1, <1>2, <1>3 DEF CampaignInv

\* The process itself writes nothing.
OnlyReads == UNCHANGED <<campaign, version>>

\* Reading changes nothing outside.
LEMMA ReadsKeep == ASSUME CampaignOK, OnlyReads PROVE CampaignOK'
BY DEF CampaignOK, OnlyReads

\* A pass that stops reports nothing.
LEMMA StopKeeps ==
  ASSUME CampaignInv, OnlyReads, Stopped
  PROVE  CampaignInv'
<1>1. pass'.pc = "stopped" /\ PassShape'
  BY DEF CampaignInv, PassShape, PassFields, Stopped, Underway
<1>2. FilesResolved' /\ VersionTells' /\ CompleteIsAll' /\ NoneChecked' /\ CheckedIsAttested'
  BY <1>1 DEF Early, NoneChecked, FilesResolved, VersionTells, CompleteIsAll, CheckedIsAttested, Underway
<1> QED BY <1>1, <1>2, ReadsKeep DEF CampaignInv

\* The beginning of a pass and every directory read leave what it resolves open.
LEMMA ListingKeeps ==
  ASSUME CampaignInv, (\E o \in Options : BeginPass(o)) \/ ReadJournal
  PROVE  CampaignInv'
<1>0. OnlyReads /\ pass.pc \in {"idle", "list"}
  BY DEF BeginPass, ReadJournal, OnlyReads
<1>1. /\ PassShape' /\ pass'.pc = "list" /\ pass'.files \subseteq campaign.receipts
      /\ pass'.report = pass.report
  <2>1. CASE \E o \in Options : BeginPass(o)
    BY <2>1 DEF BeginPass, CampaignInv, PassShape, PassFields, FilesResolved
  <2>2. CASE ReadJournal
    BY <2>2 DEF ReadJournal, CampaignInv, PassShape, PassFields, FilesResolved
  <2> QED BY <2>1, <2>2
<1>2. FilesResolved' /\ VersionTells' /\ CompleteIsAll' /\ NoneChecked' /\ CheckedIsAttested'
  BY <1>0, <1>1 DEF CampaignInv, Early, Underway, FilesResolved, NoneChecked, VersionTells, CompleteIsAll,
                    CheckedIsAttested, OnlyReads
<1> QED BY <1>0, <1>1, <1>2, ReadsKeep DEF CampaignInv

\* What was read is resolved at once.
LEMMA ResolveReceiptsKeeps ==
  ASSUME CampaignInv, ResolveReceipts
  PROVE  CampaignInv'
<1>0. OnlyReads /\ pass.pc = "list"
  BY DEF ResolveReceipts, OnlyReads
<1> DEFINE effective == Effective(pass.files)
<1>1. CASE Stopped
  BY <1>0, <1>1, StopKeeps
<1>2. CASE ~ Stopped
  <2>1. PICK chosen :
          pass' = [pass EXCEPT !.pc = "pins", !.effective = effective, !.todo = chosen,
                               !.report.chain = ~ Resolvable(pass.files)]
    BY <1>2 DEF ResolveReceipts
  <2> HIDE DEF effective
  <2>2. /\ PassShape' /\ pass'.pc = "pins" /\ pass'.files = pass.files /\ pass'.effective = effective
        /\ pass'.report.chain = (~ Resolvable(pass.files))
        /\ pass'.report.checked = pass.report.checked
    BY <2>1 DEF CampaignInv, PassShape, PassFields, ReportFields, Underway
  <2>3. Distinct(pass.files)
    BY <1>0, FS_Subset DEF CampaignInv, CampaignOK, FilesResolved, Distinct, FilesDiffer
  <2>4. FilesResolved'
    BY <2>2, <2>3 DEF FilesResolved, effective
  <2>5. VersionTells' /\ CompleteIsAll' /\ NoneChecked' /\ CheckedIsAttested'
    BY <1>0, <2>2 DEF CampaignInv, Early, NoneChecked, VersionTells, CompleteIsAll, CheckedIsAttested
  <2> QED BY <1>0, <2>2, <2>4, <2>5, ReadsKeep DEF CampaignInv
<1> QED BY <1>1, <1>2

\* A step of the pass that leaves what was resolved alone.
SameFiles ==
  /\ PassShape' /\ pass.pc \in Underway /\ pass'.pc \in Underway
  /\ pass'.files = pass.files /\ pass'.effective = pass.effective
  /\ pass'.report.chain = pass.report.chain /\ pass'.report.checked = pass.report.checked
  /\ pass'.pc \in Early => pass.pc \in Early

\* What was resolved stays resolved.
LEMMA SameFilesKeeps ==
  ASSUME FilesResolved, NoneChecked, SameFiles
  PROVE  FilesResolved' /\ NoneChecked'
BY DEF FilesResolved, NoneChecked, SameFiles, Underway

\* The pins say nothing of receipts or versions.
LEMMA LoadPinsKeeps ==
  ASSUME CampaignInv, LoadPins
  PROVE  CampaignInv'
<1>0. OnlyReads /\ pass.pc = "pins"
  BY DEF LoadPins, OnlyReads
<1>1. CASE Stopped
  BY <1>0, <1>1, StopKeeps
<1>2. CASE ~ Stopped
  <2>1. PICK variants, delta :
          pass' = [pass EXCEPT !.pc = "version", !.variants = variants, !.delta = delta]
    BY <1>2 DEF LoadPins
  <2>2. SameFiles /\ pass'.pc = "version"
    BY <1>0, <2>1 DEF CampaignInv, PassShape, PassFields, ReportFields, SameFiles, Underway, Early
  <2>3. VersionTells' /\ CompleteIsAll' /\ CheckedIsAttested'
    BY <2>2 DEF VersionTells, CompleteIsAll, CheckedIsAttested
  <2> QED BY <1>0, <2>2, <2>3, ReadsKeep, SameFilesKeeps DEF CampaignInv, SameFiles
<1> QED BY <1>1, <1>2

\* The version is read before the snapshot.
LEMMA ReadVersionKeeps ==
  ASSUME CampaignInv, ReadVersion
  PROVE  CampaignInv'
<1>0. OnlyReads /\ pass.pc = "version" /\ pass' = [pass EXCEPT !.pc = "begin", !.before = version]
  BY DEF ReadVersion, OnlyReads
<1>1. SameFiles /\ pass'.pc = "begin" /\ pass'.before = version
  BY <1>0 DEF CampaignInv, PassShape, PassFields, ReportFields, SameFiles, Underway, Early
<1>2. VersionTells'
  BY <1>0, <1>1 DEF CampaignInv, CampaignOK, VersionTells, OnlyReads
<1>3. CompleteIsAll' /\ CheckedIsAttested'
  BY <1>1 DEF CompleteIsAll, CheckedIsAttested
<1> QED BY <1>0, <1>1, <1>2, <1>3, ReadsKeep, SameFilesKeeps DEF CampaignInv, SameFiles

\* The snapshot is the destination as it is now.
LEMMA BeginSnapshotKeeps ==
  ASSUME CampaignInv, BeginSnapshot
  PROVE  CampaignInv'
<1>0. /\ OnlyReads /\ pass.pc = "begin"
      /\ pass' = [pass EXCEPT !.pc = "reconcile", !.snapshot = campaign.destination,
                          !.healthy = campaign.healthy, !.report.healthy = campaign.healthy]
  BY DEF BeginSnapshot, OnlyReads
<1>1. /\ SameFiles /\ pass'.pc = "reconcile" /\ pass'.before = pass.before
      /\ pass'.snapshot = campaign.destination
  BY <1>0 DEF CampaignInv, PassShape, PassFields, ReportFields, SameFiles, Underway, Early
<1>2. VersionTells'
  BY <1>0, <1>1 DEF CampaignInv, CampaignOK, VersionTells, OnlyReads
<1>3. CompleteIsAll' /\ CheckedIsAttested'
  BY <1>1 DEF CompleteIsAll, CheckedIsAttested
<1> QED BY <1>0, <1>1, <1>2, <1>3, ReadsKeep, SameFilesKeeps DEF CampaignInv, SameFiles

\* The version that is read again tells whether the destination moved.
LEMMA FinishSnapshotKeeps ==
  ASSUME CampaignInv, FinishSnapshot
  PROVE  CampaignInv'
<1>0. /\ OnlyReads /\ pass.pc = "check" /\ pass.todo = {}
      /\ pass' = [pass EXCEPT !.pc = "done", !.final = {campaign.destination},
                              !.report.concurrent = version # pass.before]
  BY DEF FinishSnapshot, OnlyReads
<1> DEFINE Others == ReportFields \ {"concurrent"}
<1>1. /\ SameFiles /\ pass'.pc = "done" /\ pass'.before = pass.before /\ pass'.todo = {}
      /\ pass'.snapshot = pass.snapshot /\ pass'.final = {campaign.destination}
      /\ pass'.options = pass.options /\ pass'.progress = pass.progress
      /\ pass'.variants = pass.variants /\ pass'.delta = pass.delta
      /\ \A f \in Others : pass'.report[f] = pass.report[f]
  BY <1>0 DEF CampaignInv, PassShape, PassFields, ReportFields, SameFiles, Underway, Early
<1>2. pass'.report.concurrent = (version # pass.before)
  BY <1>0 DEF CampaignInv, PassShape, PassFields, ReportFields, Underway
<1>3. VersionTells'
  BY <1>0, <1>1, <1>2 DEF CampaignInv, CampaignOK, VersionTells, OnlyReads
<1>4. /\ pass'.report.complete = pass.report.complete /\ pass'.report.checked = pass.report.checked
      /\ pass'.report.digest = pass.report.digest /\ pass'.report.superseded = pass.report.superseded
      /\ pass'.report.count = pass.report.count /\ pass'.report.source = pass.report.source
      /\ pass'.report.sourceErrors = pass.report.sourceErrors
      /\ pass'.report.remap = pass.report.remap
  BY <1>1 DEF ReportFields
<1>5. CompleteIsAll'
  BY <1>0, <1>1, <1>4 DEF CampaignInv, CompleteIsAll, Reconciles, Sanctioned, SameFiles
<1>6. CheckedIsAttested'
  BY <1>0, <1>1, <1>4 DEF CampaignInv, CheckedIsAttested, HeldAsAttested, DerivedAsAttested, Opts,
                          SameFiles
<1> QED BY <1>0, <1>1, <1>3, <1>5, <1>6, ReadsKeep, SameFilesKeeps DEF CampaignInv, SameFiles

\* A complete report has a reconciled inventory and all sessions to check.
LEMMA ReconcileInventoryKeeps ==
  ASSUME CampaignInv, ReconcileInventory
  PROVE  CampaignInv'
<1> DEFINE p == campaign.progress
           complete == Reconciles(p) /\ p.complete /\ pass.todo = DOMAIN pass.effective
<1>0. /\ OnlyReads /\ pass.pc = "reconcile"
      /\ pass' = [pass EXCEPT !.pc = "check", !.progress = {p},
                              !.report.reconciled = Reconciles(p), !.report.complete = complete]
  BY DEF ReconcileInventory, OnlyReads
<1> HIDE DEF p, complete
<1>1. /\ SameFiles /\ pass'.pc = "check" /\ pass'.before = pass.before /\ pass'.todo = pass.todo
      /\ pass'.snapshot = pass.snapshot /\ pass'.progress = {p}
      /\ pass'.variants = pass.variants /\ pass'.delta = pass.delta
      /\ pass'.report.complete = complete
  BY <1>0 DEF CampaignInv, PassShape, PassFields, ReportFields, SameFiles, Underway, Early
<1>2. VersionTells'
  BY <1>0, <1>1 DEF CampaignInv, CampaignOK, VersionTells, OnlyReads
<1>3. CompleteIsAll'
  <2>1. Reconciles(p)' <=> Reconciles(p)
    BY <1>0, <1>1 DEF Reconciles, Sanctioned, SameFiles, OnlyReads, p
  <2>2. ASSUME pass'.report.complete
        PROVE  /\ \E i \in pass'.progress : i.complete /\ Reconciles(i)'
               /\ DOMAIN pass'.effective \subseteq pass'.report.checked \cup pass'.todo
    <3>1. Reconciles(p) /\ p.complete /\ pass.todo = DOMAIN pass.effective
      BY <1>1, <2>2 DEF complete
    <3>2. \A i : i = p => (Reconciles(i)' <=> Reconciles(p)')
      BY <1>0 DEF p, OnlyReads, Reconciles, Sanctioned
    <3>3. DOMAIN pass'.effective \subseteq pass'.report.checked \cup pass'.todo
      BY <1>1, <3>1 DEF SameFiles
    <3>4. \E i \in pass'.progress : i.complete /\ Reconciles(i)'
      BY <1>1, <2>1, <3>1, <3>2
    <3> QED BY <3>3, <3>4
  <2> QED BY <1>1, <2>2 DEF CompleteIsAll
<1>4. CheckedIsAttested'
  BY <1>0, <1>1 DEF CampaignInv, CheckedIsAttested, NoneChecked, SameFiles, Early
<1> QED BY <1>0, <1>1, <1>2, <1>3, <1>4, ReadsKeep, SameFilesKeeps DEF CampaignInv, SameFiles

\* A check of one session gives its verdict and takes none back.
LEMMA CheckSessionKeeps ==
  ASSUME CampaignInv, NEW s \in Session, CheckSession(s)
  PROVE  CampaignInv'
<1> DEFINE r == pass.effective[s].head
           bound == BindProvenance(pass.report, s, r)
           compared == CompareDestination(bound, s, r, pass.effective[s].depth)
           report == IF Opts.sources THEN CompareSources(compared, s, r) ELSE compared
           final == [report EXCEPT !.checked = @ \cup {s}]
<1>0. OnlyReads /\ pass.pc = "check" /\ s \in pass.todo
  BY DEF CheckSession, OnlyReads
<1>1. CASE Stopped
  BY <1>0, <1>1, StopKeeps
<1>2. CASE ~ Stopped
  <2>1. pass' = [pass EXCEPT !.todo = @ \ {s}, !.report = [report EXCEPT !.checked = @ \cup {s}]]
    BY <1>2 DEF CheckSession
  <2> HIDE DEF report
  <2>2. /\ DOMAIN pass' = PassFields /\ pass'.report = final
        /\ pass'.pc = "check" /\ pass'.todo = pass.todo \ {s}
        /\ pass'.files = pass.files /\ pass'.effective = pass.effective
        /\ pass'.before = pass.before /\ pass'.snapshot = pass.snapshot
        /\ pass'.options = pass.options /\ pass'.progress = pass.progress
        /\ pass'.variants = pass.variants /\ pass'.delta = pass.delta
    BY <1>0, <2>1 DEF CampaignInv, PassShape, PassFields
  \* Neither the binding nor the comparisons touch a verdict already given.
  <2>3. /\ DOMAIN report = ReportFields
        /\ report.chain = pass.report.chain /\ report.complete = pass.report.complete
        /\ report.checked = pass.report.checked
        /\ pass.report.digest \subseteq report.digest
        /\ pass.report.superseded \subseteq report.superseded
        /\ pass.report.count \subseteq report.count
        /\ pass.report.source \subseteq report.source
        /\ pass.report.sourceErrors \subseteq report.sourceErrors
        /\ pass.report.remap \subseteq report.remap
        /\ pass.effective[s].depth \in Nat \ {0} => HeldAsAttested(pass.snapshot, report, s, r)
        /\ Opts.sources => DerivedAsAttested(report, s, r)
    <3> HIDE DEF r, bound, compared
    <3>1. /\ DOMAIN bound = ReportFields
          /\ \A f \in ReportFields \ {"uncovered", "sourceErrors"} : bound[f] = pass.report[f]
          /\ pass.report.sourceErrors \subseteq bound.sourceErrors
      BY BindingReports DEF bound, CampaignInv, PassShape
    <3>2. /\ DOMAIN compared = ReportFields
          /\ \A f \in ReportFields \ {"missing", "digest", "superseded", "count"} :
               compared[f] = bound[f]
          /\ bound.digest \subseteq compared.digest
          /\ bound.superseded \subseteq compared.superseded
          /\ bound.count \subseteq compared.count
          /\ pass.effective[s].depth \in Nat \ {0} => HeldAsAttested(pass.snapshot, compared, s, r)
      BY <3>1, ComparisonReports DEF compared
    <3>3. /\ compared.chain = pass.report.chain /\ compared.complete = pass.report.complete
          /\ compared.checked = pass.report.checked
          /\ pass.report.digest \subseteq compared.digest
          /\ pass.report.superseded \subseteq compared.superseded
          /\ pass.report.count \subseteq compared.count
          /\ pass.report.source \subseteq compared.source
          /\ pass.report.sourceErrors \subseteq compared.sourceErrors
          /\ pass.report.remap \subseteq compared.remap
      BY <3>1, <3>2 DEF ReportFields
    <3>4. CASE ~ Opts.sources
      <4>1. report = compared
        BY <3>4 DEF report
      <4> QED BY <3>2, <3>3, <3>4, <4>1
    <3>5. CASE Opts.sources
      <4> DEFINE b == CompareSources(compared, s, r)
      <4>1. /\ DOMAIN b = ReportFields
            /\ \A f \in ReportFields \ {"sourceErrors", "source", "recovery", "remap", "coverage"} :
                 b[f] = compared[f]
            /\ compared.sourceErrors \subseteq b.sourceErrors /\ compared.source \subseteq b.source
            /\ compared.remap \subseteq b.remap
            /\ DerivedAsAttested(b, s, r)
        BY <3>2, SourceReports
      <4>2. report = b
        BY <3>5 DEF report
      <4> HIDE DEF b
      <4>3. /\ b.chain = compared.chain /\ b.complete = compared.complete
            /\ b.checked = compared.checked /\ b.digest = compared.digest
            /\ b.superseded = compared.superseded /\ b.count = compared.count
        BY <4>1 DEF ReportFields
      <4>4. HeldAsAttested(pass.snapshot, compared, s, r) => HeldAsAttested(pass.snapshot, b, s, r)
        BY <4>3 DEF HeldAsAttested
      <4> QED BY <3>2, <3>3, <4>1, <4>2, <4>3, <4>4
    <3> QED BY <3>4, <3>5
  <2>4. /\ DOMAIN final = ReportFields /\ final.checked = pass.report.checked \cup {s}
        /\ \A f \in ReportFields \ {"checked"} : final[f] = report[f]
    BY <2>3 DEF ReportFields
  <2>5. /\ final.chain = report.chain /\ final.complete = report.complete
        /\ final.digest = report.digest /\ final.superseded = report.superseded
        /\ final.count = report.count /\ final.source = report.source
        /\ final.sourceErrors = report.sourceErrors /\ final.remap = report.remap
    BY <2>4 DEF ReportFields
  <2> HIDE DEF final, r
  <2>6. PassShape' /\ FilesResolved' /\ NoneChecked' /\ VersionTells'
    BY <1>0, <2>2, <2>3, <2>4, <2>5 DEF CampaignInv, PassShape, FilesResolved, Underway, NoneChecked,
                                        Early, VersionTells, OnlyReads
  <2>7. CompleteIsAll'
    BY <1>0, <2>2, <2>3, <2>4, <2>5 DEF CampaignInv, CompleteIsAll, Reconciles, Sanctioned
  <2>8. ASSUME NEW t \in final.checked, t \in DOMAIN pass.effective
        PROVE  /\ HeldAsAttested(pass.snapshot, final, t, pass.effective[t].head)
               /\ Opts.sources => DerivedAsAttested(final, t, pass.effective[t].head)
    <3>1. CASE t \in pass.report.checked
      <4>1. /\ HeldAsAttested(pass.snapshot, pass.report, t, pass.effective[t].head)
            /\ Opts.sources => DerivedAsAttested(pass.report, t, pass.effective[t].head)
        BY <1>0, <2>8, <3>1 DEF CampaignInv, CheckedIsAttested
      <4> QED BY <2>3, <2>5, <4>1 DEF HeldAsAttested, DerivedAsAttested
    <3>2. CASE t = s
      <4>1. pass.effective[s].depth \in Nat \ {0}
        BY <1>0, <2>8, <3>2, EffectiveDepth DEF CampaignInv, FilesResolved, Underway
      <4> QED BY <2>3, <2>5, <3>2, <4>1 DEF HeldAsAttested, DerivedAsAttested, r
    <3> QED BY <2>4, <3>1, <3>2
  <2>9. CheckedIsAttested'
    <3>1. Opts' = Opts
      BY <2>2 DEF Opts
    <3>2. ASSUME NEW t \in pass'.report.checked, t \in DOMAIN pass'.effective
          PROVE  /\ HeldAsAttested(pass'.snapshot, pass'.report, t, pass'.effective[t].head)
                 /\ Opts'.sources => DerivedAsAttested(pass'.report, t, pass'.effective[t].head)
      BY <2>2, <2>8, <3>1, <3>2
    <3> QED BY <3>2 DEF CheckedIsAttested
  <2> QED BY <1>0, <2>6, <2>7, <2>9, ReadsKeep DEF CampaignInv
<1> QED BY <1>1, <1>2

\* In the beginning nothing is read.
LEMMA CampaignInv_Init == CampaignInit => CampaignInv
<1> SUFFICES ASSUME CampaignInit PROVE CampaignInv
  OBVIOUS
<1>1. campaign \in Staged /\ version = 0 /\ pass = Waiting
  BY DEF CampaignInit
<1>2. CampaignOK
  <2>1. campaign \in CampaignType /\ FilesDiffer(campaign.receipts)
    BY <1>1, StagedAssumption
  <2>2. campaign.receipts \subseteq Receipt
    BY <2>1 DEF CampaignType
  <2> QED BY <1>1, <2>1, <2>2 DEF CampaignOK, Distinct
<1>3. /\ DOMAIN pass = PassFields /\ pass.report = NoReport /\ pass.pc = "idle" /\ pass.files = {}
  BY <1>1 DEF Waiting, PassFields
<1>4. DOMAIN NoReport = ReportFields /\ NoReport.checked = {}
  BY DEF NoReport, ReportFields
<1>5. PassShape /\ NoneChecked
  BY <1>3, <1>4 DEF Underway, PassShape, NoneChecked
<1>6. FilesResolved /\ VersionTells /\ CompleteIsAll /\ CheckedIsAttested
  BY <1>3 DEF FilesResolved, Underway, VersionTells, CompleteIsAll, CheckedIsAttested
<1> QED BY <1>2, <1>5, <1>6 DEF CampaignInv

\* Every step of the pass and of the driver keeps the invariant.
LEMMA CampaignInv_Step == CampaignInv /\ [CampaignNext]_campaignVars => CampaignInv'
<1> SUFFICES ASSUME CampaignInv, [CampaignNext]_campaignVars PROVE CampaignInv'
  OBVIOUS
<1>1. CASE Verify
  <2>1. CASE (\E o \in Options : BeginPass(o)) \/ ReadJournal
    BY <2>1, ListingKeeps
  <2>2. CASE \E s \in Session : CheckSession(s)
    BY <2>2, CheckSessionKeeps
  <2> QED BY <1>1, <2>1, <2>2, ResolveReceiptsKeeps, LoadPinsKeeps, ReadVersionKeeps, BeginSnapshotKeeps,
             ReconcileInventoryKeeps, FinishSnapshotKeeps DEF Verify
<1>2. CASE Outside
  BY <1>2, OutsideKeeps
<1>3. CASE \/ \E s \in Session : DriverWrites(s) \/ SessionRemoved(s) \/ DriverProgress(s)
           \/ DestinationDamaged
           \/ \E r \in Receipt : DriverReceipts(r)
  BY <1>3, OutsideKeeps, WritesStayOutside, FilesStayOutside DEF CampaignInv
<1>4. CASE UNCHANGED campaignVars
  <2>1. Outside
    BY <1>4 DEF campaignVars, Outside, CampaignInv, CampaignOK
  <2> QED BY <2>1, OutsideKeeps
<1> QED BY <1>1, <1>3, <1>4 DEF CampaignNext

\* What was resolved is what the receipts say.
LEMMA CampaignInv_Latest == CampaignInv => EffectiveIsLatest
<1> SUFFICES ASSUME CampaignInv, pass.pc \notin {"idle", "list", "stopped"}
    PROVE  /\ pass.report.chain <=> ~ Sound(pass.files)
           /\ Sound(pass.files) =>
                /\ DOMAIN pass.effective = Covered(pass.files)
                /\ \A s \in DOMAIN pass.effective : \A q \in Orders(pass.files, s) :
                     pass.effective[s].head = q[Len(q)]
  BY DEF EffectiveIsLatest, Sound
<1>1. /\ pass.effective = Effective(pass.files) /\ Distinct(pass.files)
      /\ pass.report.chain <=> ~ Resolvable(pass.files)
  BY DEF CampaignInv, PassShape, FilesResolved
<1>2. Sound(pass.files) <=> Resolvable(pass.files)
  BY <1>1, SoundIsResolvable, ResolvableIsSound
<1> QED BY <1>1, <1>2, EffectiveHeads

\* What success rests on, for a pass that is done.
LEMMA CampaignInv_Exact == CampaignInv => SuccessMeansExact
<1> SUFFICES ASSUME CampaignInv, pass.pc = "done", Succeeded(pass.report), ~ Opts.allowPartial
    PROVE  /\ \E p \in pass.progress : p.complete /\ Rows(pass.snapshot) = Sanctioned(p)
           /\ \A s \in Rows(pass.snapshot) : \A c \in pass.snapshot[s] :
                \E q \in Orders(pass.files, s) :
                  LET r == q[Len(q)] IN
                  /\ Digest(c) = r.digest /\ Len(c.messages) = r.messages
                  /\ Opts.sources =>
                       /\ \E o \in Inputs(s, r) : Digest(o) = r.input
                       /\ r.kind = "divergent-variant" =>
                            \E o \in r.origin : VariantSession(r.source, o, r.attempt) = s
           /\ ~ pass.report.concurrent => pass.final = {pass.snapshot}
  BY DEF SuccessMeansExact
<1>1. /\ pass.report.complete /\ ~ pass.report.chain
      /\ pass.report.digest = {} /\ pass.report.superseded = {} /\ pass.report.count = {}
      /\ pass.report.source = {} /\ pass.report.sourceErrors = {} /\ pass.report.remap = {}
  BY DEF Succeeded, Clean
<1>2. PICK p \in pass.progress : p.complete /\ Reconciles(p)
  BY <1>1 DEF CampaignInv, CompleteIsAll
<1>3. Rows(pass.snapshot) = Sanctioned(p) /\ Rows(pass.snapshot) = DOMAIN pass.effective
  BY <1>2 DEF Reconciles
<1>4. /\ pass.effective = Effective(pass.files) /\ Distinct(pass.files) /\ Sound(pass.files)
  BY <1>1, ResolvableIsSound DEF CampaignInv, FilesResolved, Underway
<1>5. DOMAIN pass.effective \subseteq pass.report.checked
  BY <1>1 DEF CampaignInv, CompleteIsAll
<1>6. ASSUME NEW s \in Rows(pass.snapshot), NEW c \in pass.snapshot[s]
      PROVE  \E q \in Orders(pass.files, s) :
                  LET r == q[Len(q)] IN
                  /\ Digest(c) = r.digest /\ Len(c.messages) = r.messages
                  /\ Opts.sources =>
                       /\ \E o \in Inputs(s, r) : Digest(o) = r.input
                       /\ r.kind = "divergent-variant" =>
                            \E o \in r.origin : VariantSession(r.source, o, r.attempt) = s
  <2>1. s \in DOMAIN pass.effective /\ s \in pass.report.checked /\ s \in Covered(pass.files)
    BY <1>3, <1>4, <1>5, EffectiveHeads
  <2>2. PICK q \in Orders(pass.files, s) : TRUE
    BY <1>4, <2>1 DEF Sound
  <2> DEFINE r == q[Len(q)]
  <2>3. pass.effective[s].head = r
    BY <1>4, <2>1, <2>2, EffectiveHeads
  <2>4. /\ r.kind = "divergent-variant" => r.origin # None
    <3> DEFINE n == Cardinality(Members(pass.files, s))
    <3>1. n \in Nat \ {0} /\ q \in [1 .. n -> Members(pass.files, s)] /\ Len(q) = n
      BY <1>4, <2>1, <2>2, CoveredMembers, OrderFacts
    <3> HIDE DEF n
    <3>2. q[Len(q)] \in pass.files
      BY <3>1 DEF Members
    <3> QED BY <1>4, <3>2 DEF Sound, ValidReceipt, KindAgrees
  <2> HIDE DEF r
  <2>5. /\ HeldAsAttested(pass.snapshot, pass.report, s, r)
        /\ Opts.sources => DerivedAsAttested(pass.report, s, r)
    BY <2>1, <2>3 DEF CampaignInv, CheckedIsAttested
  <2>6. Digest(c) = r.digest /\ Len(c.messages) = r.messages
    BY <1>1, <2>5 DEF HeldAsAttested
  <2>7. ASSUME Opts.sources
        PROVE  /\ \E o \in Inputs(s, r) : Digest(o) = r.input
               /\ r.kind = "divergent-variant" =>
                    \E o \in r.origin : VariantSession(r.source, o, r.attempt) = s
    BY <1>1, <2>4, <2>5, <2>7 DEF DerivedAsAttested, None
  <2> QED BY <2>2, <2>6, <2>7 DEF r
<1>7. ~ pass.report.concurrent => pass.final = {pass.snapshot}
  BY DEF CampaignInv, VersionTells
<1> QED BY <1>2, <1>3, <1>6, <1>7

-----------------------------------------------------------------------------
(* The theorems.                                                            *)

\* However the driver writes on while a pass runs, the receipts resolve exactly
\* when those of every session form one line, and the effective receipt is its
\* end (effective_receipts, walk_chain).
THEOREM EffectiveReceipts == CampaignSpec => []EffectiveIsLatest
<1>1. CampaignInit => CampaignInv
  BY CampaignInv_Init
<1>2. CampaignInv /\ [CampaignNext]_campaignVars => CampaignInv'
  BY CampaignInv_Step
<1>3. CampaignInv => EffectiveIsLatest
  BY CampaignInv_Latest
<1> QED BY <1>1, <1>2, <1>3, PTL DEF CampaignSpec

\* A pass that succeeds without --allow-partial saw in one snapshot exactly the
\* sanctioned sessions, each as its latest receipt attests it (verify).
THEOREM SuccessIsExact == CampaignSpec => []SuccessMeansExact
<1>1. CampaignInit => CampaignInv
  BY CampaignInv_Init
<1>2. CampaignInv /\ [CampaignNext]_campaignVars => CampaignInv'
  BY CampaignInv_Step
<1>3. CampaignInv => SuccessMeansExact
  BY CampaignInv_Exact
<1> QED BY <1>1, <1>2, <1>3, PTL DEF CampaignSpec

\* Whatever writers and checkpoints do between its statements, an adoption records
\* the hash of one image, which the main file was at each of them; what each check
\* read passed it; and all of it is that image unless somebody committed (adopt).
THEOREM RecordsPinFiles == AdoptionSpec => []RecordPinsTheFile
<1>1. AdoptionInit => AdoptionInv
  BY AdoptionInv_Init
<1>2. AdoptionInv /\ [AdoptionNext]_adoptionVars => AdoptionInv'
  BY AdoptionInv_Step
<1>3. AdoptionInv => RecordPinsTheFile
  BY DEF AdoptionInv
<1> QED BY <1>1, <1>2, <1>3, PTL DEF AdoptionSpec

\* A tool that is run was pinned with every file its imports lead to, each with its
\* pinned text unless somebody edited it since the request; and a refusal has its
\* reason.  For any imports and pins and any edits (resolve_tool, exec_node).
THEOREM ToolsArePinned == ToolSpec => []ToolClosureIsPinned
<1>1. ToolInit => ToolInv
  BY ToolInv_Init
<1>2. ToolInv /\ [ToolNext]_toolVars => ToolInv'
  BY ToolInv_Step
<1>3. ToolInv => ToolClosureIsPinned
  BY ToolInv_Closure
<1> QED BY <1>1, <1>2, <1>3, PTL DEF ToolSpec

\* What the migration commands claim, as the components run checks it: the receipt
\* a pass goes by and what its success means, what an adoption records and which
\* tool is run, side by side with components they share nothing with (verify,
\* adopt, resolve_tool).
THEOREM MigrationsExact == Spec => []MigrationsAreExact
<1> DEFINE IInv == CampaignInv /\ AdoptionInv /\ ToolInv
<1>1. Init => IInv
  BY CampaignInv_Init, AdoptionInv_Init, ToolInv_Init DEF Init
<1>2. IInv /\ [Next]_componentVars => IInv'
  <2> SUFFICES ASSUME IInv, [Next]_componentVars PROVE IInv'
    OBVIOUS
  <2>1. [CampaignNext]_campaignVars /\ [AdoptionNext]_adoptionVars /\ [ToolNext]_toolVars
    BY DEF Next, componentVars
  <2> QED BY <2>1, CampaignInv_Step, AdoptionInv_Step, ToolInv_Step
<1>3. IInv => MigrationsAreExact
  BY CampaignInv_Latest, CampaignInv_Exact, ToolInv_Closure DEF MigrationsAreExact, AdoptionInv
<1> QED BY <1>1, <1>2, <1>3, PTL DEF Spec

-----------------------------------------------------------------------------
(* Types.                                                                  *)

\* A journal and its callers are of their types.
LEMMA NixTyped == NixInv => NixTypeOK
BY DEF NixInv, NixTypeInv, JournalInv, CallerInv, NixTypeOK

\* What the ledger has besides entries and attempts.
HoldingInv ==
  /\ disk \in [Path -> Opt(Identity)] /\ invocation \in [Invocation -> Opt(Run)]
  /\ live \subseteq Observer /\ cleared \subseteq Path \X Identity /\ dispatched \in Nat

\* What the other kinds of report name.
LEMMA OtherReports ==
  ASSUME NEW e \in Event
  PROVE  /\ e.kind \in {"begin", "context", "end"} => e.invocation \in Invocation
         /\ e.kind = "end" => e.outcome \in {"exited", "error", "interrupted", "unknown"} /\ e.asserted \in BOOLEAN
         /\ e.kind = "coverage" => e.observer \in Observer
<1>1. e \in EventType
  BY ScratchAssumption
<1> QED BY <1>1 DEF EventType

\* A report keeps the rows of invocations, the observers and the history.
LEMMA HoldingReports ==
  ASSUME HoldingInv, NEW e \in Event, RecordEvent(e)
  PROVE  HoldingInv'
<1> USE DEF HoldingInv
<1>0. UNCHANGED <<disk, dispatched>>
  BY DEF RecordEvent
<1>1. CASE ApplyBegin(e)
  <2>1. e.invocation \in Invocation /\ UNCHANGED <<live, cleared>>
    BY <1>1, OtherReports DEF ApplyBegin
  <2> DEFINE r == [status |-> "running", asserted |-> FALSE, sources |-> 0]
  <2>2. r \in Run
    BY DEF Run
  <2>3. invocation' = [invocation EXCEPT ![e.invocation] = {r}]
    BY <1>1 DEF ApplyBegin
  <2> HIDE DEF r
  <2> QED BY <1>0, <2>1, <2>2, <2>3 DEF Opt
<1>2. CASE ApplyEnd(e)
  <2>1. /\ e.invocation \in Invocation /\ UNCHANGED <<live, cleared>> /\ e.asserted \in BOOLEAN
        /\ e.outcome \in {"exited", "error", "interrupted", "unknown"}
    BY <1>2, OtherReports DEF ApplyEnd
  <2>2. PICK r \in invocation[e.invocation] :
          invocation' = [invocation EXCEPT ![e.invocation] = {[r EXCEPT !.status = e.outcome, !.asserted = e.asserted]}]
    BY <1>2 DEF ApplyEnd
  <2> DEFINE s == [r EXCEPT !.status = e.outcome, !.asserted = e.asserted]
  <2>3. r \in Run
    BY <2>1 DEF Opt
  <2>4. s \in Run
    BY <2>1, <2>3 DEF Run
  <2>5. invocation' = [invocation EXCEPT ![e.invocation] = {s}]
    BY <2>2
  <2> HIDE DEF s
  <2> QED BY <1>0, <2>1, <2>4, <2>5 DEF Opt
<1>3. CASE ApplyContext(e)
  <2>1. e.invocation \in Invocation /\ UNCHANGED <<live, cleared>>
    BY <1>3, OtherReports DEF ApplyContext
  <2>2. PICK r \in invocation[e.invocation] :
          invocation' = [invocation EXCEPT ![e.invocation] = {[r EXCEPT !.sources = 1]}]
    BY <1>3 DEF ApplyContext
  <2> DEFINE s == [r EXCEPT !.sources = 1]
  <2>3. r \in Run
    BY <2>1 DEF Opt
  <2>4. s \in Run
    BY <2>3 DEF Run
  <2>5. invocation' = [invocation EXCEPT ![e.invocation] = {s}]
    BY <2>2
  <2> HIDE DEF s
  <2> QED BY <1>0, <2>1, <2>4, <2>5 DEF Opt
<1>4. CASE ApplyObservation(e) \/ ApplyAnnotation(e) \/ ApplyLink(e)
  <2>1. e.path \in Path /\ e.identity \in Identity
    BY <1>4, Reports DEF ApplyObservation, ApplyAnnotation, ApplyLink
  <2>2. UNCHANGED <<invocation, live>> /\ cleared' \subseteq cleared \cup {<<e.path, e.identity>>}
    BY <1>4 DEF ApplyObservation, ApplyAnnotation, ApplyLink
  <2> QED BY <1>0, <2>1, <2>2
<1>5. CASE ApplyCoverage(e)
  <2>1. e.observer \in Observer
    BY <1>5, OtherReports DEF ApplyCoverage
  <2> QED BY <1>0, <1>5, <2>1 DEF ApplyCoverage
<1> QED BY <1>1, <1>2, <1>3, <1>4, <1>5 DEF RecordEvent

\* Every step of the ledger and of the process that judges.
LEMMA HoldingSteps ==
  ASSUME HoldingInv, [ScratchNext]_scratchVars
  PROVE  HoldingInv'
<1>1. CASE \E e \in Event : RecordEvent(e)
  BY <1>1, HoldingReports
<1>2. CASE \E o \in Observer : HeartbeatExpires(o)
  BY <1>2 DEF HeartbeatExpires, HoldingInv
<1>3. CASE \E p \in Path : DiskChanges(p)
  <2>1. PICK p \in Path, o \in Opt(Identity) : disk' = [disk EXCEPT ![p] = o]
    BY <1>3 DEF DiskChanges
  <2>2. UNCHANGED <<invocation, live, cleared, dispatched>>
    BY <1>3 DEF DiskChanges, ledger
  <2> QED BY <2>1, <2>2 DEF HoldingInv
<1>4. CASE Assess
  <2>1. UNCHANGED <<disk, invocation, live>>
    BY <1>4 DEF Assess, StartAssessing, SkipEntry, ChooseEntry, FinishAssessing, ReplayAnswer, RefuseRequest,
                ReserveRequest, ModelAnswers, ModelFails, PublishVerdict, AssessorCrashes, ledger
  <2>2. dispatched' \in {dispatched, dispatched + 1}
    BY <1>4 DEF Assess, StartAssessing, SkipEntry, ChooseEntry, FinishAssessing, ReplayAnswer, RefuseRequest,
                ReserveRequest, ModelAnswers, ModelFails, PublishVerdict, AssessorCrashes, ledger
  <2>3. CASE PublishVerdict
    <3>1. cleared' \subseteq cleared
      BY <2>3 DEF PublishVerdict
    <3> QED BY <2>1, <2>2, <3>1 DEF HoldingInv
  <2>4. CASE ~ PublishVerdict
    <3>1. cleared' = cleared
      BY <1>4, <2>4 DEF Assess, StartAssessing, SkipEntry, ChooseEntry, FinishAssessing, ReplayAnswer, RefuseRequest,
                ReserveRequest, ModelAnswers, ModelFails, AssessorCrashes, ledger
    <3> QED BY <2>1, <2>2, <3>1 DEF HoldingInv
  <2> QED BY <2>3, <2>4
<1>5. CASE UNCHANGED scratchVars
  BY <1>5 DEF scratchVars, HoldingInv
<1> QED BY <1>1, <1>2, <1>3, <1>4, <1>5 DEF ScratchNext

\* The ledger begins empty.
LEMMA HoldingBegins == ScratchInit => HoldingInv
BY DEF ScratchInit, HoldingInv, Opt

\* The ledger is of its types.
LEMMA ScratchTyped == TypeInv /\ HoldingInv => ScratchTypeOK
<1> SUFFICES ASSUME TypeInv, HoldingInv PROVE ScratchTypeOK
  OBVIOUS
<1>1. ASSUME NEW p \in Path, NEW x \in entry[p]
      PROVE  entry[p] = {x} /\ x \in Entry
  BY <1>1 DEF TypeInv, EntryInv, Opt
<1>2. ASSUME NEW x \in Entry
      PROVE  /\ x.identity \in Identity /\ x.disposition \in Disposition /\ x.owners \subseteq Invocation
             /\ x.notes \in Notes /\ x.links \in 0 .. MaxLinks
  BY DEF Entry
<1>3. log \subseteq Event
  BY DEF TypeInv, EntryInv
<1>4. \A o \in Invocation : invocation[o] \in Opt(Run)
  BY DEF HoldingInv
<1> QED BY <1>1, <1>2, <1>3, <1>4 DEF HoldingInv, ScratchTypeOK

\* The writers of a store, and the temporary files of its adopters.
WriterInv == store.writes <= MaxWrites /\ holders \subseteq Writer /\ temporary \subseteq Adopter

\* A store begins with one image and no writer.
LEMMA WriterBegins == AdoptionInit => WriterInv
BY AdoptionAssumption DEF AdoptionInit, WriterInv

\* Every step of a writer or an adopter.
LEMMA WriterSteps ==
  ASSUME AdoptionInv, WriterInv, [AdoptionNext]_adoptionVars
  PROVE  WriterInv'
<1>0. DOMAIN store = {"main", "wal", "stamp", "writes"} /\ store.writes \in Nat /\ MaxWrites \in Nat
  BY AdoptionAssumption DEF AdoptionInv, StoreType
<1>1. ASSUME NEW w \in Writer, OpenStore(w) \/ CrashStore(w)
      PROVE  WriterInv'
  BY <1>1 DEF OpenStore, CrashStore, WriterInv
<1>2. ASSUME NEW w \in Writer, CommitStore(w)
      PROVE  WriterInv'
  BY <1>0, <1>2 DEF CommitStore, WriterInv
<1>3. ASSUME NEW w \in Writer, CheckpointStore(w)
      PROVE  WriterInv'
  BY <1>0, <1>3 DEF CheckpointStore, WriterInv
<1>4. ASSUME NEW w \in Writer, CloseStore(w)
      PROVE  WriterInv'
  <2>1. store'.writes = store.writes
    BY <1>0, <1>4 DEF CloseStore
  <2> QED BY <1>4, <2>1 DEF CloseStore, WriterInv
<1>5. ASSUME NEW a \in Adopter, AdoptStep(a)
      PROVE  WriterInv'
  <2>1. UNCHANGED <<store, holders>>
    BY <1>5 DEF AdoptStep, ScanHolders, CheckSidecars, StatStore, HashStore, ReadStatement, JudgeStore, RescanHolders,
                RestatStore, WriteTemporary, RenameRecord, AdopterDies
  <2>2. temporary' \subseteq temporary \cup {a}
    BY <1>5 DEF AdoptStep, ScanHolders, CheckSidecars, StatStore, HashStore, ReadStatement, JudgeStore, RescanHolders,
                RestatStore, WriteTemporary, RenameRecord, AdopterDies
  <2> QED BY <2>1, <2>2 DEF WriterInv
<1>6. CASE UNCHANGED adoptionVars
  BY <1>6 DEF adoptionVars, WriterInv
<1> QED BY <1>1, <1>2, <1>3, <1>4, <1>5, <1>6 DEF AdoptionNext, StoreChanges

\* A store and its adopters are of their types.
LEMMA AdoptionTyped == AdoptionInv /\ WriterInv => AdoptionTypeOK
<1> SUFFICES ASSUME AdoptionInv, WriterInv PROVE AdoptionTypeOK
  OBVIOUS
<1>1. /\ store.main \subseteq Image /\ store.wal \subseteq Image /\ store.stamp \in Nat
      /\ store.writes \in Nat
  BY DEF AdoptionInv, StoreType
<1>2. \A a \in Adopter : /\ adopter[a].hash \subseteq Image
                        /\ adopter[a].seen \in Seq(SUBSET Image)
                        /\ Len(adopter[a].seen) <= Len(Statement)
  BY DEF AdoptionInv, View, Follows, KnowsParts
<1> QED BY <1>1, <1>2, AdoptionAssumption DEF WriterInv, AdoptionTypeOK

\* A session stays within its bounds, closed or not.
BoundedInv ==
  /\ frames \in 0 .. MaxFrames /\ Len(queued) \in 0 .. MaxPending /\ Len(controls) \in 0 .. MaxPending
  /\ \A r, s \in active : r = s
  /\ \A a, b \in ready : a = b
  /\ \A a, b \in writing : a = b
  /\ {calling, finished, initialized} \subseteq BOOLEAN
  /\ graph \in {"none", "cached", "lent"}
  /\ \A i \in DOMAIN answers : answers[i].body \in Bodies

\* Lengths of what becomes of a sequence.
LEMMA Lengths ==
  ASSUME NEW S, NEW s \in Seq(S)
  PROVE  /\ Len(s) \in Nat /\ \A x \in S : Len(Append(s, x)) = Len(s) + 1
         /\ s # <<>> => Head(s) \in S /\ Len(Tail(s)) = Len(s) - 1 /\ Len(s) > 0
         /\ \A i \in 1 .. Len(s) : Len(SubSeq(s, 1, i - 1) \o SubSeq(s, i + 1, Len(s))) = Len(s) - 1
<1>1. ASSUME NEW i \in 1 .. Len(s)
      PROVE  Len(SubSeq(s, 1, i - 1) \o SubSeq(s, i + 1, Len(s))) = Len(s) - 1
  <2> DEFINE a == SubSeq(s, 1, i - 1)
             b == SubSeq(s, i + 1, Len(s))
  <2>1. a \in Seq(S) /\ Len(a) = i - 1
    OBVIOUS
  <2>2. b \in Seq(S) /\ Len(b) = Len(s) - i
    OBVIOUS
  <2> HIDE DEF a, b
  <2>3. Len(a \o b) = Len(a) + Len(b)
    BY <2>1, <2>2
  <2>4. Len(a \o b) = Len(s) - 1
    BY <2>1, <2>2, <2>3
  <2> QED BY <2>4 DEF a, b
<1>2. Len(s) \in Nat /\ \A x \in S : Len(Append(s, x)) = Len(s) + 1
  OBVIOUS
<1>3. ASSUME s # <<>>
      PROVE  Head(s) \in S /\ Len(Tail(s)) = Len(s) - 1 /\ Len(s) > 0
  BY <1>3
<1> QED BY <1>1, <1>2, <1>3

\* A session begins within its bounds.
LEMMA BoundedBegins == McpInit => BoundedInv
<1> SUFFICES ASSUME McpInit PROVE BoundedInv
  OBVIOUS
<1>1. MaxFrames \in Nat /\ MaxPending \in Nat
  BY McpAssumption
<1>2. Len(queued) = 0 /\ Len(controls) = 0 /\ DOMAIN answers = {}
  BY DEF McpInit
<1>3. frames \in 0 .. MaxFrames /\ Len(queued) \in 0 .. MaxPending /\ Len(controls) \in 0 .. MaxPending
  BY <1>1, <1>2 DEF McpInit
<1>4. \A i \in DOMAIN answers : answers[i].body \in Bodies
  BY <1>2
<1>5. /\ active = {} /\ ready = {} /\ writing = {} /\ {calling, finished, initialized} \subseteq BOOLEAN
      /\ graph = "none"
  BY DEF McpInit
<1> QED BY <1>3, <1>4, <1>5 DEF BoundedInv

\* Dispatching a request.
LEMMA BoundedDispatch ==
  ASSUME LiveInv, BoundedInv,
         DispatchQueued \/ RefuseNext \/ (\E id \in RequestId, m \in Method : DispatchNext(id, m))
  PROVE  BoundedInv'
<1>0. /\ MaxFrames \in Nat /\ MaxPending \in Nat
      /\ Len(queued) \in Nat /\ queued # <<>> => Len(Tail(queued)) = Len(queued) - 1 /\ Len(queued) > 0
  BY McpAssumption, Lengths DEF LiveInv, McpTypeInv
<1>1. ASSUME NEW r, active' = {r}, calling' \in BOOLEAN, finished' = FALSE,
             \A a, b \in ready' : a = b, frames' \in 0 .. MaxFrames,
             Len(queued') \in 0 .. MaxPending, UNCHANGED <<controls, writing, initialized, graph, answers>>
      PROVE  BoundedInv'
  BY <1>1 DEF BoundedInv
<1>2. CASE DispatchQueued
  <2>1. Len(queued') \in 0 .. MaxPending /\ frames' \in 0 .. MaxFrames
    BY <1>0, <1>2 DEF DispatchQueued, BoundedInv
  <2>2. UNCHANGED <<controls, writing, initialized, graph, answers>>
    BY <1>2 DEF DispatchQueued
  <2>3. /\ \E r : active' = {r}
        /\ calling' \in BOOLEAN /\ finished' = FALSE /\ \A x, y \in ready' : x = y
    BY <1>2 DEF DispatchQueued, Dispatch
  <2> QED BY <1>1, <2>1, <2>2, <2>3
<1>3. CASE RefuseNext
  <2>1. Len(queued') \in 0 .. MaxPending /\ frames' \in 0 .. MaxFrames
    BY <1>0, <1>3 DEF RefuseNext, BoundedInv, Number
  <2>2. UNCHANGED <<controls, writing, initialized, graph, answers>>
    BY <1>3 DEF RefuseNext
  <2>3. /\ \E r : active' = {r}
        /\ calling' \in BOOLEAN /\ finished' = FALSE /\ \A x, y \in ready' : x = y
    BY <1>3 DEF RefuseNext, Dispatch
  <2> QED BY <1>1, <2>1, <2>2, <2>3
<1>4. CASE \E id \in RequestId, m \in Method : DispatchNext(id, m)
  <2>1. Len(queued') \in 0 .. MaxPending /\ frames' \in 0 .. MaxFrames
    BY <1>0, <1>4 DEF DispatchNext, BoundedInv, Number
  <2>2. UNCHANGED <<controls, writing, initialized, graph, answers>>
    BY <1>4 DEF DispatchNext
  <2>3. /\ \E r : active' = {r}
        /\ calling' \in BOOLEAN /\ finished' = FALSE /\ \A x, y \in ready' : x = y
    BY <1>4 DEF DispatchNext, Dispatch
  <2> QED BY <1>1, <2>1, <2>2, <2>3
<1> QED BY <1>2, <1>3, <1>4

\* A call that goes on, returns or is cancelled.
LEMMA BoundedCalls ==
  ASSUME BoundedInv, Calls \/ CancelActive
  PROVE  BoundedInv'
<1>1. ASSUME UNCHANGED <<frames, queued, active, finished, controls, writing, answers>>,
             initialized' \in BOOLEAN, graph' \in {"none", "cached", "lent"},
             UNCHANGED <<calling, ready>> \/ \E body : Completes(body)
      PROVE  BoundedInv'
  <2>1. calling' \in BOOLEAN /\ \A a, b \in ready' : a = b
    BY <1>1 DEF Completes, BoundedInv
  <2> QED BY <1>1, <2>1 DEF BoundedInv
<1>2. CASE Initialize \/ ListTools \/ NotInitialized
  BY <1>1, <1>2 DEF Initialize, ListTools, NotInitialized, BoundedInv
<1>3. CASE TakeDriver
  BY <1>1, <1>3 DEF TakeDriver, BoundedInv, exchanged
<1>4. CASE GraphAnswers
  BY <1>1, <1>4 DEF GraphAnswers, BoundedInv
<1>5. CASE KnowledgeAnswers
  BY <1>1, <1>5 DEF KnowledgeAnswers, BoundedInv
<1>6. CASE CancelActive
  BY <1>1, <1>6 DEF CancelActive, BoundedInv
<1> QED BY <1>2, <1>3, <1>4, <1>5, <1>6 DEF Calls

\* Writing responses.
LEMMA BoundedWrites ==
  ASSUME LiveInv, BoundedInv, Writes
  PROVE  BoundedInv'
<1>0. /\ MaxPending \in Nat /\ Len(controls) \in Nat
      /\ controls # <<>> => Len(Tail(controls)) = Len(controls) - 1 /\ Len(controls) > 0
  BY McpAssumption, Lengths DEF LiveInv, McpTypeInv
<1>1. CASE StartWriting
  <2>1. Len(controls') \in 0 .. MaxPending
    BY <1>0, <1>1 DEF StartWriting, BoundedInv
  <2>2. (\A a, b \in writing' : a = b) /\ (\A a, b \in ready' : a = b)
    BY <1>1 DEF StartWriting, NextToWrite, BoundedInv
  <2>3. UNCHANGED <<frames, queued, active, calling, finished, initialized, graph, answers>>
    BY <1>1 DEF StartWriting
  <2> QED BY <2>1, <2>2, <2>3 DEF BoundedInv
<1>2. CASE FinishWriting
  <2>1. PICK a \in writing, r \in active :
          answers' = Append(answers, a) /\ finished' = (finished \/ a.number = r.number)
    BY <1>2 DEF FinishWriting
  <2>2. a \in Ans /\ answers \in Seq(Ans)
    BY DEF LiveInv, McpTypeInv
  <2>3. \A i \in DOMAIN answers' : answers'[i].body \in Bodies
    <3>1. answers' \in Seq(Ans)
      BY <2>1, <2>2
    <3>2. \A i \in DOMAIN answers' : answers'[i] \in Ans
      BY <3>1
    <3> QED BY <3>2 DEF Ans
  <2>4. finished' \in BOOLEAN
    BY <2>1
  <2>5. writing' = {} /\ UNCHANGED <<frames, queued, active, calling, ready, controls, initialized, graph>>
    BY <1>2 DEF FinishWriting
  <2> QED BY <2>3, <2>4, <2>5 DEF BoundedInv
<1>3. CASE ReturnToIdle
  BY <1>3 DEF ReturnToIdle, BoundedInv
<1> QED BY <1>1, <1>2, <1>3 DEF Writes

\* A response that joins the controls, or ends the session.
LEMMA BoundedControls ==
  ASSUME LiveInv, BoundedInv, NEW a \in Ans, Controls(a)
  PROVE  Len(controls') \in 0 .. MaxPending /\ graph' \in {"none", "cached", "lent"}
<1>1. /\ MaxPending \in Nat /\ Len(controls) \in Nat /\ Len(Append(controls, a)) = Len(controls) + 1
  BY McpAssumption, Lengths DEF LiveInv, McpTypeInv
<1> QED BY <1>1 DEF Controls, BoundedInv

\* Reading while a request runs.
LEMMA BoundedReads ==
  ASSUME LiveInv, BoundedInv,
         \/ ReadInvalid
         \/ \E id \in RequestId : ReadDuplicate(id) \/ ReadPing(id)
         \/ \E id \in RequestId, m \in Method : ReadRequest(id, m)
  PROVE  BoundedInv'
<1>0. /\ MaxFrames \in Nat /\ MaxPending \in Nat /\ frames \in Nat /\ queued \in Seq(Req)
  BY McpAssumption DEF LiveInv, McpTypeInv
<1>1. \A id \in McpIds, body \in Bodies : Answer(Number, id, body) \in Ans
  BY <1>0 DEF Answer, Number, Ans
<1>2. NoId \in McpIds /\ RequestId \subseteq McpIds /\ {"invalid", "duplicate", "pong", "full"} \subseteq Bodies
  BY DEF McpIds, Bodies
<1>3. ASSUME frames' = Number, Reads, UNCHANGED <<exchanged, writing, initialized, answers>>,
             Len(queued') \in 0 .. MaxPending, Len(controls') \in 0 .. MaxPending,
             graph' \in {"none", "cached", "lent"}
      PROVE  BoundedInv'
  BY <1>0, <1>3 DEF Reads, Number, exchanged, BoundedInv
<1>4. CASE ReadInvalid
  <2>1. Controls(Answer(Number, NoId, "invalid")) /\ Answer(Number, NoId, "invalid") \in Ans
    BY <1>1, <1>2, <1>4 DEF ReadInvalid
  <2>2. Len(controls') \in 0 .. MaxPending /\ graph' \in {"none", "cached", "lent"}
    BY <2>1, BoundedControls
  <2> QED BY <1>3, <1>4, <2>2 DEF ReadInvalid, BoundedInv
<1>5. ASSUME NEW id \in RequestId, ReadDuplicate(id)
      PROVE  BoundedInv'
  <2>1. Controls(Answer(Number, NoId, "duplicate")) /\ Answer(Number, NoId, "duplicate") \in Ans
    BY <1>1, <1>2, <1>5 DEF ReadDuplicate
  <2>2. Len(controls') \in 0 .. MaxPending /\ graph' \in {"none", "cached", "lent"}
    BY <2>1, BoundedControls
  <2> QED BY <1>3, <1>5, <2>2 DEF ReadDuplicate, BoundedInv
<1>6. ASSUME NEW id \in RequestId, ReadPing(id)
      PROVE  BoundedInv'
  <2>1. Controls(Answer(Number, id, "pong")) /\ Answer(Number, id, "pong") \in Ans
    BY <1>1, <1>2, <1>6 DEF ReadPing
  <2>2. Len(controls') \in 0 .. MaxPending /\ graph' \in {"none", "cached", "lent"}
    BY <2>1, BoundedControls
  <2> QED BY <1>3, <1>6, <2>2 DEF ReadPing, BoundedInv
<1>7. ASSUME NEW id \in RequestId, NEW m \in Method, ReadRequest(id, m)
      PROVE  BoundedInv'
  <2>0. frames' = Number /\ Reads /\ UNCHANGED <<exchanged, writing, initialized, answers>>
    BY <1>7 DEF ReadRequest
  <2> DEFINE r == [number |-> Number, id |-> id, method |-> m]
  <2>1. CASE Admits /\ queued' = Append(queued, r) /\ UNCHANGED <<phase, graph, controls>>
    <3>1. r \in Req
      BY <1>0, <1>2 DEF Req, Number
    <3>2. Len(queued') = Len(queued) + 1 /\ Len(queued) \in Nat
      <4> HIDE DEF r
      <4> QED BY <1>0, <2>1, <3>1, Lengths
    <3>3. Len(queued') \in 0 .. MaxPending
      BY <1>0, <2>1, <3>2 DEF Admits
    <3> QED BY <1>3, <2>0, <2>1, <3>3 DEF BoundedInv
  <2>2. CASE Controls(Answer(Number, id, "full")) /\ UNCHANGED queued
    <3>1. Answer(Number, id, "full") \in Ans
      BY <1>1, <1>2
    <3>2. Len(controls') \in 0 .. MaxPending /\ graph' \in {"none", "cached", "lent"}
      BY <2>2, <3>1, BoundedControls
    <3> QED BY <1>3, <2>0, <2>2, <3>2 DEF BoundedInv
  <2> QED BY <1>7, <2>1, <2>2 DEF ReadRequest
<1> QED BY <1>4, <1>5, <1>6, <1>7

\* Requests that leave the queue: cancelled or expired.
LEMMA BoundedQueue ==
  ASSUME LiveInv, BoundedInv, (\E i \in 1 .. MaxPending : CancelQueued(i)) \/ AdmissionExpires
  PROVE  BoundedInv'
<1>0. /\ MaxPending \in Nat /\ queued \in Seq(Req) /\ controls \in Seq(Ans)
  BY McpAssumption DEF LiveInv, McpTypeInv
<1>1. \A r \in Req, body \in Bodies : Answer(r.number, r.id, body) \in Ans
  BY DEF Answer, Req, Ans
<1>2. {"cancelled", "expired"} \subseteq Bodies
  BY DEF Bodies
<1>3. ASSUME UNCHANGED <<frames, exchanged, writing, initialized, answers>>,
             Len(queued') \in 0 .. MaxPending, Len(controls') \in 0 .. MaxPending,
             graph' \in {"none", "cached", "lent"}
      PROVE  BoundedInv'
  BY <1>3 DEF exchanged, BoundedInv
<1>4. ASSUME NEW i \in 1 .. MaxPending, CancelQueued(i)
      PROVE  BoundedInv'
  <2>1. i \in 1 .. Len(queued) /\ queued[i] \in Req
    BY <1>0, <1>4 DEF CancelQueued
  <2>2. Answer(queued[i].number, queued[i].id, "cancelled") \in Ans
    BY <1>1, <1>2, <2>1
  <2>3. Len(controls') \in 0 .. MaxPending /\ graph' \in {"none", "cached", "lent"}
    BY <1>4, <2>2, BoundedControls DEF CancelQueued
  <2>4. Len(queued') = Len(queued) - 1 /\ Len(queued) \in Nat
    BY <1>0, <1>4, <2>1, Lengths DEF CancelQueued
  <2>5. Len(queued') \in 0 .. MaxPending
    BY <1>0, <2>1, <2>4 DEF BoundedInv
  <2> QED BY <1>3, <1>4, <2>3, <2>5 DEF CancelQueued
<1>5. CASE AdmissionExpires
  <2> DEFINE a == Answer(Head(queued).number, Head(queued).id, "expired")
  <2>1. queued # <<>> /\ Head(queued) \in Req /\ Len(Tail(queued)) = Len(queued) - 1 /\ Len(queued) > 0
    BY <1>0, <1>5, Lengths DEF AdmissionExpires
  <2>2. a \in Ans
    BY <1>1, <1>2, <2>1
  <2>3. Len(Append(controls, a)) = Len(controls) + 1 /\ Len(controls) \in Nat /\ Len(queued) \in Nat
    <3> HIDE DEF a
    <3> QED BY <1>0, <2>2, Lengths
  <2>4. CASE Len(controls) = MaxPending
    <3>1. graph' = "none" /\ UNCHANGED <<queued, controls>>
      BY <1>5, <2>4 DEF AdmissionExpires
    <3> QED BY <1>3, <1>5, <3>1 DEF AdmissionExpires, BoundedInv
  <2>5. CASE Len(controls) # MaxPending
    <3>1. queued' = Tail(queued) /\ controls' = Append(controls, a) /\ UNCHANGED graph
      BY <1>5, <2>5 DEF AdmissionExpires
    <3>2. Len(queued') \in 0 .. MaxPending /\ Len(controls') \in 0 .. MaxPending
      <4> HIDE DEF a
      <4> QED BY <1>0, <2>1, <2>3, <2>5, <3>1 DEF BoundedInv
    <3> QED BY <1>3, <1>5, <3>1, <3>2 DEF AdmissionExpires, BoundedInv
  <2> QED BY <2>4, <2>5
<1> QED BY <1>4, <1>5

\* The end of a session, and of an idle driver.
LEMMA BoundedEnds ==
  ASSUME BoundedInv, InputEnds \/ OutputTimesOut \/ DriverExpires
  PROVE  BoundedInv'
<1>1. UNCHANGED <<frames, queued, exchanged, controls, writing, initialized, answers>> /\ graph' = "none"
  BY DEF InputEnds, OutputTimesOut, SessionEnds, DriverExpires
<1> QED BY <1>1 DEF exchanged, BoundedInv

\* Every step of a session.
LEMMA BoundedSteps ==
  ASSUME McpInv, BoundedInv, [McpNext]_mcpVars
  PROVE  BoundedInv'
<1>1. CASE McpNext
  <2>1. LiveInv
    BY <1>1, ClosedStops DEF McpInv
  <2> QED BY <1>1, <2>1, BoundedDispatch, BoundedCalls, BoundedWrites, BoundedReads, BoundedQueue, BoundedEnds
          DEF McpNext, Client, Timers
<1>2. CASE UNCHANGED mcpVars
  BY <1>2 DEF mcpVars, BoundedInv
<1> QED BY <1>1, <1>2

\* A session is of its types.
LEMMA McpTyped == McpInv /\ BoundedInv => McpTypeOK
<1> SUFFICES ASSUME McpInv, BoundedInv PROVE McpTypeOK
  OBVIOUS
<1>1. phase \in {"idle", "exchange", "closed"}
  BY DEF McpInv
<1>2. Cardinality(active) <= 1 /\ Cardinality(writing) <= 1 /\ Cardinality(ready) <= 1
  <2>1. (\A r, s \in active : r = s) /\ (\A r, s \in writing : r = s) /\ (\A r, s \in ready : r = s)
    BY DEF BoundedInv
  <2>2. Cardinality(active) \in {0, 1} /\ Cardinality(writing) \in {0, 1} /\ Cardinality(ready) \in {0, 1}
    BY <2>1, AtMostOne
  <2> QED BY <2>2
<1>3. Len(queued) <= MaxPending /\ Len(controls) <= MaxPending
  BY McpAssumption DEF BoundedInv
<1> QED BY <1>1, <1>2, <1>3 DEF BoundedInv, McpTypeOK

\* A connection's frames are bounded, and so are the states it is in.
FramedInv ==
  /\ conn.pc \in {"admitting", "serving", "ended"} /\ conn.initialized \in BOOLEAN
  /\ conn.frames \in 0 .. MaxScopedFrames

\* A connection begins with no frame.
LEMMA FramedBegins == ScopedInit => FramedInv
<1> SUFFICES ASSUME ScopedInit PROVE FramedInv
  OBVIOUS
<1>1. MaxScopedFrames \in Nat
  BY ScopedAssumption
<1>2. conn.pc = "admitting" /\ conn.initialized \in BOOLEAN /\ conn.frames = 0
  BY DEF ScopedInit, NoConn
<1>3. conn.frames \in 0 .. MaxScopedFrames
  BY <1>1, <1>2
<1> QED BY <1>2, <1>3 DEF FramedInv

\* A frame that is read.
LEMMA FramedReads ==
  ASSUME ViewInv, FramedInv, InitializeScoped \/ AnswerAtOnce \/ \E call \in ScopedCall : RequestCall(call)
  PROVE  FramedInv'
<1>0. DOMAIN conn = {"pc", "initialized", "running", "sending", "frames", "calls"} /\ MaxScopedFrames \in Nat
  BY ScopedAssumption DEF ViewInv, ConnFine
<1>1. conn.frames < MaxScopedFrames
  BY DEF InitializeScoped, AnswerAtOnce, RequestCall, Requested
<1>2. CASE InitializeScoped
  <2>1. \E x : conn' = [[[conn EXCEPT !.frames = FrameNumber] EXCEPT !.initialized = TRUE] EXCEPT !.sending = {x}]
    BY <1>2 DEF InitializeScoped, Sends, Frame
  <2>2. conn'.pc = conn.pc /\ conn'.initialized \in BOOLEAN /\ conn'.frames = FrameNumber
    BY <1>0, <2>1
  <2>3. conn'.frames \in 0 .. MaxScopedFrames
    BY <1>0, <1>1, <2>2 DEF FrameNumber, FramedInv
  <2> QED BY <2>2, <2>3 DEF FramedInv
<1>3. CASE AnswerAtOnce
  <2>1. \E x : conn' = [[conn EXCEPT !.frames = FrameNumber] EXCEPT !.sending = {x}]
    BY <1>3 DEF AnswerAtOnce, Sends, Frame
  <2>2. conn'.pc = conn.pc /\ conn'.initialized = conn.initialized /\ conn'.frames = FrameNumber
    BY <1>0, <2>1
  <2> QED BY <1>0, <1>1, <2>2 DEF FrameNumber, FramedInv
<1>4. ASSUME NEW call \in ScopedCall, RequestCall(call)
      PROVE  FramedInv'
  <2>1. \E x : \/ conn' = [[conn EXCEPT !.frames = FrameNumber] EXCEPT !.sending = {x}]
               \/ conn' = [[conn EXCEPT !.frames = FrameNumber] EXCEPT !.running = {x}]
    BY <1>4 DEF RequestCall, Sends, Frame
  <2>2. conn'.pc = conn.pc /\ conn'.initialized = conn.initialized /\ conn'.frames = FrameNumber
    BY <1>0, <2>1
  <2> QED BY <1>0, <1>1, <2>2 DEF FrameNumber, FramedInv
<1> QED BY <1>2, <1>3, <1>4

\* The call, its task and its answer move no frame.
LEMMA FramedCalls ==
  ASSUME ViewInv, FramedInv, CancelCall \/ TakeAnswer \/ BeginCall \/ CompleteCall \/ CallFails
              \/ PollWrite \/ WriteStalls \/ WriteResponse
  PROVE  FramedInv'
<1>0. DOMAIN conn = {"pc", "initialized", "running", "sending", "frames", "calls"}
  BY DEF ViewInv, ConnFine
<1>1. conn'.pc = conn.pc /\ conn'.initialized = conn.initialized /\ conn'.frames = conn.frames
  <2>1. CASE CancelCall \/ TakeAnswer
    <3>1. \E x : conn' = [[conn EXCEPT !.running = {}] EXCEPT !.sending = {x}]
      BY <2>1 DEF CancelCall, TakeAnswer, Sends
    <3> QED BY <1>0, <3>1
  <2>2. CASE BeginCall
    <3>1. \E x, y : conn' = [conn EXCEPT !.running = x] \/ conn' = [conn EXCEPT !.calls = y, !.running = x]
      <4>1. PICK r \in conn.running : conn' =
            CASE lease # "valid" -> [conn EXCEPT !.running = Ready(r, Blocked(lease))]
              [] lease = "valid" /\ conn.calls >= CallCap ->
                   [conn EXCEPT !.running = Ready(r, Blocked("budget"))]
              [] OTHER -> [conn EXCEPT !.calls = @ + Charge(r), !.running =
                   IF r.call.granted THEN {[r EXCEPT !.stage = "working"]}
                                     ELSE Ready(r, Blocked("denied"))]
        BY <2>2 DEF BeginCall
      <4>2. CASE lease # "valid"
        BY <4>1, <4>2
      <4>3. CASE lease = "valid" /\ conn.calls >= CallCap
        BY <4>1, <4>3
      <4>4. CASE lease = "valid" /\ ~ (conn.calls >= CallCap)
        BY <4>1, <4>4
      <4> QED BY <4>2, <4>3, <4>4
    <3> QED BY <1>0, <3>1
  <2>3. CASE CompleteCall \/ CallFails
    <3>1. \E x : conn' = [conn EXCEPT !.running = x]
      BY <2>3 DEF CompleteCall, CallFails
    <3> QED BY <1>0, <3>1
  <2>4. CASE PollWrite \/ WriteStalls \/ WriteResponse
    <3>1. \E x : conn' = [conn EXCEPT !.sending = x]
      BY <2>4 DEF PollWrite, WriteStalls, WriteResponse
    <3> QED BY <1>0, <3>1
  <2> QED BY <2>1, <2>2, <2>3, <2>4
<1> QED BY <1>1 DEF FramedInv

\* Admission, and the end.
LEMMA FramedEnds ==
  ASSUME ViewInv, FramedInv, Admit \/ AdmissionFails \/ Revoke \/ Expire \/ EndConnection
  PROVE  FramedInv'
<1>0. DOMAIN conn = {"pc", "initialized", "running", "sending", "frames", "calls"}
  BY DEF ViewInv, ConnFine
<1> QED BY <1>0 DEF Admit, AdmissionFails, Revoke, Expire, EndConnection, Ended, NoConn, FramedInv

\* Every step of a connection.
LEMMA FramedSteps ==
  ASSUME ViewInv, FramedInv, [ScopedNext]_scopedVars
  PROVE  FramedInv'
<1>1. CASE UNCHANGED scopedVars
  BY <1>1 DEF scopedVars, FramedInv
<1> QED BY <1>1, FramedReads, FramedCalls, FramedEnds DEF ScopedNext

\* A connection is of its types.
LEMMA ScopedTyped == ViewInv /\ FramedInv => ScopedTypeOK
<1> SUFFICES ASSUME ViewInv, FramedInv PROVE ScopedTypeOK
  OBVIOUS
<1>1. build \in Builds /\ lease \in {"valid", "expired", "revoked"} /\ conn.calls \in 0 .. CallCap
  BY DEF ViewInv, ConnFine
<1>4. tried \subseteq 1 .. MaxScopedFrames
  <2>1. tried \subseteq 1 .. conn.frames /\ conn.frames \in 0 .. MaxScopedFrames /\ MaxScopedFrames \in Nat
    BY ScopedAssumption DEF ViewInv, ConnFine, FramedInv
  <2> QED BY <2>1
<1>2. (\A x, y \in scope : x = y) /\ (\A r, s \in conn.running : r = s) /\ (\A r, s \in conn.sending : r = s)
  BY DEF ViewInv, ConnFine
<1>3. Cardinality(scope) \in {0, 1} /\ Cardinality(conn.running) \in {0, 1} /\ Cardinality(conn.sending) \in {0, 1}
  BY <1>2, AtMostOne
<1> QED BY <1>1, <1>3, <1>4 DEF FramedInv, ScopedTypeOK

\* What grants may be, how often they changed, and who has replied.
RegrantInv == \A p \in Provider : grants[p].grant \in Grants \cup {NoGrant} /\ grants[p].changed <= MaxRegrants
SilentInv == \A p \in Provider : jobs[p].pc # "answered" => jobs[p].reply = {}

\* Whoever answered has a reply: an error, a packet or a record.
LEMMA AnsweredReplies ==
  ASSUME FederationInv, NEW p \in Provider, jobs[p].pc = "answered"
  PROVE  jobs[p].reply # {}
<1>1. query.pc # "idle" /\ JobFine(p, jobs[p])
  BY ProviderFacts DEF JobFine
<1>2. Asks("context") \/ Asks("evidence")
  <2>1. NoQuery.pc = "idle"
    BY DEF NoQuery
  <2>2. query # NoQuery
    BY <1>1, <2>1
  <2> QED BY <2>2, ProviderFacts
<1>3. \A x : Reply(x) # {} /\ Error(x) # {}
  BY DEF Reply, Error
<1> QED BY <1>1, <1>2, <1>3 DEF JobFine, ContextReplied, EvidenceReplied, Failed

\* Grants change as they are told to, as often as they may.
LEMMA RegrantSteps ==
  ASSUME FederationInv, RegrantInv, [FederationNext]_federationVars
  PROVE  RegrantInv'
<1>1. CASE \E p \in Peers, g \in Grants : ChangeGrants(p, g)
  <2>1. PICK p \in Peers, g \in Grants :
          /\ grants[p].changed < MaxRegrants
          /\ grants' = [grants EXCEPT ![p] = [grant |-> g, changed |-> @.changed + 1]]
    BY <1>1 DEF ChangeGrants
  <2>2. p \in Provider /\ MaxRegrants \in Nat
    BY FederationAssumption, LocalFacts
  <2>3. grants \in [Provider -> [grant : GrantType, changed : Nat]]
    BY DEF FederationInv, OwnersFine
  <2>4. /\ grants'[p].grant = g /\ grants'[p].changed = grants[p].changed + 1
        /\ \A o \in Provider \ {p} : grants'[o] = grants[o]
    BY <2>1, <2>2, <2>3
  <2>5. grants'[p].changed <= MaxRegrants
    BY <2>1, <2>2, <2>3, <2>4
  <2> QED BY <2>4, <2>5 DEF RegrantInv
<1>2. CASE UNCHANGED grants
  BY <1>2 DEF RegrantInv
<1> QED BY <1>1, <1>2 DEF FederationNext, PublishKnowledge, LoadGrants, AnswerContext, ReadCurrent, ReadHistory,
               Unavailable, Misanswers, AskContext, ConsultPeers, Assemble, AskEvidence, ReturnEvidence, Forget,
               federationVars

\* A job of one provider moves: it is answered, or goes on without a reply.
LEMMA SilentJob ==
  ASSUME FederationInv, SilentInv, NEW p \in Provider, jobs[p].pc # "answered",
         \/ \E S : Replies(p, S)
         \/ \E pc, g : jobs' = [jobs EXCEPT ![p].pc = pc, ![p].grant = g]
         \/ \E pc, n : jobs' = [jobs EXCEPT ![p].pc = pc, ![p].current = n]
  PROVE  SilentInv'
<1>1. DOMAIN jobs = Provider /\ DOMAIN jobs[p] = {"pc", "grant", "current", "reply"}
  BY ProviderFacts DEF JobFine
<1>2. \A o \in Provider \ {p} : jobs'[o] = jobs[o]
  BY <1>1 DEF Replies
<1>3. jobs'[p].pc = "answered" \/ jobs'[p].reply = jobs[p].reply
  <2>1. ASSUME NEW S, Replies(p, S) PROVE jobs'[p].pc = "answered"
    BY <1>1, <2>1 DEF Replies
  <2>2. ASSUME NEW pc, NEW g, jobs' = [jobs EXCEPT ![p].pc = pc, ![p].grant = g]
        PROVE  jobs'[p].reply = jobs[p].reply
    BY <1>1, <2>2
  <2>3. ASSUME NEW pc, NEW n, jobs' = [jobs EXCEPT ![p].pc = pc, ![p].current = n]
        PROVE  jobs'[p].reply = jobs[p].reply
    BY <1>1, <2>3
  <2> QED BY <2>1, <2>2, <2>3
<1> QED BY <1>2, <1>3 DEF SilentInv

\* The steps of providers.
LEMMA SilentProviders ==
  ASSUME FederationInv, SilentInv, NEW p \in Provider,
         LoadGrants(p) \/ AnswerContext(p) \/ ReadCurrent(p) \/ ReadHistory(p) \/ Unavailable(p) \/ Misanswers(p)
  PROVE  SilentInv'
<1>1. jobs[p].pc # "answered"
  BY DEF LoadGrants, AnswerContext, ReadCurrent, ReadHistory, Unavailable, Misanswers
<1>2. CASE LoadGrants(p)
  <2>1. \/ \E S : Replies(p, S)
        \/ jobs' = [jobs EXCEPT ![p].pc = "read", ![p].grant = grants[p].grant]
    BY <1>2 DEF LoadGrants
  <2> QED BY <1>1, <2>1, SilentJob
<1>3. CASE AnswerContext(p)
  <2>1. \E S : Replies(p, S)
    BY <1>3 DEF AnswerContext
  <2> QED BY <1>1, <2>1, SilentJob
<1>4. CASE ReadCurrent(p)
  <2>1. \/ \E S : Replies(p, S)
        \/ jobs' = [jobs EXCEPT ![p].pc = "history", ![p].current = generation[p]]
    BY <1>4 DEF ReadCurrent
  <2> QED BY <1>1, <2>1, SilentJob
<1>5. CASE ReadHistory(p)
  <2>1. \E S : Replies(p, S)
    BY <1>5 DEF ReadHistory
  <2> QED BY <1>1, <2>1, SilentJob
<1>6. CASE Unavailable(p)
  <2>1. \E S : Replies(p, S)
    BY <1>6 DEF Unavailable
  <2> QED BY <1>1, <2>1, SilentJob
<1>7. CASE Misanswers(p)
  <2>1. \E S : Replies(p, S)
    BY <1>7 DEF Misanswers
  <2> QED BY <1>1, <2>1, SilentJob
<1> QED BY <1>2, <1>3, <1>4, <1>5, <1>6, <1>7

\* A query begins, consults peers and is forgotten: new jobs have no reply.
LEMMA SilentQueries ==
  ASSUME FederationInv, SilentInv, AskContext \/ ConsultPeers \/ (\E h \in Addresses : AskEvidence(h)) \/ Forget
  PROVE  SilentInv'
<1>1. NoJob.reply = {} /\ Loading.reply = {}
  BY DEF NoJob, Loading
<1>2. \A p \in Provider : jobs'[p] = jobs[p] \/ jobs'[p] = NoJob \/ jobs'[p] = Loading
  <2>1. DOMAIN jobs = Provider
    BY DEF FederationInv
  <2> QED BY <2>1 DEF AskContext, ConsultPeers, AskEvidence, Forget
<1> QED BY <1>1, <1>2 DEF SilentInv

\* Every step of federation.
LEMMA SilentSteps ==
  ASSUME FederationInv, SilentInv, [FederationNext]_federationVars
  PROVE  SilentInv'
<1>1. CASE UNCHANGED jobs
  BY <1>1 DEF SilentInv
<1>2. ASSUME NEW p \in Provider, PublishKnowledge(p) PROVE UNCHANGED jobs
  BY <1>2 DEF PublishKnowledge
<1>3. ASSUME NEW p \in Peers, NEW g \in Grants, ChangeGrants(p, g) PROVE UNCHANGED jobs
  BY <1>3 DEF ChangeGrants
<1>4. Assemble \/ ReturnEvidence \/ UNCHANGED federationVars => UNCHANGED jobs
  BY DEF Assemble, ReturnEvidence, federationVars
<1> QED BY <1>1, <1>2, <1>3, <1>4, SilentProviders, SilentQueries DEF FederationNext

\* Nobody was asked and nothing granted at first.
LEMMA SilentBegins == FederationInit => RegrantInv /\ SilentInv
<1> SUFFICES ASSUME FederationInit PROVE RegrantInv /\ SilentInv
  OBVIOUS
<1>1. MaxRegrants \in Nat
  BY FederationAssumption
<1>2. \A p \in Provider : grants[p] = [grant |-> NoGrant, changed |-> 0] /\ jobs[p].reply = {}
  BY DEF FederationInit, NoJob
<1> QED BY <1>1, <1>2 DEF RegrantInv, SilentInv

\* Federation is of its types.
LEMMA FederationTyped == FederationInv /\ RegrantInv /\ SilentInv => FederationTypeOK
<1> SUFFICES ASSUME FederationInv, RegrantInv, SilentInv PROVE FederationTypeOK
  OBVIOUS
<1>1. ASSUME NEW p \in Provider
      PROVE  /\ generation[p] \in DOMAIN Knowledge[p]
             /\ grants[p].grant \in Grants \cup {NoGrant} /\ grants[p].changed \in 0 .. MaxRegrants
             /\ jobs[p].pc \in {"none", "load", "read", "history", "answered"}
             /\ jobs[p].pc = "answered" <=> jobs[p].reply # {}
  <2>1. generation[p] \in DOMAIN Knowledge[p] /\ grants[p].changed \in Nat
    BY DEF FederationInv, OwnersFine
  <2>2. jobs[p].pc \in {"none", "load", "read", "history", "answered"}
    BY DEF FederationInv, JobFine
  <2>3. grants[p].grant \in Grants \cup {NoGrant} /\ grants[p].changed \in 0 .. MaxRegrants
    BY <2>1, FederationAssumption DEF RegrantInv
  <2>4. jobs[p].pc = "answered" <=> jobs[p].reply # {}
    BY AnsweredReplies DEF SilentInv
  <2> QED BY <2>1, <2>2, <2>3, <2>4
<1>2. query.pc \in {"idle", "local", "peers", "evidence", "done"} /\ query.handle \subseteq Addresses
  <2>1. QueryFine
    BY DEF FederationInv
  <2> QED BY <2>1 DEF QueryFine, NoQuery
<1> QED BY <1>1, <1>2 DEF FederationTypeOK

\* Where a reader may be.
PlacedInv ==
  read.pc \in {"idle", "name", "pin", "outgoing", "incoming", "returned", "cursor", "from",
               "to", "search", "seed", "expand", "export", "diff", "refused", "exhausted", "done"}

\* A reader waits for a query at first.
LEMMA PlacedBegins == ReadingInit => PlacedInv
BY DEF ReadingInit, NoRead, PlacedInv

\* A query is asked, named or finished; a build is published.
LEMMA PlacedAsks ==
  ASSUME Readable, PlacedInv,
         (\E q \in Query : Ask(q)) \/ Finish \/ (\E b \in Build : MovePointer(b)) \/ ResolveName
  PROVE  PlacedInv'
<1>1. DOMAIN read = {"pc", "query", "build", "pages", "search", "context", "answer"}
  BY DEF Readable
<1>2. CASE \E q \in Query : Ask(q)
  <2>1. read'.pc \in {"name", "pin"}
    BY <1>2 DEF Ask, NoRead
  <2> QED BY <2>1 DEF PlacedInv
<1>3. CASE Finish
  <2>1. read'.pc = "idle"
    BY <1>3 DEF Finish, NoRead
  <2> QED BY <2>1 DEF PlacedInv
<1>4. CASE \E b \in Build : MovePointer(b)
  BY <1>4 DEF MovePointer, PlacedInv
<1>5. CASE ResolveName
  <2>1. read'.pc \in {"pin", "refused"}
    BY <1>1, <1>5 DEF ResolveName
  <2> QED BY <2>1 DEF PlacedInv
<1> QED BY <1>2, <1>3, <1>4, <1>5

\* A read starts where its query does.
LEMMA PlacedStarts ==
  ASSUME Readable, PlacedInv, PinBuild
  PROVE  PlacedInv'
<1>1. DOMAIN read = {"pc", "query", "build", "pages", "search", "context", "answer"}
  BY DEF Readable
<1>2. PICK q \in read.query :
        LET b == PinOf(q) IN
        IF b = {} THEN read' = [read EXCEPT !.pc = "refused"]
        ELSE read' = [read EXCEPT !.pc = Starts(q), !.build = b,
                     !.pages.first = IF @ = {} THEN b ELSE @,
                     !.pages.at = IF q.kind = "page" /\ read.build = {} THEN Opening(q) ELSE @,
                     !.search.queries = IF q.kind = "path" THEN @ - 2 ELSE @]
  BY DEF PinBuild
<1>3. read'.pc \in {"refused", Starts(q)}
  BY <1>1, <1>2
<1>4. q \in QueryType
  BY ReadingAssumption DEF Readable
<1>5. q.kind \in {"page", "path", "context", "export", "diff"}
  BY <1>4 DEF QueryType
<1>6. Starts(q) \in {"outgoing", "from", "seed", "export", "diff"}
  BY <1>5 DEF Starts
<1> QED BY <1>3, <1>6 DEF PlacedInv

\* Every other step.
LEMMA PlacedOthers ==
  ASSUME Readable, PlacedInv, Pages \/ Paths \/ Contexts \/ Export \/ Diff
  PROVE  PlacedInv'
<1>1. DOMAIN read = {"pc", "query", "build", "pages", "search", "context", "answer"}
  BY DEF Readable
<1>a. read'.pc = read.pc => PlacedInv'
  BY DEF PlacedInv
<1>3. CASE DirectionalPage("outgoing", "incoming") \/ DirectionalPage("incoming", "returned")
  <2>1. read'.pc \in {"incoming", "returned"}
    BY <1>1, <1>3 DEF DirectionalPage
  <2> QED BY <2>1 DEF PlacedInv
<1>4. CASE ReturnPage \/ (\E q \in Query : Continue(q))
  <2>1. read'.pc \in {"done", "cursor", "pin", "refused"}
    BY <1>1, <1>4 DEF ReturnPage, Continue
  <2> QED BY <2>1 DEF PlacedInv
<1>b. Exhausts \/ (\E path : ReturnsPath(path)) => PlacedInv'
  <2> SUFFICES ASSUME Exhausts \/ (\E path : ReturnsPath(path)) PROVE PlacedInv'
    OBVIOUS
  <2>1. read'.pc \in {"exhausted", "done"}
    BY <1>1 DEF Exhausts, ReturnsPath
  <2> QED BY <2>1 DEF PlacedInv
<1>5. CASE FindEndpoint("from", From, "to") \/ FindEndpoint("to", {Asked.to}, "search")
  <2>1. Exhausts \/ (\E path : ReturnsPath(path)) \/ read'.pc \in {"to", "search"}
    BY <1>1, <1>5 DEF FindEndpoint
  <2> QED BY <1>b, <2>1 DEF PlacedInv
<1>6. CASE NextVertex
  <2>1. (\E path : ReturnsPath(path)) \/ read'.pc = read.pc
    BY <1>1, <1>6 DEF NextVertex
  <2> QED BY <1>a, <1>b, <2>1
<1>7. CASE ReadPathPage
  <2>2. PICK at \in read.search.at : ReadsPage(at, PathPage(at), VisitAll(PathStart, at, PathPage(at)))
    BY <1>7, ReadPathPageIs
  <2> DEFINE page == PathPage(at)
             s == VisitAll(PathStart, at, page)
             next == PathNext(at, page)
  <2>3. Exhausts \/ ReturnsPath(PathTo(Asked.to, s.parents)) \/ GoesOnWith(s, next, Len(page))
    BY <2>2 DEF ReadsPage
  <2> HIDE DEF page, s, next
  <2>4. GoesOnWith(s, next, Len(page)) => read'.pc = read.pc
    BY <1>1 DEF GoesOnWith
  <2> QED BY <1>a, <1>b, <2>3, <2>4
<1>8. CASE PathFails
  BY <1>8, <1>b DEF PathFails
<1>9. CASE Seed \/ Expand \/ Shorten \/ ReturnContext
  <2>1. CASE Seed
    <3>1. \E c : read' = [read EXCEPT !.pc = "expand", !.context = c]
      BY <2>1 DEF Seed
    <3>2. read'.pc = "expand"
      BY <1>1, <3>1
    <3> QED BY <3>2 DEF PlacedInv
  <2>2. CASE Expand \/ Shorten
    <3>1. \E c : read' = [read EXCEPT !.context = c]
      BY <2>2 DEF Expand, Shorten
    <3>2. read'.pc = read.pc
      BY <1>1, <3>1
    <3> QED BY <1>a, <3>2
  <2>3. CASE ReturnContext
    <3>1. read'.pc = "done"
      BY <1>1, <2>3 DEF ReturnContext
    <3> QED BY <3>1 DEF PlacedInv
  <2> QED BY <1>9, <2>1, <2>2, <2>3
<1>10. CASE Export
  <2>1. read'.pc \in {"done", "exhausted"}
    BY <1>1, <1>10 DEF Export
  <2> QED BY <2>1 DEF PlacedInv
<1>11. CASE Diff
  <2>1. read'.pc \in {"refused", "exhausted", "done"}
    BY <1>1, <1>11 DEF Diff
  <2> QED BY <2>1 DEF PlacedInv
<1> QED BY <1>3, <1>4, <1>5, <1>6, <1>7, <1>8, <1>9, <1>10, <1>11 DEF Pages, Paths, Contexts

\* Every step of the reader.
LEMMA PlacedSteps ==
  ASSUME ReaderInv, PlacedInv, [ReadingNext]_readingVars
  PROVE  PlacedInv'
<1>1. CASE UNCHANGED readingVars
  BY <1>1 DEF readingVars, PlacedInv
<1>2. CASE ReadingNext
  BY <1>2, PlacedAsks, PlacedStarts, PlacedOthers DEF ReadingNext, ReaderInv
<1> QED BY <1>1, <1>2

\* The types of a reader.
LEMMA ReadingTyped ==
  ASSUME ReaderInv, SearchInv, ContextInv, PlacedInv
  PROVE  ReadingTypeOK
<1>1. /\ content \in Contents /\ published \subseteq Build /\ pointer \subseteq published
      /\ read.query \subseteq Query /\ read.build \subseteq Build
  BY DEF ReaderInv, Readable
<1>2. /\ read.search.seen \subseteq Vertex /\ read.search.rows \in 0 .. MaxRows
      /\ read.search.queries <= MaxQueries
  BY DEF SearchInv, SearchTyped
<1>3. read.context.reads \in 0 .. EdgeCap
  BY DEF ContextInv
<1> QED BY <1>1, <1>2, <1>3 DEF ReadingTypeOK, PlacedInv

\* What a pass is about: receipts that may be written, and sessions.
PassTyped ==
  /\ pass.unread \subseteq DOMAIN Journals
  /\ pass.files \subseteq Receipt /\ pass.todo \subseteq Session
  /\ DOMAIN pass.effective \subseteq Session

\* What is effective is about sessions with receipts.
LEMMA EffectiveSessions ==
  ASSUME NEW files, files \subseteq Receipt
  PROVE  DOMAIN Effective(files) \subseteq Session
<1>1. \A r \in files : r.file.session \in Session
  BY CampaignAssumption DEF IsReceipt
<1>2. Covered(files) \subseteq Session
  BY <1>1 DEF Covered
<1>3. CASE Resolvable(files)
  <2>1. DOMAIN Effective(files) = Covered(files)
    BY <1>3 DEF Effective
  <2> QED BY <1>2, <2>1
<1>4. CASE ~ Resolvable(files)
  <2>1. DOMAIN Effective(files) = {}
    BY <1>4 DEF Effective
  <2> QED BY <2>1
<1> QED BY <1>3, <1>4

\* A pass that waits is about nothing.
LEMMA PassBegins == CampaignInit => PassTyped
BY DEF CampaignInit, Waiting, PassTyped

\* A pass takes its receipts from the campaign, one directory after another.
LEMMA PassLists ==
  ASSUME CampaignInv, PassTyped, (\E o \in Options : BeginPass(o)) \/ ReadJournal
  PROVE  PassTyped'
<1>1. DOMAIN pass = PassFields /\ campaign.receipts \subseteq Receipt
  BY DEF CampaignInv, CampaignOK, CampaignType, PassShape
<1>2. CASE \E o \in Options : BeginPass(o)
  BY <1>1, <1>2 DEF BeginPass, PassFields, PassTyped
<1>3. CASE ReadJournal
  BY <1>1, <1>3 DEF ReadJournal, PassFields, PassTyped
<1> QED BY <1>2, <1>3

\* The sessions of a pass are those of its receipts.
LEMMA PassResolves ==
  ASSUME CampaignInv, PassTyped, ResolveReceipts
  PROVE  PassTyped'
<1> DEFINE effective == Effective(pass.files)
<1>1. DOMAIN pass = PassFields
  BY DEF CampaignInv, PassShape
<1>2. CASE Stopped
  <2>1. pass' = [pass EXCEPT !.pc = "stopped"]
    BY <1>2 DEF Stopped
  <2>2. /\ pass'.files = pass.files /\ pass'.todo = pass.todo /\ pass'.effective = pass.effective
        /\ pass'.unread = pass.unread
    BY <1>1, <2>1 DEF PassFields
  <2> QED BY <2>2 DEF PassTyped
<1>3. CASE /\ Opts.sessions \subseteq DOMAIN effective
           /\ \E chosen \in Selections(Opts, DOMAIN effective) :
                pass' = [pass EXCEPT !.pc = "pins", !.effective = effective, !.todo = chosen,
                                     !.report.chain = ~ Resolvable(pass.files)]
  <2>1. PICK chosen \in Selections(Opts, DOMAIN effective) :
          pass' = [pass EXCEPT !.pc = "pins", !.effective = effective, !.todo = chosen,
                               !.report.chain = ~ Resolvable(pass.files)]
    BY <1>3
  <2>2. chosen \subseteq DOMAIN effective
    BY <1>3 DEF Selections
  <2>3. DOMAIN effective \subseteq Session
    BY EffectiveSessions DEF PassTyped
  <2> HIDE DEF effective
  <2>4. /\ pass'.files = pass.files /\ pass'.todo = chosen /\ pass'.effective = effective
        /\ pass'.unread = pass.unread
    BY <1>1, <2>1 DEF PassFields
  <2> QED BY <2>2, <2>3, <2>4 DEF PassTyped
<1> QED BY <1>2, <1>3 DEF ResolveReceipts

\* No other step of a pass adds to what it is about.
LEMMA PassGoesOn ==
  ASSUME CampaignInv, PassTyped,
         \/ LoadPins \/ ReadVersion \/ BeginSnapshot \/ ReconcileInventory
         \/ \E s \in Session : CheckSession(s)
         \/ FinishSnapshot
  PROVE  PassTyped'
<1>1. DOMAIN pass = PassFields
  BY DEF CampaignInv, PassShape
<1>a. /\ pass'.unread = pass.unread /\ pass'.files = pass.files
      /\ pass'.todo \subseteq pass.todo /\ pass'.effective = pass.effective
      => PassTyped'
  BY DEF PassTyped
<1>b. Stopped => PassTyped'
  BY <1>1, <1>a DEF Stopped, PassFields
<1>2. CASE LoadPins
  BY <1>1, <1>a, <1>b, <1>2 DEF LoadPins, PassFields
<1>3. CASE ReadVersion
  BY <1>1, <1>a, <1>3 DEF ReadVersion, PassFields
<1>4. CASE BeginSnapshot
  BY <1>1, <1>a, <1>4 DEF BeginSnapshot, PassFields
<1>5. CASE ReconcileInventory
  BY <1>1, <1>a, <1>5 DEF ReconcileInventory, PassFields
<1>6. CASE \E s \in Session : CheckSession(s)
  <2>1. PICK s \in Session : CheckSession(s)
    BY <1>6
  <2>2. Stopped \/ \E r : pass' = [pass EXCEPT !.todo = @ \ {s}, !.report = r]
    BY <2>1 DEF CheckSession
  <2>3. CASE \E r : pass' = [pass EXCEPT !.todo = @ \ {s}, !.report = r]
    BY <1>1, <1>a, <2>3 DEF PassFields
  <2> QED BY <1>b, <2>2, <2>3
<1>7. CASE FinishSnapshot
  BY <1>1, <1>a, <1>7 DEF FinishSnapshot, PassFields
<1> QED BY <1>2, <1>3, <1>4, <1>5, <1>6, <1>7

\* Every step of a campaign.
LEMMA PassSteps ==
  ASSUME CampaignInv, PassTyped, [CampaignNext]_campaignVars
  PROVE  PassTyped'
<1>1. CASE Verify
  BY <1>1, PassLists, PassResolves, PassGoesOn DEF Verify
<1>2. CASE UNCHANGED pass
  BY <1>2 DEF PassTyped
<1>3. CASE \/ \E s \in Session : DriverWrites(s) \/ SessionRemoved(s) \/ DriverProgress(s)
           \/ DestinationDamaged
           \/ \E r \in Receipt : DriverReceipts(r)
  <2>1. UNCHANGED pass
    BY <1>3 DEF DriverWrites, SessionRemoved, DriverProgress, DestinationDamaged, DriverReceipts
  <2> QED BY <1>2, <2>1
<1> QED BY <1>1, <1>2, <1>3 DEF CampaignNext, campaignVars

\* The types of a campaign and of the pass that verifies it.
LEMMA CampaignTyped ==
  ASSUME CampaignInv, PassTyped
  PROVE  CampaignTypeOK
<1>1. campaign \in CampaignType /\ version \in Nat
  BY DEF CampaignInv, CampaignOK
<1>2. /\ campaign.progress \in InventoryType /\ campaign.receipts \subseteq Receipt
      /\ campaign.changes \in 0 .. MaxChanges
      /\ \A s \in Session : campaign.destination[s] \subseteq Content
  BY <1>1 DEF CampaignType
<1>3. campaign.pins.mapping \subseteq MappingEntry
  <2>1. PICK c \in Staged : campaign.pins = c.pins
    BY <1>1 DEF CampaignType
  <2> QED BY <2>1, StagedAssumption
<1>4. pass.pc \in {"idle", "list", "pins", "version", "begin", "reconcile", "check", "done", "stopped"}
  BY DEF CampaignInv, PassShape, Underway
<1> QED BY <1>1, <1>2, <1>3, <1>4 DEF CampaignTypeOK, PassTyped

\* What is known of each component, and with it the types.
OperationsInv == NixInv /\ TypeInv /\ IsFiniteSet(attempts) /\ HoldingInv
SessionsInv == CampaignInv /\ PassTyped /\ AdoptionInv /\ WriterInv /\ ToolInv
ServingInv == McpInv /\ BoundedInv /\ ViewInv /\ FramedInv
ReadersInv == ReaderInv /\ SearchInv /\ PathInv /\ ContextInv /\ PlacedInv
PeersInv == FederationInv /\ RegrantInv /\ SilentInv
ComponentsInv == OperationsInv /\ SessionsInv /\ ServingInv /\ ReadersInv /\ PeersInv

\* Every component begins with it.
LEMMA ComponentsBegin == Init => ComponentsInv
<1> SUFFICES ASSUME Init PROVE ComponentsInv
  OBVIOUS
<1>1. /\ ScratchInit /\ NixInit /\ McpInit /\ FederationInit /\ CampaignInit /\ AdoptionInit
      /\ ToolInit /\ ReadingInit /\ ScopedInit
  BY DEF Init
<1>2. OperationsInv
  BY <1>1, NixInit_Inv, InitType, HoldingBegins DEF OperationsInv
<1>3. SessionsInv
  BY <1>1, CampaignInv_Init, PassBegins, AdoptionInv_Init, WriterBegins, ToolInv_Init
     DEF SessionsInv
<1>4. ServingInv
  BY <1>1, InvInit, BoundedBegins, ScopedBegins, FramedBegins DEF ServingInv
<1>5. ReadersInv
  <2>1. ReaderInv /\ SearchInv /\ PathInv /\ PlacedInv
    BY <1>1, ReaderBegins, PathBegins, PlacedBegins
  <2>2. read.context = NoContext /\ read.query = {}
    BY <1>1 DEF ReadingInit, NoRead
  <2>3. ContextInv
    BY <2>2, NoPacket DEF ContextInv
  <2> QED BY <2>1, <2>3 DEF ReadersInv
<1>6. PeersInv
  BY <1>1, FederationBegins, SilentBegins DEF PeersInv
<1> QED BY <1>2, <1>3, <1>4, <1>5, <1>6 DEF ComponentsInv

\* Every step is one of a component and leaves the others alone.
LEMMA ComponentsStep == ComponentsInv /\ [Next]_componentVars => ComponentsInv'
<1> SUFFICES ASSUME ComponentsInv, [Next]_componentVars PROVE ComponentsInv'
  OBVIOUS
<1>1. OperationsInv /\ SessionsInv /\ ServingInv /\ ReadersInv /\ PeersInv
  BY DEF ComponentsInv
<1>2. /\ [ScratchNext]_scratchVars /\ [NixNext]_nixVars
      /\ [CampaignNext]_campaignVars /\ [AdoptionNext]_adoptionVars /\ [ToolNext]_toolVars
      /\ [McpNext]_mcpVars /\ [ScopedNext]_scopedVars
      /\ [ReadingNext]_readingVars /\ [FederationNext]_federationVars
  BY DEF Next, ScratchStep, componentVars
<1>3. OperationsInv'
  BY <1>1, <1>2, NixStep_Inv, NextType, HoldingSteps DEF OperationsInv
<1>4. SessionsInv'
  BY <1>1, <1>2, CampaignInv_Step, PassSteps, AdoptionInv_Step, WriterSteps, ToolInv_Step
     DEF SessionsInv
<1>5. ServingInv'
  BY <1>1, <1>2, InvStep, BoundedSteps, ScopedSteps, FramedSteps DEF ServingInv
<1>6. ReadersInv'
  BY <1>1, <1>2, ReaderSteps, PathSteps, ContextSteps, PlacedSteps DEF ReadersInv
<1>7. PeersInv'
  BY <1>1, <1>2, FederationSteps, RegrantSteps, SilentSteps DEF PeersInv
<1> QED BY <1>3, <1>4, <1>5, <1>6, <1>7 DEF ComponentsInv

\* The state of every component is of its types, whatever steps it takes: the
\* ledger and its assessor, the journal of operations, the campaign and its
\* pass, the store and its adopters, the resolution of tools, the sessions of the
\* server with their bounded queues, the reader, the federation and the views.
THEOREM TypesHold == Spec => []TypeOK
<1>1. ComponentsInv => TypeOK
  <2> SUFFICES ASSUME ComponentsInv PROVE TypeOK
    OBVIOUS
  <2>1. OperationsInv /\ SessionsInv /\ ServingInv /\ ReadersInv /\ PeersInv
    BY DEF ComponentsInv
  <2>2. ScratchTypeOK /\ NixTypeOK
    BY <2>1, ScratchTyped, NixTyped DEF OperationsInv
  <2>3. CampaignTypeOK /\ AdoptionTypeOK /\ ToolTypeOK
    BY <2>1, CampaignTyped, AdoptionTyped DEF SessionsInv, ToolInv
  <2>4. McpTypeOK /\ ScopedTypeOK
    BY <2>1, McpTyped, ScopedTyped DEF ServingInv
  <2>5. ReadingTypeOK
    BY <2>1, ReadingTyped DEF ReadersInv
  <2>6. FederationTypeOK
    BY <2>1, FederationTyped DEF PeersInv
  <2> QED BY <2>2, <2>3, <2>4, <2>5, <2>6 DEF TypeOK
<1> QED BY <1>1, ComponentsBegin, ComponentsStep, PTL DEF Spec
=============================================================================
