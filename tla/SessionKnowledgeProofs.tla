----------------------- MODULE SessionKnowledgeProofs -----------------------
(***************************************************************************)
(* The session worker for any number of processes, captures, items,        *)
(* related records, budgets, rivals and failures: it implements the        *)
(* abstract knowledge log, its tables agree with the bundle, a rival's     *)
(* generation is never overwritten, published generations only grow, the   *)
(* ceilings on spending hold over all processes, and no item is paid twice *)
(* while what is found in a capture does not depend on later ones.         *)
(*                                                                         *)
(* The argument: the lease makes the holder's bundle the committed one     *)
(* (LeaseInv, HandInv), so a verdict is committed over nothing but itself; *)
(* and while a COMMIT is in flight its advisory lock keeps the pointer at  *)
(* the predecessor the publisher compared with (OutboxInv).  The attempt in    *)
(* flight is the last one under its key, for only the holder reserves one  *)
(* (AnsweredInv).                                                          *)
(***************************************************************************)
EXTENDS SessionKnowledge, TLAPS, FiniteSetTheorems, WellFoundedInduction

Assessing == {"items", "asking", "applying"}
Holding == Assessing \cup {"captures", "comparing", "locking", "committing", "reread", "recording"}

\* A process is inside a leased region exactly when it holds the lease.
LeaseInv == \A w \in Worker : pc[w] \in Holding <=> lease = w

\* Everything one extraction of the capture in hand found is decided or still
\* in the catalog.
Found(w) ==
  \E S \in SUBSET Capture :
    Range(Extract[current[w]][S].items) \subseteq processed \cup selected \cup Range(catalog[w])

\* What an assessing process holds in hand.
Hand(w) ==
  /\ pc[w] \in Assessing \cup {"captures"} => todo[w] \cap assessed = {}
  /\ pc[w] \in Assessing =>
       /\ current[w] \in Capture \ (assessed \cup todo[w])
       /\ text[w] \in Text
       /\ bundle[w] = knowledge
       /\ Found(w)
  /\ pc[w] \in {"asking", "applying"} =>
       catalog[w] # <<>> /\ ~IsDecided(NextItem(w)) /\ row[w] \in Row
  /\ pc[w] = "applying" => row[w].answer \in Answer

HandInv == \A w \in Worker : Hand(w)

ReceiptsInv == \A r \in attempts : r.status = "success" => r.answer \in Answer

WorkInv == TypeOK /\ LeaseInv /\ HandInv /\ ReceiptsInv /\ TablesAgree

-----------------------------------------------------------------------------
(* Sequences *)

\* Appending adds one element.
LEMMA AppendRange ==
  ASSUME NEW T, NEW s \in Seq(T), NEW x
  PROVE  Range(Append(s, x)) = Range(s) \cup {x}
<1>1. DOMAIN Append(s, x) = 1 .. Len(s) + 1 /\ DOMAIN s = 1 .. Len(s) /\ Len(s) \in Nat
  OBVIOUS
<1>2. \A i \in 1 .. Len(s) : Append(s, x)[i] = s[i]
  OBVIOUS
<1>3. Append(s, x)[Len(s) + 1] = x
  OBVIOUS
<1>4. 1 .. Len(s) + 1 = (1 .. Len(s)) \cup {Len(s) + 1}
  BY <1>1
<1> QED BY <1>1, <1>2, <1>3, <1>4 DEF Range

\* What a sequence has beside its head is in its tail.
LEMMA TailRange ==
  ASSUME NEW T, NEW s \in Seq(T), s # <<>>
  PROVE  /\ Tail(s) \in Seq(T) /\ Head(s) \in T
         /\ Range(s) \subseteq {Head(s)} \cup Range(Tail(s))
<1>1. Tail(s) \in Seq(T) /\ Head(s) \in T
  OBVIOUS
<1>2. SUFFICES ASSUME NEW i \in DOMAIN s, i # 1 PROVE s[i] \in Range(Tail(s))
  BY <1>1 DEF Range
<1>3. i - 1 \in DOMAIN Tail(s) /\ Tail(s)[i - 1] = s[i]
  BY <1>2
<1> QED BY <1>1, <1>3 DEF Range

-----------------------------------------------------------------------------
\* The journal starts empty and nobody works.
LEMMA InitWorkInv == Init => WorkInv
<1> SUFFICES ASSUME Init PROVE WorkInv
  OBVIOUS
<1> USE KnowledgeAssumption DEF Init
<1>1. EmptyBundle \in Bundle
  BY DEF EmptyBundle, Bundle
<1>2. TypeOK
  BY <1>1 DEF TypeOK, WorkerState
<1>3. LeaseInv
  BY DEF LeaseInv, Holding, Assessing
<1>4. HandInv
  BY DEF HandInv, Hand, Assessing
<1>5. ReceiptsInv
  BY DEF ReceiptsInv
<1>6. TablesAgree
  BY DEF TablesAgree, EmptyBundle, Range
<1> QED BY <1>2, <1>3, <1>4, <1>5, <1>6 DEF WorkInv

-----------------------------------------------------------------------------
(* Type correctness, one step at a time *)

\* A reservation is a row of the table.
LEMMA NewRowType ==
  ASSUME WorkInv, NEW w \in Worker, AtQuestion(w), NEW n \in Successors(w)
  PROVE  NewRow(w, n) \in Row
<1> USE KnowledgeAssumption
<1>0. TypeOK /\ Hand(w)
  BY DEF WorkInv, HandInv
<1>1. NextItem(w) \in Item
  BY <1>0 DEF TypeOK, AtQuestion, NextItem
<1>2. text[w] \in Text
  BY <1>0 DEF AtQuestion, Hand, Assessing
<1>3. NextItem(w) \in Origin => Related[NextItem(w)] \in SUBSET Origin
  OBVIOUS
<1>4. KeyOf(w) \in Key
  BY <1>1, <1>2, <1>3 DEF KeyOf, Key
<1>5. n \in Nat
  BY <1>0 DEF Successors, Rows, Row, TypeOK
<1> QED BY <1>4, <1>5 DEF NewRow, Row

\* Every step keeps the types.
LEMMA NextTypeOK == WorkInv /\ [Next]_vars => TypeOK'
<1> SUFFICES ASSUME WorkInv, [Next]_vars PROVE TypeOK'
  OBVIOUS
<1> USE KnowledgeAssumption
<1> USE DEF journal, server, args, work, publication
<1>0. TypeOK
  BY DEF WorkInv
<1>e. EmptyBundle \in Bundle
  BY DEF EmptyBundle, Bundle
<1>1. CASE UNCHANGED vars
  BY <1>0, <1>1 DEF vars, TypeOK
<1>2. CASE \E c \in Capture : CaptureSession(c)
  BY <1>0, <1>2 DEF CaptureSession, TypeOK
<1>3. CASE \E g \in Rival : RivalPublish(g)
  BY <1>0, <1>3 DEF RivalPublish, Fault, TypeOK
<1>4. CASE \E w \in Worker : WorkerStep(w)
  <2> PICK w \in Worker : WorkerStep(w)
    BY <1>4
  <2> USE <1>0 DEF TypeOK, WorkerState, Goto, Release, StopPublishing, StopAssessing, ClearWork
  <2>1. CASE \E command \in Commands, again \in BOOLEAN : Open(w, command, again)
    BY <2>1 DEF Open
  <2>2. CASE Forget(w)
    BY <2>2 DEF Forget
  <2>3. CASE LeaseBusy(w)
    <3>1. CASE AtDrain(w) /\ StopAssessing(w, "failed")
      BY <2>3, <3>1, <1>e DEF LeaseBusy
    <3>2. CASE AtOutbox(w) /\ StopPublishing(w, "failed") /\ UNCHANGED work
      BY <2>3, <3>2 DEF LeaseBusy
    <3> QED BY <2>3, <3>1, <3>2 DEF LeaseBusy
  <2>4. CASE StartAssessing(w)
    BY <2>4 DEF StartAssessing, TakeLease, Pending, Range
  <2>5. CASE \E c \in Capture : LoadCapture(w, c)
    <3> PICK c \in Capture : LoadCapture(w, c)
      BY <2>5
    <3>1. Range(queue) \in SUBSET Capture
      BY DEF Range
    <3>2. Extract[c][Range(queue)] \in [text : Text, items : Seq(Item)]
      BY <3>1
    <3> QED BY <3>1, <3>2 DEF LoadCapture
  <2>6. CASE FinishAssessing(w)
    BY <2>6, <1>e DEF FinishAssessing
  <2>7. CASE SkipItem(w)
    <3>1. Tail(catalog[w]) \in Seq(Item)
      BY <2>7, TailRange DEF SkipItem
    <3> QED BY <2>7, <3>1 DEF SkipItem
  <2>8. CASE Replay(w)
    BY <2>8 DEF Replay, Receipts, Rows
  <2>9. CASE RefuseAttempt(w)
    BY <2>9, <1>e DEF RefuseAttempt
  <2>10. CASE ReserveAttempt(w)
    <3>1. PICK n \in Successors(w) :
            /\ attempts' = attempts \cup {NewRow(w, n)}
            /\ row' = [row EXCEPT ![w] = NewRow(w, n)]
      BY <2>10 DEF ReserveAttempt
    <3>2. NewRow(w, n) \in Row
      BY <2>10, NewRowType DEF ReserveAttempt
    <3> QED BY <2>10, <3>1, <3>2 DEF ReserveAttempt
  <2>11. CASE \E a \in Answer, t \in Usage : Respond(w, a, t)
    <3>1. row[w] \in Row
      BY <2>11 DEF Respond, WorkInv, HandInv, Hand
    <3>2. \A a \in Answer, t \in Usage : Receipt(w, a, t) \in Row
      BY <3>1 DEF Receipt, Row
    <3> QED BY <2>11, <3>2 DEF Respond, Settle
  <2>12. CASE RespondFails(w)
    <3>1. row[w] \in Row
      BY <2>12 DEF RespondFails, WorkInv, HandInv, Hand
    <3>2. [row[w] EXCEPT !.status = "failed"] \in Row
      BY <3>1 DEF Row
    <3>3. attempts' \subseteq Row
      <4>1. Settle(w, [row[w] EXCEPT !.status = "failed"])
        BY <2>12 DEF RespondFails
      <4>2. attempts \subseteq Row
        OBVIOUS
      <4> QED BY ONLY <3>2, <4>1, <4>2 DEF Settle
    <3> QED BY <2>12, <3>3, <1>e DEF RespondFails, Fault
  <2>13. CASE RefuseAnswer(w)
    BY <2>13, <1>e DEF RefuseAnswer
  <2>14. CASE Apply(w)
    <3>1. row[w].answer \in Verdict /\ Tail(catalog[w]) \in Seq(Item) /\ NextItem(w) \in Item
      BY <2>14, TailRange DEF Apply, Acceptable, WorkInv, HandInv, Hand, Answer, NextItem
    <3>2. NextItem(w) \in Origin => [bundle[w] EXCEPT !.verdict[NextItem(w)] = row[w].answer] \in Bundle
      BY ZenonT(60), <3>1 DEF Bundle
    <3>3. CASE NextItem(w) \in Origin
      <4>1. bundle' = [bundle EXCEPT ![w] = [bundle[w] EXCEPT !.verdict[NextItem(w)] = row[w].answer]]
        BY <2>14, <3>3 DEF Apply
      <4>2. bundle' \in [Worker -> Bundle] /\ knowledge' \in Bundle
        BY <2>14, <3>2, <3>3, <4>1 DEF Apply
      <4> QED BY <2>14, <3>1, <3>3, <4>2 DEF Apply, Mark
    <3>4. CASE NextItem(w) \notin Origin
      BY <2>14, <3>1, <3>4 DEF Apply, Item
    <3> QED BY <3>3, <3>4
  <2>15. CASE CoverCapture(w)
    <3>1. current[w] \in Capture
      BY <2>15 DEF CoverCapture, WorkInv, HandInv, Hand, Assessing
    <3>2. [bundle[w] EXCEPT !.covered = Append(@, current[w])] \in Bundle
      <4>1. Append(bundle[w].covered, current[w]) \in Seq(Capture)
        BY <3>1 DEF Bundle
      <4> QED BY ZenonT(60), <4>1 DEF Bundle
    <3> QED BY <2>15, <3>1, <3>2 DEF CoverCapture
  <2>16. CASE JournalError(w)
    BY <2>16, <1>e DEF JournalError, Fault
  <2>17. CASE StartPublishing(w)
    BY <2>17 DEF StartPublishing, TakeLease
  <2>18. CASE Compare(w)
    BY <2>18 DEF Compare
  <2>19. CASE LosePointer(w)
    BY <2>19 DEF LosePointer
  <2>20. CASE SendCommit(w)
    BY <2>20 DEF SendCommit
  <2>21. CASE CommitAnswered(w)
    BY <2>21 DEF CommitAnswered
  <2>22. CASE LoseSession(w)
    BY <2>22 DEF LoseSession, Fault
  <2>23. CASE Reread(w)
    BY <2>23 DEF Reread
  <2>24. CASE Record(w)
    BY <2>24 DEF Record
  <2>25. CASE ServerCommit(w)
    BY <2>25 DEF ServerCommit
  <2>26. CASE ServerRollback(w)
    BY <2>26 DEF ServerRollback, Fault
  <2>27. CASE Crash(w)
    BY <2>27, <1>e DEF Crash, Fault
  <2>28. CASE Again(w)
    BY <2>28, <1>e DEF Again
  <2>29. CASE PublishError(w)
    BY <2>29 DEF PublishError, Fault
  <2> QED BY <2>1, <2>2, <2>3, <2>4, <2>5, <2>6, <2>7, <2>8, <2>9, <2>10, <2>11, <2>12,
         <2>13, <2>14, <2>15, <2>16, <2>17, <2>18, <2>19, <2>20, <2>21, <2>22, <2>23,
         <2>24, <2>25, <2>26, <2>27, <2>28, <2>29
       DEF WorkerStep, AssessStep, PublishStep, ServerStep
<1> QED BY <1>1, <1>2, <1>3, <1>4 DEF Next

-----------------------------------------------------------------------------
(* The lease *)

\* The lease is taken and given back with the leased region.
LEMMA NextLeaseInv == WorkInv /\ [Next]_vars => LeaseInv'
<1> SUFFICES ASSUME WorkInv, [Next]_vars PROVE LeaseInv'
  OBVIOUS
<1> USE KnowledgeAssumption
<1> USE DEF journal, server, args, work, publication
<1>0. TypeOK /\ LeaseInv
  BY DEF WorkInv
<1>1. CASE UNCHANGED vars
  BY <1>0, <1>1 DEF vars, LeaseInv
<1>2. CASE \E c \in Capture : CaptureSession(c)
  BY <1>0, <1>2 DEF CaptureSession, LeaseInv
<1>3. CASE \E g \in Rival : RivalPublish(g)
  BY <1>0, <1>3 DEF RivalPublish, LeaseInv
<1>4. CASE \E w \in Worker : WorkerStep(w)
  <2> PICK w \in Worker : WorkerStep(w)
    BY <1>4
  <2>a. pc \in [Worker -> WorkerState] /\ w # None
    BY <1>0 DEF TypeOK
  <2>b. SUFFICES /\ \A v \in Worker \ {w} : pc'[v] = pc[v] /\ (lease' = v <=> lease = v)
                 /\ pc'[w] \in Holding <=> lease' = w
    BY <1>0, <2>a DEF LeaseInv
  <2> USE <1>0, <2>a DEF LeaseInv, Holding, Assessing, Goto, Release, StopPublishing, StopAssessing
  <2>1. CASE \E command \in Commands, again \in BOOLEAN : Open(w, command, again)
    BY <2>1 DEF Open
  <2>2. CASE Forget(w) \/ LeaseBusy(w)
    BY <2>2 DEF Forget, LeaseBusy, AtDrain, AtOutbox
  <2>3. CASE StartAssessing(w) \/ FinishAssessing(w)
    BY <2>3 DEF StartAssessing, FinishAssessing, TakeLease, AtDrain
  <2>4. CASE (\E c \in Capture : LoadCapture(w, c)) \/ SkipItem(w)
    BY <2>4 DEF LoadCapture, SkipItem
  <2>5. CASE Replay(w) \/ RefuseAttempt(w) \/ ReserveAttempt(w)
    BY <2>5 DEF Replay, RefuseAttempt, ReserveAttempt, AtQuestion
  <2>6. CASE (\E a \in Answer, t \in Usage : Respond(w, a, t)) \/ RespondFails(w)
    BY <2>6 DEF Respond, RespondFails
  <2>7. CASE RefuseAnswer(w) \/ Apply(w) \/ CoverCapture(w) \/ JournalError(w)
    BY <2>7 DEF RefuseAnswer, Apply, CoverCapture, JournalError
  <2>8. CASE StartPublishing(w) \/ Compare(w) \/ LosePointer(w) \/ SendCommit(w)
    BY <2>8 DEF StartPublishing, TakeLease, AtOutbox, Compare, LosePointer, SendCommit
  <2>9. CASE CommitAnswered(w) \/ LoseSession(w) \/ Reread(w) \/ Record(w) \/ PublishError(w)
    BY <2>9 DEF CommitAnswered, LoseSession, Reread, Record, PublishError
  <2>10. CASE ServerCommit(w) \/ ServerRollback(w)
    BY <2>10 DEF ServerCommit, ServerRollback
  <2>11. CASE Crash(w) \/ Again(w)
    BY <2>11 DEF Crash, Again, Ended
  <2> QED BY <2>1, <2>2, <2>3, <2>4, <2>5, <2>6, <2>7, <2>8, <2>9, <2>10, <2>11
       DEF WorkerStep, AssessStep, PublishStep, ServerStep
<1> QED BY <1>1, <1>2, <1>3, <1>4 DEF Next

-----------------------------------------------------------------------------
(* What the others hold, and what the acting process holds *)

\* What a process holds is not disturbed while the journal it depends on stays.
LEMMA HandFrame ==
  ASSUME NEW w \in Worker, Hand(w),
         \/ pc'[w] = pc[w]
         \/ pc'[w] \notin Assessing \cup {"captures"},
         todo'[w] = todo[w], current'[w] = current[w], text'[w] = text[w],
         catalog'[w] = catalog[w], bundle'[w] = bundle[w], row'[w] = row[w],
         UNCHANGED <<assessed, knowledge, processed, selected>>
  PROVE  Hand(w)'
<1>1. CASE pc'[w] = pc[w]
  BY <1>1 DEF Hand, Found, IsDecided, NextItem
<1>2. CASE pc'[w] \notin Assessing \cup {"captures"}
  BY <1>2 DEF Hand, Assessing
<1> QED BY <1>1, <1>2

\* A process outside assessment holds nothing.
LEMMA NotAssessing ==
  ASSUME NEW w \in Worker, pc'[w] \notin Assessing \cup {"captures"}
  PROVE  Hand(w)'
BY DEF Hand, Assessing

\* What another process does leaves a hand as it is.
LEMMA OthersHand ==
  ASSUME WorkInv, NEW w \in Worker, WorkerStep(w), NEW v \in Worker \ {w}
  PROVE  Hand(v)'
<1> USE DEF journal, server, args, work, publication
<1>0. TypeOK /\ LeaseInv /\ Hand(v)
  BY DEF WorkInv, HandInv
<1>a. pc'[v] = pc[v]
  BY <1>0 DEF WorkerStep, AssessStep, PublishStep, ServerStep, Open, Forget, LeaseBusy,
     StartAssessing, LoadCapture, FinishAssessing, SkipItem, Replay, RefuseAttempt, ReserveAttempt,
     Respond, RefuseAnswer, Apply, CoverCapture, RespondFails, JournalError, StartPublishing,
     Compare, LosePointer, SendCommit, CommitAnswered, Reread, Record, PublishError, LoseSession, ServerCommit,
     ServerRollback, Crash, Again, StopAssessing, StopPublishing, Goto, TypeOK
<1>b. /\ todo'[v] = todo[v] /\ current'[v] = current[v] /\ text'[v] = text[v]
      /\ catalog'[v] = catalog[v] /\ bundle'[v] = bundle[v] /\ row'[v] = row[v]
  BY <1>0 DEF WorkerStep, AssessStep, PublishStep, ServerStep, Open, Forget, LeaseBusy,
     StartAssessing, LoadCapture, FinishAssessing, SkipItem, Replay, RefuseAttempt, ReserveAttempt,
     Respond, RefuseAnswer, Apply, CoverCapture, RespondFails, JournalError, StartPublishing,
     Compare, LosePointer, SendCommit, CommitAnswered, Reread, Record, PublishError, LoseSession, ServerCommit,
     ServerRollback, Crash, Again, StopAssessing, StopPublishing, ClearWork, TypeOK
<1>1. CASE Apply(w) \/ CoverCapture(w)
  <2>1. pc[w] \in Holding
    BY <1>1 DEF Apply, CoverCapture, Holding, Assessing
  <2>2. pc[v] \notin Holding
    BY <2>1, <1>0, KnowledgeAssumption DEF LeaseInv
  <2> QED BY <2>2, <1>a, NotAssessing DEF Holding
<1>2. CASE ~(Apply(w) \/ CoverCapture(w))
  <2>1. UNCHANGED <<assessed, knowledge, processed, selected>>
    BY <1>2 DEF WorkerStep, AssessStep, PublishStep, ServerStep, Open, Forget, LeaseBusy,
     StartAssessing, LoadCapture, FinishAssessing, SkipItem, Replay, RefuseAttempt, ReserveAttempt,
     Respond, RefuseAnswer, RespondFails, JournalError, StartPublishing,
     Compare, LosePointer, SendCommit, CommitAnswered, Reread, Record, PublishError, LoseSession, ServerCommit,
     ServerRollback, Crash, Again
  <2> QED BY <2>1, <1>0, <1>a, <1>b, HandFrame
<1> QED BY <1>1, <1>2

\* Found survives the step that drops a decided head of the catalog.
LEMMA FoundTail ==
  ASSUME NEW w \in Worker, Found(w), catalog[w] \in Seq(Item), catalog[w] # <<>>,
         current'[w] = current[w], catalog'[w] = Tail(catalog[w]),
         processed \subseteq processed', selected \subseteq selected',
         NextItem(w) \in processed' \cup selected'
  PROVE  Found(w)'
<1>1. Range(catalog[w]) \subseteq {NextItem(w)} \cup Range(Tail(catalog[w]))
  BY TailRange DEF NextItem
<1> QED BY <1>1 DEF Found

\* What a process does leaves its own hand consistent.
LEMMA OwnHand ==
  ASSUME WorkInv, NEW w \in Worker, WorkerStep(w)
  PROVE  Hand(w)'
<1> USE KnowledgeAssumption
<1> USE DEF journal, server, args, work, publication
<1>0. TypeOK /\ LeaseInv /\ Hand(w) /\ ReceiptsInv
  BY DEF WorkInv, HandInv
<1>p. pc \in [Worker -> WorkerState] /\ catalog[w] \in Seq(Item)
  BY <1>0 DEF TypeOK
<1>1. CASE \/ \E command \in Commands, again \in BOOLEAN : Open(w, command, again)
           \/ Forget(w) \/ LeaseBusy(w) \/ FinishAssessing(w) \/ RefuseAttempt(w)
           \/ RespondFails(w) \/ RefuseAnswer(w) \/ JournalError(w) \/ Crash(w) \/ Again(w)
           \/ StartPublishing(w) \/ Compare(w) \/ LosePointer(w) \/ SendCommit(w)
           \/ CommitAnswered(w) \/ LoseSession(w) \/ Reread(w) \/ Record(w) \/ PublishError(w)
  <2>1. pc'[w] \notin Assessing \cup {"captures"}
    BY <1>1, <1>p DEF Open, Forget, LeaseBusy, FinishAssessing, RefuseAttempt, RespondFails,
       RefuseAnswer, JournalError, Crash, Again, StartPublishing, Compare, LosePointer, SendCommit,
       CommitAnswered, LoseSession, Reread, Record, PublishError, StopAssessing, StopPublishing, Goto, Assessing
  <2> QED BY <2>1, NotAssessing
<1>2. CASE ServerCommit(w) \/ ServerRollback(w)
  BY <1>0, <1>2, HandFrame DEF ServerCommit, ServerRollback
<1>3. CASE StartAssessing(w)
  <2>1. pc'[w] = "captures" /\ todo'[w] = Pending /\ assessed' = assessed
    BY <1>0, <1>3 DEF StartAssessing, Goto, TypeOK
  <2> QED BY <2>1 DEF Hand, Assessing, Pending
<1>4. ASSUME NEW c \in Capture, LoadCapture(w, c) PROVE Hand(w)'
  <2>1. /\ pc'[w] = "items" /\ todo'[w] = todo[w] \ {c} /\ current'[w] = c
        /\ text'[w] = Extract[c][Range(queue)].text
        /\ catalog'[w] = Extract[c][Range(queue)].items
        /\ bundle'[w] = knowledge /\ UNCHANGED <<assessed, knowledge, processed, selected>>
        /\ pc[w] = "captures" /\ c \in todo[w]
    BY <1>0, <1>4 DEF LoadCapture, Goto, TypeOK
  <2>2. Range(queue) \in SUBSET Capture
    BY <1>0 DEF TypeOK, Range
  <2>3. Extract[c][Range(queue)] \in [text : Text, items : Seq(Item)]
    BY <2>2
  <2>4. Found(w)'
    BY <2>1, <2>2 DEF Found
  <2> QED BY <2>1, <2>3, <2>4, <1>0 DEF Hand, Assessing
<1>5. CASE SkipItem(w)
  <2>1. /\ pc'[w] = "items" /\ pc[w] = "items" /\ catalog'[w] = Tail(catalog[w])
        /\ todo'[w] = todo[w] /\ current'[w] = current[w] /\ text'[w] = text[w]
        /\ bundle'[w] = bundle[w] /\ UNCHANGED <<assessed, knowledge, processed, selected>>
        /\ catalog[w] # <<>> /\ NextItem(w) \in processed \cup selected
    BY <1>0, <1>5 DEF SkipItem, IsDecided, TypeOK
  <2>2. Found(w)'
    BY <2>1, <1>0, <1>p, FoundTail DEF Hand, Assessing
  <2> QED BY <2>1, <2>2, <1>0 DEF Hand, Assessing
<1>6. CASE Replay(w) \/ ReserveAttempt(w)
  <2>1. /\ pc[w] = "items" /\ catalog[w] # <<>> /\ ~IsDecided(NextItem(w))
        /\ pc'[w] \in {"asking", "applying"}
        /\ todo'[w] = todo[w] /\ current'[w] = current[w] /\ text'[w] = text[w]
        /\ bundle'[w] = bundle[w] /\ catalog'[w] = catalog[w]
        /\ UNCHANGED <<assessed, knowledge, processed, selected>>
    BY <1>6, <1>p DEF Replay, ReserveAttempt, AtQuestion, Goto
  <2>2. Found(w)' /\ ~IsDecided(NextItem(w))'
    BY <2>1, <1>0 DEF Hand, Assessing, Found, IsDecided, NextItem
  <2>3. row'[w] \in Row
    <3>1. CASE Replay(w)
      BY <3>1, <1>0 DEF Replay, Receipts, Rows, TypeOK
    <3>2. CASE ReserveAttempt(w)
      BY <3>2, <1>0, NewRowType DEF ReserveAttempt, TypeOK
    <3> QED BY <1>6, <3>1, <3>2
  <2>4. pc'[w] = "applying" => row'[w].answer \in Answer
    BY <1>6, <1>0, <1>p DEF Replay, ReserveAttempt, Receipts, Rows, ReceiptsInv, TypeOK, Goto
  <2> QED BY <2>1, <2>2, <2>3, <2>4, <1>0 DEF Hand, Assessing
<1>7. ASSUME NEW a \in Answer, NEW n \in Usage, Respond(w, a, n) PROVE Hand(w)'
  <2>1. /\ pc[w] = "asking" /\ pc'[w] = "applying"
        /\ todo'[w] = todo[w] /\ current'[w] = current[w] /\ text'[w] = text[w]
        /\ bundle'[w] = bundle[w] /\ catalog'[w] = catalog[w]
        /\ row'[w] = Receipt(w, a, n)
        /\ UNCHANGED <<assessed, knowledge, processed, selected>>
    BY <1>7, <1>0 DEF Respond, Goto, TypeOK
  <2>2. Receipt(w, a, n) \in Row /\ Receipt(w, a, n).answer = a
    BY <2>1, <1>0 DEF Receipt, Row, Hand
  <2>3. Found(w)' /\ ~IsDecided(NextItem(w))'
    BY <2>1, <1>0 DEF Hand, Assessing, Found, IsDecided, NextItem
  <2> QED BY <2>1, <2>2, <2>3, <1>0 DEF Hand, Assessing
<1>8. CASE Apply(w)
  <2>1. /\ pc[w] = "applying" /\ pc'[w] = "items" /\ catalog[w] # <<>>
        /\ todo'[w] = todo[w] /\ current'[w] = current[w] /\ text'[w] = text[w]
        /\ catalog'[w] = Tail(catalog[w]) /\ assessed' = assessed
    BY <1>8, <1>0 DEF Apply, Goto, TypeOK, Hand
  <2>2. bundle'[w] = knowledge'
    BY <1>8, <2>1, <1>0 DEF Apply, Hand, Assessing
  <2>3. processed \subseteq processed' /\ selected \subseteq selected'
        /\ NextItem(w) \in processed' \cup selected'
    BY <1>8 DEF Apply, Mark
  <2>4. Found(w)'
    BY <2>1, <2>3, <1>0, <1>p, FoundTail DEF Hand, Assessing
  <2> QED BY <2>1, <2>2, <2>4, <1>0 DEF Hand, Assessing
<1>9. CASE CoverCapture(w)
  <2>1. /\ pc[w] = "items" /\ pc'[w] = "captures" /\ todo'[w] = todo[w]
        /\ assessed' = assessed \cup {current[w]}
    BY <1>9, <1>p DEF CoverCapture, Goto
  <2> QED BY <2>1, <1>0 DEF Hand, Assessing
<1> QED BY <1>1, <1>2, <1>3, <1>4, <1>5, <1>6, <1>7, <1>8, <1>9
     DEF WorkerStep, AssessStep, PublishStep, ServerStep

\* Every hand stays consistent.
LEMMA NextHandInv == WorkInv /\ [Next]_vars => HandInv'
<1> SUFFICES ASSUME WorkInv, [Next]_vars PROVE HandInv'
  OBVIOUS
<1> USE DEF journal, server, args, work, publication
<1>0. \A w \in Worker : Hand(w)
  BY DEF WorkInv, HandInv
<1>1. CASE \/ UNCHANGED vars \/ (\E c \in Capture : CaptureSession(c))
           \/ (\E g \in Rival : RivalPublish(g))
  <2> SUFFICES ASSUME NEW w \in Worker PROVE Hand(w)'
    BY DEF HandInv
  <2>1. UNCHANGED <<pc, work, assessed, knowledge, processed, selected>>
    BY <1>1 DEF vars, CaptureSession, RivalPublish
  <2> QED BY <2>1, <1>0, HandFrame
<1>2. CASE \E w \in Worker : WorkerStep(w)
  BY <1>2, OthersHand, OwnHand DEF HandInv
<1> QED BY <1>1, <1>2 DEF Next

-----------------------------------------------------------------------------
(* Receipts, and the tables against the bundle *)

\* A success row has an answer.
LEMMA NextReceiptsInv == WorkInv /\ [Next]_vars => ReceiptsInv'
<1> SUFFICES ASSUME WorkInv, [Next]_vars PROVE ReceiptsInv'
  OBVIOUS
<1> USE DEF journal, server, args, work, publication
<1>0. TypeOK /\ ReceiptsInv /\ HandInv
  BY DEF WorkInv
<1>1. CASE UNCHANGED attempts
  BY <1>0, <1>1 DEF ReceiptsInv
<1>2. ASSUME NEW w \in Worker, ReserveAttempt(w) PROVE ReceiptsInv'
  BY <1>0, <1>2 DEF ReserveAttempt, NewRow, ReceiptsInv
<1>3. ASSUME NEW w \in Worker, RespondFails(w) PROVE ReceiptsInv'
  <2>1. row[w] \in Row
    BY <1>0, <1>3 DEF RespondFails, HandInv, Hand
  <2>2. [row[w] EXCEPT !.status = "failed"].status = "failed"
    BY <2>1 DEF Row
  <2> QED BY <1>0, <1>3, <2>2 DEF RespondFails, Settle, ReceiptsInv
<1>4. ASSUME NEW w \in Worker, NEW a \in Answer, NEW n \in Usage, Respond(w, a, n)
      PROVE  ReceiptsInv'
  <2>1. row[w] \in Row
    BY <1>0, <1>4 DEF Respond, HandInv, Hand
  <2>2. Receipt(w, a, n).answer = a
    BY <2>1 DEF Receipt, Row
  <2> QED BY <1>0, <1>4, <2>2 DEF Respond, Settle, ReceiptsInv
<1>5. CASE \E w \in Worker : WorkerStep(w)
  <2> PICK w \in Worker : WorkerStep(w)
    BY <1>5
  <2> QED BY <1>1, <1>2, <1>3, <1>4
       DEF WorkerStep, AssessStep, PublishStep, ServerStep, Open, Forget, LeaseBusy,
         StartAssessing, LoadCapture, FinishAssessing, SkipItem, Replay, RefuseAttempt,
         RefuseAnswer, Apply, CoverCapture, JournalError, StartPublishing,
         Compare, LosePointer, SendCommit, CommitAnswered, Reread, Record, PublishError, LoseSession,
         ServerCommit, ServerRollback, Crash, Again
<1> QED BY <1>1, <1>5 DEF Next, vars, CaptureSession, RivalPublish

\* How a verdict changes the committed knowledge.
LEMMA ApplyEffect ==
  ASSUME WorkInv, NEW w \in Worker, Apply(w)
  PROVE  LET i == NextItem(w)
         IN  /\ i \in Item /\ i \notin processed \cup selected
             /\ i \in Origin =>
                  /\ row[w].answer \in Verdict
                  /\ knowledge.verdict[i] = None
                  /\ knowledge' = [knowledge EXCEPT !.verdict[i] = row[w].answer]
                  /\ processed' = processed \cup {i} /\ selected' = selected
             /\ i \notin Origin =>
                  selected' = selected \cup {i} /\ knowledge' = knowledge /\ processed' = processed
<1>0. TypeOK /\ Hand(w) /\ TablesAgree
  BY DEF WorkInv, HandInv
<1>1. NextItem(w) \in Item /\ NextItem(w) \notin processed \cup selected /\ bundle[w] = knowledge
  BY <1>0 DEF Apply, Hand, NextItem, IsDecided, TypeOK, Assessing
<1>2. row[w].answer \in Verdict
  BY <1>0 DEF Apply, Acceptable, Hand, Answer
<1>3. NextItem(w) \in Origin => knowledge.verdict[NextItem(w)] = None
  BY <1>0, <1>1 DEF TablesAgree
<1>4. NextItem(w) \in Origin =>
        knowledge' = [knowledge EXCEPT !.verdict[NextItem(w)] = row[w].answer]
  BY <1>0, <1>1 DEF Apply, TypeOK
<1> QED BY <1>1, <1>2, <1>3, <1>4 DEF Apply, Mark

\* How a covered capture changes it.
LEMMA CoverEffect ==
  ASSUME WorkInv, NEW w \in Worker, CoverCapture(w)
  PROVE  /\ current[w] \in Capture \ assessed
         /\ knowledge' = [knowledge EXCEPT !.covered = Append(knowledge.covered, current[w])]
         /\ assessed' = assessed \cup {current[w]}
         /\ processed' = processed /\ selected' = selected
         /\ \E S \in SUBSET Capture :
              Range(Extract[current[w]][S].items) \subseteq processed \cup selected
<1>0. Hand(w)
  BY DEF WorkInv, HandInv
<1>1. Range(catalog[w]) = {}
  BY DEF CoverCapture, Range
<1> QED BY <1>0, <1>1 DEF CoverCapture, Hand, Assessing, Found

\* Every other step leaves the tables alone.
LEMMA StillTables ==
  ASSUME [Next]_vars, \A w \in Worker : ~Apply(w) /\ ~CoverCapture(w)
  PROVE  UNCHANGED <<knowledge, processed, selected, assessed>>
<1> USE DEF journal, server, args, work, publication
<1>1. CASE \E w \in Worker : WorkerStep(w)
  BY <1>1 DEF WorkerStep, AssessStep, PublishStep, ServerStep, Open, Forget, LeaseBusy,
     StartAssessing, LoadCapture, FinishAssessing, SkipItem, Replay, RefuseAttempt, ReserveAttempt,
     Respond, RefuseAnswer, RespondFails, JournalError, StartPublishing, Compare, LosePointer,
     SendCommit, CommitAnswered, Reread, Record, PublishError, LoseSession, ServerCommit, ServerRollback,
     Crash, Again
<1> QED BY <1>1 DEF Next, vars, CaptureSession, RivalPublish

\* Bundle and tables change together.
LEMMA NextTablesAgree == WorkInv /\ [Next]_vars => TablesAgree'
<1> SUFFICES ASSUME WorkInv, [Next]_vars PROVE TablesAgree'
  OBVIOUS
<1> USE KnowledgeAssumption
<1>0. knowledge \in Bundle /\ TablesAgree
  BY DEF WorkInv, TypeOK
<1>1. ASSUME NEW w \in Worker, Apply(w) PROVE TablesAgree'
  <2>1. assessed' = assessed
    BY <1>1 DEF Apply
  <2>2. CASE NextItem(w) \in Origin
    <3>1. /\ knowledge' = [knowledge EXCEPT !.verdict[NextItem(w)] = row[w].answer]
          /\ row[w].answer # None /\ processed' = processed \cup {NextItem(w)}
      BY <1>1, <2>2, ApplyEffect DEF Answer
    <3> QED BY <1>0, <2>1, <2>2, <3>1 DEF TablesAgree, Bundle
  <2>3. CASE NextItem(w) \notin Origin
    BY <1>0, <1>1, <2>1, <2>3, ApplyEffect DEF TablesAgree
  <2> QED BY <2>2, <2>3
<1>2. ASSUME NEW w \in Worker, CoverCapture(w) PROVE TablesAgree'
  <2>1. knowledge'.verdict = knowledge.verdict
        /\ knowledge'.covered = Append(knowledge.covered, current[w])
    BY <1>0, <1>2, CoverEffect DEF Bundle
  <2>2. Range(Append(knowledge.covered, current[w])) = Range(knowledge.covered) \cup {current[w]}
    BY <1>0, AppendRange DEF Bundle
  <2> QED BY <1>0, <1>2, <2>1, <2>2, CoverEffect DEF TablesAgree
<1>3. CASE \A w \in Worker : ~Apply(w) /\ ~CoverCapture(w)
  BY <1>0, <1>3, StillTables DEF TablesAgree
<1> QED BY <1>1, <1>2, <1>3

\* Every reachable state satisfies the invariant of the worker.
THEOREM WorkInvariant == Spec => []WorkInv
<1>1. Init => WorkInv
  BY InitWorkInv
<1>2. WorkInv /\ [Next]_vars => WorkInv'
  BY NextTypeOK, NextLeaseInv, NextHandInv, NextReceiptsInv, NextTablesAgree DEF WorkInv
<1> QED BY <1>1, <1>2, PTL DEF Spec

\* The worker keeps its types.
THEOREM TypeCorrect == Spec => []TypeOK
BY WorkInvariant, PTL DEF WorkInv

\* An origin is skipped exactly when its verdict is committed, a capture is
\* out of the queue exactly when the bundle covers it.
THEOREM TablesStayInStep == Spec => []TablesAgree
BY WorkInvariant, PTL DEF WorkInv

-----------------------------------------------------------------------------
(* The refinement *)

\* Committing a verdict, a selection or a coverage is the abstract step of
\* that name; every other step is invisible.
LEMMA StepImplements == WorkInv /\ [Next]_vars => [Log!Next]_(Log!vars)
<1> SUFFICES ASSUME WorkInv, [Next]_vars PROVE [Log!Next]_(Log!vars)
  OBVIOUS
<1> USE KnowledgeAssumption
<1>0. knowledge \in Bundle /\ TablesAgree
  BY DEF WorkInv, TypeOK
<1>1. ASSUME NEW w \in Worker, Apply(w) PROVE Log!Next
  <2> DEFINE i == NextItem(w)
  <2>1. CASE i \in Origin
    <3>1. /\ row[w].answer \in Verdict /\ knowledge.verdict[i] = None
          /\ knowledge' = [knowledge EXCEPT !.verdict[i] = row[w].answer]
          /\ selected' = selected
      BY <1>1, <2>1, ApplyEffect
    <3>2. /\ knowledge'.verdict = [knowledge.verdict EXCEPT ![i] = row[w].answer]
          /\ knowledge'.covered = knowledge.covered
      BY <1>0, <3>1 DEF Bundle
    <3>3. Log!Assess(i, row[w].answer)
      BY <3>1, <3>2 DEF Log!Assess
    <3> QED BY <2>1, <3>1, <3>3 DEF Log!Next
  <2>2. CASE i \notin Origin
    <3>1. i \in Line /\ selected' = selected \cup {i} /\ knowledge' = knowledge
      BY <1>1, <2>2, ApplyEffect DEF Item
    <3>2. Log!Select(i)
      BY <3>1 DEF Log!Select
    <3> QED BY <3>1, <3>2 DEF Log!Next
  <2> QED BY <2>1, <2>2
<1>2. ASSUME NEW w \in Worker, CoverCapture(w) PROVE Log!Next
  <2> DEFINE c == current[w]
  <2>1. /\ c \in Capture \ assessed /\ selected' = selected
        /\ knowledge' = [knowledge EXCEPT !.covered = Append(knowledge.covered, c)]
    BY <1>2, CoverEffect
  <2>2. knowledge'.verdict = knowledge.verdict /\ knowledge'.covered = Append(knowledge.covered, c)
    BY <1>0, <2>1 DEF Bundle
  <2>3. c \notin Range(knowledge.covered)
    BY <1>0, <2>1 DEF TablesAgree
  <2>4. Log!Decided = processed \cup selected
    BY <1>0 DEF Log!Decided, TablesAgree
  <2>5. PICK S \in SUBSET Capture :
          Range(Extract[c][S].items) \subseteq processed \cup selected
    BY <1>2, CoverEffect
  <2>6. \E items \in {Range(Extract[c][T].items) : T \in SUBSET Capture} : items \subseteq Log!Decided
    BY <2>4, <2>5
  <2>7. [d \in Capture |-> {Range(Extract[d][T].items) : T \in SUBSET Capture}][c]
           = {Range(Extract[c][T].items) : T \in SUBSET Capture}
    BY <2>1
  <2>8. Log!Cover(c)
    BY <2>1, <2>2, <2>3, <2>6, <2>7 DEF Log!Cover, Log!Range, Range
  <2> QED BY <2>1, <2>8 DEF Log!Next
<1>3. CASE \A w \in Worker : ~Apply(w) /\ ~CoverCapture(w)
  BY <1>3, StillTables DEF Log!vars
<1> QED BY <1>1, <1>2, <1>3

\* However many workers run, crash and come back, no verdict is lost or
\* revised and a capture is covered once, after everything one extraction
\* found in it was decided.
THEOREM Refinement == Spec => ImplementsKnowledgeLog
<1>1. Init => Log!Init
  BY DEF Init, EmptyBundle, Log!Init
<1> QED BY <1>1, StepImplements, WorkInvariant, PTL DEF Spec, ImplementsKnowledgeLog, Log!Spec

-----------------------------------------------------------------------------
(* The outbox *)

Extends(b, c) == \A o \in Origin : b.verdict[o] # None => c.verdict[o] = b.verdict[o]

\* What is recorded or about to be published is an older committed bundle.
ChainInv ==
  /\ predecessor # None => Extends(predecessor, knowledge)
  /\ \A w \in Worker :
       /\ Extends(payload[w], knowledge)
       /\ expected[w] # None => Extends(expected[w], payload[w])

\* An unanswered COMMIT holds the advisory lock, and the pointer stands.
LockInv ==
  \A w \in Worker : commit[w] = "sent" =>
    /\ pointer = expected[w]
    /\ pc[w] \in {"committing", "reread", "recording", "done", "failed", "dead"}
    /\ \A v \in Worker \ {w} : commit[v] # "sent"

OutboxInv == ChainInv /\ LockInv

\* Committed verdicts are never lost or revised.
LEMMA KnowledgeGrows == WorkInv /\ [Next]_vars => Extends(knowledge, knowledge')
<1> SUFFICES ASSUME WorkInv, [Next]_vars PROVE Extends(knowledge, knowledge')
  OBVIOUS
<1>0. knowledge \in Bundle
  BY DEF WorkInv, TypeOK
<1>1. ASSUME NEW w \in Worker, Apply(w) PROVE Extends(knowledge, knowledge')
  <2>1. CASE NextItem(w) \in Origin
    BY <1>0, <1>1, <2>1, ApplyEffect DEF Extends, Bundle
  <2>2. CASE NextItem(w) \notin Origin
    BY <1>1, <2>2, ApplyEffect DEF Extends
  <2> QED BY <2>1, <2>2
<1>2. ASSUME NEW w \in Worker, CoverCapture(w) PROVE Extends(knowledge, knowledge')
  BY <1>0, <1>2, CoverEffect DEF Extends, Bundle
<1>3. CASE \A w \in Worker : ~Apply(w) /\ ~CoverCapture(w)
  BY <1>3, StillTables DEF Extends
<1> QED BY <1>1, <1>2, <1>3

\* Nothing is published at the start.
LEMMA InitOutboxInv == Init => OutboxInv
BY DEF Init, OutboxInv, ChainInv, LockInv, Extends, EmptyBundle

\* What is recorded or sent is an older committed bundle.
LEMMA NextChainInv == WorkInv /\ ChainInv /\ [Next]_vars => ChainInv'
<1> SUFFICES ASSUME WorkInv, ChainInv, [Next]_vars PROVE ChainInv'
  OBVIOUS
<1> USE DEF journal, server, args, work, publication
<1>0. TypeOK
  BY DEF WorkInv
<1>k. Extends(knowledge, knowledge')
  BY KnowledgeGrows
<1>t. \A b : Extends(b, knowledge) => Extends(b, knowledge')
  BY <1>k DEF Extends
<1>1. CASE UNCHANGED <<predecessor, payload, expected>>
  BY <1>1, <1>t DEF ChainInv
<1>2. ASSUME NEW w \in Worker, Forget(w) PROVE ChainInv'
  BY <1>2 DEF Forget, ChainInv
<1>3. ASSUME NEW w \in Worker, StartPublishing(w) PROVE ChainInv'
  <2>1. /\ payload' = [payload EXCEPT ![w] = knowledge]
        /\ expected' = [expected EXCEPT ![w] = predecessor]
        /\ UNCHANGED <<knowledge, predecessor>>
    BY <1>3 DEF StartPublishing
  <2>2. Extends(knowledge, knowledge)
    BY DEF Extends
  <2> QED BY <1>0, <2>1, <2>2 DEF ChainInv, TypeOK
<1>4. ASSUME NEW w \in Worker, Record(w) PROVE ChainInv'
  BY <1>4 DEF Record, ChainInv
<1>5. ASSUME NEW w \in Worker, Again(w) PROVE ChainInv'
  <2>1. /\ payload' = [payload EXCEPT ![w] = EmptyBundle]
        /\ expected' = [expected EXCEPT ![w] = None]
        /\ UNCHANGED <<knowledge, predecessor>>
    BY <1>5 DEF Again
  <2>2. Extends(EmptyBundle, knowledge)
    BY DEF Extends, EmptyBundle
  <2> QED BY <1>0, <2>1, <2>2 DEF ChainInv, TypeOK
<1>6. CASE \E w \in Worker : WorkerStep(w)
  <2> PICK w \in Worker : WorkerStep(w)
    BY <1>6
  <2> QED BY <1>1, <1>2, <1>3, <1>4, <1>5
       DEF WorkerStep, AssessStep, PublishStep, ServerStep, Open, LeaseBusy,
         StartAssessing, LoadCapture, FinishAssessing, SkipItem, Replay, RefuseAttempt,
         ReserveAttempt, Respond, RefuseAnswer, Apply, CoverCapture, RespondFails, JournalError,
         Compare, LosePointer, SendCommit, CommitAnswered, Reread, PublishError, LoseSession,
         ServerCommit, ServerRollback, Crash
<1> QED BY <1>1, <1>6 DEF Next, vars, CaptureSession, RivalPublish

\* Under an unanswered COMMIT the pointer stands.
LEMMA NextLockInv == WorkInv /\ LockInv /\ [Next]_vars => LockInv'
<1> SUFFICES ASSUME WorkInv, LockInv, [Next]_vars PROVE LockInv'
  OBVIOUS
<1> USE DEF journal, server, args, work, publication
<1>0. TypeOK
  BY DEF WorkInv
<1>1. CASE UNCHANGED vars
  BY <1>1 DEF vars, LockInv
<1>2. CASE \E c \in Capture : CaptureSession(c)
  BY <1>2 DEF CaptureSession, LockInv
<1>3. CASE \E g \in Rival : RivalPublish(g)
  BY <1>3 DEF RivalPublish, LockInv
<1>4. CASE \E w \in Worker : WorkerStep(w)
  <2> PICK w \in Worker : WorkerStep(w)
    BY <1>4
  <2> USE <1>0 DEF TypeOK, LockInv, Goto, StopPublishing, StopAssessing
  <2>1. CASE SendCommit(w)
    BY <2>1 DEF SendCommit, MayMove, LockFree
  <2>2. CASE ServerCommit(w)
    BY <2>2 DEF ServerCommit
  <2>3. CASE ServerRollback(w)
    BY <2>3 DEF ServerRollback
  <2>4. CASE StartPublishing(w) \/ Compare(w) \/ LosePointer(w)
    BY ZenonT(60), <2>4 DEF StartPublishing, AtOutbox, Compare, LosePointer
  <2>5. CASE CommitAnswered(w) \/ LoseSession(w) \/ Reread(w) \/ Record(w) \/ PublishError(w)
    BY <2>5 DEF CommitAnswered, LoseSession, Reread, Record, PublishError
  <2>6. CASE \E command \in Commands, again \in BOOLEAN : Open(w, command, again)
    BY <2>6 DEF Open
  <2>7. CASE Forget(w) \/ LeaseBusy(w) \/ StartAssessing(w) \/ FinishAssessing(w)
    BY <2>7 DEF Forget, LeaseBusy, AtDrain, AtOutbox, StartAssessing, FinishAssessing
  <2>8. CASE (\E c \in Capture : LoadCapture(w, c)) \/ SkipItem(w) \/ Replay(w)
    BY <2>8 DEF LoadCapture, SkipItem, Replay, AtQuestion
  <2>9. CASE RefuseAttempt(w) \/ ReserveAttempt(w)
    BY <2>9 DEF RefuseAttempt, ReserveAttempt, AtQuestion
  <2>10. CASE (\E a \in Answer, t \in Usage : Respond(w, a, t)) \/ RespondFails(w)
    BY <2>10 DEF Respond, RespondFails
  <2>11. CASE RefuseAnswer(w) \/ Apply(w) \/ CoverCapture(w) \/ JournalError(w)
    BY <2>11 DEF RefuseAnswer, Apply, CoverCapture, JournalError
  <2>12. CASE Crash(w)
    BY <2>12 DEF Crash
  <2>13. CASE Again(w)
    <3>1. commit[w] # "sent" /\ commit' = [commit EXCEPT ![w] = "none"] /\ pointer' = pointer
          /\ pc' = [pc EXCEPT ![w] = "idle"] /\ expected' = [expected EXCEPT ![w] = None]
      BY <2>13 DEF Again
    <3>2. \A v \in Worker : commit'[v] = "sent" => v # w /\ commit[v] = "sent"
      BY <3>1
    <3> QED BY <3>1, <3>2
  <2> QED BY <2>1, <2>2, <2>3, <2>4, <2>5, <2>6, <2>7, <2>8, <2>9, <2>10, <2>11, <2>12, <2>13
       DEF WorkerStep, AssessStep, PublishStep, ServerStep
<1> QED BY <1>1, <1>2, <1>3, <1>4 DEF Next

\* Every reachable state satisfies the invariant of the outbox.
LEMMA OutboxInvariant == Spec => []OutboxInv
<1>1. WorkInv /\ OutboxInv /\ [Next]_vars => OutboxInv'
  BY NextChainInv, NextLockInv DEF OutboxInv
<1> QED BY <1>1, InitOutboxInv, WorkInvariant, PTL DEF Spec

\* The pointer only moves when the server commits, or by a rival.
LEMMA PointerMoves ==
  [Next]_vars =>
    \/ pointer' = pointer
    \/ pointer' \in Rival
    \/ \E w \in Worker : commit[w] = "sent" /\ pointer' = payload[w]
<1> SUFFICES ASSUME [Next]_vars, ~(\E g \in Rival : RivalPublish(g)),
                    ~(\E w \in Worker : ServerCommit(w))
             PROVE  pointer' = pointer
  BY DEF RivalPublish, ServerCommit
<1> USE DEF server
<1>1. CASE UNCHANGED vars \/ \E c \in Capture : CaptureSession(c)
  BY <1>1 DEF vars, CaptureSession
<1>2. CASE \E w \in Worker : WorkerStep(w)
  <2> PICK w \in Worker : WorkerStep(w)
    BY <1>2
  <2>1. CASE AssessStep(w) \/ RespondFails(w) \/ JournalError(w) \/ Forget(w) \/ LeaseBusy(w)
    BY <2>1 DEF AssessStep, StartAssessing, LoadCapture, FinishAssessing, SkipItem, Replay,
       RefuseAttempt, ReserveAttempt, Respond, RefuseAnswer, Apply, CoverCapture, RespondFails,
       JournalError, Forget, LeaseBusy
  <2>2. CASE PublishStep(w) \/ PublishError(w) \/ LoseSession(w)
    BY <2>2 DEF PublishStep, StartPublishing, Compare, LosePointer, SendCommit, CommitAnswered,
       Reread, Record, PublishError, LoseSession
  <2>3. CASE ~(\/ AssessStep(w) \/ RespondFails(w) \/ JournalError(w) \/ Forget(w) \/ LeaseBusy(w)
               \/ PublishStep(w) \/ PublishError(w) \/ LoseSession(w))
    BY <2>3 DEF WorkerStep, ServerStep, Open, ServerRollback, Crash, Again
  <2> QED BY <2>1, <2>2, <2>3
<1> QED BY <1>1, <1>2 DEF Next

\* A generation another archive of the scope published is never overwritten,
\* also by a COMMIT that arrives after its client is gone.
THEOREM RivalsAreSafe == Spec => RivalNeverOverwritten
<1>1. ASSUME WorkInv, OutboxInv, [Next]_vars, pointer \in Rival PROVE pointer' \in Rival
  <2>1. ASSUME NEW w \in Worker, commit[w] = "sent" PROVE FALSE
    <3>1. pointer \in Bundle \cup {None}
      BY <1>1, <2>1 DEF OutboxInv, LockInv, WorkInv, TypeOK
    <3> QED BY <1>1, <3>1, KnowledgeAssumption
  <2> QED BY <1>1, <2>1, PointerMoves
<1>2. WorkInv /\ OutboxInv /\ [Next]_vars => [(pointer \in Rival) => (pointer' \in Rival)]_vars
  BY <1>1
<1> QED BY <1>2, WorkInvariant, OutboxInvariant, PTL DEF Spec, RivalNeverOverwritten

\* Generations of this archive only grow.
THEOREM PublishedOnlyGrows == Spec => PublishedGrows
<1>1. ASSUME WorkInv, OutboxInv, [Next]_vars, pointer \in Bundle, pointer' \in Bundle
      PROVE  Extends(pointer, pointer')
  <2>1. CASE pointer' = pointer
    BY <2>1 DEF Extends
  <2>2. pointer' \notin Rival
    BY <1>1, KnowledgeAssumption
  <2>3. ASSUME NEW w \in Worker, commit[w] = "sent", pointer' = payload[w]
        PROVE  Extends(pointer, pointer')
    <3>1. pointer = expected[w] /\ expected[w] # None
      BY <1>1, <2>3, KnowledgeAssumption DEF OutboxInv, LockInv
    <3> QED BY <1>1, <2>3, <3>1 DEF OutboxInv, ChainInv
  <2> QED BY <1>1, <2>1, <2>2, <2>3, PointerMoves
<1>2. WorkInv /\ OutboxInv /\ [Next]_vars =>
        [ (pointer \in Bundle /\ pointer' \in Bundle)
            => \A o \in Origin : pointer.verdict[o] # None
                                   => pointer'.verdict[o] = pointer.verdict[o] ]_vars
  BY <1>1 DEF Extends
<1> QED BY <1>2, WorkInvariant, OutboxInvariant, PTL DEF Spec, PublishedGrows

\* Both: what readers were shown stays (publish_outbox).
THEOREM PublishedStays == Spec => PublishedIsSafe
BY RivalsAreSafe, PublishedOnlyGrows DEF PublishedIsSafe

-----------------------------------------------------------------------------
(* Adding up charges: Tokens folds the rows in an order of its choosing. *)

\* Every set of numbers that is not empty has a least one.
LEMMA LeastNumber ==
  ASSUME NEW S \in SUBSET Nat, S # {}
  PROVE  \E n \in S : \A k \in S : n <= k
<1> DEFINE R == {ss \in Nat \X Nat : ss[1] < ss[2]}
<1>1. IsWellFoundedOn(R, Nat)
  BY NatLessThanWellFounded DEF OpToRel
<1>2. \E x \in S : \A y \in S : ~ (<<y, x>> \in R)
  <2> HIDE DEF R
  <2> QED BY <1>1, WFMin
<1>3. PICK x \in S : \A y \in S : ~ (<<y, x>> \in R)
  BY <1>2
<1>4. \A y \in S : ~ (y < x)
  BY <1>3
<1> QED BY <1>4

\* Induction: a set with zero and every successor has all numbers.
LEMMA AllNumbers ==
  ASSUME NEW S \in SUBSET Nat, 0 \in S, \A n \in S : n + 1 \in S
  PROVE  S = Nat
<1> SUFFICES ASSUME Nat \ S # {} PROVE FALSE
  OBVIOUS
<1>1. PICK n \in Nat \ S : \A k \in Nat \ S : n <= k
  BY LeastNumber
<1>2. n # 0 /\ n - 1 \in Nat
  BY <1>1
<1>3. n - 1 \in S
  BY <1>1, <1>2
<1> QED BY <1>1, <1>2, <1>3

Pick(s) == CHOOSE x \in s : TRUE
Value(f, s) == IF s = {} THEN 0 ELSE Pick(s).charge + f[s \ {Pick(s)}]

\* f adds up the charges of every part of S, one row after the other.
Adds(f, S) == f = [s \in SUBSET S |-> Value(f, s)]

\* Finitely many rows, each with a charge.
Charged(S) == IsFiniteSet(S) /\ \A r \in S : r.charge \in Nat

\* f does so for the parts with at most k rows.
AddsUpTo(f, S, k) ==
  f \in [SUBSET S -> Nat] /\ \A s \in SUBSET S : Cardinality(s) <= k => f[s] = Value(f, s)

\* A part of finitely many rows, and the same without one of them.
LEMMA PartFacts ==
  ASSUME NEW S, Charged(S), NEW s \in SUBSET S
  PROVE  /\ IsFiniteSet(s) /\ Cardinality(s) \in Nat /\ Cardinality(s) <= Cardinality(S)
         /\ s = {} <=> Cardinality(s) = 0
         /\ \A x \in s : /\ s \ {x} \in SUBSET S /\ Cardinality(s \ {x}) = Cardinality(s) - 1
                         /\ x.charge \in Nat
         /\ s # {} => Pick(s) \in s
<1>1. IsFiniteSet(s) /\ Cardinality(s) <= Cardinality(S) /\ Cardinality(s) \in Nat
  BY FS_Subset, FS_CardinalityType DEF Charged
<1>2. s = {} <=> Cardinality(s) = 0
  BY <1>1, FS_EmptySet
<1>3. \A x \in s : s \ {x} \in SUBSET S /\ Cardinality(s \ {x}) = Cardinality(s) - 1
  BY <1>1, FS_RemoveElement
<1> QED BY <1>1, <1>2, <1>3 DEF Charged, Pick

\* The sum over a part is a number.
LEMMA ValueIsNat ==
  ASSUME NEW S, Charged(S), NEW f \in [SUBSET S -> Nat], NEW s \in SUBSET S
  PROVE  Value(f, s) \in Nat
BY PartFacts DEF Value

\* Some function adds up the charges of every part.
LEMMA AddsExists ==
  ASSUME NEW S, Charged(S)
  PROVE  \E f : Adds(f, S)
<1> DEFINE P == {k \in Nat : \E f : AddsUpTo(f, S, k)}
<1>1. 0 \in P
  <2> DEFINE f == [s \in SUBSET S |-> 0]
  <2>1. AddsUpTo(f, S, 0)
    <3>1. f \in [SUBSET S -> Nat]
      OBVIOUS
    <3>2. \A s \in SUBSET S : Cardinality(s) <= 0 => f[s] = Value(f, s)
      BY PartFacts DEF Value
    <3> QED BY <3>1, <3>2 DEF AddsUpTo
  <2> QED BY <2>1
<1>2. ASSUME NEW k \in P PROVE k + 1 \in P
  <2>1. PICK f : AddsUpTo(f, S, k)
    BY <1>2
  <2>2. f \in [SUBSET S -> Nat]
    BY <2>1 DEF AddsUpTo
  <2> DEFINE g == [s \in SUBSET S |-> IF Cardinality(s) <= k THEN f[s] ELSE Value(f, s)]
  <2>3. g \in [SUBSET S -> Nat]
    BY <2>2, ValueIsNat
  <2>4. ASSUME NEW s \in SUBSET S, Cardinality(s) <= k + 1 PROVE g[s] = Value(g, s)
    <3>1. g[s] = Value(f, s)
      BY <2>1 DEF AddsUpTo
    <3>2. CASE s = {}
      BY <3>1, <3>2 DEF Value
    <3>3. CASE s # {}
      <4>1. Pick(s) \in s /\ s \ {Pick(s)} \in SUBSET S /\ Cardinality(s \ {Pick(s)}) <= k
        BY <1>2, <2>4, <3>3, PartFacts
      <4>2. g[s \ {Pick(s)}] = f[s \ {Pick(s)}]
        BY <4>1
      <4> HIDE DEF g
      <4> QED BY <3>1, <3>3, <4>2 DEF Value
    <3> QED BY <3>2, <3>3
  <2>5. AddsUpTo(g, S, k + 1)
    <3> HIDE DEF g
    <3> QED BY <2>3, <2>4 DEF AddsUpTo
  <2> QED BY <1>2, <2>5
<1>3. P = Nat
  <2> HIDE DEF P
  <2>1. P \in SUBSET Nat
    BY DEF P
  <2> QED BY <1>1, <1>2, <2>1, AllNumbers
<1>4. Cardinality(S) \in Nat
  BY FS_CardinalityType DEF Charged
<1>5. PICK f : AddsUpTo(f, S, Cardinality(S))
  BY <1>3, <1>4
<1>6. f \in [SUBSET S -> Nat] /\ \A s \in SUBSET S : f[s] = Value(f, s)
  BY <1>5, PartFacts DEF AddsUpTo
<1> QED BY <1>6 DEF Adds

\* Tokens is the value of such a function.
LEMMA TokensAdd ==
  ASSUME NEW S, Charged(S)
  PROVE  \E f : Adds(f, S) /\ Tokens(S) = f[S]
<1> DEFINE f == CHOOSE f : Adds(f, S)
<1>1. Adds(f, S)
  BY AddsExists
<1>2. Tokens(S) = f[S]
  BY DEF Tokens, MapThenSumSet, MapThenFoldSet, Adds, Value, Pick
<1> QED BY <1>1, <1>2

Takes(f, s) == f[s] \in Nat /\ \A x \in s : f[s] = x.charge + f[s \ {x}]

\* It does not matter which row is added last.
LEMMA AddsTakes ==
  ASSUME NEW S, Charged(S), NEW f, Adds(f, S)
  PROVE  \A s \in SUBSET S : Takes(f, s)
<1> DEFINE P == {k \in Nat : \A s \in SUBSET S : Cardinality(s) <= k => Takes(f, s)}
<1>0. \A s \in SUBSET S : f[s] = Value(f, s)
  BY DEF Adds
<1>e. Takes(f, {})
  <2>1. Value(f, {}) = 0
    BY DEF Value
  <2> QED BY <1>0, <2>1 DEF Takes
<1>1. 0 \in P
  <2> SUFFICES ASSUME NEW s \in SUBSET S, Cardinality(s) <= 0 PROVE Takes(f, s)
    OBVIOUS
  <2>1. s = {}
    BY PartFacts
  <2> QED BY <1>e, <2>1
<1>2. ASSUME NEW k \in P PROVE k + 1 \in P
  <2> SUFFICES ASSUME NEW s \in SUBSET S, Cardinality(s) <= k + 1, s # {} PROVE Takes(f, s)
    <3>1. k + 1 \in Nat
      BY <1>2
    <3> QED BY <1>e, <3>1
  <2>0. k \in Nat /\ Cardinality(s) \in Nat
    BY <1>2, PartFacts
  <2> DEFINE y == Pick(s)
  <2>1. /\ y \in s /\ s \ {y} \in SUBSET S /\ Cardinality(s \ {y}) <= k
        /\ \A x \in s : x.charge \in Nat
    <3>1. /\ Pick(s) \in s
          /\ \A x \in s : /\ s \ {x} \in SUBSET S /\ Cardinality(s \ {x}) = Cardinality(s) - 1
                          /\ x.charge \in Nat
      BY PartFacts
    <3>2. y \in s /\ s \ {y} \in SUBSET S /\ Cardinality(s \ {y}) = Cardinality(s) - 1
      BY <3>1
    <3>3. \A x \in s : x.charge \in Nat
      BY <3>1
    <3> HIDE DEF y
    <3>4. Cardinality(s \ {y}) <= k
      BY <2>0, <3>2
    <3> QED BY <3>2, <3>3, <3>4
  <2>2. f[s] = y.charge + f[s \ {y}]
    BY <1>0 DEF Value
  <2>3. Takes(f, s \ {y})
    BY <1>2, <2>1
  <2> HIDE DEF y
  <2>4. f[s] \in Nat
    BY <2>1, <2>2, <2>3 DEF Takes
  <2>5. ASSUME NEW x \in s, x # y PROVE f[s] = x.charge + f[s \ {x}]
    <3>1. s \ {x} \in SUBSET S /\ Cardinality(s \ {x}) <= k /\ y \in s \ {x} /\ x \in s \ {y}
      BY <1>2, <2>1, <2>5, PartFacts
    <3>2. Takes(f, s \ {x})
      BY <1>2, <3>1
    <3>3. f[s \ {y}] = x.charge + f[(s \ {y}) \ {x}]
      BY <2>3, <3>1 DEF Takes
    <3>4. f[s \ {x}] = y.charge + f[(s \ {x}) \ {y}]
      BY <3>1, <3>2 DEF Takes
    <3>5. (s \ {y}) \ {x} = (s \ {x}) \ {y}
      OBVIOUS
    <3>6. f[(s \ {x}) \ {y}] \in Nat
      <4>1. (s \ {x}) \ {y} \in SUBSET S /\ Cardinality((s \ {x}) \ {y}) <= k
        <5> DEFINE t == s \ {x}
        <5>1. t \in SUBSET S /\ y \in t
          BY <3>1
        <5> HIDE DEF t
        <5>2. /\ t \ {y} \in SUBSET S /\ Cardinality(t \ {y}) = Cardinality(t) - 1
              /\ Cardinality(t) \in Nat
          BY <5>1, PartFacts
        <5> QED BY <2>0, <3>1, <5>2 DEF t
      <4> QED BY <1>2, <4>1 DEF Takes
    <3>7. x.charge \in Nat /\ y.charge \in Nat
      BY <2>1
    <3> DEFINE m == f[(s \ {x}) \ {y}]
    <3>8. f[s] = y.charge + (x.charge + m) /\ f[s \ {x}] = y.charge + m /\ m \in Nat
      BY <2>2, <3>3, <3>4, <3>5, <3>6
    <3> HIDE DEF m
    <3> QED BY <3>7, <3>8
  <2> QED BY <2>2, <2>4, <2>5 DEF Takes
<1>3. P = Nat
  <2> HIDE DEF P
  <2>1. P \in SUBSET Nat
    BY DEF P
  <2> QED BY <1>1, <1>2, <2>1, AllNumbers
<1>4. Cardinality(S) \in Nat
  BY FS_CardinalityType DEF Charged
<1>5. \A s \in SUBSET S : Takes(f, s)
  BY <1>3, <1>4, PartFacts
<1> QED BY <1>5

\* The charges of a part do not depend on what it is a part of.
LEMMA AddsAgree ==
  ASSUME NEW U, Charged(U), NEW S \in SUBSET U, NEW f, Adds(f, S), NEW g, Adds(g, U)
  PROVE  f[S] = g[S]
<1> DEFINE P == {k \in Nat : \A s \in SUBSET S : Cardinality(s) <= k => f[s] = g[s]}
<1>0. /\ Charged(S) /\ \A s \in SUBSET S : f[s] = Value(f, s) /\ g[s] = Value(g, s)
  BY FS_Subset DEF Charged, Adds
<1>e. f[{}] = 0 /\ g[{}] = 0
  <2>1. Value(f, {}) = 0 /\ Value(g, {}) = 0
    BY DEF Value
  <2> QED BY <1>0, <2>1
<1>1. 0 \in P
  <2> SUFFICES ASSUME NEW s \in SUBSET S, Cardinality(s) <= 0 PROVE f[s] = g[s]
    OBVIOUS
  <2>1. s = {}
    BY <1>0, PartFacts
  <2> QED BY <1>e, <2>1
<1>2. ASSUME NEW k \in P PROVE k + 1 \in P
  <2> SUFFICES ASSUME NEW s \in SUBSET S, Cardinality(s) <= k + 1, s # {} PROVE f[s] = g[s]
    BY <1>e, <1>2
  <2>0. k \in Nat /\ Cardinality(s) \in Nat
    BY <1>0, <1>2, PartFacts
  <2>1. s \ {Pick(s)} \in SUBSET S /\ Cardinality(s \ {Pick(s)}) <= k
    <3>1. /\ Pick(s) \in s
          /\ \A x \in s : s \ {x} \in SUBSET S /\ Cardinality(s \ {x}) = Cardinality(s) - 1
      BY <1>0, PartFacts
    <3> QED BY <2>0, <3>1
  <2>2. f[s \ {Pick(s)}] = g[s \ {Pick(s)}]
    BY <1>2, <2>1
  <2> QED BY <1>0, <2>2 DEF Value
<1>3. P = Nat
  <2> HIDE DEF P
  <2>1. P \in SUBSET Nat
    BY DEF P
  <2> QED BY <1>1, <1>2, <2>1, AllNumbers
<1>4. Cardinality(S) \in Nat
  BY <1>0, FS_CardinalityType DEF Charged
<1> QED BY <1>3, <1>4

\* One more row adds its charge to the total.
LEMMA TokensGrow ==
  ASSUME NEW S, Charged(S), NEW x, x \notin S, x.charge \in Nat
  PROVE  Tokens(S \cup {x}) = Tokens(S) + x.charge /\ Tokens(S) \in Nat
<1> DEFINE U == S \cup {x}
<1>1. Charged(U) /\ S \in SUBSET U
  BY FS_AddElement DEF Charged
<1>2. PICK f : Adds(f, S) /\ Tokens(S) = f[S]
  BY TokensAdd
<1> HIDE DEF U
<1>3. PICK g : Adds(g, U) /\ Tokens(U) = g[U]
  BY <1>1, TokensAdd
<1>4. f[S] = g[S]
  BY <1>1, <1>2, <1>3, AddsAgree
<1>5. U \in SUBSET U /\ x \in U /\ U \ {x} = S
  BY DEF U
<1>6. g[U] = x.charge + g[S] /\ g[S] \in Nat
  BY <1>1, <1>3, <1>5, AddsTakes DEF Takes
<1> QED BY <1>2, <1>3, <1>4, <1>6 DEF U

-----------------------------------------------------------------------------
(* The budget *)

\* The journal holds finitely many attempts.
FiniteAttempts == IsFiniteSet(attempts)

\* How a step changes the attempts.
LEMMA AttemptSteps ==
  ASSUME [Next]_vars
  PROVE  \/ UNCHANGED attempts
         \/ \E w \in Worker : \/ ReserveAttempt(w) \/ RespondFails(w)
                              \/ \E a \in Answer, t \in Usage : Respond(w, a, t)
<1> USE DEF journal, server, args, work, publication
<1>1. CASE \E w \in Worker : WorkerStep(w)
  <2> PICK w \in Worker : WorkerStep(w)
    BY <1>1
  <2> QED BY DEF WorkerStep, AssessStep, PublishStep, ServerStep, Open, Forget, LeaseBusy,
         StartAssessing, LoadCapture, FinishAssessing, SkipItem, Replay, RefuseAttempt,
         RefuseAnswer, Apply, CoverCapture, JournalError, StartPublishing,
         Compare, LosePointer, SendCommit, CommitAnswered, Reread, Record, PublishError, LoseSession,
         ServerCommit, ServerRollback, Crash, Again
<1> QED BY <1>1 DEF Next, vars, CaptureSession, RivalPublish

\* Settling an attempt adds no row.
LEMMA SettleAddsNothing ==
  ASSUME IsFiniteSet(attempts), NEW w, NEW settled, Settle(w, settled)
  PROVE  IsFiniteSet(attempts') /\ Cardinality(attempts') <= Cardinality(attempts)
<1> DEFINE f == [r \in attempts |->
                   IF r.key = settled.key /\ r.attempt = settled.attempt THEN settled ELSE r]
<1>1. f \in [attempts -> attempts'] /\ \A q \in attempts' : \E r \in attempts : f[r] = q
  BY DEF Settle
<1> HIDE DEF f
<1>2. f \in Surjection(attempts, attempts')
  BY <1>1 DEF Surjection
<1> QED BY <1>2, FS_Surjection

\* A step adds at most one attempt.
LEMMA NextFinite == IsFiniteSet(attempts) /\ [Next]_vars => IsFiniteSet(attempts')
<1> SUFFICES ASSUME IsFiniteSet(attempts), [Next]_vars PROVE IsFiniteSet(attempts')
  OBVIOUS
<1>1. ASSUME NEW w \in Worker, ReserveAttempt(w) PROVE IsFiniteSet(attempts')
  <2>1. PICK n \in Successors(w) : attempts' = attempts \cup {NewRow(w, n)}
    BY <1>1 DEF ReserveAttempt
  <2> QED BY <2>1, FS_AddElement
<1>2. ASSUME NEW w \in Worker, RespondFails(w) PROVE IsFiniteSet(attempts')
  BY <1>2, SettleAddsNothing DEF RespondFails
<1>3. ASSUME NEW w \in Worker, NEW a \in Answer, NEW t \in Usage, Respond(w, a, t)
      PROVE  IsFiniteSet(attempts')
  BY <1>3, SettleAddsNothing DEF Respond
<1> QED BY <1>1, <1>2, <1>3, AttemptSteps

\* A reservation is within what is left of the ceilings.
LEMMA ReserveWithin ==
  ASSUME WorkInv, IsFiniteSet(attempts), NEW w \in Worker, ReserveAttempt(w),
         Cardinality(attempts') > Cardinality(attempts)
  PROVE  Cardinality(attempts') <= MaxRequests /\ Tokens(attempts') <= MaxTokens
<1>1. PICK n \in Successors(w) : attempts' = attempts \cup {NewRow(w, n)}
  BY DEF ReserveAttempt
<1>2. NewRow(w, n) \notin attempts
  <2>1. SUFFICES ASSUME NewRow(w, n) \in attempts PROVE FALSE
    OBVIOUS
  <2>2. attempts' = attempts /\ Cardinality(attempts) \in Nat
    BY <1>1, <2>1, FS_CardinalityType
  <2> QED BY <2>2
<1>3. Cardinality(attempts') = Cardinality(attempts) + 1 /\ Cardinality(attempts) \in Nat
  BY <1>1, <1>2, FS_AddElement, FS_CardinalityType
<1>4. Charged(attempts) /\ NewRow(w, n).charge = Reserve
  BY DEF Charged, WorkInv, TypeOK, Row, NewRow
<1>5. Tokens(attempts') = Tokens(attempts) + Reserve /\ Tokens(attempts) \in Nat
  BY <1>1, <1>2, <1>4, TokensGrow, KnowledgeAssumption
<1>6. Cardinality(attempts) < MaxRequests /\ Tokens(attempts) + Reserve <= MaxTokens
  BY DEF ReserveAttempt, WithinBudget
<1> QED BY <1>3, <1>5, <1>6, KnowledgeAssumption

\* However often a worker is started again, no attempt is dispatched that could
\* take the requests or the tokens of the whole journal over their ceilings.
THEOREM SpendStaysWithin == Spec => SpendIsCumulative
<1>1. Init => FiniteAttempts
  BY FS_EmptySet DEF Init, FiniteAttempts
<1>2. ASSUME WorkInv, IsFiniteSet(attempts), [Next]_vars,
             Cardinality(attempts') > Cardinality(attempts)
      PROVE  Cardinality(attempts') <= MaxRequests /\ Tokens(attempts') <= MaxTokens
  <2>0. Cardinality(attempts) \in Nat /\ Cardinality(attempts') \in Nat
    BY <1>2, NextFinite, FS_CardinalityType
  <2>1. CASE UNCHANGED attempts
    BY <1>2, <2>0, <2>1
  <2>2. CASE \E w \in Worker : ReserveAttempt(w)
    BY <1>2, <2>2, ReserveWithin
  <2>3. CASE \E w \in Worker : \/ RespondFails(w)
                               \/ \E a \in Answer, t \in Usage : Respond(w, a, t)
    <3>1. Cardinality(attempts') <= Cardinality(attempts)
      BY <1>2, <2>3, SettleAddsNothing DEF RespondFails, Respond
    <3> QED BY <1>2, <2>0, <3>1
  <2> QED BY <1>2, <2>1, <2>2, <2>3, AttemptSteps
<1>3. WorkInv /\ FiniteAttempts /\ [Next]_vars =>
        [ Cardinality(attempts') > Cardinality(attempts)
            => Cardinality(attempts') <= MaxRequests /\ Tokens(attempts') <= MaxTokens ]_vars
  BY <1>2 DEF FiniteAttempts
<1>4. FiniteAttempts /\ [Next]_vars => FiniteAttempts'
  BY NextFinite DEF FiniteAttempts
<1> QED BY <1>1, <1>3, <1>4, WorkInvariant, PTL DEF Spec, SpendIsCumulative

-----------------------------------------------------------------------------
(* Durable answers *)

\* The attempt in flight is the last one under its key, and none under it has
\* an answer.
Asked(w) ==
  pc[w] = "asking" =>
    \A q \in attempts : q.key = row[w].key =>
      q.status # "success" /\ (q = row[w] \/ q.attempt < row[w].attempt)

AnsweredInv == (\A w \in Worker : Asked(w)) /\ AnsweredOnce

\* Only the holder of the lease asks.
LEMMA OneAsks ==
  ASSUME WorkInv, NEW w \in Worker, NEW v \in Worker, pc[w] \in Holding, pc[v] \in Holding
  PROVE  v = w
BY KnowledgeAssumption DEF WorkInv, LeaseInv

\* What settling makes of the rows.
LEMMA SettledRows ==
  ASSUME NEW w, NEW settled, Settle(w, settled), NEW r \in attempts'
  PROVE  \/ r = settled
         \/ r \in attempts /\ ~(r.key = settled.key /\ r.attempt = settled.attempt)
BY DEF Settle

\* The attempt in flight is settled: an answer becomes the last row under its
\* key, and the rows under the other keys stay.
LEMMA SettleKeepsAnswers ==
  ASSUME TypeOK, AnsweredInv, NEW w \in Worker, pc[w] = "asking", row[w] \in Row,
         NEW settled, Settle(w, settled),
         settled.key = row[w].key, settled.attempt = row[w].attempt
  PROVE  AnsweredOnce'
<1> SUFFICES ASSUME NEW r \in attempts', NEW q \in attempts', r.status = "success", q.key = r.key
             PROVE  q = r \/ q.attempt < r.attempt
  BY DEF AnsweredOnce
<1>1. \A p \in attempts : p.key = row[w].key =>
        p.status # "success" /\ (p = row[w] \/ p.attempt < row[w].attempt)
  BY DEF AnsweredInv, Asked
<1>2. CASE r = settled
  <2>1. q = settled \/ (q \in attempts /\ q.attempt # row[w].attempt /\ q.key = row[w].key)
    BY <1>2, SettledRows
  <2> QED BY <2>1, <1>1, <1>2
<1>3. CASE r # settled
  <2>1. r \in attempts /\ r.key # row[w].key
    BY <1>1, <1>3, SettledRows
  <2>2. q \in attempts
    BY <2>1, SettledRows
  <2> QED BY <2>1, <2>2 DEF AnsweredInv, AnsweredOnce
<1> QED BY <1>2, <1>3

\* Reserving and settling happen under the lease, so the attempt in flight
\* stays the only unanswered one that can get an answer.
LEMMA NextAnsweredInv == WorkInv /\ AnsweredInv /\ [Next]_vars => AnsweredInv'
<1> SUFFICES ASSUME WorkInv, AnsweredInv, [Next]_vars PROVE AnsweredInv'
  OBVIOUS
<1> USE DEF journal, server, args, work, publication
<1>0. TypeOK /\ HandInv /\ pc \in [Worker -> WorkerState] /\ row \in [Worker -> Row \cup {None}]
  BY DEF WorkInv, TypeOK
<1>1. ASSUME NEW w \in Worker, ReserveAttempt(w) PROVE AnsweredInv'
  <2>1. PICK n \in Successors(w) : /\ attempts' = attempts \cup {NewRow(w, n)}
                                   /\ row' = [row EXCEPT ![w] = NewRow(w, n)]
    BY <1>1 DEF ReserveAttempt
  <2> DEFINE new == NewRow(w, n)
  <2>2. new.key = KeyOf(w) /\ new.attempt = n /\ new.status = "reserved"
    BY DEF NewRow
  <2>3. pc[w] = "items" /\ pc' = [pc EXCEPT ![w] = "asking"] /\ Receipts(w) = {}
    BY <1>1 DEF ReserveAttempt, AtQuestion, Goto
  <2>4. \A q \in attempts : q.key = KeyOf(w) => q.status # "success" /\ q.attempt < n
    BY <2>3 DEF Receipts, Rows, Successors
  <2> HIDE DEF new
  <2>5. Asked(w)'
    BY <2>1, <2>2, <2>4, <1>0 DEF Asked, new
  <2>6. ASSUME NEW v \in Worker, v # w PROVE Asked(v)'
    BY <2>3, <2>6, <1>0, OneAsks DEF Asked, Holding, Assessing
  <2>7. AnsweredOnce'
    BY <2>1, <2>2, <2>4 DEF AnsweredInv, AnsweredOnce, new
  <2> QED BY <2>5, <2>6, <2>7 DEF AnsweredInv
<1>2. ASSUME NEW w \in Worker, NEW settled, Settle(w, settled), pc[w] = "asking",
             settled.key = row[w].key, settled.attempt = row[w].attempt,
             pc'[w] # "asking", \A v \in Worker \ {w} : pc'[v] = pc[v]
      PROVE  AnsweredInv'
  <2>1. AnsweredOnce'
    BY <1>0, <1>2, SettleKeepsAnswers DEF HandInv, Hand
  <2>2. ASSUME NEW v \in Worker PROVE Asked(v)'
    BY <1>2, OneAsks DEF Asked, Holding, Assessing
  <2> QED BY <2>1, <2>2 DEF AnsweredInv
<1>3. ASSUME NEW w \in Worker, RespondFails(w) PROVE AnsweredInv'
  <2>1. row[w] \in Row
    BY <1>0, <1>3 DEF RespondFails, HandInv, Hand
  <2> DEFINE settled == [row[w] EXCEPT !.status = "failed"]
  <2>2. settled.key = row[w].key /\ settled.attempt = row[w].attempt
    BY <2>1 DEF Row
  <2>3. Settle(w, settled) /\ pc[w] = "asking"
    BY <1>3 DEF RespondFails
  <2>4. pc'[w] # "asking" /\ \A v \in Worker \ {w} : pc'[v] = pc[v]
    BY <1>0, <1>3 DEF RespondFails, StopAssessing, Goto
  <2> HIDE DEF settled
  <2> QED BY <1>2, <2>2, <2>3, <2>4
<1>4. ASSUME NEW w \in Worker, NEW a \in Answer, NEW t \in Usage, Respond(w, a, t)
      PROVE  AnsweredInv'
  <2>1. row[w] \in Row
    BY <1>0, <1>4 DEF Respond, HandInv, Hand
  <2> DEFINE settled == Receipt(w, a, t)
  <2>2. settled.key = row[w].key /\ settled.attempt = row[w].attempt
    BY <2>1 DEF Row, Receipt
  <2>3. Settle(w, settled) /\ pc[w] = "asking"
    BY <1>4 DEF Respond
  <2>4. pc'[w] # "asking" /\ \A v \in Worker \ {w} : pc'[v] = pc[v]
    BY <1>0, <1>4 DEF Respond, Goto
  <2> HIDE DEF settled
  <2> QED BY <1>2, <2>2, <2>3, <2>4
<1>5. ASSUME UNCHANGED attempts, \A w \in Worker : pc'[w] = "asking" => pc[w] = "asking" /\ row'[w] = row[w]
      PROVE  AnsweredInv'
  BY <1>5 DEF AnsweredInv, Asked, AnsweredOnce
<1>6. CASE UNCHANGED vars \/ (\E c \in Capture : CaptureSession(c)) \/ (\E g \in Rival : RivalPublish(g))
  BY <1>5, <1>6 DEF vars, CaptureSession, RivalPublish
<1>7. ASSUME NEW w \in Worker, WorkerStep(w), ~ReserveAttempt(w), ~RespondFails(w),
             ~\E a \in Answer, t \in Usage : Respond(w, a, t)
      PROVE  AnsweredInv'
  <2>1. UNCHANGED attempts
    BY <1>7 DEF WorkerStep, AssessStep, PublishStep, ServerStep, Open, Forget, LeaseBusy,
       StartAssessing, LoadCapture, FinishAssessing, SkipItem, Replay, RefuseAttempt,
       RefuseAnswer, Apply, CoverCapture, JournalError, StartPublishing, Compare, LosePointer,
       SendCommit, CommitAnswered, Reread, Record, PublishError, LoseSession, ServerCommit,
       ServerRollback, Crash, Again
  <2>2. ASSUME NEW v \in Worker, pc'[v] = "asking" PROVE pc[v] = "asking" /\ row'[v] = row[v]
    BY <1>0, <1>7, <2>2
    DEF WorkerStep, AssessStep, PublishStep, ServerStep, Open, Forget, LeaseBusy,
       StartAssessing, LoadCapture, FinishAssessing, SkipItem, Replay, RefuseAttempt,
       RefuseAnswer, Apply, CoverCapture, JournalError, StartPublishing, Compare, LosePointer,
       SendCommit, CommitAnswered, Reread, Record, PublishError, LoseSession, ServerCommit,
       ServerRollback, Crash, Again, StopAssessing, StopPublishing, ClearWork, Goto
  <2> QED BY <2>1, <2>2, <1>5
<1> QED BY <1>1, <1>3, <1>4, <1>6, <1>7 DEF Next

\* Whatever dies, comes back and retries, for any extraction: a question with
\* a durable answer is never dispatched again.
THEOREM AnsweredOnlyOnce == Spec => []AnsweredOnce
<1>1. Init => AnsweredInv
  BY DEF Init, AnsweredInv, Asked, AnsweredOnce
<1>2. AnsweredInv => AnsweredOnce
  BY DEF AnsweredInv
<1> QED BY <1>1, <1>2, NextAnsweredInv, WorkInvariant, PTL DEF Spec

=============================================================================
