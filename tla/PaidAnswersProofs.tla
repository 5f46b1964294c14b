------------------------- MODULE PaidAnswersProofs -------------------------
(***************************************************************************)
(* Paid answers for any number of runs, candidates, snapshots, policies,   *)
(* budgets and crashes: racers converge on the durable answer, and a run   *)
(* never spends past its request budget.                                   *)
(***************************************************************************)
EXTENDS PaidAnswers, TLAPS

\* A decision row repeats the durable answer of its reuse key.
Backed(inf, c, d) ==
  d # None /\ d.answer # Failed => d.answer = inf[<<c, d.key.policy>>]

\* What a run holds in hand while it works on a candidate.
HandInv ==
  \A r \in Run :
    /\ pc[r] \in {"asking", "answered", "writing", "staging"} => next[r] \in Cand
    /\ pc[r] = "answered" => answer[r] \in Answer
    /\ pc[r] \in {"writing", "staging"} =>
         /\ answer[r] \in Answer \cup {Failed}
         /\ answer[r] # Failed => answer[r] = inferences[ReuseKey(r)]
    /\ pc[r] = "staging" => decisions[DecisionKey(r)] # None

\* A run that has not started has spent nothing, so any budget will do.
SpendInv == \A r \in Run : sent[r] <= budget[r] /\ (pc[r] = "idle" => sent[r] = 0)

\* Decision rows are backed, in the database and in the hands of a run.
AllBacked ==
  /\ \A c \in Cand, s \in Snap : Backed(inferences, c, decisions[<<c, s>>])
  /\ \A r \in Run, c \in Cand : Backed(inferences, c, returned[r][c])

IInv == TypeOK /\ HandInv /\ AllBacked /\ SpendInv

LEMMA InitIInv == Init => IInv
<1> SUFFICES ASSUME Init PROVE IInv
  OBVIOUS
<1> USE PaidAssumption DEF Init
<1>1. TypeOK
  BY DEF TypeOK, RunState, NoRows, Cand
<1>2. AllBacked
  BY DEF AllBacked, Backed, NoRows
<1>3. HandInv
  BY DEF HandInv
<1>4. SpendInv
  <2> SUFFICES ASSUME NEW r \in Run PROVE sent[r] <= budget[r] /\ sent[r] = 0
    BY DEF SpendInv
  <2>1. budget[r] \in MaxRequests
    OBVIOUS
  <2>2. budget[r] \in Nat
    BY <2>1, PaidAssumption
  <2>3. sent[r] = 0
    OBVIOUS
  <2> HIDE DEF Init
  <2> QED BY ONLY <2>2, <2>3
<1> QED BY <1>1, <1>2, <1>3, <1>4 DEF IInv

-----------------------------------------------------------------------------
(* Type correctness, one step at a time *)

LEMMA NextTypeOK == TypeOK /\ HandInv /\ [Next]_vars => TypeOK'
<1> SUFFICES ASSUME TypeOK, HandInv, [Next]_vars PROVE TypeOK'
  OBVIOUS
<1> USE PaidAssumption
<1>1. CASE UNCHANGED vars
  BY <1>1 DEF vars, TypeOK, durable, input, client, results
<1>2. CASE Next
  <2> PICK r \in Run :
        \/ \E x \in Context, isLive \in BOOLEAN, n \in MaxRequests : Start(r, x, isLive, n)
        \/ Count(r) \/ Preflight(r)
        \/ Reuse(r) \/ Skip(r) \/ Ask(r)
        \/ OutOfRequests(r) \/ Transient(r) \/ Fault(r)
        \/ \E a \in Answer : Answered(r, a)
        \/ StoreInference(r) \/ WriteDecision(r) \/ StageDecision(r) \/ Finish(r)
        \/ Crash(r) \/ Again(r)
    BY <1>2 DEF Next
  <2> USE DEF TypeOK, RunState, durable, input, client, results, Goto, Hold, Cand
  <2>1. CASE \E x \in Context, isLive \in BOOLEAN, n \in MaxRequests : Start(r, x, isLive, n)
    BY <2>1 DEF Start
  <2>2. CASE Preflight(r)
    BY <2>2 DEF Preflight
  <2>13. CASE Finish(r)
    BY <2>13 DEF Finish
  <2>3. CASE Count(r)
    <3>1. next[r] + 1 \in 1 .. NumCand + 1 /\ pending[r] + 1 \in Nat
      BY <2>3 DEF Count
    <3> QED BY <2>3, <3>1 DEF Count
  <2>4. CASE Skip(r)
    <3>1. next[r] + 1 \in 1 .. NumCand + 1
      BY <2>4 DEF Skip
    <3> QED BY <2>4, <3>1 DEF Skip
  <2>14. CASE Ask(r)
    BY <2>14 DEF Ask
  <2>5. CASE Reuse(r)
    <3>1. ReuseKey(r) \in Cand \X Policy
      BY <2>5 DEF Reuse, ReuseKey, Context
    <3> QED BY <2>5, <3>1 DEF Reuse
  <2>6. CASE OutOfRequests(r)
    BY <2>6 DEF OutOfRequests
  <2>15. CASE Transient(r)
    <3>1. attempt[r] + 1 \in 0 .. MaxRetries /\ sent[r] + 1 \in Nat
      BY <2>15 DEF Transient
    <3> QED BY <2>15, <3>1 DEF Transient, Dispatch
  <2>16. CASE Fault(r)
    <3>1. sent[r] + 1 \in Nat
      OBVIOUS
    <3> QED BY <2>16, <3>1 DEF Fault, Dispatch
  <2>7. CASE \E a \in Answer : Answered(r, a)
    BY <2>7 DEF Answered, Dispatch
  <2>8. CASE StoreInference(r)
    <3>1. ReuseKey(r) \in Cand \X Policy /\ answer[r] \in Answer
      BY <2>8 DEF StoreInference, ReuseKey, Context, HandInv
    <3> QED BY <2>8, <3>1 DEF StoreInference
  <2>9. CASE WriteDecision(r)
    <3>1. Decision(r) \in Row /\ DecisionKey(r) \in Cand \X Snap
      BY <2>9 DEF WriteDecision, Decision, DecisionKey, Row, Context, HandInv
    <3>2. decisions[DecisionKey(r)] \in Row \cup {None}
      BY <3>1
    <3>3. Upsert(decisions[DecisionKey(r)], Decision(r)) \in Row \cup {None}
      BY <3>1, <3>2 DEF Upsert
    <3> HIDE DEF Cand
    <3> QED BY <2>9, <3>1, <3>3 DEF WriteDecision
  <2>10. CASE StageDecision(r)
    <3>1. Decision(r) \in Row /\ DecisionKey(r) \in Cand \X Snap /\ next[r] \in Cand
      BY <2>10 DEF StageDecision, Decision, DecisionKey, Row, Context, HandInv
    <3>2. /\ decisions[DecisionKey(r)] \in Row \cup {None}
          /\ staged[r][next[r]] \in Row \cup {None}
      BY <3>1
    <3>3. Upsert(staged[r][next[r]], decisions[DecisionKey(r)]) \in Row \cup {None}
      BY <3>2 DEF Upsert
    <3>4. next[r] + 1 \in 1 .. NumCand + 1
      BY <3>1
    <3> QED BY <2>10, <3>1, <3>3, <3>4 DEF StageDecision
  <2>11. CASE Crash(r)
    BY <2>11 DEF Crash
  <2>12. CASE Again(r)
    BY <2>12 DEF Again, NoRows
  <2> QED BY <2>1, <2>2, <2>3, <2>4, <2>5, <2>6, <2>7, <2>8, <2>9, <2>10, <2>11, <2>12,
         <2>13, <2>14, <2>15, <2>16
<1> QED BY <1>1, <1>2

-----------------------------------------------------------------------------
(* Convergence *)

\* Inferences are written once.
LEMMA InferencesKept ==
  ASSUME TypeOK, HandInv, [Next]_vars
  PROVE  \A k \in Cand \X Policy : inferences[k] # None => inferences'[k] = inferences[k]
<1> USE DEF TypeOK, durable
<1>1. CASE \E r \in Run : StoreInference(r)
  BY <1>1 DEF StoreInference
<1>2. CASE ~(\E r \in Run : StoreInference(r))
  BY <1>2 DEF Next, vars, Start, Count, Preflight, Reuse, Skip, Ask, OutOfRequests, Transient,
     Fault, Answered, Dispatch, WriteDecision, StageDecision, Finish, Crash, Again
<1> QED BY <1>1, <1>2

\* So what agrees with the durable answer goes on to agree with it.
LEMMA AgreementKept ==
  ASSUME TypeOK, HandInv, [Next]_vars, NEW c \in Cand, NEW p \in Policy, NEW a \in Answer,
         a = inferences[<<c, p>>]
  PROVE  a = inferences'[<<c, p>>]
<1>1. inferences[<<c, p>>] # None
  BY PaidAssumption
<1> QED BY <1>1, InferencesKept

LEMMA NextHandInv == TypeOK /\ HandInv /\ [Next]_vars => HandInv'
<1> SUFFICES ASSUME TypeOK, HandInv, [Next]_vars, NEW q \in Run
             PROVE  HandInv!(q)'
  BY DEF HandInv
<1>1. TypeOK'
  BY NextTypeOK
<1>2. next[q] \in Cand /\ answer[q] \in Answer /\ answer[q] = inferences[ReuseKey(q)]
        => answer[q] = inferences'[ReuseKey(q)]
  BY AgreementKept DEF ReuseKey, TypeOK, Context
\* Steps of other runs leave a decision row a decision row.
<1>3. ASSUME NEW k \in Cand \X Snap, decisions[k] # None
      PROVE  decisions'[k] # None
  <2>1. CASE \E r \in Run : WriteDecision(r)
    <3>1. PICK r \in Run : WriteDecision(r)
      BY <2>1
    <3>2. Decision(r) \in Row
      BY <3>1 DEF WriteDecision, Decision, Row, HandInv, TypeOK
    <3>4. Decision(r) # None
      BY <3>2, PaidAssumption
    <3> QED BY <3>1, <3>4, <1>3 DEF WriteDecision, Upsert, TypeOK
  <2>2. CASE ~(\E r \in Run : WriteDecision(r))
    BY <2>2, <1>3 DEF Next, vars, durable, Start, Count, Preflight, Reuse, Skip, Ask,
       OutOfRequests, Transient, Fault, Answered, Dispatch, StoreInference, StageDecision,
       Finish, Crash, Again
  <2> QED BY <2>1, <2>2
<1>4. ASSUME pc'[q] = pc[q], next'[q] = next[q], answer'[q] = answer[q], ctx'[q] = ctx[q]
      PROVE  HandInv!(q)'
  <2>1. ReuseKey(q)' = ReuseKey(q) /\ DecisionKey(q)' = DecisionKey(q)
    BY <1>4 DEF ReuseKey, DecisionKey
  <2>2. pc[q] = "staging" => DecisionKey(q) \in Cand \X Snap /\ decisions[DecisionKey(q)] # None
    BY DEF HandInv, DecisionKey, TypeOK, Context
  <2>3. pc[q] \in {"writing", "staging"} /\ answer[q] # Failed => answer[q] = inferences'[ReuseKey(q)]
    BY <1>2 DEF HandInv
  <2> QED BY <1>3, <1>4, <2>1, <2>2, <2>3 DEF HandInv
<1>5. CASE UNCHANGED vars
  BY <1>4, <1>5 DEF vars, input
<1>6. ASSUME NEW r \in Run,
        \/ \E x \in Context, isLive \in BOOLEAN, n \in MaxRequests : Start(r, x, isLive, n)
        \/ Count(r) \/ Preflight(r)
        \/ Reuse(r) \/ Skip(r) \/ Ask(r)
        \/ OutOfRequests(r) \/ Transient(r) \/ Fault(r)
        \/ \E a \in Answer : Answered(r, a)
        \/ StoreInference(r) \/ WriteDecision(r) \/ StageDecision(r) \/ Finish(r)
        \/ Crash(r) \/ Again(r)
      PROVE  HandInv!(q)'
  <2>1. CASE q # r
    <3>1. pc'[q] = pc[q] /\ next'[q] = next[q] /\ answer'[q] = answer[q] /\ ctx'[q] = ctx[q]
      BY <1>6, <2>1
      DEF Start, Count, Preflight, Reuse, Skip, Ask, OutOfRequests, Transient, Fault, Answered,
          Dispatch, StoreInference, WriteDecision, StageDecision, Finish, Crash, Again,
          TypeOK, Goto, Hold, input
    <3> QED BY <3>1, <1>4
  <2>2. CASE q = r
    <3> USE <2>2 DEF Goto
    \* Only five steps leave the run holding an answer.
    <3>1. CASE Transient(r) \/ Ask(r)
      BY <3>1 DEF Transient, Ask, Dispatch, HandInv, TypeOK, input, Cand
    <3>2. CASE OutOfRequests(r) \/ Fault(r)
      BY <3>2 DEF OutOfRequests, Fault, Dispatch, HandInv, TypeOK, input, Hold
    <3>3. CASE \E a \in Answer : Answered(r, a)
      BY <3>3 DEF Answered, Dispatch, HandInv, TypeOK, input, Hold
    <3>4. CASE Reuse(r)
      <4>1. /\ next[r] \in Cand /\ next'[r] = next[r]
            /\ inferences' = inferences /\ ReuseKey(r)' = ReuseKey(r)
            /\ answer'[r] = inferences[ReuseKey(r)] /\ pc'[r] = "writing"
        BY <3>4 DEF Reuse, TypeOK, Hold, input, durable, ReuseKey, Cand
      <4>2. inferences[ReuseKey(r)] \in Answer
        BY <3>4, <4>1 DEF Reuse, Uncached, ReuseKey, TypeOK, Context
      <4> QED BY <4>1, <4>2
    <3>5. CASE StoreInference(r)
      <4>1. next[r] \in Cand /\ answer[r] \in Answer /\ ReuseKey(r) \in Cand \X Policy
        BY <3>5 DEF StoreInference, HandInv, ReuseKey, TypeOK, Context
      <4>2. /\ next'[r] = next[r] /\ pc'[r] = "writing" /\ ReuseKey(r)' = ReuseKey(r)
            /\ answer'[r] = inferences'[ReuseKey(r)]
            /\ answer'[r] = IF inferences[ReuseKey(r)] = None THEN answer[r]
                            ELSE inferences[ReuseKey(r)]
        BY <3>5, <4>1 DEF StoreInference, TypeOK, Hold, input, ReuseKey
      <4>3. answer'[r] \in Answer
        BY <4>1, <4>2 DEF TypeOK
      <4> QED BY <4>1, <4>2, <4>3
    <3>6. CASE WriteDecision(r)
      <4>1. /\ next'[r] = next[r] /\ pc'[r] = "staging" /\ answer'[r] = answer[r]
            /\ ReuseKey(r)' = ReuseKey(r) /\ DecisionKey(r)' = DecisionKey(r)
            /\ inferences' = inferences
        BY <3>6 DEF WriteDecision, TypeOK, input, ReuseKey, DecisionKey
      <4>2. next[r] \in Cand /\ answer[r] \in Answer \cup {Failed}
        BY <3>6 DEF WriteDecision, HandInv
      <4>3. Decision(r) \in Row /\ DecisionKey(r) \in Cand \X Snap
        BY <4>2 DEF Decision, Row, DecisionKey, TypeOK, Context
      <4>4. Decision(r) # None
        BY <4>3, PaidAssumption
      <4>5. decisions'[DecisionKey(r)] # None
        BY <3>6, <4>3, <4>4 DEF WriteDecision, Upsert, TypeOK
      <4> QED BY <3>6, <4>1, <4>2, <4>5 DEF WriteDecision, HandInv
    <3>7. CASE \/ \E x \in Context, isLive \in BOOLEAN, n \in MaxRequests : Start(r, x, isLive, n)
               \/ Count(r) \/ Preflight(r) \/ Skip(r) \/ StageDecision(r) \/ Finish(r)
               \/ Crash(r) \/ Again(r)
      <4>1. pc'[r] \notin {"asking", "answered", "writing", "staging"}
        BY <3>7 DEF Start, Count, Preflight, Skip, StageDecision, Finish, Crash, Again, TypeOK
      <4> QED BY <4>1
    <3> QED BY <1>6, <3>1, <3>2, <3>3, <3>4, <3>5, <3>6, <3>7
  <2> QED BY <2>1, <2>2
<1> QED BY <1>5, <1>6 DEF Next

LEMMA NextAllBacked == TypeOK /\ HandInv /\ AllBacked /\ [Next]_vars => AllBacked'
<1> SUFFICES ASSUME TypeOK, HandInv, AllBacked, [Next]_vars PROVE AllBacked'
  OBVIOUS
\* A row that is backed stays backed.
<1>1. ASSUME NEW c \in Cand, NEW d \in Row \cup {None}, Backed(inferences, c, d)
      PROVE  Backed(inferences', c, d)
  BY <1>1, AgreementKept DEF Backed, Row, Context
\* The decision made from the answer in hand is backed.
<1>2. ASSUME NEW r \in Run, pc[r] \in {"writing", "staging"}
      PROVE  Backed(inferences, next[r], Decision(r))
  BY <1>2 DEF HandInv, Decision, Backed, ReuseKey
<1>3. ASSUME NEW c \in Cand, NEW s \in Snap
      PROVE  Backed(inferences', c, decisions'[<<c, s>>])
  <2>1. CASE decisions'[<<c, s>>] = decisions[<<c, s>>]
    <3>1. decisions[<<c, s>>] \in Row \cup {None}
            /\ Backed(inferences, c, decisions[<<c, s>>])
      BY DEF AllBacked, TypeOK
    <3> QED BY <1>1, <2>1, <3>1
  <2>2. CASE decisions'[<<c, s>>] # decisions[<<c, s>>]
    <3>1. PICK r \in Run : WriteDecision(r)
      BY <2>2 DEF Next, vars, durable, Start, Count, Preflight, Reuse, Skip, Ask, OutOfRequests,
         Transient, Fault, Answered, Dispatch, StoreInference, StageDecision, Finish, Crash, Again
    <3>2. DecisionKey(r) = <<c, s>> /\ next[r] = c
      BY <2>2, <3>1 DEF WriteDecision, DecisionKey, TypeOK
    <3>3. decisions'[<<c, s>>] = Decision(r)
      BY <2>2, <3>1, <3>2 DEF WriteDecision, Upsert, TypeOK
    <3>4. inferences' = inferences /\ Backed(inferences, c, Decision(r))
      BY <1>2, <3>1, <3>2 DEF WriteDecision
    <3> QED BY <3>3, <3>4
  <2> QED BY <2>1, <2>2
<1>4. ASSUME NEW q \in Run, NEW c \in Cand
      PROVE  Backed(inferences', c, returned'[q][c])
  <2>1. CASE returned'[q][c] = returned[q][c]
    <3>1. returned[q][c] \in Row \cup {None} /\ Backed(inferences, c, returned[q][c])
      BY DEF AllBacked, TypeOK
    <3> QED BY <1>1, <2>1, <3>1
  <2>2. CASE returned'[q][c] = None
    BY <2>2 DEF Backed
  <2>3. CASE returned'[q][c] # returned[q][c] /\ returned'[q][c] # None
    <3>1. PICK r \in Run : StageDecision(r)
      <4>1. ASSUME NEW r \in Run, Again(r) PROVE FALSE
        <5>1. returned' = [returned EXCEPT ![r] = NoRows]
          BY <4>1 DEF Again
        <5> QED BY <2>3, <5>1 DEF NoRows, TypeOK
      <4> QED BY <2>3, <4>1
          DEF Next, vars, results, Start, Count, Preflight, Reuse, Skip, Ask, OutOfRequests,
              Transient, Fault, Answered, Dispatch, StoreInference, WriteDecision, Finish, Crash
    <3>2. r = q /\ next[r] = c /\ returned'[q][c] = Decision(r)
      BY <2>3, <3>1 DEF StageDecision, TypeOK
    <3>3. inferences' = inferences /\ Backed(inferences, c, Decision(r))
      BY <1>2, <3>1, <3>2 DEF StageDecision, durable
    <3> QED BY <3>2, <3>3
  <2> QED BY <2>1, <2>2, <2>3
<1> QED BY <1>3, <1>4 DEF AllBacked

-----------------------------------------------------------------------------
(* Spend *)

LEMMA NextSpendInv == TypeOK /\ SpendInv /\ [Next]_vars => SpendInv'
<1> SUFFICES ASSUME TypeOK, SpendInv, [Next]_vars, NEW q \in Run
             PROVE  sent'[q] <= budget'[q] /\ (pc'[q] = "idle" => sent'[q] = 0)
  BY DEF SpendInv
<1>1. sent[q] \in Nat /\ budget[q] \in Nat /\ sent[q] <= budget[q]
        /\ (pc[q] = "idle" => sent[q] = 0)
  BY PaidAssumption DEF TypeOK, SpendInv
<1>2. CASE UNCHANGED vars
  BY <1>1, <1>2 DEF vars, input, client
<1>3. ASSUME NEW r \in Run, NEW x \in Context, NEW b \in BOOLEAN, NEW n \in MaxRequests,
             Start(r, x, b, n)
      PROVE  sent'[q] <= budget'[q] /\ (pc'[q] = "idle" => sent'[q] = 0)
  <2>1. n \in Nat
    BY PaidAssumption
  <2> QED BY <1>1, <1>3, <2>1 DEF Start, Goto, client, TypeOK
<1>4. ASSUME NEW r \in Run, Transient(r) \/ Fault(r) \/ (\E a \in Answer : Answered(r, a))
      PROVE  sent'[q] <= budget'[q] /\ (pc'[q] = "idle" => sent'[q] = 0)
  <2>1. /\ pc[r] = "asking" /\ sent[r] < budget[r] /\ budget' = budget
        /\ sent' = [sent EXCEPT ![r] = @ + 1]
        /\ pc'[q] = "idle" => pc[q] = "idle" /\ q # r
    BY <1>4 DEF Transient, Fault, Answered, Dispatch, MaySend, input, Goto, TypeOK
  <2>2. CASE q = r
    BY <1>1, <2>1, <2>2 DEF TypeOK
  <2>3. CASE q # r
    BY <1>1, <2>1, <2>3 DEF TypeOK
  <2> QED BY <2>2, <2>3
<1>5. ASSUME NEW r \in Run, Again(r)
      PROVE  sent'[q] <= budget'[q] /\ (pc'[q] = "idle" => sent'[q] = 0)
  BY <1>1, <1>5 DEF Again, Goto, input, TypeOK
<1>6. ASSUME NEW r \in Run,
        \/ Count(r) \/ Preflight(r) \/ Reuse(r) \/ Skip(r) \/ Ask(r) \/ OutOfRequests(r)
        \/ StoreInference(r) \/ WriteDecision(r) \/ StageDecision(r) \/ Finish(r) \/ Crash(r)
      PROVE  sent'[q] <= budget'[q] /\ (pc'[q] = "idle" => sent'[q] = 0)
  <2>1. sent' = sent /\ budget' = budget /\ (pc'[q] = "idle" => pc[q] = "idle")
    BY <1>6 DEF Count, Preflight, Reuse, Skip, Ask, OutOfRequests, StoreInference,
       WriteDecision, StageDecision, Finish, Crash, input, client, Goto, TypeOK
  <2> QED BY <1>1, <2>1
<1> QED BY <1>2, <1>3, <1>4, <1>5, <1>6 DEF Next

-----------------------------------------------------------------------------
(* The theorems *)

LEMMA NextIInv == IInv /\ [Next]_vars => IInv'
BY NextTypeOK, NextHandInv, NextAllBacked, NextSpendInv DEF IInv

LEMMA Invariance == Spec => []IInv
<1>1. Init => IInv
  BY InitIInv
<1>2. IInv /\ [Next]_vars => IInv'
  BY NextIInv
<1> QED BY <1>1, <1>2, PTL DEF Spec

\* The variables keep their types.
THEOREM TypeCorrect == Spec => []TypeOK
<1>1. IInv => TypeOK
  BY DEF IInv
<1> QED BY <1>1, Invariance, PTL

\* However many runs race on however many candidates, every answer returned
\* or recorded for a reuse key is the one durable answer: find_inference after
\* put_inference makes the loser go on with the winner's row.
THEOREM RacersConverge == Spec => []AnswersConverge
<1>1. IInv => AnswersConverge
  BY DEF IInv, AllBacked, Backed, AnswersConverge
<1> QED BY <1>1, Invariance, PTL

\* No client dispatches more requests than max_requests, whatever its retries.
THEOREM BudgetBoundsSpend == Spec => []SpendWithinBudget
<1>1. IInv => SpendWithinBudget
  BY DEF IInv, SpendInv, SpendWithinBudget
<1> QED BY <1>1, Invariance, PTL

\* put_decision's upsert never lets a failure displace an answer recorded
\* under the same cache key, in whatever order the runs write.
THEOREM AnswersOutliveFailures == Spec => FailureNeverDisplacesAnswer
<1>1. IInv /\ [Next]_vars =>
        [ \A k \in Cand \X Snap :
            decisions[k] # None /\ decisions[k].answer # Failed
              /\ decisions'[k].answer = Failed
            => decisions'[k].key # decisions[k].key ]_vars
  <2> SUFFICES ASSUME IInv, Next, NEW k \in Cand \X Snap,
                      decisions[k] # None, decisions[k].answer # Failed,
                      decisions'[k].answer = Failed
               PROVE  decisions'[k].key # decisions[k].key
    OBVIOUS
  <2>1. PICK r \in Run : WriteDecision(r)
    BY DEF Next, vars, durable, Start, Count, Preflight, Reuse, Skip, Ask, OutOfRequests,
       Transient, Fault, Answered, Dispatch, StoreInference, StageDecision, Finish, Crash, Again
  <2>2. decisions'[k] = Upsert(decisions[k], Decision(r))
    BY <2>1 DEF WriteDecision, IInv, TypeOK
  <2> QED BY <2>2 DEF Upsert
<1> QED BY <1>1, Invariance, PTL DEF Spec, FailureNeverDisplacesAnswer
=============================================================================
