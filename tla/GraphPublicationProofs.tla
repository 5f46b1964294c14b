----------------------- MODULE GraphPublicationProofs -----------------------
(***************************************************************************)
(* Graph publication for any number of repositories, runs, snapshots,      *)
(* contents and failures: the inductive invariant, the safety invariants   *)
(* it implies, and the refinement of VersionChain.                         *)
(***************************************************************************)
EXTENDS GraphPublication, TLAPS

\* The pointer names a sealed build of its repository, and no sealed build of
\* the repository is newer.
PointerInv ==
  /\ \A repo \in Repo : pointer[repo] # None =>
       /\ pointer[repo].repo = repo
       /\ pointer[repo].gen <= MaxGeneration
       /\ builds[pointer[repo]] # None
  /\ \A id \in BuildId : builds[id] # None =>
       pointer[id.repo] # None /\ id.gen <= pointer[id.repo].gen

\* What a run remembers of the database stays true of it.
MemoryInv ==
  \A r \in Run :
    /\ pred[r] # None =>
         pred[r].repo = Home[r] /\ pred[r].gen <= MaxGeneration /\ builds[pred[r]] # None
    /\ pc[r] \in {"decided", "staged", "writing", "flushed", "committing",
                  "reconcile", "ok", "failed"} => job[r] # None
    /\ job[r] # None =>
         /\ job[r].id.repo = Home[r]
         /\ job[r].content.pred # None => builds[job[r].content.pred] # None
         /\ job[r].mode = "partial" /\ job[r].content.pred # None
              /\ Live(r) = job[r].content.pred
              => builds[Live(r)].body \notin DecisionBearing

\* Client and server agree on how far the transaction is.
TxInv ==
  \A r \in Run :
    /\ pc[r] \in {"fresh", "chained", "decided", "staged"} => tx[r] = "none"
    /\ tx[r] # "none" => job[r] # None
    /\ tx[r] = "committed" => builds[job[r].id] # None

\* While a transaction is unresolved it holds its repository's lock, so the
\* guards it passed still hold.
LockInv ==
  \A r \in Run : Unresolved(r) =>
    /\ \A q \in Run : Unresolved(q) /\ Home[q] = Home[r] => q = r
    /\ LiveAccepts(r)
    /\ GenerationFits(r)

\* The transaction has inserted its rows and has not ended.
Flushed(r) == tx[r] = "committing" \/ (pc[r] = "flushed" /\ tx[r] = "open")

\* ... and its claim row is its own insert, which nobody else can make
\* durable first, or a durable row with the same body.
ClaimInv ==
  /\ \A r \in Run : Flushed(r) => wrote[r] \/ claims[job[r].content.claim] = job[r].content.body
  /\ \A r \in Run : Unresolved(r) /\ wrote[r] =>
       /\ claims[job[r].content.claim] = None
       /\ \A q \in Run : Unresolved(q) /\ wrote[q]
            /\ job[q].content.claim = job[r].content.claim => q = r
  /\ \A id \in BuildId : builds[id] # None => claims[builds[id].claim] = builds[id].body

IInv == TypeOK /\ PointerInv /\ MemoryInv /\ TxInv /\ LockInv /\ ClaimInv /\ OkIsSealed

LEMMA InitIInv == Init => IInv
  BY GraphAssumption
  DEF Init, IInv, TypeOK, PointerInv, MemoryInv, TxInv, LockInv, ClaimInv, Flushed, OkIsSealed,
      Unresolved, ClientState, TxState, VC!Sealed

-----------------------------------------------------------------------------
(* Steps that touch only one run's client side *)

\* A step that moves one run's control point and changes nothing else keeps
\* the invariant when the new point asks nothing the old one did not give.
LEMMA GotoIInv ==
  ASSUME IInv, NEW r \in Run, NEW state \in ClientState, Goto(r, state),
         UNCHANGED <<serverVars, clientVars, tx, wrote>>,
         faults' \in 0 .. MaxFaults,
         state \in {"fresh", "chained", "decided", "staged"} => tx[r] = "none",
         state \in {"decided", "staged", "writing", "flushed", "committing",
                    "reconcile", "ok", "failed"} => job[r] # None,
         state # "flushed",
         state = "ok" => builds[job[r].id] # None
  PROVE  IInv'
<1> USE DEF IInv, Goto, serverVars, clientVars
<1>1. TypeOK'
  BY DEF TypeOK
<1>2. PointerInv'
  BY DEF PointerInv
<1>3. MemoryInv'
  BY DEF MemoryInv, TypeOK, Live
<1>4. TxInv'
  BY DEF TxInv, TypeOK
<1>5. LockInv'
  BY DEF LockInv, Unresolved, LiveAccepts, GenerationFits, Live
<1>6. ClaimInv'
  BY DEF ClaimInv, Flushed, Unresolved, ClaimClash
<1>7. OkIsSealed'
  BY DEF OkIsSealed, VC!Sealed, TypeOK, MemoryInv, Job
<1> QED BY <1>1, <1>2, <1>3, <1>4, <1>5, <1>6, <1>7

\* The steps GotoIInv covers.
LEMMA ControlStepsIInv ==
  ASSUME IInv, NEW r \in Run,
         \/ KeepActive(r) \/ RejectFailed(r) \/ StageClaim(r)
         \/ RefusePublish(r) \/ ExactRetry(r) \/ TxError(r) \/ CommitAnswered(r)
         \/ LoseSession(r) \/ Reconcile(r) \/ ReconcileFails(r) \/ Crash(r)
  PROVE  IInv'
<1> DEFINE Held(state) ==
      /\ Goto(r, state)
      /\ UNCHANGED <<serverVars, clientVars, tx, wrote>>
<1>1. faults' \in 0 .. MaxFaults
  BY GraphAssumption
  DEF IInv, TypeOK, KeepActive, RejectFailed, StageClaim, RefusePublish, ExactRetry,
      TxError, CommitAnswered, LoseSession, Reconcile, ReconcileFails, Crash, Fault
<1>2. pc[r] \in ClientState /\ tx[r] \in TxState
  BY DEF IInv, TypeOK
<1>3. CASE KeepActive(r) \/ RejectFailed(r) \/ Crash(r)
  <2>1. PICK state \in {"kept", "refused", "dead"} : Held(state)
    BY <1>3 DEF KeepActive, RejectFailed, Crash
  <2> HIDE DEF Goto
  <2> QED BY <2>1, <1>1, GotoIInv DEF ClientState
<1>4. CASE StageClaim(r)
  <2>1. PICK state \in {"refused", "staged"} : Held(state)
    BY <1>4 DEF StageClaim
  <2>2. tx[r] = "none" /\ job[r] # None
    BY <1>4 DEF StageClaim, IInv, TxInv, MemoryInv
  <2> QED BY <2>1, <2>2, <1>1, GotoIInv DEF ClientState
<1>5. CASE RefusePublish(r) \/ TxError(r) \/ ReconcileFails(r) \/ LoseSession(r)
  <2>1. PICK state \in {"failed", "reconcile"} : Held(state)
    BY <1>5 DEF RefusePublish, TxError, ReconcileFails, LoseSession
  <2>2. job[r] # None
    BY <1>5 DEF RefusePublish, TxError, ReconcileFails, LoseSession, IInv, MemoryInv
  <2> QED BY <2>1, <2>2, <1>1, GotoIInv DEF ClientState
<1>6. CASE ExactRetry(r) \/ Reconcile(r)
  <2>1. job[r] # None /\ job[r] \in Job
    BY <1>6 DEF ExactRetry, Reconcile, IInv, MemoryInv, TypeOK
  <2>2. PICK state \in {"failed", "ok"} :
          Held(state) /\ (state = "ok" => Live(r) = job[r].id)
    BY <1>6 DEF ExactRetry, Reconcile
  <2>3. Home[r] \in Repo /\ job[r].id # None
    BY <2>1, GraphAssumption DEF Job
  <2>4. state = "ok" => builds[job[r].id] # None
    BY <2>2, <2>3 DEF IInv, PointerInv, Live
  <2> QED BY <2>1, <2>2, <2>4, <1>1, GotoIInv DEF ClientState
<1>7. CASE CommitAnswered(r)
  <2>1. job[r] # None
    BY <1>7 DEF CommitAnswered, IInv, MemoryInv
  <2>2. PICK state \in {"failed", "ok"} :
          Held(state) /\ (state = "ok" => tx[r] = "committed")
    BY <1>7 DEF CommitAnswered
  <2>3. state = "ok" => builds[job[r].id] # None
    BY <2>2 DEF IInv, TxInv
  <2> QED BY <2>1, <2>2, <2>3, <1>1, GotoIInv DEF ClientState
<1> QED BY <1>3, <1>4, <1>5, <1>6, <1>7

LEMMA ChainIInv ==
  ASSUME IInv, NEW r \in Run, Chain(r)
  PROVE  IInv'
<1> USE GraphAssumption DEF IInv, Chain, Goto, serverVars
<1>1. TypeOK'
  BY DEF TypeOK, ClientState, Live
<1>2. PointerInv'
  BY DEF PointerInv
<1>3. MemoryInv'
  BY ZenonT(60) DEF MemoryInv, PointerInv, TypeOK, Live
<1>4. TxInv'
  BY DEF TxInv, TypeOK
<1>5. LockInv'
  BY DEF LockInv, Unresolved, LiveAccepts, GenerationFits, Live
<1>6. ClaimInv'
  BY DEF ClaimInv, Flushed, Unresolved, ClaimClash
<1>7. OkIsSealed'
  BY DEF OkIsSealed, VC!Sealed, TypeOK
<1> QED BY <1>1, <1>2, <1>3, <1>4, <1>5, <1>6, <1>7

LEMMA DecideIInv ==
  ASSUME IInv, NEW r \in Run, NEW s \in Snapshot, NEW b \in Body, NEW c \in ClaimId,
         NEW m \in Mode, Decide(r, s, b, c, m)
  PROVE  IInv'
<1> USE GraphAssumption DEF IInv, Decide, Goto, serverVars
<1> DEFINE new == [ id |-> [repo |-> Home[r], snap |-> s, gen |-> NextGeneration(pred[r])],
                    content |-> [pred |-> pred[r], body |-> b, claim |-> c],
                    mode |-> m ]
<1>1. NextGeneration(pred[r]) \in Generation
  <2>1. CASE pred[r] = None
    BY <2>1 DEF NextGeneration, Generation
  <2>2. CASE pred[r] # None
    <3>1. pred[r].gen \in Generation /\ pred[r].gen <= MaxGeneration
      BY <2>2 DEF TypeOK, BuildId, MemoryInv
    <3> QED BY <3>1, <2>2 DEF NextGeneration, Generation
  <2> QED BY <2>1, <2>2
<1>2. new \in Job /\ new # None
  <2>1. new.id \in BuildId
    BY <1>1 DEF BuildId
  <2>2. new.content \in Content
    BY DEF Content, TypeOK
  <2> QED BY <2>1, <2>2 DEF Job
<1>3. job' = [job EXCEPT ![r] = new]
  OBVIOUS
<1>4. ~Unresolved(r) /\ tx[r] = "none"
  BY DEF TxInv, Unresolved
<1>5. TypeOK'
  BY <1>2, <1>3 DEF TypeOK, ClientState
<1>6. PointerInv'
  BY DEF PointerInv
<1>7. MemoryInv'
  <2> SUFFICES ASSUME NEW q \in Run PROVE MemoryInv!(q)'
    BY DEF MemoryInv
  <2>1. CASE q = r
    BY <2>1, <1>2, <1>3 DEF MemoryInv, TypeOK, Live, CaptureOnlyPublishable
  <2>2. CASE q # r
    BY <2>2, <1>3 DEF MemoryInv, TypeOK, Live
  <2> QED BY <2>1, <2>2
<1>8. TxInv'
  BY <1>2, <1>3, <1>4 DEF TxInv, TypeOK
<1>9. LockInv'
  BY <1>3, <1>4 DEF LockInv, Unresolved, LiveAccepts, GenerationFits, Live, TypeOK
<1>10. ClaimInv'
  BY <1>3, <1>4 DEF ClaimInv, Flushed, Unresolved, ClaimClash, TypeOK
<1>11. OkIsSealed'
  BY <1>3 DEF OkIsSealed, VC!Sealed, TypeOK
<1> QED BY <1>5, <1>6, <1>7, <1>8, <1>9, <1>10, <1>11

-----------------------------------------------------------------------------
(* Steps of the transaction *)

LEMMA OpenTransactionIInv ==
  ASSUME IInv, NEW r \in Run, OpenTransaction(r)
  PROVE  IInv'
<1> USE GraphAssumption DEF IInv, OpenTransaction, Goto, EndTx, serverVars
<1>1. job[r] # None /\ job[r] \in Job
  BY DEF TypeOK, MemoryInv
<1>2. TypeOK'
  BY <1>1 DEF TypeOK, ClientState, TxState, Job
<1>3. PointerInv'
  BY DEF PointerInv
<1>4. MemoryInv'
  BY DEF MemoryInv, TypeOK, Live
<1>5. TxInv'
  BY <1>1 DEF TxInv, TypeOK
<1>6. LockInv'
  BY DEF LockInv, LockHeld, Unresolved, Accepts, LiveAccepts, GenerationFits, Live, TypeOK
<1>7. ClaimInv'
  BY DEF ClaimInv, Flushed, Unresolved, ClaimClash, TypeOK
<1>8. OkIsSealed'
  BY DEF OkIsSealed, VC!Sealed, TypeOK
<1> QED BY <1>2, <1>3, <1>4, <1>5, <1>6, <1>7, <1>8

\* The transaction ends without effect; its client may learn of it at once.
LEMMA AbortIInv ==
  ASSUME IInv, NEW r \in Run, Unresolved(r), EndTx(r, "aborted"),
         pc' = pc \/ (Goto(r, "failed") /\ job[r] # None),
         UNCHANGED <<serverVars, clientVars, wrote>>,
         faults' \in 0 .. MaxFaults
  PROVE  IInv'
<1> USE DEF IInv, EndTx, Goto, serverVars, clientVars
<1>1. TypeOK'
  BY DEF TypeOK, ClientState, TxState
<1>2. PointerInv'
  BY DEF PointerInv
<1>3. MemoryInv'
  BY DEF MemoryInv, TypeOK, Live
<1>4. TxInv'
  BY DEF TxInv, TypeOK, Unresolved
<1>5. LockInv'
  BY DEF LockInv, Unresolved, LiveAccepts, GenerationFits, Live, TypeOK
<1>6. ClaimInv'
  BY DEF ClaimInv, Flushed, Unresolved, ClaimClash, TypeOK
<1>7. OkIsSealed'
  BY DEF OkIsSealed, VC!Sealed, TypeOK
<1> QED BY <1>1, <1>2, <1>3, <1>4, <1>5, <1>6, <1>7

LEMMA ServerEndsIInv ==
  ASSUME IInv, NEW r \in Run, ServerRollback(r) \/ ServerAbort(r)
  PROVE  IInv'
<1>1. faults' \in 0 .. MaxFaults
  BY GraphAssumption DEF IInv, TypeOK, ServerRollback, ServerAbort, Fault
<1> QED BY <1>1, AbortIInv DEF ServerRollback, ServerAbort

LEMMA WriteRowsIInv ==
  ASSUME IInv, NEW r \in Run, WriteRows(r)
  PROVE  IInv'
<1>1. CASE HeaderClash(r) \/ ClaimClash(r)
  <2>1. job[r] # None
    BY DEF WriteRows, IInv, MemoryInv
  <2> QED BY <1>1, <2>1, AbortIInv DEF WriteRows, Unresolved, IInv, TypeOK
<1>2. CASE ~(HeaderClash(r) \/ ClaimClash(r))
  <2> USE <1>2 DEF IInv, WriteRows, Goto, serverVars, clientVars
  <2>1. TypeOK'
    BY DEF TypeOK, ClientState
  <2>2. PointerInv'
    BY DEF PointerInv
  <2>3. MemoryInv'
    BY DEF MemoryInv, TypeOK, Live
  <2>4. TxInv'
    BY DEF TxInv, TypeOK
  <2>5. LockInv'
    BY DEF LockInv, Unresolved, LiveAccepts, GenerationFits, Live
  <2>6. ClaimInv'
    <3>1. /\ tx' = tx /\ job' = job /\ claims' = claims /\ builds' = builds
          /\ \A q \in Run \ {r} : pc'[q] = pc[q] /\ wrote'[q] = wrote[q]
          /\ wrote'[r] = (claims[job[r].content.claim] = None)
      BY DEF TypeOK
    <3>2. \A q \in Run : Flushed(q)' =>
            wrote'[q] \/ claims'[job'[q].content.claim] = job'[q].content.body
      BY <3>1 DEF ClaimInv, Flushed, ClaimClash
    <3>3. \A q \in Run : Unresolved(q)' /\ wrote'[q] =>
            /\ claims'[job'[q].content.claim] = None
            /\ \A p \in Run : Unresolved(p)' /\ wrote'[p]
                 /\ job'[p].content.claim = job'[q].content.claim => p = q
      <4> SUFFICES ASSUME NEW q \in Run, Unresolved(q), wrote'[q]
                   PROVE  /\ claims[job[q].content.claim] = None
                          /\ \A p \in Run : Unresolved(p) /\ wrote'[p]
                               /\ job[p].content.claim = job[q].content.claim => p = q
        BY <3>1 DEF Unresolved
      <4>1. CASE q = r
        BY <4>1, <3>1 DEF ClaimRowLocked
      <4>2. CASE q # r
        <5>1. claims[job[q].content.claim] = None
          BY <4>2, <3>1 DEF ClaimInv
        <5>2. job[r].content.claim # job[q].content.claim
          BY <4>2, <3>1 DEF ClaimRowLocked
        <5> QED BY <4>2, <5>1, <5>2, <3>1 DEF ClaimInv
      <4> QED BY <4>1, <4>2
    <3> QED BY <3>1, <3>2, <3>3 DEF ClaimInv
  <2>7. OkIsSealed'
    BY DEF OkIsSealed, VC!Sealed, TypeOK
  <2> QED BY <2>1, <2>2, <2>3, <2>4, <2>5, <2>6, <2>7
<1> QED BY <1>1, <1>2

LEMMA SendCommitIInv ==
  ASSUME IInv, NEW r \in Run, SendCommit(r)
  PROVE  IInv'
<1> USE DEF IInv, SendCommit, Goto, EndTx, serverVars, clientVars
<1>1. TypeOK'
  BY DEF TypeOK, ClientState, TxState
<1>2. PointerInv'
  BY DEF PointerInv
<1>3. MemoryInv'
  BY DEF MemoryInv, TypeOK, Live
<1>4. TxInv'
  BY DEF TxInv, TypeOK
<1>5. LockInv'
  BY DEF LockInv, Unresolved, LiveAccepts, GenerationFits, Live, TypeOK
<1>6. ClaimInv'
  BY DEF ClaimInv, Flushed, Unresolved, ClaimClash, TypeOK
<1>7. OkIsSealed'
  BY DEF OkIsSealed, VC!Sealed, TypeOK
<1> QED BY <1>1, <1>2, <1>3, <1>4, <1>5, <1>6, <1>7

\* What the invariant says of a transaction about to take effect: its
\* identity is new, and the guards of VersionChain's Publish hold.
LEMMA CommitGuards ==
  ASSUME IInv, NEW r \in Run, tx[r] = "committing"
  PROVE  /\ job[r] \in Job /\ job[r] # None
         /\ job[r].id \in BuildId /\ job[r].content \in Content
         /\ job[r].content.claim \in ClaimId /\ job[r].content.body \in Body
         /\ job[r].id.repo = Home[r]
         /\ job[r].id.gen <= MaxGeneration
         /\ builds[job[r].id] = None
         /\ pointer[Home[r]] = job[r].content.pred
         /\ pointer[Home[r]] # None => job[r].id.gen > pointer[Home[r]].gen
         /\ ~ClaimClash(r)
<1> USE GraphAssumption DEF IInv
<1>1. job[r] \in Job /\ job[r] # None
  BY DEF TypeOK, TxInv
<1>2. /\ job[r].id \in BuildId /\ job[r].content \in Content
      /\ job[r].id.gen \in Nat
  BY <1>1 DEF Job, BuildId, Generation
<1>3. job[r].content.claim \in ClaimId /\ job[r].content.body \in Body
  BY <1>2 DEF Content
<1>4. job[r].id.repo = Home[r]
  BY <1>1 DEF MemoryInv
<1>5. LiveAccepts(r) /\ GenerationFits(r)
  BY DEF LockInv, Unresolved
<1>6. builds[job[r].id] = None
  <2>1. Home[r] \in Repo
    OBVIOUS
  <2>2. pointer[Home[r]] # None => pointer[Home[r]] \in BuildId /\ pointer[Home[r]].gen \in Nat
    BY <2>1 DEF TypeOK, BuildId, Generation
  <2> QED BY <1>2, <1>4, <1>5, <2>1, <2>2 DEF PointerInv, LiveAccepts, Live
<1>7. ~ClaimClash(r)
  BY DEF ClaimInv, Flushed, Unresolved, ClaimClash
<1> QED BY <1>1, <1>2, <1>3, <1>4, <1>5, <1>6, <1>7 DEF LiveAccepts, Live, GenerationFits

LEMMA ServerCommitIInv ==
  ASSUME IInv, NEW r \in Run, ServerCommit(r)
  PROVE  IInv'
<1> DEFINE id == job[r].id
           content == job[r].content
<1>1. /\ job[r] \in Job /\ job[r] # None
      /\ id \in BuildId /\ content \in Content
      /\ content.claim \in ClaimId /\ content.body \in Body
      /\ id.repo = Home[r] /\ id.gen <= MaxGeneration
      /\ builds[id] = None
      /\ pointer[Home[r]] = content.pred
      /\ pointer[Home[r]] # None => id.gen > pointer[Home[r]].gen
      /\ ~ClaimClash(r)
  BY CommitGuards DEF ServerCommit
<1>2. /\ tx[r] = "committing" /\ tx' = [tx EXCEPT ![r] = "committed"]
      /\ builds' = [builds EXCEPT ![id] = content]
      /\ claims' = [claims EXCEPT ![content.claim] = content.body]
      /\ pointer' = [pointer EXCEPT ![Home[r]] = id]
      /\ UNCHANGED <<pred, job, staged, wrote, pc, faults>>
  BY DEF ServerCommit, EndTx, clientVars
<1>3. Home \in [Run -> Repo] /\ None \notin BuildId /\ None \notin Content
        /\ None \notin Body /\ MaxGeneration \in Nat
  BY GraphAssumption
<1>4. IInv
  OBVIOUS
<1> HIDE DEF id, content
<1>5. \A i \in BuildId : builds[i] # None => builds'[i] = builds[i] /\ i # id
  BY <1>1, <1>2, <1>4 DEF IInv, TypeOK
<1>6. id # None /\ content # None /\ Home[r] \in Repo
  BY <1>1, <1>3
<1>7. TypeOK'
  BY <1>1, <1>2, <1>4, <1>6 DEF IInv, TypeOK, TxState
<1>8. PointerInv'
  <2>1. ASSUME NEW repo \in Repo, pointer'[repo] # None
        PROVE  /\ pointer'[repo].repo = repo
               /\ pointer'[repo].gen <= MaxGeneration
               /\ builds'[pointer'[repo]] # None
    <3>1. CASE repo = Home[r]
      BY <3>1, <1>1, <1>2, <1>4, <1>6 DEF IInv, TypeOK
    <3>2. CASE repo # Home[r]
      <4>1. pointer'[repo] = pointer[repo] /\ pointer[repo] \in BuildId
        BY <3>2, <2>1, <1>2, <1>4 DEF IInv, TypeOK
      <4> QED BY <4>1, <2>1, <1>4, <1>5 DEF IInv, PointerInv
    <3> QED BY <3>1, <3>2
  <2>2. ASSUME NEW i \in BuildId, builds'[i] # None
        PROVE  pointer'[i.repo] # None /\ i.gen <= pointer'[i.repo].gen
    <3>1. i.repo \in Repo /\ i.gen \in Nat /\ id.gen \in Nat
      BY <1>1 DEF BuildId, Generation
    <3>2. CASE i = id
      BY <3>1, <3>2, <1>1, <1>2, <1>4, <1>6 DEF IInv, TypeOK
    <3>3. CASE i # id
      <4>1. builds[i] # None
        BY <3>3, <2>2, <1>1, <1>2, <1>4 DEF IInv, TypeOK
      <4>2. pointer[i.repo] # None /\ i.gen <= pointer[i.repo].gen
        BY <4>1, <1>4 DEF IInv, PointerInv
      <4>3. pointer[i.repo].gen \in Nat
        BY <4>2, <3>1, <1>4 DEF IInv, TypeOK, BuildId, Generation
      <4>4. CASE i.repo = Home[r]
        <5>1. pointer'[i.repo] = id
          BY <4>4, <1>2, <1>4, <1>6 DEF IInv, TypeOK
        <5>2. id.gen > pointer[i.repo].gen
          BY <4>2, <4>4, <1>1
        <5> QED BY <5>1, <5>2, <4>2, <4>3, <3>1, <1>6
      <4>5. CASE i.repo # Home[r]
        BY <4>5, <4>2, <3>1, <1>2, <1>4 DEF IInv, TypeOK
      <4> QED BY <4>4, <4>5
    <3> QED BY <3>2, <3>3
  <2> QED BY <2>1, <2>2 DEF PointerInv
<1>9. MemoryInv'
  <2> SUFFICES ASSUME NEW q \in Run
               PROVE  MemoryInv!(q)'
    BY DEF MemoryInv
  <2>1. pred[q] # None => pred[q] \in BuildId
    BY <1>4 DEF IInv, TypeOK
  <2>2. job[q] # None => job[q] \in Job /\ job[q].content \in Content
    BY <1>4 DEF IInv, TypeOK, Job
  <2>3. job[q] # None /\ job[q].content.pred # None => job[q].content.pred \in BuildId
    BY <2>2 DEF Content
  <2>4. pred[q] # None =>
          pred[q].repo = Home[q] /\ pred[q].gen <= MaxGeneration /\ builds'[pred[q]] # None
    BY <2>1, <1>4, <1>5 DEF IInv, MemoryInv
  <2>5. job[q] # None /\ job[q].content.pred # None => builds'[job[q].content.pred] # None
    BY <2>3, <1>4, <1>5 DEF IInv, MemoryInv
  <2>6. ASSUME job[q] # None, job[q].mode = "partial", job[q].content.pred # None,
               pointer'[Home[q]] = job[q].content.pred
        PROVE  builds'[pointer'[Home[q]]].body \notin DecisionBearing
    <3>1. builds[job[q].content.pred] # None
      BY <2>6, <1>4 DEF IInv, MemoryInv
    <3>2. job[q].content.pred # id
      BY <3>1, <1>1
    <3>3. Home[q] # Home[r]
      BY <3>2, <2>6, <1>2, <1>4, <1>6 DEF IInv, TypeOK
    <3>4. pointer'[Home[q]] = pointer[Home[q]]
      BY <3>3, <1>2, <1>4, <1>3 DEF IInv, TypeOK
    <3>5. builds[Live(q)].body \notin DecisionBearing
      BY <3>4, <2>6, <1>4 DEF IInv, MemoryInv, Live
    <3> QED BY <3>1, <3>4, <3>5, <2>3, <2>6, <1>5 DEF Live
  <2> QED BY <2>4, <2>5, <2>6, <1>2, <1>4 DEF IInv, MemoryInv, Live
<1>10. TxInv'
  <2> SUFFICES ASSUME NEW q \in Run
               PROVE  TxInv!(q)'
    BY DEF TxInv
  <2>1. job[q] # None => job[q].id \in BuildId
    BY <1>4 DEF IInv, TypeOK, Job
  <2>2. CASE q = r
    BY <2>2, <1>1, <1>2, <1>4, <1>6 DEF IInv, TypeOK, TxInv, id
  <2>3. CASE q # r
    <3>1. tx'[q] = tx[q]
      BY <2>3, <1>2, <1>4 DEF IInv, TypeOK
    <3>2. tx[q] = "committed" => job[q] # None /\ builds[job[q].id] # None
      BY <1>4 DEF IInv, TxInv
    <3> QED BY <3>1, <3>2, <2>1, <1>2, <1>4, <1>5 DEF IInv, TxInv
  <2> QED BY <2>2, <2>3
<1>11. ASSUME NEW q \in Run, Unresolved(q)'
       PROVE  Unresolved(q) /\ q # r /\ Home[q] # Home[r] /\ Live(q)' = Live(q)
  <2>1. q # r
    BY <1>11, <1>2, <1>4 DEF IInv, TypeOK, Unresolved
  <2>2. Unresolved(q) /\ Unresolved(r)
    BY <2>1, <1>11, <1>2, <1>4 DEF IInv, TypeOK, Unresolved
  <2>3. Home[q] # Home[r]
    BY <2>1, <2>2, <1>4 DEF IInv, LockInv
  <2> QED BY <2>1, <2>2, <2>3, <1>2, <1>3, <1>4 DEF IInv, TypeOK, Live
<1>12. LockInv'
  <2> SUFFICES ASSUME NEW q \in Run, Unresolved(q)'
               PROVE  /\ \A p \in Run : Unresolved(p)' /\ Home[p] = Home[q] => p = q
                      /\ LiveAccepts(q)'
                      /\ GenerationFits(q)'
    BY DEF LockInv
  <2>1. \A p \in Run : Unresolved(p)' => Unresolved(p)
    BY <1>11
  <2>2. LiveAccepts(q) /\ GenerationFits(q)
    BY <1>11, <1>4 DEF IInv, LockInv
  <2>3. \A p \in Run : Unresolved(p)' /\ Home[p] = Home[q] => p = q
    BY <2>1, <1>11, <1>4 DEF IInv, LockInv
  <2>4. LiveAccepts(q)' /\ GenerationFits(q)'
    BY <2>2, <1>11, <1>2 DEF LiveAccepts, GenerationFits
  <2> QED BY <2>3, <2>4
<1>13. ClaimInv'
  <2>1. ASSUME NEW q \in Run, Unresolved(q)
        PROVE  job[q].content.claim \in ClaimId /\ job[q].content.body \in Body
    <3>1. job[q] \in Job
      BY <2>1, <1>4 DEF IInv, TypeOK, TxInv, Unresolved
    <3> QED BY <3>1 DEF Job, Content
  <2>2. wrote[r] \/ claims[content.claim] = content.body
    BY <1>2, <1>4 DEF IInv, ClaimInv, Flushed, content
  \* A row another transaction needs is not the one that becomes durable ...
  <2>3. ASSUME NEW q \in Run, Unresolved(q), q # r, wrote[q]
        PROVE  claims'[job[q].content.claim] = None
    <3>1. claims[job[q].content.claim] = None
      BY <2>3, <1>4 DEF IInv, ClaimInv
    <3>2. job[q].content.claim # content.claim
      BY <3>1, <2>2, <2>3, <1>1, <1>2, <1>3, <1>4 DEF IInv, ClaimInv, Unresolved, content
    <3> QED BY <3>1, <3>2, <2>1, <2>3, <1>2, <1>4 DEF IInv, TypeOK
  \* ... or is durable with the same body.
  <2>4. ASSUME NEW c \in ClaimId, claims[c] # None
        PROVE  claims'[c] = claims[c]
    <3>1. CASE c = content.claim
      BY <3>1, <2>4, <1>1, <1>2, <1>4 DEF IInv, TypeOK, ClaimClash, content
    <3>2. CASE c # content.claim
      BY <3>2, <1>2, <1>4 DEF IInv, TypeOK
    <3> QED BY <3>1, <3>2
  <2>5. ASSUME NEW q \in Run, Flushed(q)'
        PROVE  wrote'[q] \/ claims'[job'[q].content.claim] = job'[q].content.body
    <3>1. Unresolved(q)'
      BY <2>5 DEF Flushed, Unresolved
    <3>2. Unresolved(q) /\ q # r
      BY <3>1, <1>11
    <3>3. Flushed(q)
      BY <2>5, <3>2, <1>2, <1>4 DEF Flushed, IInv, TypeOK
    <3>4. wrote[q] \/ claims[job[q].content.claim] = job[q].content.body
      BY <3>3, <1>4 DEF IInv, ClaimInv
    <3> QED BY <3>2, <3>4, <2>1, <2>4, <1>2, <1>3
  <2>6. ASSUME NEW q \in Run, Unresolved(q)', wrote'[q]
        PROVE  /\ claims'[job'[q].content.claim] = None
               /\ \A p \in Run : Unresolved(p)' /\ wrote'[p]
                    /\ job'[p].content.claim = job'[q].content.claim => p = q
    <3>1. Unresolved(q) /\ q # r /\ wrote[q]
      BY <2>6, <1>2, <1>11
    <3>2. \A p \in Run : Unresolved(p)' => Unresolved(p)
      BY <1>11
    <3> QED BY <3>1, <3>2, <2>3, <1>2, <1>4 DEF IInv, ClaimInv
  <2>7. ASSUME NEW i \in BuildId, builds'[i] # None
        PROVE  claims'[builds'[i].claim] = builds'[i].body
    <3>1. CASE i = id
      BY <3>1, <1>1, <1>2, <1>4 DEF IInv, TypeOK
    <3>2. CASE i # id
      <4>1. builds'[i] = builds[i] /\ builds[i] # None
        BY <3>2, <2>7, <1>1, <1>2, <1>4 DEF IInv, TypeOK
      <4>2. builds[i].claim \in ClaimId /\ builds[i].body \in Body
        BY <4>1, <1>4 DEF IInv, TypeOK, Content
      <4>3. claims[builds[i].claim] = builds[i].body
        BY <4>1, <1>4 DEF IInv, ClaimInv
      <4> QED BY <4>1, <4>2, <4>3, <2>4, <1>3
    <3> QED BY <3>1, <3>2
  <2> QED BY <2>5, <2>6, <2>7 DEF ClaimInv
<1>14. OkIsSealed'
  <2> SUFFICES ASSUME NEW q \in Run, pc[q] = "ok"
               PROVE  job[q].id \in BuildId /\ builds'[job[q].id] # None
    BY <1>2 DEF OkIsSealed, VC!Sealed
  <2>1. job[q].id \in BuildId /\ builds[job[q].id] # None
    BY <1>4 DEF IInv, OkIsSealed, VC!Sealed
  <2> QED BY <2>1, <1>5
<1> QED BY <1>7, <1>8, <1>9, <1>10, <1>12, <1>13, <1>14 DEF IInv

-----------------------------------------------------------------------------
(* A run is tried again *)

LEMMA AgainIInv ==
  ASSUME IInv, NEW r \in Run, RetrySameStore(r) \/ Restart(r)
  PROVE  IInv'
<1> USE DEF IInv, Goto, EndTx, serverVars, clientVars
<1>1. /\ ~Unresolved(r) /\ tx' = [tx EXCEPT ![r] = "none"]
      /\ wrote' = [wrote EXCEPT ![r] = FALSE]
      /\ pointer' = pointer /\ builds' = builds /\ claims' = claims /\ faults' = faults
  BY DEF RetrySameStore, Restart
<1>2. TypeOK'
  BY DEF RetrySameStore, Restart, TypeOK, ClientState, TxState
<1>3. PointerInv'
  BY <1>1 DEF PointerInv
<1>4. MemoryInv'
  <2>1. CASE RetrySameStore(r)
    BY <2>1 DEF RetrySameStore, MemoryInv, TypeOK, Live
  <2>2. CASE Restart(r)
    BY <2>2 DEF Restart, MemoryInv, TypeOK, Live
  <2> QED BY <2>1, <2>2
<1>5. TxInv'
  <2>1. CASE RetrySameStore(r)
    BY <2>1 DEF RetrySameStore, TxInv, TypeOK
  <2>2. CASE Restart(r)
    BY <2>2 DEF Restart, TxInv, TypeOK
  <2> QED BY <2>1, <2>2
<1>6. \A q \in Run : Unresolved(q)' => Unresolved(q) /\ job'[q] = job[q] /\ wrote'[q] = wrote[q]
  BY <1>1 DEF RetrySameStore, Restart, Unresolved, TypeOK
<1>7. LockInv'
  <2> SUFFICES ASSUME NEW q \in Run, Unresolved(q)'
               PROVE  /\ \A p \in Run : Unresolved(p)' /\ Home[p] = Home[q] => p = q
                      /\ LiveAccepts(q)'
                      /\ GenerationFits(q)'
    BY DEF LockInv
  <2>1. LiveAccepts(q) /\ GenerationFits(q) /\ job'[q] = job[q]
    BY <1>6 DEF LockInv
  <2>2. LiveAccepts(q)' /\ GenerationFits(q)'
    BY <2>1, <1>1 DEF LiveAccepts, GenerationFits, Live
  <2> QED BY <2>2, <1>6 DEF LockInv
<1>8. ClaimInv'
  <2>1. \A q \in Run : Flushed(q)' => Flushed(q) /\ job'[q] = job[q] /\ wrote'[q] = wrote[q]
    BY <1>1, <1>6 DEF RetrySameStore, Restart, Flushed, Unresolved, TypeOK
  <2>2. \A q \in Run : Flushed(q)' =>
          wrote'[q] \/ claims'[job'[q].content.claim] = job'[q].content.body
    BY <2>1, <1>1 DEF ClaimInv
  <2>3. \A q \in Run : Unresolved(q)' /\ wrote'[q] =>
          /\ claims'[job'[q].content.claim] = None
          /\ \A p \in Run : Unresolved(p)' /\ wrote'[p]
               /\ job'[p].content.claim = job'[q].content.claim => p = q
    <3> SUFFICES ASSUME NEW q \in Run, Unresolved(q)', wrote'[q]
                 PROVE  /\ claims'[job'[q].content.claim] = None
                        /\ \A p \in Run : Unresolved(p)' /\ wrote'[p]
                             /\ job'[p].content.claim = job'[q].content.claim => p = q
      OBVIOUS
    <3>1. Unresolved(q) /\ job'[q] = job[q] /\ wrote[q]
      BY <1>6
    <3>2. \A p \in Run : Unresolved(p)' /\ wrote'[p] =>
            Unresolved(p) /\ job'[p] = job[p] /\ wrote[p]
      BY <1>6
    <3> QED BY <3>1, <3>2, <1>1 DEF ClaimInv
  <2> QED BY <2>2, <2>3, <1>1 DEF ClaimInv
<1>9. OkIsSealed'
  BY <1>1 DEF RetrySameStore, Restart, OkIsSealed, VC!Sealed, TypeOK
<1> QED BY <1>2, <1>3, <1>4, <1>5, <1>7, <1>8, <1>9

LEMMA NextIInv == IInv /\ [Next]_vars => IInv'
<1> SUFFICES ASSUME IInv, [Next]_vars PROVE IInv'
  OBVIOUS
<1>1. CASE UNCHANGED vars
  BY <1>1 DEF vars, IInv, TypeOK, PointerInv, MemoryInv, TxInv, LockInv, ClaimInv, Flushed, OkIsSealed,
     VC!Sealed, Unresolved, LiveAccepts, GenerationFits, ClaimClash, Live
<1>2. CASE Next
  <2> PICK r \in Run :
        \/ Chain(r)
        \/ \E s \in Snapshot, b \in Body, c \in ClaimId, m \in Mode : Decide(r, s, b, c, m)
        \/ KeepActive(r) \/ RejectFailed(r) \/ StageClaim(r)
        \/ RefusePublish(r) \/ ExactRetry(r) \/ OpenTransaction(r)
        \/ WriteRows(r) \/ SendCommit(r) \/ TxError(r) \/ CommitAnswered(r)
        \/ LoseSession(r) \/ Reconcile(r) \/ ReconcileFails(r)
        \/ ServerCommit(r) \/ ServerRollback(r) \/ ServerAbort(r)
        \/ Crash(r) \/ RetrySameStore(r) \/ Restart(r)
    BY <1>2 DEF Next
  <2>1. CASE Chain(r)
    BY <2>1, ChainIInv
  <2>2. CASE \E s \in Snapshot, b \in Body, c \in ClaimId, m \in Mode : Decide(r, s, b, c, m)
    BY <2>2, DecideIInv
  <2>3. CASE \/ KeepActive(r) \/ RejectFailed(r) \/ StageClaim(r)
             \/ RefusePublish(r) \/ ExactRetry(r) \/ TxError(r) \/ CommitAnswered(r)
             \/ LoseSession(r) \/ Reconcile(r) \/ ReconcileFails(r) \/ Crash(r)
    BY <2>3, ControlStepsIInv
  <2>4. CASE OpenTransaction(r)
    BY <2>4, OpenTransactionIInv
  <2>5. CASE WriteRows(r)
    BY <2>5, WriteRowsIInv
  <2>6. CASE SendCommit(r)
    BY <2>6, SendCommitIInv
  <2>7. CASE ServerCommit(r)
    BY <2>7, ServerCommitIInv
  <2>8. CASE ServerRollback(r) \/ ServerAbort(r)
    BY <2>8, ServerEndsIInv
  <2>9. CASE RetrySameStore(r) \/ Restart(r)
    BY <2>9, AgainIInv
  <2> QED BY <2>1, <2>2, <2>3, <2>4, <2>5, <2>6, <2>7, <2>8, <2>9
<1> QED BY <1>1, <1>2

\* The inductive invariant holds in every reachable state.
THEOREM Invariance == Spec => []IInv
BY InitIInv, NextIInv, PTL DEF Spec

-----------------------------------------------------------------------------
(* What follows from it *)

\* Every reachable state has the types its tables and columns declare; in
\* particular a published generation fits the i64 column.
THEOREM TypeCorrect == Spec => []TypeOK
<1>1. IInv => TypeOK
  BY DEF IInv
<1> QED BY <1>1, Invariance, PTL

\* The active build is the newest sealed one of its repository, for any
\* number of rival runs, crashes and lost sessions.
THEOREM ActiveStaysNewest == Spec => []ActiveIsNewest
<1>1. IInv => ActiveIsNewest
  BY GraphAssumption DEF IInv, TypeOK, PointerInv, ActiveIsNewest, VC!ActiveIsNewest, VC!Sealed, BuildId
<1> QED BY <1>1, Invariance, PTL

\* A sealed build's claim rows are never replaced or lost, also when runs of
\* different repositories, which share no lock, commit the same claim id.
THEOREM ClaimsAreDurable == Spec => []SealedClaimsAreDurable
<1>1. IInv => SealedClaimsAreDurable
  BY DEF IInv, ClaimInv, SealedClaimsAreDurable, VC!Sealed
<1> QED BY <1>1, Invariance, PTL

\* publish returns Ok only for an identity that is sealed.
THEOREM OkMeansSealed == Spec => []OkIsSealed
<1>1. IInv => OkIsSealed
  BY DEF IInv
<1> QED BY <1>1, Invariance, PTL

\* A capture-only build with uncovered candidates never becomes active over
\* decision-backed relations.  Its gate read the active build long before; it
\* still holds because the build's predecessor was read before the gate and
\* the pointer, whose generation only grows, never returns to an old build.
THEOREM PartialIsGated == Spec => PartialNeverReplacesDecisions
<1>1. ASSUME IInv, NEW r \in Run, tx[r] = "committing", job[r].mode = "partial", Live(r) # None
      PROVE  builds[Live(r)].body \notin DecisionBearing
  <2>1. Live(r) = job[r].content.pred /\ job[r] # None
    BY <1>1, CommitGuards DEF Live
  <2> QED BY <2>1, <1>1 DEF IInv, MemoryInv
<1>2. IInv =>
        [ \A r \in Run :
            tx[r] = "committing" /\ tx'[r] = "committed" /\ job[r].mode = "partial"
              /\ Live(r) # None
            => builds[Live(r)].body \notin DecisionBearing ]_vars
  BY <1>1
<1> QED BY <1>2, Invariance, PTL DEF PartialNeverReplacesDecisions

-----------------------------------------------------------------------------
(* The refinement *)

\* COMMIT is the abstract Publish; every other step is invisible.
LEMMA StepImplements == IInv /\ [Next]_vars => [VC!Next]_(VC!vars)
<1> SUFFICES ASSUME IInv, [Next]_vars PROVE [VC!Next]_(VC!vars)
  OBVIOUS
<1>1. CASE UNCHANGED <<pointer, builds>>
  BY <1>1 DEF VC!vars
<1>2. CASE \E r \in Run : ServerCommit(r)
  <2> PICK r \in Run : ServerCommit(r)
    BY <1>2
  <2>1. tx[r] = "committing"
    BY DEF ServerCommit
  <2>2. /\ builds' = [builds EXCEPT ![job[r].id] = job[r].content]
        /\ pointer' = [pointer EXCEPT ![job[r].id.repo] = job[r].id]
    BY <2>1, CommitGuards DEF ServerCommit
  <2>3. VC!Publish(job[r].id, job[r].content)
    BY <2>1, <2>2, CommitGuards DEF VC!Publish
  <2> QED BY <2>1, <2>3, CommitGuards DEF VC!Next
<1>3. CASE ~(\E r \in Run : ServerCommit(r))
  BY <1>1, <1>3
  DEF Next, vars, serverVars, Chain, Decide, KeepActive, RejectFailed, StageClaim,
      RefusePublish, ExactRetry, OpenTransaction, WriteRows, SendCommit, TxError,
      CommitAnswered, LoseSession, Reconcile, ReconcileFails, ServerRollback, ServerAbort,
      Crash, RetrySameStore, Restart
<1> QED BY <1>2, <1>3

\* Whatever the interleaving of runs, crashes, lost sessions and late commits,
\* publication implements the abstract chain of versions.
THEOREM Refinement == Spec => ImplementsVersionChain
<1>1. Init => VC!Init
  BY DEF Init, VC!Init
<1> QED BY <1>1, StepImplements, Invariance, PTL DEF Spec, ImplementsVersionChain, VC!Spec

VCP == INSTANCE VersionChainProofs WITH active <- pointer, versions <- builds

\* The history of a repository is a line: what VersionChain promises, carried
\* over by the refinement.
THEOREM HistoryNeverForks == Spec => []NoFork
<1>1. VCP!IdentityAssumption
  BY GraphAssumption DEF VCP!IdentityAssumption, BuildId, Generation
<1>2. VCP!Spec => [](VCP!ActiveIsNewest /\ VCP!PredecessorsSealed
                      /\ VCP!EverySupersededHasSuccessor /\ VCP!NoFork)
  BY <1>1, VCP!ChainIsLinear
<1>3. VC!Init => VCP!Init
  BY DEF VC!Init, VCP!Init
<1>4. [VC!Next]_(VC!vars) => [VCP!Next]_(VCP!vars)
  BY DEF VC!Next, VCP!Next, VC!vars, VCP!vars, VC!Publish, VCP!Publish
<1>5. VCP!NoFork => NoFork
  BY DEF NoFork, VC!NoFork, VCP!NoFork, VC!Sealed, VCP!Sealed
<1> QED
  BY <1>2, <1>3, <1>4, <1>5, Refinement, PTL DEF ImplementsVersionChain, VC!Spec, VCP!Spec
=============================================================================
