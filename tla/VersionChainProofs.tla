------------------------- MODULE VersionChainProofs -------------------------
(***************************************************************************)
(* What every implementation of VersionChain inherits: the sealed versions *)
(* of a repository form one line that ends in the active version.          *)
(***************************************************************************)
EXTENDS VersionChain, TLAPS

\* What the proofs ask of the constants: identities carry a repository and a
\* natural generation, and None is neither an identity nor a content.
IdentityAssumption ==
  /\ \A id \in BuildId : id.repo \in Repo /\ id.gen \in Nat
  /\ None \notin BuildId
  /\ None \notin Content

\* Every sealed version but the active one is the predecessor of a sealed one.
Inv ==
  /\ TypeOK
  /\ ActiveIsNewest
  /\ PredecessorsSealed
  /\ EverySupersededHasSuccessor
  /\ NoFork

LEMMA InitInv == Init => Inv
  BY DEF Init, Inv, TypeOK, ActiveIsNewest, PredecessorsSealed,
         EverySupersededHasSuccessor, NoFork, Sealed

LEMMA PublishInv ==
  ASSUME IdentityAssumption, Inv, NEW id \in BuildId, NEW v \in Content, Publish(id, v)
  PROVE  Inv'
<1> USE DEF IdentityAssumption
<1>1. TypeOK'
  BY DEF Inv, TypeOK, Publish
<1>2. versions' = [versions EXCEPT ![id] = v] /\ active' = [active EXCEPT ![id.repo] = id]
  BY DEF Publish
<1>3. Sealed' = Sealed \cup {id} /\ id \notin Sealed
  BY <1>2 DEF Publish, Sealed, Inv, TypeOK
<1>4. versions'[id] = v /\ \A a \in Sealed : versions'[a] = versions[a]
  BY <1>2, <1>3 DEF Sealed, Inv, TypeOK
<1>5. /\ active'[id.repo] = id
      /\ \A repo \in Repo \ {id.repo} : active'[repo] = active[repo]
  BY <1>2 DEF Inv, TypeOK
<1>6. \A a \in Sealed : a.repo = id.repo => a.gen < id.gen
  <2> SUFFICES ASSUME NEW a \in Sealed, a.repo = id.repo
               PROVE  a.gen < id.gen
    OBVIOUS
  <2>1. active[id.repo] # None /\ a.gen <= active[id.repo].gen
    BY DEF Inv, ActiveIsNewest
  <2>2. active[id.repo] \in BuildId
    BY <2>1 DEF Inv, TypeOK
  <2>3. QED
    BY <2>1, <2>2 DEF Publish, Sealed
<1>7. ActiveIsNewest'
  <2>1. ASSUME NEW repo \in Repo, active'[repo] # None
        PROVE  active'[repo] \in Sealed' /\ active'[repo].repo = repo
    BY <2>1, <1>3, <1>5 DEF Inv, ActiveIsNewest
  <2>2. ASSUME NEW a \in Sealed'
        PROVE  active'[a.repo] # None /\ a.gen <= active'[a.repo].gen
    <3>1. CASE a.repo = id.repo
      BY <3>1, <2>2, <1>3, <1>5, <1>6 DEF Sealed
    <3>2. CASE a.repo # id.repo
      <4>1. a \in Sealed /\ a.repo \in Repo \ {id.repo}
        BY <3>2, <2>2, <1>3 DEF Sealed
      <4> QED
        BY <4>1, <1>5 DEF Inv, ActiveIsNewest
    <3> QED BY <3>1, <3>2
  <2> QED BY <2>1, <2>2 DEF ActiveIsNewest
<1>8. v.pred # None => v.pred \in Sealed /\ v.pred.repo = id.repo /\ v.pred.gen < id.gen
  <2>1. v.pred = active[id.repo] /\ id.repo \in Repo
    BY DEF Publish
  <2> QED BY <2>1, <1>6 DEF Inv, ActiveIsNewest
<1>9. PredecessorsSealed'
  BY <1>3, <1>4, <1>8 DEF Inv, PredecessorsSealed
<1>10. EverySupersededHasSuccessor'
  <2> SUFFICES ASSUME NEW a \in Sealed', a # active'[a.repo]
               PROVE  \E next \in Sealed' : versions'[next].pred = a
    BY DEF EverySupersededHasSuccessor
  <2>1. a \in Sealed /\ a.repo \in Repo
    BY <1>3, <1>5 DEF Sealed
  <2>2. CASE a = active[a.repo]
    <3>1. a.repo = id.repo
      BY <2>1, <2>2, <1>5
    <3> QED
      BY <3>1, <2>2, <1>3, <1>4 DEF Publish
  <2>3. CASE a # active[a.repo]
    <3>1. PICK next \in Sealed : versions[next].pred = a
      BY <2>1, <2>3 DEF Inv, EverySupersededHasSuccessor
    <3> QED BY <3>1, <1>3, <1>4
  <2> QED BY <2>2, <2>3
<1>11. \A a \in Sealed : a.repo = id.repo => versions[a].pred # v.pred
  <2> SUFFICES ASSUME NEW a \in Sealed, a.repo = id.repo, versions[a].pred = v.pred
               PROVE  FALSE
    OBVIOUS
  <2> DEFINE tip == active[id.repo]
  <2>1. tip # None /\ v.pred = tip /\ tip \in Sealed /\ a.gen <= tip.gen
    BY DEF Inv, ActiveIsNewest, Publish
  <2>2. tip.gen < a.gen
    BY <2>1 DEF Inv, PredecessorsSealed
  <2> QED BY <2>1, <2>2 DEF Sealed
<1>12. NoFork'
  <2> SUFFICES ASSUME NEW a \in Sealed', NEW b \in Sealed', a.repo = b.repo,
                      versions'[a].pred = versions'[b].pred
               PROVE  a = b
    BY DEF NoFork
  <2>1. CASE a = id \/ b = id
    BY <2>1, <1>3, <1>4, <1>11
  <2>2. CASE a \in Sealed /\ b \in Sealed
    BY <2>2, <1>4 DEF Inv, NoFork
  <2> QED BY <2>1, <2>2, <1>3
<1> QED BY <1>1, <1>7, <1>9, <1>10, <1>12 DEF Inv

\* The history of every repository is one line ending in its active version,
\* whatever the repositories, identities and contents are.
THEOREM ChainIsLinear ==
  ASSUME IdentityAssumption
  PROVE  Spec => [](ActiveIsNewest /\ PredecessorsSealed /\ EverySupersededHasSuccessor /\ NoFork)
<1>1. Init => Inv
  BY InitInv
<1>2. Inv /\ [Next]_vars => Inv'
  <2> SUFFICES ASSUME Inv, [Next]_vars PROVE Inv'
    OBVIOUS
  <2>1. CASE Next
    BY <2>1, PublishInv DEF Next
  <2>2. CASE UNCHANGED vars
    BY <2>2 DEF vars, Inv, TypeOK, ActiveIsNewest, PredecessorsSealed,
                EverySupersededHasSuccessor, NoFork, Sealed
  <2> QED BY <2>1, <2>2
<1>3. Inv => ActiveIsNewest /\ PredecessorsSealed /\ EverySupersededHasSuccessor /\ NoFork
  BY DEF Inv
<1> QED BY <1>1, <1>2, <1>3, PTL DEF Spec

\* A sealed version is never rewritten, and the active version of a repository
\* changes only to a newer one.
THEOREM SealedVersionsAreImmutable ==
  ASSUME IdentityAssumption
  PROVE  Spec => [][ \A id \in Sealed : versions'[id] = versions[id] ]_vars
<1>1. Init => TypeOK
  BY DEF Init, TypeOK
<1>2. TypeOK /\ [Next]_vars => TypeOK'
  BY DEF TypeOK, Next, Publish, vars, IdentityAssumption
<1>3. TypeOK /\ [Next]_vars => [ \A id \in Sealed : versions'[id] = versions[id] ]_vars
  BY DEF TypeOK, Next, Publish, vars, Sealed
<1> QED BY <1>1, <1>2, <1>3, PTL DEF Spec
=============================================================================
