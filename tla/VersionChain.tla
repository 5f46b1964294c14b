---------------------------- MODULE VersionChain ----------------------------
(***************************************************************************)
(* What graph publication promises to its readers, with the staging area,  *)
(* the lock, the transaction and every failure left out: each repository   *)
(* has one active version, and one atomic step seals a new immutable       *)
(* version whose predecessor is the version it replaces and whose          *)
(* generation is higher.  GraphPublication is shown to implement it.       *)
(***************************************************************************)
EXTENDS Integers

CONSTANTS
  Repo,        \* repositories
  BuildId,     \* build identities: records with fields repo and gen
  Content,     \* sealed contents: records with a field pred
  None         \* no build, no content

VARIABLES
  active,      \* [Repo -> BuildId \cup {None}]
  versions     \* [BuildId -> Content \cup {None}], the sealed versions

vars == <<active, versions>>

Init ==
  /\ active = [repo \in Repo |-> None]
  /\ versions = [id \in BuildId |-> None]

\* Seal version v under identity id and make it the active one.
Publish(id, v) ==
  /\ versions[id] = None
  /\ v.pred = active[id.repo]
  /\ active[id.repo] # None => id.gen > active[id.repo].gen
  /\ versions' = [versions EXCEPT ![id] = v]
  /\ active' = [active EXCEPT ![id.repo] = id]

Next == \E id \in BuildId, v \in Content : Publish(id, v)

Spec == Init /\ [][Next]_vars

-----------------------------------------------------------------------------
Sealed == {id \in BuildId : versions[id] # None}

TypeOK ==
  /\ active \in [Repo -> BuildId \cup {None}]
  /\ versions \in [BuildId -> Content \cup {None}]

\* The active version of a repository is sealed, belongs to it, and is the
\* newest sealed version of it.
ActiveIsNewest ==
  /\ \A repo \in Repo :
       active[repo] # None => active[repo] \in Sealed /\ active[repo].repo = repo
  /\ \A id \in Sealed :
       active[id.repo] # None /\ id.gen <= active[id.repo].gen

\* A sealed version's predecessor is a sealed version of the same repository
\* with a lower generation.
PredecessorsSealed ==
  \A id \in Sealed :
    LET pred == versions[id].pred
    IN  pred # None => pred \in Sealed /\ pred.repo = id.repo /\ pred.gen < id.gen

\* History is a line: two versions of one repository never share a
\* predecessor, the missing predecessor of the first version included.
NoFork ==
  \A a, b \in Sealed :
    a.repo = b.repo /\ versions[a].pred = versions[b].pred => a = b

\* Nothing that is not active is the end of the line: every sealed version
\* but the active one is the predecessor of a sealed version.
EverySupersededHasSuccessor ==
  \A id \in Sealed :
    id # active[id.repo] => \E next \in Sealed : versions[next].pred = id
=============================================================================
