---------------------------- MODULE KnowledgeLog ----------------------------
(***************************************************************************)
(* What the session assessment worker promises, with processes, leases,    *)
(* paid attempts, budgets and crashes left out: every source occurrence    *)
(* gets at most one verdict, for good; a capture is covered once, and only *)
(* when everything one extraction of it found has been decided.            *)
(* SessionKnowledge is shown to implement it.                              *)
(***************************************************************************)
EXTENDS Sequences, Functions

CONSTANTS
  Origin,      \* source occurrences that are knowledge candidates
  Line,        \* source records whose continuation is decided
  Capture,     \* captures in custody
  Catalogs,    \* [Capture -> SUBSET SUBSET (Origin \cup Line)]: what an
               \* extraction of a capture may find
  Verdict,     \* outcomes of an assessment
  None

VARIABLES
  verdicts,    \* [Origin -> Verdict \cup {None}]
  selections,  \* the lines decided
  coverage     \* sequence of covered captures

vars == <<verdicts, selections, coverage>>

Init ==
  /\ verdicts = [o \in Origin |-> None]
  /\ selections = {}
  /\ coverage = <<>>

Decided == {o \in Origin : verdicts[o] # None} \cup selections

Assess(o, v) ==
  /\ verdicts[o] = None
  /\ verdicts' = [verdicts EXCEPT ![o] = v]
  /\ UNCHANGED <<selections, coverage>>

Select(l) ==
  /\ selections' = selections \cup {l}
  /\ UNCHANGED <<verdicts, coverage>>

Cover(c) ==
  /\ c \notin Range(coverage)
  /\ \E items \in Catalogs[c] : items \subseteq Decided
  /\ coverage' = Append(coverage, c)
  /\ UNCHANGED <<verdicts, selections>>

Next ==
  \/ \E o \in Origin, v \in Verdict : Assess(o, v)
  \/ \E l \in Line : Select(l)
  \/ \E c \in Capture : Cover(c)

Spec == Init /\ [][Next]_vars
=============================================================================
