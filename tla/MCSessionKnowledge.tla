-------------------------- MODULE MCSessionKnowledge --------------------------
EXTENDS SessionKnowledge, TLC
CONSTANTS w1, w2, o1, o2, l1, t1, t2, t3, c1, c2, g1

\* Two captures of one session: the second repeats the first's occurrence and
\* adds another, related one and a record to continue.  It also holds the body
\* of a tool the first one calls: once it is in custody, that body is part of
\* the first one's text.
Overlapping ==
  [c \in Capture |-> [S \in SUBSET Capture |->
     IF c = c1 THEN [text |-> IF c2 \in S THEN t3 ELSE t1, items |-> <<o1>>]
               ELSE [text |-> t2, items |-> <<o1, o2, l1>>]]]

\* Two captures without overlap.
Apart ==
  [c \in Capture |-> [S \in SUBSET Capture |->
     IF c = c1 THEN [text |-> t1, items |-> <<o1>>] ELSE [text |-> t2, items |-> <<o2>>]]]

AllRelated == [o \in Origin |-> Origin \ {o}]

Symmetry == Permutations(Worker)

=============================================================================
