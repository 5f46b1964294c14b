----------------------------- MODULE MCPeerSync -----------------------------
EXTENDS PeerSync, TLC
CONSTANTS d1, d2, s1, c1, c2

\* Every exchange is started by d1 and served by d2.
FromFirst == [s \in Session |-> d1]
ToSecond == [s \in Session |-> d2]

\* d2 publishes and d1 reconciles; or both reconcile; or both do both.
OneReconciler == [d \in Device |-> IF d = d1 THEN {"reconcile"} ELSE {"publish"}]
BothDevices == [d \in Device |-> {"publish", "reconcile"}]
TwoReconcilers == [d \in Device |-> {"reconcile"}]

AllPairs == [c \in Content |-> Pair]

\* A dispute: both devices published nothing but c1, asked the same question and
\* got different answers, and have not met since; d1 has published c2 as well.
JobOf(prior) == [pair |-> 1, version |-> {c1}, prior |-> prior]
Attempt(d) == [kind |-> "reservation", device |-> d, parents |-> {1}, past |-> {1},
               job |-> JobOf({}), epoch |-> "e", retry |-> FALSE]
Receipt(d, r, a) == [kind |-> "resolution", device |-> d, parents |-> {1, r}, past |-> {1, r},
                     job |-> JobOf({}), action |-> a]
DisputeLedger ==
  << [kind |-> "publication", device |-> d1, parents |-> {}, past |-> {}, content |-> c1],
     Attempt(d1), Attempt(d2), Receipt(d1, 2, "duplicate"), Receipt(d2, 3, "distinct"),
     [kind |-> "publication", device |-> d1, parents |-> {4}, past |-> {1, 2, 4},
      content |-> c2] >>

DisputeInit ==
  /\ signed = DisputeLedger
  /\ store = [d \in Device |-> IF d = d1 THEN {1, 2, 4, 6} ELSE {1, 3, 5}]
  /\ view = [d \in Device |-> {store[d]}]
  /\ spent = [d \in Device |-> [k \in Epoch |-> 1]]
  /\ proc = [p \in Process |-> Idle]
  /\ task = [d \in Device |-> NoTask]
  /\ known = [s \in Session |-> {}]
  /\ wire = [s \in Session |-> Closed]
  /\ faults = 0

DisputeSpec == DisputeInit /\ [][Next]_vars
=============================================================================
