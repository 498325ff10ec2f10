---------------------------- MODULE MCPollCycle ----------------------------
\* Up to three services against few permits, connections and threads.
EXTENDS PollCycle

ThreeTargets == {1, 2, 3}

\* Nothing raises; as many connections as permits, or fewer.
Calm ==
  {[targets |-> {1, 2, 3}, healthy |-> {1}, mayRaise |-> {},
    permits |-> 2, connections |-> c, threads |-> 2, storeMayRaise |-> FALSE] : c \in {1, 2}}

\* Validations raise, so that there are strays, and so does the store.
Rough ==
  {[targets |-> ts, healthy |-> {1}, mayRaise |-> {2},
    permits |-> 2, connections |-> c, threads |-> 1, storeMayRaise |-> TRUE] :
     c \in {1, 2}, ts \in {{1, 2}, {1, 2, 3}}}

CalmAndRough == Calm \cup Rough

\* One of two services fails the validation.
OneRaises ==
  {[targets |-> {1, 2}, healthy |-> {1}, mayRaise |-> {2},
    permits |-> 1, connections |-> 1, threads |-> 1, storeMayRaise |-> FALSE]}
=============================================================================
