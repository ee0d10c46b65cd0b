---------------------------- MODULE MCBroadcast ----------------------------
(* Instances of Broadcast for TLC. *)
EXTENDS Broadcast, TLC

CONSTANTS r1, r2, r3, u1, u2, u3

Taken == {r \in Runs : pc[r] # "unused"}

\* A job is delivered again, or it is cancelled and meets errors; executions are
\* taken in their order, the third when another one is over and for two of the users.
Narrow ==
  /\ Cardinality(Taken) <= 1 \/ (admin = "idle" /\ job.status # "cancelled" /\ errors = 0)
  /\ Taken \in {{}, {r1}, {r1, r2}, {r1, r2, r3}}
  /\ Taken = {r1, r2, r3} => /\ \E r \in Runs : pc[r] = "over"
                             /\ \A r \in Runs : u3 \notin audience[r]

\* Narrow keeps redeliveries, cancellations and errors apart, and stops no step
\* that is fair.
EitherSpec == Init /\ [][Next /\ Narrow']_vars /\ Fairness

Symmetry == Permutations({u1, u2, u3}) \cup Permutations({r1, r2, r3})

=============================================================================
