-------------------------- MODULE MCNotifications --------------------------
(* Instances of Notifications for TLC. *)
EXTENDS Notifications, TLC

CONSTANTS c1, c2, b1, n1, n2, t1, t2

\* No preferences row at all.
NoPrefs == {}

\* Quiet in the second half of the day; the same with Telegram off; no quiet
\* hours at all but "grade" muted.
Quiet    == [telegram |-> TRUE, in_app |-> TRUE, disabled |-> {}, start |-> 1, end |-> 0]
QuietOff == [Quiet EXCEPT !.telegram = FALSE]
Muted    == [Quiet EXCEPT !.disabled = {"grade"}, !.start = 0, !.end = 0]

QuietPrefs == {Quiet}
MixedPrefs == {Quiet, QuietOff, Muted}

SlotSymmetry == Permutations({t1, t2})
IdSymmetry   == Permutations({n1, n2})
Symmetry     == SlotSymmetry \cup IdSymmetry

\* Two rows of two producers, for users on Telegram, without faults or preferences;
\* or one row of an API request, with them, whose key then plays no part.
Narrow ==
  \/ faults = 0 /\ linked = Users /\ \A u \in Users : prefs[u] = None
  \/ /\ Cardinality({n \in Ids : stage[n] # "free"}) <= 1
     /\ \A b \in BeatCallers : pc[b] = "idle"
     /\ \A n \in Ids : row[n] # None => row[n].by \in ApiCallers /\ row[n].key # NoKey

=============================================================================
