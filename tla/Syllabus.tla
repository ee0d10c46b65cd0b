------------------------------ MODULE Syllabus ------------------------------
(***************************************************************************)
(* One syllabus (app/services/syllabus.py): topics in an order, assigned   *)
(* to groups or students, completed by a teacher for several students at   *)
(* once, with XP for each.  A topic may be completed when the active one   *)
(* at the place before it is.  A new topic comes last, or at a place of    *)
(* the teacher's choice.                                                   *)
(***************************************************************************)
EXTENDS Gamification

CONSTANTS
  Topics,
  Editors,    \* requests of teachers
  XpTopic,    \* XP of a topic
  Assignees,  \* what a syllabus is assigned to: groups and students, as sets of students
  Places,     \* places that are chosen for new and moved topics
  MaxEdits    \* how often topics are placed or moved and a syllabus is changed

VARIABLES
  topic,      \* rows of syllabus_topics: index and whether it is active
  status,     \* of the syllabus: active, archived or deleted
  assigned,   \* targets it is assigned to
  done,       \* syllabus_progress: the topics a student has completed
  paid,       \* XP transactions by student and topic
  tidy,       \* no topic was moved
  squeezed,   \* topics that were put below another
  edits,      \* counts chosen places, moves, deletions and assignments
  task,       \* where a request stands: its topic, students to go, index read
  pending,    \* students whose progress it has inserted
  before,     \* profiles it has loaded
  after       \* profiles it will write

topicRows  == <<topic, status, assigned, done, paid, tidy, squeezed, edits>>
open  == <<task, pending, before, after>>
svars == <<topicRows, open>>

NoTask  == [at |-> "idle", topic |-> Nil, todo |-> {}, student |-> Nil, index |-> 0]
Nobody  == [s \in Learners |-> Nil]
Kept    == {t \in Topics : topic[t] # Nil}
Active  == {t \in Kept : topic[t].active}
At(t)   == topic[t].index
MaxIndex == IF Kept = {} THEN 0 ELSE Max({At(t) : t \in Kept})

SInit ==
  /\ topic = [t \in Topics |-> Nil]
  /\ status = "active" /\ assigned = {}
  /\ done = [s \in Learners |-> {}]
  /\ paid = [s \in Learners |-> [t \in Topics |-> 0]]
  /\ tidy = TRUE /\ squeezed = {} /\ edits = 0
  /\ task = [e \in Editors |-> NoTask]
  /\ pending = [e \in Editors |-> {}]
  /\ before = [e \in Editors |-> Nobody]
  /\ after = [e \in Editors |-> Nobody]

Unasked(e) == task[e].at = "idle" /\ status # "deleted"
\* An administrative change.
Edit(e) == Unasked(e) /\ edits < MaxEdits /\ edits' = edits + 1

Underway(e) == task[e].at \notin {"idle", "over"}
Room    == Cardinality({e \in Editors : Underway(e)}) < limit

\* A topic is inserted at a place.
NewTopic(t, i) ==
  /\ topic[t] = Nil
  /\ topic' = [topic EXCEPT ![t] = [index |-> i, active |-> TRUE]]
  /\ squeezed' = IF \E u \in Kept : At(u) > i THEN squeezed \cup {t} ELSE squeezed

\* add_topic without a place reads the highest index, of inactive topics too ...
ReadMaxIndex(e) ==
  /\ Unasked(e) /\ Room
  /\ task' = [task EXCEPT ![e] = [NoTask EXCEPT !.at = "add", !.index = MaxIndex + 1]]
  /\ UNCHANGED <<now, limit, xp, topicRows, pending, before, after>>

\* ... and inserts the topic one after it.
AddTopic(e, t) ==
  /\ task[e].at = "add" /\ status # "deleted"
  /\ NewTopic(t, task[e].index)
  /\ task' = [task EXCEPT ![e] = NoTask]
  /\ UNCHANGED <<now, limit, xp, status, assigned, done, paid, tidy, edits, pending, before, after>>

\* add_topic at a place reads nothing: the place may be taken, or leave a gap.
AddTopicAt(e, t, i) ==
  /\ Edit(e) /\ NewTopic(t, i)
  /\ UNCHANGED <<now, limit, xp, status, assigned, done, paid, tidy, open>>

\* update_topic with an index, delete_topic and reorder_topics.
MoveTopic(e, t, i) ==
  /\ Edit(e) /\ t \in Kept
  /\ topic' = [topic EXCEPT ![t].index = i]
  /\ tidy' = FALSE
  /\ UNCHANGED <<now, limit, xp, status, assigned, done, paid, squeezed, open>>

DeleteTopic(e, t) ==
  /\ Edit(e) /\ t \in Active
  /\ topic' = [topic EXCEPT ![t].active = FALSE]
  /\ UNCHANGED <<now, limit, xp, status, assigned, done, paid, tidy, squeezed, open>>

ReorderTopics(e, order) ==
  /\ Edit(e) /\ \A i \in DOMAIN order : order[i] \in Kept
  /\ topic' = [t \in Topics |-> IF \E i \in DOMAIN order : order[i] = t
                                THEN [topic[t] EXCEPT !.index = (CHOOSE i \in DOMAIN order : order[i] = t) - 1]
                                ELSE topic[t]]
  /\ tidy' = FALSE
  /\ UNCHANGED <<now, limit, xp, status, assigned, done, paid, squeezed, open>>

\* update_syllabus archives it or takes it back.
UpdateSyllabus(e, s) ==
  /\ Edit(e) /\ status # s
  /\ status' = s
  /\ UNCHANGED <<now, limit, xp, topic, assigned, done, paid, tidy, squeezed, open>>

\* Deleting it deletes its topics, assignments and progress; rows that are
\* being inserted hold it back.
DeleteSyllabus(e) ==
  /\ Edit(e) /\ \A o \in Editors : pending[o] = {}
  /\ status' = "deleted" /\ assigned' = {}
  /\ topic' = [t \in Topics |-> Nil]
  /\ done' = [s \in Learners |-> {}]
  /\ UNCHANGED <<now, limit, xp, paid, tidy, squeezed, open>>

Assign(e, g) ==
  /\ Edit(e) /\ g \notin assigned
  /\ assigned' = assigned \cup {g}
  /\ UNCHANGED <<now, limit, xp, topic, status, done, paid, tidy, squeezed, open>>

Unassign(e, g) ==
  /\ Edit(e) /\ g \in assigned
  /\ assigned' = assigned \ {g}
  /\ UNCHANGED <<now, limit, xp, topic, status, done, paid, tidy, squeezed, open>>

\* POST /teacher/topics/{id}/complete for some students.
BulkComplete(e, t, S) ==
  /\ Unasked(e) /\ Room /\ t \in Kept
  /\ task' = [task EXCEPT ![e] = [NoTask EXCEPT !.at = "next", !.topic = t, !.todo = S]]
  /\ UNCHANGED <<now, limit, xp, topicRows, pending, before, after>>

Previous(t) == {p \in Active : At(p) = At(t) - 1}

Completable_Anyone(s, t) == At(t) > 0 => Previous(t) \subseteq UNION {done[o] : o \in Learners}

\* The sequence check of complete_topic for the progress a student has.
Completable(s, t) == At(t) > 0 => Previous(t) \subseteq done[s]

\* The next student: nothing to do when the topic is completed or blocked.  Two
\* previous topics make the request fail.
CheckTopic(e, s) ==
  LET t == task[e].topic
  IN  /\ task[e].at = "next" /\ s \in task[e].todo /\ t \in Kept
      /\ t \notin done[s] /\ At(t) > 0 => Cardinality(Previous(t)) <= 1
      /\ task' = [task EXCEPT ![e].todo = @ \ {s}, ![e].student = s,
                              ![e].at = IF t \notin done[s] /\ Completable(s, t)
                                        THEN "insert" ELSE "next"]
      /\ UNCHANGED <<now, limit, xp, topicRows, pending, before, after>>

CompleteTopic_NoUnique(e) ==
  LET s == task[e].student
      t == task[e].topic
  IN  /\ task[e].at = "insert" /\ t \in Kept
      /\ pending' = [pending EXCEPT ![e] = @ \cup {s}]
      /\ before' = [before EXCEPT ![e][s] = profile[s]]
      /\ after' = [after EXCEPT ![e][s] = Awarded(profile[s], XpTopic)]
      /\ task' = [task EXCEPT ![e].at = "next"]
      /\ UNCHANGED <<now, limit, xp, topicRows>>

\* INSERT of the progress, flushed (UNIQUE(student_id, topic_id)), and the award.
\* When the award fails the session is unusable and the COMMIT fails too.
CompleteTopic(e) ==
  LET s == task[e].student
      t == task[e].topic
  IN  /\ task[e].at = "insert" /\ t \in Kept /\ t \notin done[s]
      /\ \A o \in Editors \ {e} : task[o].topic = t => s \notin pending[o]
      /\ pending' = [pending EXCEPT ![e] = @ \cup {s}]
      /\ before' = [before EXCEPT ![e][s] = profile[s]]
      /\ after' = [after EXCEPT ![e][s] = Awarded(profile[s], XpTopic)]
      /\ task' = [task EXCEPT ![e].at = "next"]
      /\ UNCHANGED <<now, limit, xp, topicRows>>

Leave(e) ==
  /\ task' = [task EXCEPT ![e] = [NoTask EXCEPT !.at = "over"]]
  /\ pending' = [pending EXCEPT ![e] = {}]
  /\ before' = [before EXCEPT ![e] = Nobody]
  /\ after' = [after EXCEPT ![e] = Nobody]

CommitTopics(e) ==
  LET t == task[e].topic
  IN  /\ task[e].at = "next" /\ task[e].todo = {}
      /\ done' = [s \in Learners |-> IF s \in pending[e] THEN done[s] \cup {t} ELSE done[s]]
      /\ paid' = [s \in Learners |-> IF s \in pending[e] THEN [paid[s] EXCEPT ![t] = @ + 1]
                                     ELSE paid[s]]
      /\ SaveAwards(before[e], after[e], XpTopic)
      /\ Leave(e)
      /\ UNCHANGED <<now, limit, topic, status, assigned, tidy, squeezed, edits>>

\* An error or a crash before the COMMIT.
AbortTopics(e) ==
  /\ task[e].at \in {"add", "next", "insert"}
  /\ Leave(e)
  /\ UNCHANGED <<now, limit, xp, topicRows>>

SNext == \E e \in Editors :
  \/ ReadMaxIndex(e) \/ DeleteSyllabus(e)
  \/ \E t \in Topics : AddTopic(e, t) \/ DeleteTopic(e, t)
  \/ \E t \in Topics, i \in Places : AddTopicAt(e, t, i) \/ MoveTopic(e, t, i)
  \/ \E a, b \in Topics : ReorderTopics(e, <<a, b>>)
  \/ \E s \in {"active", "archived"} : UpdateSyllabus(e, s)
  \/ \E g \in Assignees : Assign(e, g) \/ Unassign(e, g)
  \/ \E t \in Topics, S \in Assignees : BulkComplete(e, t, S)
  \/ \E s \in Learners : CheckTopic(e, s)
  \/ CompleteTopic(e) \/ CommitTopics(e) \/ AbortTopics(e)

-----------------------------------------------------------------------------
(* What a student sees *)

\* get_leaderboard: XP beside the number of topics, of inactive ones too.
Board(s, period) == [xp |-> Score(s, period), topics |-> Cardinality(done[s])]

STypeOK ==
  /\ \A t \in Kept : At(t) \in Int /\ topic[t].active \in BOOLEAN
  /\ status \in {"active", "archived", "deleted"} /\ assigned \subseteq Assignees
  /\ \A s \in Learners : done[s] \subseteq Kept /\ paid[s] \in [Topics -> Nat]

\* However completions overlap, repeat and fail: a completed topic was paid once,
\* and no topic was paid twice.
TopicIsPaidOnce ==
  \A s \in Learners, t \in Topics :
    /\ paid[s][t] <= 1
    /\ t \in done[s] => paid[s][t] = 1

\* What the sequence check owes a student and a topic: the one at the place before
\* is completed, unless it was put there when the topic was there already.
Led(s, t) == At(t) > 0 => Previous(t) \ squeezed \subseteq done[s]

\* However completions overlap with added and deleted topics, and until one is moved:
\* a student was led to everything he has completed.  A gap before a chosen place
\* leads nowhere.
CompletedInOrder == tidy => \A s \in Learners : \A t \in done[s] : Led(s, t)

\* One request at a time: the board never shows more topics than its XP can
\* account for, whatever was deleted or moved.
BoardIsCovered ==
  limit = 1 => \A s \in Learners :
    Board(s, "alltime").xp >= XpTopic * Board(s, "alltime").topics

\* Both, with the types: students are led from topic to topic, and paid for it.
TopicsAgree == STypeOK /\ CompletedInOrder /\ BoardIsCovered

-----------------------------------------------------------------------------
(* What the proofs need besides *)

InOrder == tidy /\ status # "deleted"

TopicsAreSound == topic \in [Topics -> [index : Int, active : BOOLEAN] \cup {Nil}]

\* Those for whom a request completes its topic: it is there, they are led to it, and
\* there is an award for each.
Coming(e) == pending[e] \cup IF task[e].at = "insert" THEN {task[e].student} ELSE {}
TaskIsSound(e) ==
  LET t == task[e].topic
  IN  /\ task[e].at = "add" => task[e].index \in Int
      /\ Coming(e) # {} /\ status # "deleted" => t \in Kept
      /\ InOrder => \A s \in Coming(e) : Led(s, t)
      /\ \A s \in Learners : after[e][s] # Nil <=> s \in pending[e]
      /\ AwardsAreSound(before[e], after[e], XpTopic)

AwardsAreKept ==
  /\ before = [e \in Editors |-> [s \in Learners |-> before[e][s]]]
  /\ after = [e \in Editors |-> [s \in Learners |-> after[e][s]]]

OneTask == limit = 1 => \A e, o \in Editors : Underway(e) /\ Underway(o) => e = o

\* The transactions of a student cover the topics he has completed.
SumsCoverTopics == \A s \in Learners : XpTopic * Cardinality(done[s]) <= xpLog[s].sum

TInv ==
  /\ STypeOK /\ TopicsAreSound /\ (\A e \in Editors : TaskIsSound(e)) /\ AwardsAreKept
  /\ OneTask /\ SumsCoverTopics /\ CompletedInOrder

=============================================================================
