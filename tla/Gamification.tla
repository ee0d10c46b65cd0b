---------------------------- MODULE Gamification ----------------------------
(***************************************************************************)
(* XP, levels and streaks of students (app/services/gamification.py).      *)
(* Lessons and topics award XP inside their own transactions: Attendance   *)
(* and Syllabus share the variables of this module.  A profile is loaded,  *)
(* changed in memory and written at COMMIT, and of a loaded row only the   *)
(* columns that changed are written.                                       *)
(***************************************************************************)
EXTENDS Integers, Sequences, FiniteSets, FiniteSetsExt

CONSTANTS
  Learners,    \* students
  XP_LEVELS,   \* thresholds of the levels, the first is 0
  DayLength,   \* ticks of a day
  Nil          \* a row or a date that is not there

VARIABLES
  now,         \* the clock
  limit,       \* how many requests may be under way at once
  profile,     \* gamification_profiles
  xpLog        \* what xp_transactions add up to, and the days they fall on

xp == <<profile, xpLog>>

Today == now \div DayLength

\* A profile and the sum of a student's transactions.
Profile == [total : Nat, weekly : Nat, level : 1..Len(XP_LEVELS),
            streak : Nat, longest : Nat, last : Nat \cup {Nil}]

XpTransactions == [sum : Nat, days : SUBSET Nat]

NewProfile ==
  [total |-> 0, weekly |-> 0, level |-> 1, streak |-> 0, longest |-> 0, last |-> Nil]

\* The highest level whose threshold is reached.
CalcLevel(total) == Max({1} \cup {i \in DOMAIN XP_LEVELS : total >= XP_LEVELS[i]})

\* What the profile endpoint shows of a level.
LevelInfo(total) ==
  LET level == CalcLevel(total)
      next  == XP_LEVELS[IF level < Len(XP_LEVELS) THEN level + 1 ELSE level]
  IN  [level |-> level, current |-> XP_LEVELS[level], next |-> next,
       needed |-> Max({0, next - total})]

Shown(s) ==
  IF profile[s] = Nil THEN LevelInfo(0)
  ELSE LevelInfo(profile[s].total)

\* What an award on some day makes of the streak.
Streak(p, day) ==
  IF p.last = Nil THEN [streak |-> 1, longest |-> p.longest]
  ELSE CASE day - p.last = 1 -> [streak |-> p.streak + 1, longest |-> Max({p.longest, p.streak + 1})]
         [] day - p.last > 1 -> [streak |-> 1, longest |-> p.longest]
         [] OTHER            -> [streak |-> p.streak, longest |-> p.longest]

\* award_xp applied to the loaded profile; there is none before the first award.
Awarded(loaded, amount) ==
  LET p == IF loaded = Nil THEN NewProfile ELSE loaded
      t == p.total + amount
  IN  [total |-> t, weekly |-> p.weekly + amount, level |-> CalcLevel(t),
       streak |-> Streak(p, Today).streak, longest |-> Streak(p, Today).longest, last |-> Today]

\* The row after COMMIT: columns whose value did not change are not written.
Written(row, loaded, new) ==
  IF loaded = Nil THEN new
  ELSE [c \in DOMAIN new |-> IF new[c] = loaded[c] THEN row[c] ELSE new[c]]

\* COMMIT of the awards of one transaction: `loaded` and `new` are profiles by
\* student, Nil where nothing was awarded.  A profile that another transaction
\* has inserted meanwhile makes it fail.
SaveAwards(loaded, new, amount) ==
  /\ \A s \in Learners : new[s] # Nil /\ loaded[s] = Nil => profile[s] = Nil
  /\ profile' = [s \in Learners |->
       IF new[s] = Nil THEN profile[s] ELSE Written(profile[s], loaded[s], new[s])]
  /\ xpLog' = [s \in Learners |->
       IF new[s] = Nil THEN xpLog[s]
       ELSE [sum |-> xpLog[s].sum + amount, days |-> xpLog[s].days \cup {new[s].last}]]

\* What the leaderboard orders students by.
Score(s, period) ==
  IF profile[s] = Nil THEN 0 ELSE IF period = "weekly" THEN profile[s].weekly ELSE profile[s].total

GInit ==
  /\ now = 0
  /\ profile = [s \in Learners |-> Nil]
  /\ xpLog = [s \in Learners |-> [sum |-> 0, days |-> {}]]

-----------------------------------------------------------------------------

GTypeOK ==
  /\ \A s \in Learners : profile[s] = Nil \/ profile[s] \in Profile
  /\ \A s \in Learners : xpLog[s] \in XpTransactions

\* Awards that overlap may lose XP but never invent any: a profile never shows
\* more than the student's transactions add up to.
XpIsEarned == \A s \in Learners : Score(s, "alltime") <= xpLog[s].sum

\* The length of the run of consecutive days that ends with the last of D.
RunLength(D) == Cardinality({d \in D : d..Max(D) \subseteq D})

\* One request at a time: the total is the sum of the transactions, the level
\* belongs to it, and the streak is the run of consecutive days with an award,
\* whatever lessons and topics awarded.
ProfileIsExact ==
  limit = 1 => \A s \in Learners : profile[s] # Nil =>
    /\ profile[s].total = xpLog[s].sum
    /\ profile[s].level = LevelInfo(xpLog[s].sum).level
    /\ Shown(s).needed = 0 => profile[s].level = Len(XP_LEVELS)
    /\ profile[s].streak = RunLength(xpLog[s].days)

\* Both, with the types: what profiles show is what was earned.
XpAgrees == GTypeOK /\ XpIsEarned /\ ProfileIsExact

-----------------------------------------------------------------------------
(* What the proofs need besides *)

\* An award under way for a student: it adds to the profile it has loaded, which
\* never showed more than was earned and, with one request at a time, is still there.
AwardIsSound(s, loaded, new, amount) ==
  LET p == IF loaded = Nil THEN NewProfile ELSE loaded
  IN  /\ loaded \in Profile \cup {Nil} /\ new \in Profile
      /\ new.total = p.total + amount /\ new.last \in 0..Today
      /\ loaded # Nil => profile[s] # Nil /\ loaded.total <= xpLog[s].sum
      /\ limit = 1 =>
           /\ loaded = profile[s] /\ new.level = CalcLevel(new.total)
           /\ new.streak = Streak(p, new.last).streak /\ (p.last # Nil => p.last <= new.last)
AwardsAreSound(loaded, new, amount) ==
  \A s \in Learners : new[s] # Nil => AwardIsSound(s, loaded[s], new[s], amount)

\* One request at a time: the last day of the profile is the last of the transactions.
DaysAgree ==
  limit = 1 => \A s \in Learners :
    /\ profile[s] = Nil => xpLog[s] = [sum |-> 0, days |-> {}]
    /\ profile[s] # Nil => LET D == xpLog[s].days
                           IN  /\ IsFiniteSet(D) /\ profile[s].last \in D
                               /\ \A d \in D : d <= profile[s].last /\ d <= Today

XpInv ==
  /\ now \in Nat /\ profile = [s \in Learners |-> profile[s]] /\ xpLog = [s \in Learners |-> xpLog[s]]
  /\ XpAgrees /\ DaysAgree

=============================================================================
